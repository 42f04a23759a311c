--------------------------- MODULE ConfigControl ---------------------------
(***************************************************************************)
(* The control plane: internal/app (Plan, Apply, Reset, the idempotency    *)
(* cache), internal/snapshot.Store, internal/compiler, and beginSession of *)
(* internal/proxy, which pins what the control plane changes.              *)
(*                                                                         *)
(* Mutations hold App.mu from beginning to end, but proxy sessions load    *)
(* the active snapshot, read the inbox epoch and insert flows without it.  *)
(* So a mutation is one action per step that a session can see, and mu is  *)
(* the operator that holds the mutex.                                      *)
(*                                                                         *)
(* A specification is reduced to the three parts the control plane treats  *)
(* differently: the inbox caps (live, also installed in the store), the    *)
(* TLS part (live, decides whether the CA is minted anew), and the part    *)
(* only Reset may change (listener addresses).  The inbox is reduced to    *)
(* the list of its flows, each flow to the generation it was captured      *)
(* under and the epoch in which its session began; FlowStore has the rest. *)
(***************************************************************************)
EXTENDS Naturals, SequencesExt

CONSTANTS
    Operators,  \* concurrent callers of the control service
    Sessions,   \* proxy goroutines, one exchange after the other
    Keys,       \* idempotency keys
    CapSet,     \* [max : maxFlows, evict : fullPolicy is evict_oldest]
    TLSs, Nets, \* TLS parts, Reset-only parts
    Changes,    \* operation lists, see ChangeRecords
    Files,      \* documents the bootstrap file may hold
    None,       \* absent key, absent operation, free mutex
    IdempMax,   \* idempotencyMax
    MaxGen,     \* bound: generation after which nobody mutates
    MaxExchange \* bound: exchanges

Specs == [caps : CapSet, tls : TLSs, net : Nets]

(* The effect of an operation list: replaceStoreCaps, replaceTLS, or None  *)
(* of them (rules, admission, targets, features).                          *)
ChangeRecords == [caps : CapSet \cup {None}, tls : TLSs \cup {None}]

ASSUME ControlAssumption ==
    /\ CapSet \subseteq [max : Nat, evict : BOOLEAN]
    /\ Changes \subseteq ChangeRecords
    /\ Files \subseteq Specs /\ Files # {}
    /\ None \notin Operators \cup Keys \cup CapSet \cup TLSs \cup Specs
    /\ IdempMax \in Nat \ {0} /\ MaxGen \in Nat /\ MaxExchange \in Nat

VARIABLES
    mu,         \* holder of App.mu, or None
    pc,         \* step of each operator's mutation
    req,        \* the request of a mutation in progress
    cand,       \* its compiled candidate
    seen,       \* what was in force when it took the mutex
    answer,     \* what an operator's last Apply or Reset returned
    active, previous, bootstrap,  \* snapshot.Store
    idemp,      \* idempCache, most recently used first
    bound,      \* the Reset-only part the process runs with
    caps, epoch, flows,           \* the inbox
    spc, snap, pin,               \* each session: step, generation of the
                                  \* snapshot it pinned, epoch it pinned
    began,      \* the epoch in which the session began
    exchanges,  \* how many exchanges have begun
    log         \* committed changes (audit ring), oldest first

ctlVars   == <<mu, pc, req, cand, seen, answer>>
snapVars  == <<active, previous, bootstrap>>
inboxVars == <<caps, epoch, flows>>
sessVars  == <<spc, snap, pin, began, exchanges>>
vars == <<ctlVars, snapVars, idemp, bound, inboxVars, sessVars, log>>

-----------------------------------------------------------------------------
(* Snapshots and the compiler                                              *)

Snapshots == [spec : Specs, boot : Specs, gen : Nat,
              ca : [tls : TLSs, born : Nat]]

(* config.Revision hashes the canonical document: equal exactly for equal  *)
(* documents, so the document stands for its revision.                     *)
Revision(s) == s.spec

MintCA(tls, gen) == [tls |-> tls, born |-> gen]

(* Mutant of compileCA: any previous CA is good enough.                    *)
compileCAReuse(tls, prev) == prev.ca

(* Live candidates keep the CA when the TLS part is unchanged.             *)
compileCA(tls, prev) ==
    IF prev.spec.tls = tls THEN prev.ca ELSE MintCA(tls, prev.gen + 1)

applyOperations(spec, change) ==
    [spec EXCEPT !.caps = IF change.caps = None THEN @ ELSE change.caps,
                 !.tls  = IF change.tls = None THEN @ ELSE change.tls]

(* compileCandidate for Plan and Apply.                                    *)
compileCandidate(change, prev) ==
    LET spec == applyOperations(prev.spec, change) IN
    [spec |-> spec, boot |-> prev.boot, gen |-> prev.gen + 1,
     ca |-> compileCA(spec.tls, prev)]

(* loadBootstrapCandidate: no Previous, RotateCA.                          *)
bootstrapCandidate(doc, gen) ==
    [spec |-> doc, boot |-> doc, gen |-> gen, ca |-> MintCA(doc.tls, gen)]

-----------------------------------------------------------------------------
(* Idempotency cache                                                       *)

Entries == [key : Keys, change : Changes, planned : BOOLEAN, applied : Nat]

forKey(key) == {e \in Range(idemp) : e.key = key}

(* Mutant of conflicts: the fingerprint is not compared.                   *)
conflictsNever(r) == FALSE

(* lookup fails: the key was used for another request.                     *)
conflicts(r) == \E e \in forKey(r.key) : e.change # r.change

(* Where the entry of a key is linked.                                     *)
places(c, key) == {i \in DOMAIN c : c[i].key = key}
place(c, key) == CHOOSE i \in places(c, key) : TRUE

without(c, key) ==
    IF places(c, key) = {} THEN c ELSE RemoveAt(c, place(c, key))

(* lookup succeeds and moves a hit to the front.                           *)
lookup(r) ==
    IF places(idemp, r.key) = {} THEN idemp
    ELSE <<idemp[place(idemp, r.key)]>> \o without(idemp, r.key)

(* insertFrontLocked, trimming the tail.                                   *)
insertFront(c, e) ==
    LET all == <<e>> \o without(c, e.key)
    IN  IF Len(all) > IdempMax THEN SubSeq(all, 1, IdempMax) ELSE all

(* The entry storePlan and storeApply update, or the one they insert.      *)
entryFor(c, r) ==
    LET same == {e \in Range(c) : e.key = r.key /\ e.change = r.change} IN
    IF same # {} THEN CHOOSE e \in same : TRUE
    ELSE [key |-> r.key, change |-> r.change, planned |-> FALSE, applied |-> 0]

storePlan(c, r) ==
    IF r.key = None THEN c
    ELSE insertFront(c, [entryFor(c, r) EXCEPT !.planned = TRUE])

storeApply(c, r, gen) ==
    IF r.key = None THEN c
    ELSE insertFront(c, [entryFor(c, r) EXCEPT !.applied = gen])

-----------------------------------------------------------------------------
Requests == [key : Keys \cup {None}, change : Changes, exp : Specs,
             force : BOOLEAN]

(* Requests expect a revision their author can have read; force is looked  *)
(* at for replaceStoreCaps only.                                           *)
Callable ==
    {r \in [key : Keys \cup {None}, change : Changes, force : BOOLEAN,
            exp : {Revision(active), Revision(bootstrap)}] :
       r.force => r.change.caps # None}

Steps == {"idle", "stats", "caps", "swap",            \* Apply
          "wipe", "resetswap", "commit"}              \* Reset

Failed == [ok |-> FALSE, change |-> None, gen |-> 0]
Applied(change, gen) == [ok |-> TRUE, change |-> change, gen |-> gen]

InForce == [active |-> active, caps |-> caps, epoch |-> epoch,
            bound |-> bound]

TypeOK ==
    /\ mu \in Operators \cup {None}
    /\ pc \in [Operators -> Steps]
    /\ DOMAIN req = Operators /\ DOMAIN cand = Operators
    /\ \A o \in Operators :
         /\ pc[o] # "idle" => cand[o] \in Snapshots
         /\ pc[o] \in {"stats", "caps", "swap"} => req[o] \in Requests
    /\ active \in Snapshots /\ bootstrap \in Snapshots
    /\ previous \in Snapshots \cup {None}
    /\ idemp \in Seq(Entries) /\ Len(idemp) <= IdempMax
    /\ \A i, j \in DOMAIN idemp : idemp[i].key = idemp[j].key => i = j
    /\ bound \in Nets
    /\ caps \in CapSet /\ epoch \in Nat
    /\ flows \in Seq([gen : Nat, began : Nat])
    /\ spc \in [Sessions -> {"idle", "loaded", "open"}]
    /\ snap \in [Sessions -> Nat] /\ pin \in [Sessions -> Nat]
    /\ began \in [Sessions -> Nat] /\ exchanges \in 0..MaxExchange

(* Boot.                                                                   *)
Init ==
    /\ mu = None
    /\ pc = [o \in Operators |-> "idle"]
    /\ req = [o \in Operators |-> None] /\ cand = [o \in Operators |-> None]
    /\ seen = [o \in Operators |-> None]
    /\ answer = [o \in Operators |-> Failed]
    /\ \E doc \in Files : active = bootstrapCandidate(doc, 0)
    /\ bootstrap = active /\ previous = None
    /\ idemp = <<>>
    /\ bound = active.spec.net
    /\ caps = active.spec.caps /\ epoch = 1 /\ flows = <<>>
    /\ spc = [s \in Sessions |-> "idle"]
    /\ snap = [s \in Sessions |-> 0]
    /\ pin = [s \in Sessions |-> 0] /\ began = [s \in Sessions |-> 0]
    /\ exchanges = 0
    /\ log = <<>>

-----------------------------------------------------------------------------
(* Plan: one step, because it changes nothing but the cache                *)

canCall(o) == pc[o] = "idle" /\ mu = None

(* Mutant of Stale: the revision is not compared.                          *)
StaleNever(r) == FALSE

Stale(r) == r.exp # Revision(active)
planned(r) == \E e \in forKey(r.key) : e.planned
applied(r) == {e \in forKey(r.key) : e.applied # 0}

(* checkStoreCaps's refusal: too many flows for the new caps, and neither  *)
(* the policy nor the caller allows evicting them.                         *)
refuses(c, r) == Len(flows) > c.max /\ ~c.evict /\ ~r.force

(* Answered from the cache, stale (which forgets the key), invalid or      *)
(* refused by the caps, or planned and remembered.                         *)
PlanCall(o, r) ==
    /\ canCall(o) /\ ~conflicts(r)
    /\ \/ planned(r) /\ idemp' = lookup(r)
       \/ ~planned(r) /\ Stale(r) /\ idemp' = without(lookup(r), r.key)
       \/ ~planned(r) /\ ~Stale(r) /\ idemp' = lookup(r)
       \/ /\ ~planned(r) /\ ~Stale(r)
          /\ r.change.caps # None => ~refuses(r.change.caps, r)
          /\ idemp' = storePlan(lookup(r), r)
    /\ UNCHANGED <<ctlVars, snapVars, bound, inboxVars, sessVars, log>>

-----------------------------------------------------------------------------
(* Apply                                                                   *)

Finish(o, a) ==
    /\ mu' = None
    /\ pc' = [pc EXCEPT ![o] = "idle"]
    /\ answer' = [answer EXCEPT ![o] = a]
    /\ req' = [req EXCEPT ![o] = None]
    /\ cand' = [cand EXCEPT ![o] = None]
    /\ seen' = [seen EXCEPT ![o] = None]

(* Cache hit: the first answer again, and no commit.                       *)
ApplyReplay(o, r) ==
    /\ canCall(o) /\ ~conflicts(r)
    /\ \E e \in applied(r) :
         answer' = [answer EXCEPT ![o] = Applied(r.change, e.applied)]
    /\ idemp' = lookup(r)
    /\ UNCHANGED <<mu, pc, req, cand, seen, snapVars, bound, inboxVars,
                   sessVars, log>>

(* Refused before anything was built: the key clashes, the revision is not *)
(* the expected one (which forgets the key), or the candidate is invalid.  *)
ApplyRefused(o, r) ==
    /\ canCall(o)
    /\ \/ conflicts(r) /\ UNCHANGED idemp
       \/ /\ ~conflicts(r) /\ applied(r) = {}
          /\ idemp' = IF Stale(r) THEN without(lookup(r), r.key)
                      ELSE lookup(r)
    /\ answer' = [answer EXCEPT ![o] = Failed]
    /\ UNCHANGED <<mu, pc, req, cand, seen, snapVars, bound, inboxVars,
                   sessVars, log>>

Begin(o, c, step) ==
    /\ mu' = o
    /\ pc' = [pc EXCEPT ![o] = step]
    /\ cand' = [cand EXCEPT ![o] = c]
    /\ seen' = [seen EXCEPT ![o] = InForce]

(* Mutant of ApplyBegin: a cached answer is not used.                      *)
ApplyBeginAgain(o, r) ==
    /\ canCall(o) /\ active.gen < MaxGen
    /\ ~conflicts(r) /\ ~Stale(r)
    /\ Begin(o, compileCandidate(r.change, active),
             IF r.change.caps = None THEN "swap" ELSE "stats")
    /\ req' = [req EXCEPT ![o] = r]
    /\ idemp' = lookup(r)
    /\ UNCHANGED <<answer, snapVars, bound, inboxVars, sessVars, log>>

(* buildCandidate succeeds.                                                *)
ApplyBegin(o, r) ==
    /\ canCall(o) /\ active.gen < MaxGen
    /\ ~conflicts(r) /\ applied(r) = {} /\ ~Stale(r)
    /\ Begin(o, compileCandidate(r.change, active),
             IF r.change.caps = None THEN "swap" ELSE "stats")
    /\ req' = [req EXCEPT ![o] = r]
    /\ idemp' = lookup(r)
    /\ UNCHANGED <<answer, snapVars, bound, inboxVars, sessVars, log>>

(* checkStoreCaps reads the inbox statistics ...                           *)
ApplyStats(o) ==
    /\ pc[o] = "stats"
    /\ IF refuses(req[o].change.caps, req[o])
         THEN Finish(o, Failed)
         ELSE /\ pc' = [pc EXCEPT ![o] = "caps"]
              /\ UNCHANGED <<mu, answer, req, cand, seen>>
    /\ UNCHANGED <<snapVars, idemp, bound, inboxVars,
                   sessVars, log>>

newest(s, n) == IF Len(s) > n THEN SubSeq(s, Len(s) - n + 1, Len(s)) ELSE s

(* ... and then calls ReplaceCaps, which looks again and may still refuse. *)
ApplyCaps(o) ==
    /\ pc[o] = "caps"
    /\ IF refuses(req[o].change.caps, req[o])
         THEN Finish(o, Failed) /\ UNCHANGED <<caps, flows>>
         ELSE /\ caps' = req[o].change.caps
              /\ flows' = newest(flows, caps'.max)
              /\ pc' = [pc EXCEPT ![o] = "swap"]
              /\ UNCHANGED <<mu, answer, req, cand, seen>>
    /\ UNCHANGED <<snapVars, idemp, bound, epoch, sessVars, log>>

(* snapshot.Store.Swap.                                                    *)
Swap(next) == active' = next /\ previous' = active

(* Swap, audit, storeApply, unlock.                                        *)
ApplySwap(o) ==
    /\ pc[o] = "swap"
    /\ Swap(cand[o])
    /\ idemp' = storeApply(idemp, req[o], cand[o].gen)
    /\ log' = Append(log, [key |-> req[o].key, change |-> req[o].change,
                           gen |-> cand[o].gen])
    /\ Finish(o, Applied(req[o].change, cand[o].gen))
    /\ UNCHANGED <<bootstrap, bound, inboxVars, sessVars>>

-----------------------------------------------------------------------------
(* Reset                                                                   *)

(* The file is missing or invalid, or a listener cannot be staged.         *)
ResetRefused(o) ==
    /\ canCall(o)
    /\ answer' = [answer EXCEPT ![o] = Failed]
    /\ UNCHANGED <<mu, pc, req, cand, seen, snapVars, idemp, bound, inboxVars,
                   sessVars, log>>

(* loadBootstrapCandidate reads whatever document the file holds by now,   *)
(* and resetRuntime stages what it needs.                                  *)
ResetBegin(o, doc) ==
    /\ canCall(o) /\ active.gen < MaxGen
    /\ Begin(o, bootstrapCandidate(doc, active.gen + 1), "wipe")
    /\ UNCHANGED <<req, answer, snapVars, idemp, bound, inboxVars,
                   sessVars, log>>

WipeInbox(c) == caps' = c /\ flows' = <<>> /\ epoch' = epoch + 1

(* Mutant of ResetCheck: wipes before it checks.                           *)
ResetCheckLate(o) ==
    /\ pc[o] = "wipe"
    /\ Finish(o, Failed)
    /\ WipeInbox(cand[o].spec.caps)
    /\ UNCHANGED <<snapVars, idemp, bound, sessVars, log>>

(* CheckOptions fails (spill directory): rollback.                         *)
ResetCheck(o) ==
    /\ pc[o] = "wipe"
    /\ Finish(o, Failed)
    /\ UNCHANGED <<snapVars, idemp, bound, inboxVars, sessVars, log>>

(* store.ResetTo.                                                          *)
ResetWipe(o) ==
    /\ pc[o] = "wipe"
    /\ WipeInbox(cand[o].spec.caps)
    /\ pc' = [pc EXCEPT ![o] = "resetswap"]
    /\ UNCHANGED <<mu, req, cand, seen, answer, snapVars, idemp, bound,
                   sessVars, log>>

ResetSwap(o) ==
    /\ pc[o] = "resetswap"
    /\ Swap(cand[o])
    /\ pc' = [pc EXCEPT ![o] = "commit"]
    /\ UNCHANGED <<mu, req, cand, seen, answer, bootstrap, idemp, bound,
                   inboxVars, sessVars, log>>

(* SetBootstrap, commit of the runtime, idempotency clear, audit, unlock.  *)
ResetCommit(o) ==
    /\ pc[o] = "commit"
    /\ bootstrap' = cand[o]
    /\ bound' = cand[o].spec.net
    /\ idemp' = <<>>
    /\ log' = Append(log, [key |-> None, change |-> None, gen |-> cand[o].gen])
    /\ Finish(o, Applied(None, cand[o].gen))
    /\ UNCHANGED <<active, previous, inboxVars, sessVars>>

-----------------------------------------------------------------------------
(* Proxy sessions                                                          *)

(* beginSession: snaps.Load() ...                                          *)
beginSession(s) ==
    /\ spc[s] = "idle" /\ exchanges < MaxExchange
    /\ exchanges' = exchanges + 1
    /\ snap' = [snap EXCEPT ![s] = active.gen]
    /\ began' = [began EXCEPT ![s] = epoch]
    /\ spc' = [spc EXCEPT ![s] = "loaded"]
    /\ UNCHANGED <<ctlVars, snapVars, idemp, bound, inboxVars, pin, log>>

(* ... and then liveEpoch().                                               *)
liveEpoch(s) ==
    /\ spc[s] = "loaded"
    /\ pin' = [pin EXCEPT ![s] = epoch]
    /\ spc' = [spc EXCEPT ![s] = "open"]
    /\ UNCHANGED <<ctlVars, snapVars, idemp, bound, inboxVars, snap, began,
                   exchanges, log>>

(* The exchange ends and is captured, unless its epoch is over or the      *)
(* inbox is full and rejects.                                              *)
InsertFlow(s) ==
    /\ spc[s] = "open"
    /\ spc' = [spc EXCEPT ![s] = "idle"]
    /\ flows' = IF pin[s] # epoch \/ (Len(flows) >= caps.max /\ ~caps.evict)
                THEN flows
                ELSE newest(Append(flows, [gen |-> snap[s],
                                           began |-> began[s]]), caps.max)
    /\ UNCHANGED <<ctlVars, snapVars, idemp, bound, caps, epoch, snap, pin,
                   began, exchanges, log>>

-----------------------------------------------------------------------------
ControlStep(o) ==
    \/ \E r \in Callable :
         \/ PlanCall(o, r) \/ ApplyReplay(o, r) \/ ApplyRefused(o, r)
         \/ ApplyBegin(o, r)
    \/ ApplyStats(o) \/ ApplyCaps(o) \/ ApplySwap(o)
    \/ ResetRefused(o) \/ (\E doc \in Files : ResetBegin(o, doc))
    \/ ResetCheck(o) \/ ResetWipe(o)
    \/ ResetSwap(o) \/ ResetCommit(o)

SessionStep(s) == beginSession(s) \/ liveEpoch(s) \/ InsertFlow(s)

Next ==
    \/ \E o \in Operators : ControlStep(o)
    \/ \E s \in Sessions : SessionStep(s)

Spec == Init /\ [][Next]_vars

-----------------------------------------------------------------------------
(* Properties                                                              *)

(* Whenever no mutation is under way the process runs with what its active *)
(* snapshot says: the store has the snapshot's caps, the listeners are the *)
(* snapshot's (checkStoreCaps, ResetTo and commit around Swap), and drift  *)
(* is measured against the bootstrap last loaded.  The CA in use was       *)
(* minted for the TLS part in use, through any number of live changes and  *)
(* Resets.                                                                 *)
RuntimeMatchesConfig ==
    /\ active.ca.tls = active.spec.tls
    /\ mu = None => /\ caps = active.spec.caps
                    /\ bound = active.spec.net
                    /\ active.boot = Revision(bootstrap)

(* No update is lost: a snapshot only ever replaces the one it was built   *)
(* from, under the revision its author expected, and becomes the next      *)
(* generation; the displaced one is what Previous shows.                   *)
NoLostUpdate ==
    [][active' # active =>
         /\ active'.gen = active.gen + 1
         /\ previous' = active
         /\ \A o \in Operators :
              (pc[o] = "swap" /\ pc'[o] = "idle") =>
                 req[o].exp = Revision(active)]_vars

(* A refused or failed mutation leaves configuration, caps, epoch and      *)
(* listeners as they were when it began (docs/06: failures leave config    *)
(* and flows unchanged), wherever in its steps it failed.                  *)
FailedChangeIsPure ==
    [][\A o \in Operators :
         mu = o /\ mu' = None /\ ~answer'[o].ok =>
           /\ active' = seen[o].active /\ caps' = seen[o].caps
           /\ epoch' = seen[o].epoch /\ bound' = seen[o].bound]_vars

(* Two Applies with one key, however they interleave, commit once as long  *)
(* as the cache remembers the first.                                       *)
SameKeySwapsOnce ==
    [][\A o \in Operators :
         pc[o] = "swap" /\ pc'[o] = "idle" =>
           \A e \in forKey(req[o].key) : e.applied = 0]_vars

(* Whatever an operator was told last, first answer or replay: the change  *)
(* it asked for was committed as the generation it was told, and every     *)
(* generation is one commit (lookup compares fingerprints, storeApply runs *)
(* after Swap and audit).                                                  *)
AnswerIsCommitted ==
    \A o \in Operators : answer[o].ok =>
        /\ answer[o].gen \in DOMAIN log
        /\ log[answer[o].gen].gen = answer[o].gen
        /\ log[answer[o].gen].change = answer[o].change

(* What docs/06 says of Reset: an in-flight exchange uses its accept-time  *)
(* epoch and is discarded, so every flow in the inbox belongs to a session *)
(* that began after the last wipe.                                         *)
ResetFencesSessions == \A i \in DOMAIN flows : flows[i].began = epoch

=============================================================================
