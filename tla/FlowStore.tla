------------------------------ MODULE FlowStore ------------------------------
(***************************************************************************)
(* The flow inbox of the proxy, internal/store.Memory: captured flows      *)
(* indexed by id, an eviction order, byte and count caps, the wipe epoch,  *)
(* and the breakpoint verbs Pause / Resume / Drop / ExpireBreakpoint with  *)
(* the goroutines blocked in WaitPaused.                                   *)
(*                                                                         *)
(* Every method takes one mutex, so a critical section is one action; the  *)
(* calls that release the mutex half-way (Insert, WaitPaused) are one      *)
(* action per critical section, and any other call may run in between.     *)
(* Calls that fail without touching the store (ErrNotFound,                *)
(* ErrBreakpointInactive, ErrTooLarge of a patch) are stuttering steps.    *)
(* A definition that breaks the one below it in the way a slip in the code *)
(* would (CanAcceptByPolicy, FinishUnheard, ...) is used by no other: the  *)
(* properties are tested against it.                                       *)
(* Spill files, events and blocking reads have modules of their own.       *)
(***************************************************************************)
EXTENDS Integers, SequencesExt

CONSTANTS
  Clients,     \* goroutines that call Insert and WaitPaused
  CapSet,      \* the option records ReplaceCaps and ResetTo may install
  Hdrs,        \* header budgets a flow or a patch may carry
  Bodies,      \* raw body sizes a flow or a patch may carry
  None,        \* "no value": an absent patch field, an empty channel
  MaxId,       \* bound: Insert calls
  MaxEpoch,    \* bound: epoch after which nobody wipes
  MaxGen,      \* bound: generation after which nobody calls Pause
  MaxTime,     \* bound: wall clock
  PauseCalls   \* whether anyone calls Pause (only tests do in the repository)

Verdicts == {"resumed", "dropped", "expired", "notfound", "stale"}
WaitReturns == Verdicts \cup {"ctx", "inactive"}
InsertReturns == {"inserted", "full", "stale", "toolarge"}

Policies == {"reject", "evict_oldest"}
CapRecords == [maxFlows : Nat \ {0}, maxBytes : Nat \ {0},
               maxBody : Nat \ {0}, policy : Policies]

ASSUME ConstantsAssumption ==
  /\ CapSet # {} /\ CapSet \subseteq CapRecords
  /\ Hdrs \subseteq Nat /\ Bodies \subseteq Nat
  /\ MaxId \in Nat /\ MaxEpoch \in Nat /\ MaxGen \in Nat /\ MaxTime \in Nat \ {0}
  /\ None \notin Nat /\ None \notin WaitReturns \cup InsertReturns
  /\ PauseCalls \in BOOLEAN

VARIABLES
  caps,        \* maxFlows, maxBytes, maxBodyBytes, fullPolicy
  epoch, generation, evictions, bytes,
  rows,        \* byID: a function from the resident ids to records
  order,       \* ids, oldest EvictTime first
  paused,      \* the WaitPaused registrations, pairs <<id, client>>
  nextId,      \* ULID source: ids grow with time
  now,         \* wall clock
  pc,          \* where each client is: "idle", "insert", "wait"
  prep,        \* the flow a client prepared before taking the index lock
  want,        \* the id a client waits for
  chan,        \* a waiter's channel of capacity one
  ins,         \* what the client's last Insert returned
  ret          \* what the client's last WaitPaused returned

storeVars == <<caps, epoch, generation, evictions, bytes, rows, order, paused>>
clientVars == <<pc, prep, want, chan, ins, ret>>
vars == <<caps, epoch, generation, evictions, bytes, rows, order, paused,
          nextId, now, pc, prep, want, chan, ins, ret>>

States == {"open", "paused", "completed", "dropped"}
Phases == {"request", "response"}

\* "at" is EvictTime; "epoch" remembers the epoch argument of Insert, which the
\* code checks and forgets.
Records ==
  [state : States, phase : Phases, hdr : Nat, body : Nat, resident : Nat,
   at : Nat, epoch : Nat, done : BOOLEAN, result : Verdicts \cup {None}]

Prepared ==
  [id : Nat, state : States, phase : Phases, hdr : Nat, body : Nat, at : Nat, epoch : Nat]

Init ==
  /\ caps \in CapSet
  /\ epoch = 1 /\ generation = 0 /\ evictions = 0 /\ bytes = 0
  /\ rows = << >> /\ order = << >> /\ paused = {}
  /\ nextId = 1 /\ now = 1
  /\ pc = [c \in Clients |-> "idle"]
  /\ prep = [c \in Clients |-> None]
  /\ want = [c \in Clients |-> 0]
  /\ chan = [c \in Clients |-> None]
  /\ ins = [c \in Clients |-> None]
  /\ ret = [c \in Clients |-> None]

-----------------------------------------------------------------------------
(* Helpers that run under the mutex.                                       *)

\* The waiters of the ids in S get the verdict v[i] on their channel.
Deliver(S, v) ==
  [c \in Clients |-> IF \E i \in S : <<i, c>> \in paused THEN v[want[c]] ELSE chan[c]]

Unregistered(S) == {w \in paused : w[1] \notin S}

Sub(a, b) == IF a < b THEN 0 ELSE a - b

\* b after subtracting the first k weights, one at a time, never below zero.
RunDown(b, weights) ==
  LET left[k \in 0 .. Len(weights)] ==
        IF k = 0 THEN b ELSE Sub(left[k-1], weights[k])
  IN  left

\* bytes after removing the first k rows of the sequence s.
BytesLeft(s) == RunDown(bytes, [k \in 1 .. Len(s) |-> rows[s[k]].resident])

FitsAfterAtLimit(k, candidate) ==
  /\ Cardinality(DOMAIN rows) - k <= caps.maxFlows
  /\ BytesLeft(order)[k] + candidate <= caps.maxBytes

FitsAfter(k, candidate) ==
  /\ Cardinality(DOMAIN rows) - k < caps.maxFlows
  /\ BytesLeft(order)[k] + candidate <= caps.maxBytes

CanAcceptByPolicy(candidate) ==
  FitsAfter(0, candidate) \/ caps.policy = "evict_oldest"

\* canAcceptLocked: dry run, nothing is removed.
CanAccept(candidate) ==
  \/ FitsAfter(0, candidate)
  \/ /\ caps.policy = "evict_oldest"
     /\ \E k \in 0 .. Len(order) : FitsAfter(k, candidate)

\* The eviction loops stop at the first prefix that suffices, or when the
\* order is empty.
EvictUntilFits(candidate) ==
  Min({k \in 0 .. Len(order) : FitsAfter(k, candidate) \/ k = Len(order)})

UnderCapsAfter(k, o) ==
  /\ Cardinality(DOMAIN rows) - k <= o.maxFlows
  /\ BytesLeft(order)[k] <= o.maxBytes

EvictUntilUnderCaps(o) ==
  Min({k \in 0 .. Len(order) : UnderCapsAfter(k, o) \/ k = Len(order)})

Oldest(k) == {order[i] : i \in 1 .. k}
Younger(k) == SubSeq(order, k + 1, Len(order))
Without(S) == [i \in DOMAIN rows \ S |-> rows[i]]
Gone(S) == [i \in S |-> "notfound"]

\* insertOrderLocked: before the first row that is younger, ties by id.
OrderPosition(s, id, at) ==
  Min({p \in 1 .. Len(s) + 1 :
         p <= Len(s) => \/ at < rows[s[p]].at
                        \/ at = rows[s[p]].at /\ id < s[p]})

-----------------------------------------------------------------------------
(* Insert.                                                                 *)

Capped(body) == IF body > caps.maxBody THEN caps.maxBody ELSE body

\* First critical section: the caps are read, then the flow is truncated and
\* sized outside the lock.  e is the epoch the caller pinned at request start.
InsertBegin(c, state, phase, hdr, raw, at, e) ==
  LET body == Capped(raw)
      flow == [id |-> nextId, state |-> state, phase |-> phase, hdr |-> hdr,
               body |-> body, at |-> at, epoch |-> e]
  IN  /\ pc[c] = "idle" /\ nextId <= MaxId
      /\ nextId' = nextId + 1
      /\ IF hdr + body > caps.maxBytes
           THEN /\ ins' = [ins EXCEPT ![c] = "toolarge"]
                /\ UNCHANGED <<pc, prep>>
           ELSE /\ pc' = [pc EXCEPT ![c] = "insert"]
                /\ prep' = [prep EXCEPT ![c] = flow]
                /\ UNCHANGED ins
      /\ UNCHANGED <<storeVars, now, want, chan, ret>>

RowOf(f) ==
  [state |-> f.state, phase |-> f.phase, hdr |-> f.hdr, body |-> f.body,
   resident |-> f.hdr + f.body, at |-> f.at, epoch |-> f.epoch,
   done |-> FALSE, result |-> None]

InsertReturn(c, r) ==
  /\ pc' = [pc EXCEPT ![c] = "idle"]
  /\ prep' = [prep EXCEPT ![c] = None]
  /\ ins' = [ins EXCEPT ![c] = r]

EpochNotAhead(f) == f.epoch <= epoch

\* The session that captured the flow belongs to the inbox as it is now.
EpochCurrent(f) == f.epoch = epoch

\* The eviction loop has removed k rows and the new row may be added.
InsertIndexed(c, k, candidate) ==
  LET f == prep[c]
  IN  /\ rows' = [i \in (DOMAIN rows \ Oldest(k)) \cup {f.id} |->
                    IF i = f.id THEN RowOf(f) ELSE rows[i]]
      /\ order' = InsertAt(Younger(k), OrderPosition(Younger(k), f.id, f.at), f.id)
      /\ bytes' = BytesLeft(order)[k] + candidate
      /\ generation' = generation + k + 1
      /\ InsertReturn(c, "inserted")

\* Second critical section.
InsertCommit(c) ==
  LET f == prep[c]
      candidate == f.hdr + f.body
      k == EvictUntilFits(candidate)
  IN  /\ pc[c] = "insert"
      /\ IF ~EpochCurrent(f) THEN
           /\ InsertReturn(c, "stale")
           /\ UNCHANGED <<storeVars, chan>>
         ELSE IF ~CanAccept(candidate) THEN
           /\ InsertReturn(c, "full")
           /\ UNCHANGED <<storeVars, chan>>
         ELSE
           /\ evictions' = evictions + k
           /\ chan' = Deliver(Oldest(k), Gone(Oldest(k)))
           /\ paused' = Unregistered(Oldest(k))
           /\ UNCHANGED <<caps, epoch>>
           /\ IF FitsAfter(k, candidate)
                THEN InsertIndexed(c, k, candidate)
                ELSE /\ rows' = Without(Oldest(k))
                     /\ order' = Younger(k)
                     /\ bytes' = BytesLeft(order)[k]
                     /\ generation' = generation + k
                     /\ InsertReturn(c, "full")
      /\ UNCHANGED <<nextId, now, want, ret>>

-----------------------------------------------------------------------------
(* Breakpoint verbs.                                                       *)

Pause(id) ==
  /\ generation < MaxGen
  /\ id \in DOMAIN rows /\ rows[id].state # "paused"
  /\ rows' = [rows EXCEPT ![id].state = "paused", ![id].done = FALSE,
                          ![id].result = None]
  /\ generation' = generation + 1
  /\ UNCHANGED <<caps, epoch, evictions, bytes, order, paused, nextId, now, clientVars>>

FinishUnheard(id, v) ==
  /\ paused' = Unregistered({id})
  /\ UNCHANGED chan

\* finishPausedLocked for a row that stays: remember the verdict, wake everyone.
Finish(id, v) ==
  /\ chan' = Deliver({id}, [i \in {id} |-> v])
  /\ paused' = Unregistered({id})

OthersButOldest(id) == Tail(order)

Position(id) == CHOOSE i \in 1 .. Len(order) : order[i] = id
Others(id) == RemoveAt(order, Position(id))

\* applyPatchLocked: how many of the other rows, oldest first, must go so that
\* the patched row fits.  The row itself is never a victim.
Victims(id, extra) ==
  Min({k \in 0 .. Len(order) - 1 :
         BytesLeft(Others(id))[k] + extra <= caps.maxBytes \/ k = Len(order) - 1})

Resume(id, hdr, body) ==
  LET r == rows[id]
      newHdr == IF hdr = None THEN r.hdr ELSE hdr
      newBody == IF body = None THEN r.body ELSE body
      extra == newHdr + newBody - r.resident
      k == Victims(id, extra)
      victims == {Others(id)[i] : i \in 1 .. k}
      left == BytesLeft(Others(id))[k] + extra
  IN  /\ id \in DOMAIN rows /\ r.state = "paused"
      /\ body # None => body <= caps.maxBody
      /\ newHdr + newBody <= caps.maxBytes
      /\ bytes + extra > caps.maxBytes => caps.policy = "evict_oldest"
      /\ left <= caps.maxBytes
      /\ rows' = [i \in DOMAIN rows \ victims |->
           IF i # id THEN rows[i]
           ELSE [r EXCEPT !.hdr = newHdr, !.body = newBody,
                          !.resident = newHdr + newBody,
                          !.state = IF r.phase = "request" THEN "open" ELSE "completed",
                          !.done = TRUE, !.result = "resumed"]]
      /\ order' = IF Position(id) <= k THEN InsertAt(Younger(k + 1), 1, id) ELSE Younger(k)
      /\ bytes' = IF left < 0 THEN 0 ELSE left
      /\ generation' = generation + k + 1
      /\ evictions' = evictions + k
      /\ chan' = Deliver(victims \cup {id}, [i \in victims \cup {id} |->
                           IF i = id THEN "resumed" ELSE "notfound"])
      /\ paused' = Unregistered(victims \cup {id})
      /\ UNCHANGED <<caps, epoch, nextId, now, pc, prep, want, ins, ret>>

DropUnnumbered(id) ==
  /\ id \in DOMAIN rows /\ rows[id].state = "paused"
  /\ rows' = [rows EXCEPT ![id].state = "dropped", ![id].done = TRUE,
                          ![id].result = "dropped"]
  /\ Finish(id, "dropped")
  /\ UNCHANGED <<caps, epoch, generation, evictions, bytes, order, nextId, now,
                 pc, prep, want, ins, ret>>

Drop(id) ==
  /\ id \in DOMAIN rows /\ rows[id].state = "paused"
  /\ rows' = [rows EXCEPT ![id].state = "dropped", ![id].done = TRUE,
                          ![id].result = "dropped"]
  /\ generation' = generation + 1
  /\ Finish(id, "dropped")
  /\ UNCHANGED <<caps, epoch, evictions, bytes, order, nextId, now, pc, prep, want, ins, ret>>

\* CompletedAt becomes now; the order is not sorted again.
ExpireBreakpoint(id) ==
  /\ id \in DOMAIN rows /\ rows[id].state = "paused"
  /\ rows' = [rows EXCEPT ![id].state = "completed", ![id].at = now,
                          ![id].done = TRUE, ![id].result = "expired"]
  /\ generation' = generation + 1
  /\ Finish(id, "expired")
  /\ UNCHANGED <<caps, epoch, evictions, bytes, order, nextId, now, pc, prep, want, ins, ret>>

-----------------------------------------------------------------------------
(* WaitPaused.                                                             *)

WaitReturn(c, r) ==
  /\ pc' = [pc EXCEPT ![c] = "idle"]
  /\ want' = [want EXCEPT ![c] = 0]
  /\ chan' = [chan EXCEPT ![c] = None]
  /\ ret' = [ret EXCEPT ![c] = r]

\* First critical section: answer at once or register.
WaitEnter(c, id) ==
  /\ pc[c] = "idle"
  /\ IF id \notin DOMAIN rows THEN
       ret' = [ret EXCEPT ![c] = "notfound"] /\ UNCHANGED <<pc, want, paused>>
     ELSE IF rows[id].done THEN
       ret' = [ret EXCEPT ![c] = rows[id].result] /\ UNCHANGED <<pc, want, paused>>
     ELSE IF rows[id].state # "paused" THEN
       ret' = [ret EXCEPT ![c] = "inactive"] /\ UNCHANGED <<pc, want, paused>>
     ELSE
       /\ pc' = [pc EXCEPT ![c] = "wait"]
       /\ want' = [want EXCEPT ![c] = id]
       /\ paused' = paused \cup {<<id, c>>}
       /\ UNCHANGED ret
  /\ UNCHANGED <<caps, epoch, generation, evictions, bytes, rows, order,
                 nextId, now, prep, chan, ins>>

\* The select takes the channel.
WaitWake(c) ==
  /\ pc[c] = "wait" /\ chan[c] # None
  /\ WaitReturn(c, chan[c])
  /\ UNCHANGED <<storeVars, nextId, now, prep, ins>>

WaitCtxDoneHasty(c) ==
  /\ pc[c] = "wait"
  /\ paused' = paused \ {<<want[c], c>>}
  /\ WaitReturn(c, "ctx")
  /\ UNCHANGED <<caps, epoch, generation, evictions, bytes, rows, order,
                 nextId, now, prep, ins>>

\* The select takes ctx.Done: unregister, then prefer a verdict that is already
\* there over the context's error.
WaitCtxDone(c) ==
  /\ pc[c] = "wait"
  /\ paused' = paused \ {<<want[c], c>>}
  /\ WaitReturn(c, IF want[c] \in DOMAIN rows /\ rows[want[c]].done
                     THEN rows[want[c]].result
                   ELSE IF chan[c] # None THEN chan[c]
                   ELSE "ctx")
  /\ UNCHANGED <<caps, epoch, generation, evictions, bytes, rows, order,
                 nextId, now, prep, ins>>

-----------------------------------------------------------------------------
(* Deletion, caps and wipes.                                               *)

Delete(id) ==
  /\ id \in DOMAIN rows
  /\ rows' = Without({id})
  /\ order' = Others(id)
  /\ bytes' = Sub(bytes, rows[id].resident)
  /\ generation' = generation + 1
  /\ chan' = Deliver({id}, Gone({id}))
  /\ paused' = Unregistered({id})
  /\ UNCHANGED <<caps, epoch, evictions, nextId, now, pc, prep, want, ins, ret>>

DeleteAll ==
  LET n == Len(order)
  IN  /\ DOMAIN rows # {}
      /\ rows' = Without(Oldest(n))
      /\ order' = << >>
      /\ bytes' = BytesLeft(order)[n]
      /\ generation' = generation + n
      /\ chan' = Deliver(Oldest(n), Gone(Oldest(n)))
      /\ paused' = Unregistered(Oldest(n))
      /\ UNCHANGED <<caps, epoch, evictions, nextId, now, pc, prep, want, ins, ret>>

ReplaceCaps(o, force) ==
  LET over == ~UnderCapsAfter(0, o)
      k == EvictUntilUnderCaps(o)
  IN  /\ over => (o.policy = "evict_oldest" \/ force)
      /\ caps' = o
      /\ rows' = Without(Oldest(k))
      /\ order' = Younger(k)
      /\ bytes' = BytesLeft(order)[k]
      /\ generation' = generation + k
      /\ evictions' = evictions + k
      /\ chan' = Deliver(Oldest(k), Gone(Oldest(k)))
      /\ paused' = Unregistered(Oldest(k))
      /\ UNCHANGED <<epoch, nextId, now, pc, prep, want, ins, ret>>

\* ResetTo; Wipe is ResetTo with the options already in force.
ResetTo(o) ==
  /\ epoch < MaxEpoch
  /\ chan' = [c \in Clients |-> IF \E w \in paused : w[2] = c THEN "stale" ELSE chan[c]]
  /\ paused' = {}
  /\ epoch' = epoch + 1
  /\ generation' = generation + 1
  /\ rows' = << >> /\ order' = << >> /\ bytes' = 0
  /\ caps' = o
  /\ UNCHANGED <<evictions, nextId, now, pc, prep, want, ins, ret>>

Wipe == ResetTo(caps)

Tick ==
  /\ now < MaxTime
  /\ now' = now + 1
  /\ UNCHANGED <<storeVars, nextId, clientVars>>

-----------------------------------------------------------------------------
Ids == 1 .. nextId - 1

Insert(c) ==
  \/ \E state \in {"paused", "completed"}, hdr \in Hdrs, raw \in Bodies,
        at \in 1 .. now, e \in 1 .. epoch :
       \E phase \in IF state = "paused" THEN Phases ELSE {"response"} :
         InsertBegin(c, state, phase, hdr, raw, at, e)
  \/ InsertCommit(c)

WaitPaused(c) ==
  \/ \E id \in Ids : WaitEnter(c, id)
  \/ WaitWake(c)
  \/ WaitCtxDone(c)

Breakpoint ==
  \E id \in DOMAIN rows :
    \/ PauseCalls /\ Pause(id)
    \/ \E hdr \in Hdrs \cup {None}, body \in Bodies \cup {None} : Resume(id, hdr, body)
    \/ Drop(id)
    \/ ExpireBreakpoint(id)

Admin ==
  \/ \E id \in DOMAIN rows : Delete(id)
  \/ DeleteAll
  \/ \E o \in CapSet, force \in BOOLEAN : ReplaceCaps(o, force)
  \/ \E o \in CapSet : ResetTo(o)
  \/ Wipe

Next ==
  \/ \E c \in Clients : Insert(c) \/ WaitPaused(c)
  \/ Breakpoint
  \/ Admin
  \/ Tick

Spec == Init /\ [][Next]_vars

-----------------------------------------------------------------------------
(* Properties.                                                             *)

TypeOK ==
  /\ caps \in CapRecords
  /\ epoch \in Nat \ {0} /\ generation \in Nat /\ evictions \in Nat /\ bytes \in Nat
  /\ DOMAIN rows \subseteq Ids /\ rows \in [DOMAIN rows -> Records]
  /\ order \in Seq(Ids)
  /\ paused \subseteq Ids \X Clients
  /\ nextId \in Nat \ {0} /\ now \in Nat
  /\ pc \in [Clients -> {"idle", "insert", "wait"}]
  /\ prep \in [Clients -> Prepared \cup {None}]
  /\ want \in [Clients -> Nat]
  /\ chan \in [Clients -> Verdicts \cup {None}]
  /\ ins \in [Clients -> InsertReturns \cup {None}]
  /\ ret \in [Clients -> WaitReturns \cup {None}]

\* The inbox never exceeds the caps in force, although Insert reads them before
\* it takes the index lock and ReplaceCaps may lower them in between; and the
\* byte counter is what the resident flows weigh: no path through insert, patch,
\* eviction, deletion or wipe loses or double-charges a row.
OccupancyWithinCaps ==
  /\ Cardinality(DOMAIN rows) <= caps.maxFlows
  /\ bytes <= caps.maxBytes
  /\ bytes = SumFunction([i \in DOMAIN rows |-> rows[i].hdr + rows[i].body])

\* The eviction order lists every resident row exactly once, so eviction can
\* always make progress and never removes a row twice.
OrderIsIndex ==
  /\ IsInjective(order)
  /\ ToSet(order) = DOMAIN rows

\* After Wipe or ResetTo no row of a session that started before survives or
\* arrives, however long its Insert was suspended between its two locks.
EpochFence ==
  \A i \in DOMAIN rows : rows[i].epoch = epoch

\* An Insert between its two locks owns its id: nobody else inserts it, and it
\* is not in the index yet.
PreparedFresh ==
  \A c \in Clients : pc[c] = "insert" =>
    /\ prep[c] \in Prepared /\ prep[c].id \in Ids /\ prep[c].id \notin DOMAIN rows
    /\ \A d \in Clients \ {c} : pc[d] = "insert" => prep[d].id # prep[c].id

\* No lost wake-up: a goroutine blocked in WaitPaused either has its answer on
\* the channel, or is registered with a row that is still paused and undecided
\* (so that whoever decides, deletes, evicts or wipes that row will find it).
NoLostWaiter ==
  \A c \in Clients :
    pc[c] = "wait" /\ chan[c] = None =>
      /\ <<want[c], c>> \in paused
      /\ want[c] \in DOMAIN rows
      /\ rows[want[c]].state = "paused" /\ ~rows[want[c]].done

\* Nobody is registered who is not waiting, so a verdict is never sent to a
\* channel that a later call of the same goroutine would read.
RegisteredWait ==
  \A w \in paused : pc[w[2]] = "wait" /\ want[w[2]] = w[1] /\ chan[w[2]] = None

\* An Insert that is refused evicts nothing and charges nothing (canAcceptLocked
\* is a dry run of the eviction loop).
RefusedInsertIsPure ==
  [][\A c \in Clients :
       pc[c] = "insert" /\ pc'[c] = "idle" /\ ins'[c] # "inserted"
         => UNCHANGED storeVars]_vars

\* Any change a reader of the inbox could see moves the generation, which the
\* control plane uses as the precondition of a conditional delete.
GenerationCoversChange ==
  [][(rows' # rows \/ epoch' # epoch) => generation' > generation]_vars

\* evict_oldest deletes the oldest CompletedAt (StartedAt while open) first and
\* List pages newest first: both walk "order".
OrderIsOldestFirst ==
  \A i, j \in 1 .. Len(order) : i < j => rows[order[i]].at <= rows[order[j]].at

\* What a breakpoint promises its waiters, whatever the store does meanwhile.
Cell == INSTANCE BreakpointCell WITH
  Ids <- 1 .. MaxId,
  armed <- {i \in DOMAIN rows : rows[i].state = "paused"},
  busy <- {c \in Clients : pc[c] = "wait"},
  held <- [c \in Clients |-> IF pc[c] = "wait" /\ chan[c] = None THEN want[c] ELSE 0],
  out <- [c \in Clients |-> IF pc[c] = "wait" THEN chan[c] ELSE ret[c]]

\* The mutex-protected map of channels implements an atomic broadcast cell:
\* all waiters of a row get the same verdict in the step that decides the row,
\* and a waiter gives up with its context's error only while undecided.
CellSpec == Cell!Spec

=============================================================================
