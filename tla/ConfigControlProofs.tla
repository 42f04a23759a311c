------------------------ MODULE ConfigControlProofs ------------------------
(***************************************************************************)
(* The control plane keeps what an operator may rely on, for any number of *)
(* operators, sessions, keys, documents and changes, and for any size of   *)
(* the idempotency cache: no update is lost, failures leave no trace, one  *)
(* key commits once, answers are true, and between mutations the process   *)
(* runs what its active snapshot says.                                     *)
(*                                                                         *)
(* All of it rests on App.mu: MutexHeld says that a mutation in progress   *)
(* holds it, and the other parts of CtlInv say, for every step a mutation  *)
(* can have reached, which of its effects are done and which are not.      *)
(***************************************************************************)
EXTENDS ConfigControl, IndexLemmas

\* A mutation in progress holds App.mu.
MutexHeld == \A o \in Operators : pc[o] # "idle" <=> mu = o

\* The process runs what the active snapshot says.
Settled ==
    /\ caps = active.spec.caps
    /\ bound = active.spec.net
    /\ active.boot = Revision(bootstrap)

\* The CA in use was minted for the TLS part in use.
CAInUse == active.ca.tls = active.spec.tls

\* An Apply that was not refused: built from what is active, under a revision
\* that is still the active one, and its key has not committed.
ApplyUnderway ==
    \A o \in Operators : pc[o] \in {"stats", "caps", "swap"} =>
        /\ cand[o] = compileCandidate(req[o].change, active)
        /\ req[o].exp = Revision(active)
        /\ \A e \in forKey(req[o].key) : e.applied = 0

\* Until ReplaceCaps everything is as it was when the mutex was taken ...
ApplyUntouched ==
    \A o \in Operators : pc[o] \in {"stats", "caps"} =>
        /\ Settled
        /\ seen[o] = InForce
        /\ req[o].change.caps # None

\* ... and then the caps are the candidate's.
ApplyInstalled ==
    \A o \in Operators : pc[o] = "swap" =>
        /\ caps = cand[o].spec.caps
        /\ bound = active.spec.net
        /\ active.boot = Revision(bootstrap)

\* A Reset: its candidate is its own bootstrap, with a CA of its own.
ResetUnderway ==
    \A o \in Operators : pc[o] \in {"wipe", "resetswap", "commit"} =>
        /\ cand[o].boot = cand[o].spec
        /\ cand[o].ca.tls = cand[o].spec.tls

\* Nothing has changed before the wipe; after it the caps are the candidate's,
\* and after Swap the candidate is active.
ResetProgress ==
    \A o \in Operators :
        /\ pc[o] = "wipe" => Settled /\ seen[o] = InForce
        /\ pc[o] \in {"wipe", "resetswap"} => cand[o].gen = active.gen + 1
        /\ pc[o] \in {"resetswap", "commit"} => caps = cand[o].spec.caps
        /\ pc[o] = "commit" => active = cand[o]

\* The audit log has one record per generation; the generation of a Reset that
\* has swapped is recorded when it commits.
Commits == [key : Keys \cup {None}, change : Changes \cup {None}, gen : Nat]

LogIsHistory ==
    /\ log \in Seq(Commits)
    /\ \A i \in 1 .. Len(log) : log[i].gen = i
    /\ (\A o \in Operators : pc[o] # "commit") => Len(log) = active.gen
    /\ \A o \in Operators : pc[o] = "commit" => Len(log) + 1 = active.gen

\* A log has the change under the generation.
Committed(l, change, gen) == gen \in 1 .. Len(l) /\ l[gen].change = change

\* A remembered commit is in the log, and so is what an operator was told.
CacheIsTrue ==
    \A e \in Range(idemp) : e.applied # 0 => Committed(log, e.change, e.applied)

AnswersTrue ==
    /\ DOMAIN answer = Operators /\ DOMAIN seen = Operators
    /\ \A o \in Operators : answer[o].ok => Committed(log, answer[o].change, answer[o].gen)

CtlInv ==
    /\ TypeOK
    /\ MutexHeld
    /\ mu = None => Settled
    /\ CAInUse
    /\ ApplyUnderway /\ ApplyUntouched /\ ApplyInstalled
    /\ ResetUnderway /\ ResetProgress
    /\ LogIsHistory /\ CacheIsTrue /\ AnswersTrue

-----------------------------------------------------------------------------
(* The idempotency cache                                                   *)

\* A list of entries in which a key occurs once.
IsCache(c) ==
    /\ c \in Seq(Entries)
    /\ \A i, j \in 1 .. Len(c) : c[i].key = c[j].key => i = j

\* removeLocked: the entry of the key is gone, the others stay.
LEMMA WithoutProps ==
  ASSUME NEW c, IsCache(c), NEW key
  PROVE  /\ IsCache(without(c, key)) /\ Len(without(c, key)) <= Len(c)
         /\ places(c, key) # {} => Len(without(c, key)) = Len(c) - 1
         /\ \A e \in Range(without(c, key)) : e \in Range(c) /\ e.key # key
<1>1. c \in Seq(Entries) /\ Len(c) \in Nat /\ DOMAIN c = 1 .. Len(c)
  BY LenProperties DEF IsCache
<1>2. CASE places(c, key) = {}
  <2>1. \A e \in Range(c) : e.key # key
    BY <1>2 DEF places, Range
  <2> QED BY <1>1, <1>2, <2>1 DEF without
<1>3. CASE places(c, key) # {}
  <2> DEFINE p == place(c, key)
             y == RemoveAt(c, p)
             at(i) == IF i < p THEN i ELSE i + 1
  <2>1. p \in 1 .. Len(c) /\ c[p].key = key
    BY <1>1, <1>3 DEF place, places
  <2>2. without(c, key) = y
    BY <1>3 DEF without
  <2> HIDE DEF p
  <2>3. Once(c)
    BY DEF IsCache, Once
  <2>4. /\ y \in Seq(Entries) /\ Len(y) = Len(c) - 1
        /\ \A i \in 1 .. Len(y) : y[i] = IF i < p THEN c[i] ELSE c[i + 1]
    BY <1>1, <2>1, <2>3, RemoveAtProps
  <2> HIDE DEF y
  <2>5. \A i \in 1 .. Len(y) : at(i) \in 1 .. Len(c) /\ at(i) # p /\ y[i] = c[at(i)]
    BY <1>1, <2>1, <2>4, SMTT(20)
  <2>6. \A i, j \in 1 .. Len(y) : at(i) = at(j) => i = j
    BY <1>1, <2>1, <2>4
  <2> HIDE DEF at
  <2>7. IsCache(y)
    BY <2>4, <2>5, <2>6 DEF IsCache
  <2>8. ASSUME NEW e \in Range(y) PROVE e \in Range(c) /\ e.key # key
    <3>1. PICK i \in 1 .. Len(y) : e = y[i]
      BY <2>4, <2>8, LenProperties DEF Range
    <3>2. at(i) \in DOMAIN c /\ e = c[at(i)] /\ at(i) # p
      BY <1>1, <2>5, <3>1
    <3> QED BY <1>1, <2>1, <3>2 DEF Range, IsCache
  <2> QED BY <1>1, <1>3, <2>2, <2>4, <2>7, <2>8
<1> QED BY <1>2, <1>3

\* An entry of a key the list does not have is linked at the front.
LEMMA FrontProps ==
  ASSUME NEW c, IsCache(c), NEW e \in Entries, \A d \in Range(c) : d.key # e.key
  PROVE  LET y == <<e>> \o c
         IN  IsCache(y) /\ Len(y) = Len(c) + 1 /\ Range(y) = {e} \cup Range(c)
<1> DEFINE y == <<e>> \o c
<1>1. c \in Seq(Entries) /\ Len(c) \in Nat /\ DOMAIN c = 1 .. Len(c)
  BY LenProperties DEF IsCache
<1>2. <<e>> \in Seq(Entries) /\ Len(<<e>>) = 1 /\ <<e>>[1] = e
  OBVIOUS
<1>3. /\ y \in Seq(Entries) /\ Len(y) = 1 + Len(c)
      /\ \A i \in 1 .. 1 + Len(c) : y[i] = IF i <= 1 THEN <<e>>[i] ELSE c[i - 1]
  BY <1>1, <1>2, ConcatProperties
<1> HIDE DEF y
<1>4. y[1] = e /\ \A i \in 1 .. Len(y) : i # 1 => i - 1 \in 1 .. Len(c) /\ y[i] = c[i - 1]
  BY <1>1, <1>2, <1>3
<1>5. \A i \in 1 .. Len(c) : c[i] \in Range(c) /\ i + 1 \in 1 .. Len(y) /\ i + 1 # 1 /\ c[i] = y[i + 1]
  <2>1. \A i \in 1 .. Len(c) : c[i] \in Range(c)
    BY <1>1 DEF Range
  <2>2. ASSUME NEW i \in 1 .. Len(c) PROVE i + 1 \in 1 .. Len(y) /\ i + 1 # 1 /\ (i + 1) - 1 = i
    BY <1>1, <1>3
  <2> QED BY <1>4, <2>1, <2>2
<1>6. DOMAIN y = 1 .. Len(y) /\ 1 \in 1 .. Len(y)
  BY <1>1, <1>3, LenProperties
<1>7. IsCache(y)
  <2> SUFFICES ASSUME NEW i \in 1 .. Len(y), NEW j \in 1 .. Len(y), y[i].key = y[j].key
               PROVE  i = j
    BY <1>3 DEF IsCache
  <2>1. CASE i = 1 /\ j = 1
    BY <2>1
  <2>2. CASE i = 1 /\ j # 1
    BY <1>4, <1>5, <2>2
  <2>3. CASE i # 1 /\ j = 1
    BY <1>4, <1>5, <2>3
  <2>4. CASE i # 1 /\ j # 1
    <3>1. i - 1 = j - 1
      BY <1>4, <2>4 DEF IsCache
    <3> QED BY <3>1
  <2> QED BY <2>1, <2>2, <2>3, <2>4
<1>8. Range(y) = {e} \cup Range(c)
  <2>1. ASSUME NEW d \in Range(y) PROVE d \in {e} \cup Range(c)
    <3>1. PICK i \in 1 .. Len(y) : d = y[i]
      BY <1>6, <2>1 DEF Range
    <3> QED BY <1>4, <1>5, <3>1
  <2>2. ASSUME NEW d \in Range(c) PROVE d \in Range(y)
    <3>1. PICK i \in 1 .. Len(c) : d = c[i]
      BY <1>1, <2>2 DEF Range
    <3>2. i + 1 \in DOMAIN y /\ d = y[i + 1]
      BY <1>5, <1>6, <3>1
    <3> QED BY <3>2 DEF Range
  <2>3. e \in Range(y)
    BY <1>4, <1>6 DEF Range
  <2> QED BY <2>1, <2>2, <2>3
<1> QED BY <1>1, <1>3, <1>7, <1>8 DEF y

\* lookup reorders the cache.
LEMMA LookupProps ==
  ASSUME IsCache(idemp), NEW r
  PROVE  /\ IsCache(lookup(r)) /\ Len(lookup(r)) <= Len(idemp)
         /\ Range(lookup(r)) \subseteq Range(idemp)
<1>1. CASE places(idemp, r.key) = {}
  BY <1>1, LenProperties DEF lookup, IsCache
<1>2. CASE places(idemp, r.key) # {}
  <2> DEFINE e == idemp[place(idemp, r.key)]
             w == without(idemp, r.key)
  <2>1. Len(idemp) \in Nat /\ DOMAIN idemp = 1 .. Len(idemp)
    BY LenProperties DEF IsCache
  <2>2. place(idemp, r.key) \in DOMAIN idemp /\ e.key = r.key
    BY <1>2 DEF place, places
  <2>3. e \in Entries /\ e \in Range(idemp)
    BY <2>1, <2>2, ElementOfSeq DEF IsCache, Range
  <2>4. lookup(r) = <<e>> \o w
    BY <1>2 DEF lookup
  <2> HIDE DEF e
  <2>5. /\ IsCache(w) /\ Len(w) = Len(idemp) - 1
        /\ \A d \in Range(w) : d \in Range(idemp) /\ d.key # r.key
    BY <1>2, WithoutProps
  <2> HIDE DEF w
  <2>6. /\ IsCache(<<e>> \o w) /\ Len(<<e>> \o w) = Len(w) + 1
        /\ Range(<<e>> \o w) = {e} \cup Range(w)
    BY <2>2, <2>3, <2>5, FrontProps
  <2> QED BY <2>1, <2>3, <2>4, <2>5, <2>6
<1> QED BY <1>1, <1>2

\* insertFrontLocked adds one entry and forgets the oldest beyond the limit.
LEMMA InsertFrontProps ==
  ASSUME NEW c, IsCache(c), NEW e \in Entries
  PROVE  /\ IsCache(insertFront(c, e)) /\ Len(insertFront(c, e)) <= IdempMax
         /\ Range(insertFront(c, e)) \subseteq {e} \cup Range(c)
<1> DEFINE all == <<e>> \o without(c, e.key)
           y == SubSeq(all, 1, IdempMax)
<1>1. /\ IsCache(without(c, e.key))
      /\ \A d \in Range(without(c, e.key)) : d \in Range(c) /\ d.key # e.key
  BY WithoutProps
<1>2. IsCache(all) /\ Range(all) \subseteq {e} \cup Range(c)
  BY <1>1, FrontProps
<1> HIDE DEF all
<1>3. all \in Seq(Entries) /\ Len(all) \in Nat /\ DOMAIN all = 1 .. Len(all) /\ IdempMax \in Nat
      /\ \A i \in 1 .. Len(all) : all[i] \in Entries
  BY <1>2, LenProperties, ControlAssumption DEF IsCache
<1>4. CASE Len(all) > IdempMax
  <2>1. \A i \in 1 .. IdempMax : all[i] \in Entries
    BY <1>3, <1>4
  <2>2. /\ y \in Seq(Entries)
        /\ Len(y) = IF 1 <= IdempMax THEN IdempMax - 1 + 1 ELSE 0
        /\ \A i \in 1 .. IdempMax - 1 + 1 : y[i] = all[1 + i - 1]
    BY <1>3, <2>1, SubSeqProperties
  <2> HIDE DEF y
  <2>3. Len(y) = IdempMax /\ \A i \in 1 .. IdempMax : y[i] = all[i] /\ i \in 1 .. Len(all)
    BY <1>3, <1>4, <2>2
  <2>4. IsCache(y)
    BY <1>2, <2>2, <2>3 DEF IsCache
  <2>5. ASSUME NEW d \in Range(y) PROVE d \in Range(all)
    <3>1. PICK i \in 1 .. IdempMax : d = y[i]
      BY <2>2, <2>3, <2>5, LenProperties DEF Range
    <3> QED BY <1>3, <2>3, <3>1 DEF Range
  <2>6. insertFront(c, e) = y
    BY <1>4 DEF insertFront, y, all
  <2>7. Len(y) <= IdempMax
    BY <1>3, <2>3
  <2> QED BY <1>2, <2>4, <2>5, <2>6, <2>7
<1>5. CASE ~(Len(all) > IdempMax)
  <2>1. insertFront(c, e) = all
    BY <1>5 DEF insertFront, all
  <2> QED BY <1>2, <1>3, <1>5, <2>1
<1> QED BY <1>4, <1>5

\* The entry that is updated or made: it has the key and the change of the
\* request, and a commit only if the cache remembers one.
LEMMA EntryForProps ==
  ASSUME NEW c, IsCache(c), NEW r, r.key \in Keys, r.change \in Changes
  PROVE  /\ entryFor(c, r) \in Entries
         /\ entryFor(c, r).change = r.change
         /\ entryFor(c, r).applied # 0 => entryFor(c, r) \in Range(c)
<1> DEFINE same == {e \in Range(c) : e.key = r.key /\ e.change = r.change}
           new == [key |-> r.key, change |-> r.change, planned |-> FALSE, applied |-> 0]
<1>1. Range(c) \subseteq Entries
  BY LenProperties DEF IsCache, Range
<1>2. CASE same # {}
  <2>1. (CHOOSE e \in same : TRUE) \in same
    BY <1>2
  <2>2. entryFor(c, r) \in same
    BY <1>2, <2>1 DEF entryFor
  <2> QED BY <1>1, <2>2
<1>3. CASE same = {}
  <2>1. entryFor(c, r) = new
    BY <1>3 DEF entryFor
  <2>2. new \in Entries
    BY DEF Entries
  <2> QED BY <2>1, <2>2
<1> QED BY <1>2, <1>3

\* storePlan remembers no commit that was not remembered before.
LEMMA StorePlanProps ==
  ASSUME NEW c, IsCache(c), Len(c) <= IdempMax, NEW r, r.key \in Keys \cup {None},
         r.change \in Changes
  PROVE  /\ IsCache(storePlan(c, r)) /\ Len(storePlan(c, r)) <= IdempMax
         /\ \A d \in Range(storePlan(c, r)) : d.applied # 0 =>
              \E e \in Range(c) : e.change = d.change /\ e.applied = d.applied
<1>1. CASE r.key = None
  BY <1>1 DEF storePlan
<1>2. CASE r.key # None
  <2> DEFINE f == entryFor(c, r)
             g == [f EXCEPT !.planned = TRUE]
  <2>1. f.applied # 0 => f \in Range(c)
    BY <1>2, EntryForProps
  <2>2. storePlan(c, r) = insertFront(c, g)
    BY <1>2 DEF storePlan
  <2>3. f \in Entries
    BY <1>2, EntryForProps
  <2> HIDE DEF f
  <2>4. g \in Entries /\ g.change = f.change /\ g.applied = f.applied
    BY <2>3 DEF Entries
  <2> HIDE DEF g
  <2> QED BY <2>1, <2>2, <2>3, <2>4, InsertFrontProps
<1> QED BY <1>1, <1>2

\* storeApply remembers one more.
LEMMA StoreApplyProps ==
  ASSUME NEW c, IsCache(c), Len(c) <= IdempMax, NEW r, r.key \in Keys \cup {None},
         r.change \in Changes, NEW gen \in Nat
  PROVE  /\ IsCache(storeApply(c, r, gen)) /\ Len(storeApply(c, r, gen)) <= IdempMax
         /\ \A d \in Range(storeApply(c, r, gen)) :
              d \in Range(c) \/ (d.change = r.change /\ d.applied = gen)
<1>1. CASE r.key = None
  BY <1>1 DEF storeApply
<1>2. CASE r.key # None
  <2> DEFINE f == entryFor(c, r)
             g == [f EXCEPT !.applied = gen]
  <2>1. f \in Entries /\ f.change = r.change
    BY <1>2, EntryForProps
  <2>2. storeApply(c, r, gen) = insertFront(c, g)
    BY <1>2 DEF storeApply
  <2> HIDE DEF f
  <2>3. g \in Entries /\ g.change = f.change /\ g.applied = gen
    BY <2>1 DEF Entries
  <2> HIDE DEF g
  <2> QED BY <2>1, <2>2, <2>3, InsertFrontProps
<1> QED BY <1>1, <1>2

-----------------------------------------------------------------------------
(* Candidates                                                              *)

\* What compileCandidate builds: the next generation, with the CA its TLS part
\* needs; live changes leave the Reset-only part and the bootstrap alone.
LEMMA CompiledProps ==
  ASSUME NEW prev \in Snapshots, prev.ca.tls = prev.spec.tls, NEW change \in Changes
  PROVE  LET c == compileCandidate(change, prev)
         IN  /\ c \in Snapshots /\ c.gen = prev.gen + 1 /\ c.boot = prev.boot
             /\ c.ca.tls = c.spec.tls /\ c.spec.net = prev.spec.net
             /\ c.spec.caps = IF change.caps = None THEN prev.spec.caps ELSE change.caps
<1> DEFINE spec == applyOperations(prev.spec, change)
           ca == compileCA(spec.tls, prev)
<1>1. change \in ChangeRecords /\ prev.spec \in Specs /\ prev.boot \in Specs
      /\ prev.gen \in Nat /\ prev.ca \in [tls : TLSs, born : Nat]
  BY ControlAssumption DEF Snapshots
<1>2. /\ spec \in Specs /\ spec.net = prev.spec.net
      /\ spec.caps = IF change.caps = None THEN prev.spec.caps ELSE change.caps
  BY <1>1 DEF applyOperations, Specs, ChangeRecords
<1> HIDE DEF spec
<1>3. spec.tls \in TLSs
  BY <1>2 DEF Specs
<1>4. ca \in [tls : TLSs, born : Nat] /\ ca.tls = spec.tls
  BY <1>1, <1>3 DEF compileCA, MintCA
<1>5. compileCandidate(change, prev)
      = [spec |-> spec, boot |-> prev.boot, gen |-> prev.gen + 1, ca |-> ca]
  BY DEF compileCandidate, spec
<1> HIDE DEF ca
<1> QED BY <1>1, <1>2, <1>4, <1>5 DEF Snapshots

\* What a bootstrap document is compiled to.
LEMMA BootstrapProps ==
  ASSUME NEW doc \in Files, NEW gen \in Nat
  PROVE  LET c == bootstrapCandidate(doc, gen)
         IN  /\ c \in Snapshots /\ c.gen = gen /\ c.boot = doc /\ c.spec = doc
             /\ c.ca.tls = c.spec.tls
<1>1. doc \in Specs /\ doc.tls \in TLSs
  BY ControlAssumption DEF Specs
<1> QED BY <1>1 DEF bootstrapCandidate, MintCA, Snapshots

\* What is kept of the flows is a list of flows.
LEMMA NewestType ==
  ASSUME NEW T, NEW s \in Seq(T), NEW n \in Nat
  PROVE  newest(s, n) \in Seq(T)
<1>1. Len(s) \in Nat /\ \A i \in 1 .. Len(s) : s[i] \in T
  BY LenProperties
<1>2. CASE Len(s) > n
  <2>1. Len(s) - n + 1 \in Nat \ {0} /\ \A i \in Len(s) - n + 1 .. Len(s) : s[i] \in T
    BY <1>1, <1>2
  <2>2. SubSeq(s, Len(s) - n + 1, Len(s)) \in Seq(T)
    BY <1>1, <2>1, SubSeqProperties
  <2> QED BY <1>2, <2>2 DEF newest
<1>3. CASE ~(Len(s) > n)
  BY <1>3 DEF newest
<1> QED BY <1>2, <1>3

-----------------------------------------------------------------------------
(* CtlInv is inductive                                                     *)

\* The cache part of the type invariant.
LEMMA CacheTyped ==
  ASSUME TypeOK
  PROVE  IsCache(idemp) /\ Len(idemp) <= IdempMax
<1>1. idemp \in Seq(Entries) /\ DOMAIN idemp = 1 .. Len(idemp)
  BY LenProperties DEF TypeOK
<1> QED BY <1>1 DEF TypeOK, IsCache

\* While nobody holds the mutex nobody is in the middle of a mutation, and while
\* o does, nobody else is.
LEMMA OnlyHolder ==
  ASSUME CtlInv, NEW o \in Operators, mu = None \/ pc[o] # "idle"
  PROVE  /\ \A p \in Operators \ {o} : pc[p] = "idle"
         /\ mu = None => pc[o] = "idle"
         /\ pc[o] # "idle" => mu = o
         /\ None \notin Operators
BY ControlAssumption DEF CtlInv, MutexHeld

\* An answer from the cache, a refusal or a Plan.
LEMMA CallInv ==
  ASSUME CtlInv, mu = None,
         UNCHANGED <<mu, pc, req, cand, seen, snapVars, bound, inboxVars, sessVars, log>>,
         IsCache(idemp'), Len(idemp') <= IdempMax, CacheIsTrue', AnswersTrue'
  PROVE  CtlInv'
<1>1. \A o \in Operators : pc[o] = "idle" /\ pc'[o] = "idle"
  BY OnlyHolder
<1>2. TypeOK'
  <2>1. idemp' \in Seq(Entries) /\ DOMAIN idemp' = 1 .. Len(idemp')
    BY LenProperties DEF IsCache
  <2> QED BY <2>1 DEF CtlInv, TypeOK, IsCache, snapVars, inboxVars, sessVars
<1>3. MutexHeld' /\ Settled' /\ CAInUse'
  BY DEF CtlInv, MutexHeld, Settled, CAInUse, Revision, snapVars, inboxVars
<1>4. ApplyUnderway' /\ ApplyUntouched' /\ ApplyInstalled' /\ ResetUnderway' /\ ResetProgress'
  BY <1>1 DEF ApplyUnderway, ApplyUntouched, ApplyInstalled, ResetUnderway, ResetProgress
<1>5. LogIsHistory'
  BY DEF CtlInv, LogIsHistory, snapVars
<1> QED BY <1>2, <1>3, <1>4, <1>5 DEF CtlInv

\* A step of a proxy session changes nothing that the control plane relies on.
LEMMA SessionInv ==
  ASSUME CtlInv, NEW s \in Sessions, SessionStep(s)
  PROVE  CtlInv'
<1>1. UNCHANGED <<mu, pc, req, cand, seen, answer, active, previous, bootstrap, idemp, bound,
                  caps, epoch, log>>
  BY DEF SessionStep, beginSession, liveEpoch, InsertFlow, ctlVars, snapVars, inboxVars
<1>2. TypeOK
  BY DEF CtlInv
<1>3. TypeOK'
  <2>1. CASE beginSession(s)
    <3>1. active.gen \in Nat
      BY <1>2 DEF TypeOK, Snapshots
    <3>2. exchanges' \in 0 .. MaxExchange
      BY <1>2, <2>1, ControlAssumption DEF TypeOK, beginSession
    <3> QED BY <1>1, <1>2, <2>1, <3>1, <3>2 DEF TypeOK, beginSession, inboxVars
  <2>2. CASE liveEpoch(s)
    BY <1>1, <1>2, <2>2 DEF TypeOK, liveEpoch, inboxVars
  <2>3. CASE InsertFlow(s)
    <3> DEFINE f == [gen |-> snap[s], began |-> began[s]]
    <3>1. f \in [gen : Nat, began : Nat] /\ flows \in Seq([gen : Nat, began : Nat])
          /\ caps.max \in Nat
      BY <1>2, ControlAssumption DEF TypeOK
    <3>2. Append(flows, f) \in Seq([gen : Nat, began : Nat])
      BY <3>1
    <3>3. newest(Append(flows, f), caps.max) \in Seq([gen : Nat, began : Nat])
      BY <3>1, <3>2, NewestType
    <3>4. flows' \in Seq([gen : Nat, began : Nat])
      BY <2>3, <3>1, <3>3 DEF InsertFlow
    <3> QED BY <1>1, <1>2, <2>3, <3>4 DEF TypeOK, InsertFlow
  <2> QED BY <2>1, <2>2, <2>3 DEF SessionStep
<1>4. (mu = None => Settled)'
  BY <1>1 DEF CtlInv, Settled, Revision
<1>5. MutexHeld' /\ CAInUse' /\ ResetUnderway' /\ LogIsHistory' /\ CacheIsTrue' /\ AnswersTrue'
  BY <1>1 DEF CtlInv, MutexHeld, CAInUse, ResetUnderway, LogIsHistory, CacheIsTrue, AnswersTrue,
              Committed
<1>6. ApplyUnderway' /\ ApplyUntouched' /\ ApplyInstalled' /\ ResetProgress'
  BY <1>1 DEF CtlInv, ApplyUnderway, ApplyUntouched, ApplyInstalled, ResetProgress, Settled,
              InForce, Revision, forKey
<1> QED BY <1>3, <1>4, <1>5, <1>6 DEF CtlInv

LEMMA CallableIsRequest ==
  ASSUME TypeOK, NEW r \in Callable
  PROVE  r \in Requests /\ r.key \in Keys \cup {None} /\ r.change \in Changes
<1>1. Revision(active) \in Specs /\ Revision(bootstrap) \in Specs
  BY DEF TypeOK, Snapshots, Revision
<1> QED BY <1>1 DEF Callable, Requests

\* Looking a key up, forgetting it and both keep the cache a cache of true
\* answers.
LEMMA LookupKeeps ==
  ASSUME CtlInv, NEW r, log' = log,
         idemp' = lookup(r) \/ idemp' = without(lookup(r), r.key) \/ idemp' = idemp
  PROVE  IsCache(idemp') /\ Len(idemp') <= IdempMax /\ CacheIsTrue'
<1>1. IsCache(idemp) /\ Len(idemp) <= IdempMax /\ IdempMax \in Nat
  BY CacheTyped, ControlAssumption DEF CtlInv
<1>2. IsCache(lookup(r)) /\ Len(lookup(r)) <= Len(idemp) /\ Range(lookup(r)) \subseteq Range(idemp)
  BY <1>1, LookupProps
<1>3. /\ IsCache(without(lookup(r), r.key)) /\ Len(without(lookup(r), r.key)) <= Len(lookup(r))
      /\ \A e \in Range(without(lookup(r), r.key)) : e \in Range(lookup(r))
  BY <1>2, WithoutProps
<1>4. Len(idemp) \in Nat /\ Len(lookup(r)) \in Nat /\ Len(without(lookup(r), r.key)) \in Nat
  BY <1>1, <1>2, <1>3, LenProperties DEF IsCache
<1>5. IsCache(idemp') /\ Len(idemp') <= IdempMax
  BY <1>1, <1>2, <1>3, <1>4
<1>6. Range(idemp') \subseteq Range(idemp)
  BY <1>2, <1>3
<1> QED BY <1>5, <1>6 DEF CtlInv, CacheIsTrue, Committed

LEMMA PlanCallInv ==
  ASSUME CtlInv, NEW o \in Operators, NEW r \in Callable, PlanCall(o, r)
  PROVE  CtlInv'
<1>1. mu = None /\ log' = log /\ answer' = answer /\ seen' = seen
      /\ UNCHANGED <<mu, pc, req, cand, seen, snapVars, bound, inboxVars, sessVars, log>>
  BY DEF PlanCall, canCall, ctlVars
<1>2. AnswersTrue'
  BY <1>1 DEF CtlInv, AnswersTrue, Committed
<1>3. CASE idemp' = lookup(r) \/ idemp' = without(lookup(r), r.key)
  <2>1. IsCache(idemp') /\ Len(idemp') <= IdempMax /\ CacheIsTrue'
    BY <1>1, <1>3, LookupKeeps
  <2> QED BY <1>1, <1>2, <2>1, CallInv
<1>4. CASE idemp' = storePlan(lookup(r), r)
  <2>1. r.key \in Keys \cup {None} /\ r.change \in Changes
    BY CallableIsRequest DEF CtlInv
  <2>2. IsCache(idemp) /\ Len(idemp) <= IdempMax /\ IdempMax \in Nat
    BY CacheTyped, ControlAssumption DEF CtlInv
  <2>3. IsCache(lookup(r)) /\ Len(lookup(r)) <= Len(idemp) /\ Range(lookup(r)) \subseteq Range(idemp)
    BY <2>2, LookupProps
  <2>4. Len(idemp) \in Nat /\ Len(lookup(r)) \in Nat
    BY <2>2, <2>3, LenProperties DEF IsCache
  <2>5. /\ IsCache(idemp') /\ Len(idemp') <= IdempMax
        /\ \A d \in Range(idemp') : d.applied # 0 =>
             \E e \in Range(lookup(r)) : e.change = d.change /\ e.applied = d.applied
    BY <1>4, <2>1, <2>2, <2>3, <2>4, StorePlanProps
  <2>6. CacheIsTrue'
    <3> SUFFICES ASSUME NEW d \in Range(idemp'), d.applied # 0
                 PROVE  Committed(log', d.change, d.applied)
      BY DEF CacheIsTrue
    <3>1. PICK e \in Range(lookup(r)) : e.change = d.change /\ e.applied = d.applied
      BY <2>5
    <3>2. Committed(log, e.change, e.applied)
      BY <2>3, <3>1 DEF CtlInv, CacheIsTrue
    <3> QED BY <1>1, <3>1, <3>2 DEF Committed
  <2> QED BY <1>1, <1>2, <2>5, <2>6, CallInv
<1> QED BY <1>3, <1>4 DEF PlanCall

\* A replay is true because the cache is.
LEMMA ApplyReplayInv ==
  ASSUME CtlInv, NEW o \in Operators, NEW r \in Callable, ApplyReplay(o, r)
  PROVE  CtlInv'
<1>1. mu = None /\ log' = log /\ idemp' = lookup(r) /\ ~conflicts(r) /\ seen' = seen
      /\ UNCHANGED <<mu, pc, req, cand, seen, snapVars, bound, inboxVars, sessVars, log>>
  BY DEF ApplyReplay, canCall
<1>2. PICK e \in applied(r) : answer' = [answer EXCEPT ![o] = Applied(r.change, e.applied)]
  BY DEF ApplyReplay
<1>3. e \in Range(idemp) /\ e.applied # 0 /\ e.change = r.change
  BY <1>1, <1>2 DEF applied, forKey, conflicts
<1>4. Committed(log, r.change, e.applied)
  BY <1>3 DEF CtlInv, CacheIsTrue
<1>5. AnswersTrue'
  <2>1. Applied(r.change, e.applied).change = r.change /\ Applied(r.change, e.applied).gen = e.applied
    BY DEF Applied
  <2> QED BY <1>1, <1>2, <1>4, <2>1 DEF CtlInv, AnswersTrue, Committed
<1>6. IsCache(idemp') /\ Len(idemp') <= IdempMax /\ CacheIsTrue'
  BY <1>1, LookupKeeps
<1> QED BY <1>1, <1>5, <1>6, CallInv

LEMMA RefusedInv ==
  ASSUME CtlInv, NEW o \in Operators,
         (\E r \in Callable : ApplyRefused(o, r)) \/ ResetRefused(o)
  PROVE  CtlInv'
<1>1. mu = None /\ log' = log /\ answer' = [answer EXCEPT ![o] = Failed] /\ seen' = seen
      /\ UNCHANGED <<mu, pc, req, cand, seen, snapVars, bound, inboxVars, sessVars, log>>
      /\ \/ idemp' = idemp
         \/ \E r \in Callable : idemp' = lookup(r) \/ idemp' = without(lookup(r), r.key)
  BY DEF ApplyRefused, ResetRefused, canCall
<1>2. AnswersTrue'
  BY <1>1 DEF CtlInv, AnswersTrue, Committed, Failed
<1>3. PICK r : idemp' = lookup(r) \/ idemp' = without(lookup(r), r.key) \/ idemp' = idemp
  BY <1>1
<1>4. IsCache(idemp') /\ Len(idemp') <= IdempMax /\ CacheIsTrue'
  BY <1>1, <1>3, LookupKeeps
<1> QED BY <1>1, <1>2, <1>4, CallInv

LEMMA ApplyBeginInv ==
  ASSUME CtlInv, NEW o \in Operators, NEW r \in Callable, ApplyBegin(o, r)
  PROVE  CtlInv'
<1> DEFINE c == compileCandidate(r.change, active)
           step == IF r.change.caps = None THEN "swap" ELSE "stats"
<1>1. /\ mu = None /\ mu' = o /\ pc' = [pc EXCEPT ![o] = step]
      /\ cand' = [cand EXCEPT ![o] = c] /\ seen' = [seen EXCEPT ![o] = InForce]
      /\ req' = [req EXCEPT ![o] = r] /\ idemp' = lookup(r)
      /\ applied(r) = {} /\ ~Stale(r)
      /\ UNCHANGED <<answer, active, previous, bootstrap, bound, caps, epoch, flows, spc, snap, pin,
                     began, exchanges, log>>
  BY DEF ApplyBegin, Begin, canCall, snapVars, inboxVars, sessVars
<1>2. TypeOK /\ Settled /\ CAInUse
  BY <1>1 DEF CtlInv
<1>3. r \in Requests /\ r.change \in Changes
  BY <1>2, CallableIsRequest
<1>4. /\ c \in Snapshots
      /\ c.spec.caps = IF r.change.caps = None THEN active.spec.caps ELSE r.change.caps
  BY <1>2, <1>3, CompiledProps DEF TypeOK, CAInUse
<1>5. step \in {"swap", "stats"} /\ pc[o] = "idle" /\ \A p \in Operators \ {o} : pc[p] = "idle"
  BY <1>1, OnlyHolder
<1>6. IsCache(idemp') /\ Len(idemp') <= IdempMax /\ CacheIsTrue'
  BY <1>1, LookupKeeps
<1>7. DOMAIN pc = Operators /\ DOMAIN req = Operators /\ DOMAIN cand = Operators
      /\ DOMAIN seen = Operators /\ pc \in [Operators -> Steps]
  BY <1>2 DEF TypeOK, CtlInv, AnswersTrue
<1>8. /\ pc' \in [Operators -> Steps] /\ DOMAIN req' = Operators /\ DOMAIN cand' = Operators
      /\ pc'[o] = step /\ cand'[o] = c /\ seen'[o] = InForce /\ req'[o] = r
      /\ \A p \in Operators \ {o} : pc'[p] = "idle"
  BY <1>1, <1>5, <1>7 DEF Steps
<1> HIDE DEF c
<1>9. TypeOK'
  <2>1. idemp' \in Seq(Entries) /\ DOMAIN idemp' = 1 .. Len(idemp')
    BY <1>6, LenProperties DEF IsCache
  <2>2. \A p \in Operators :
          /\ pc'[p] # "idle" => cand'[p] \in Snapshots
          /\ pc'[p] \in {"stats", "caps", "swap"} => req'[p] \in Requests
    BY <1>3, <1>4, <1>8
  <2> QED BY <1>1, <1>2, <1>6, <1>8, <2>1, <2>2 DEF TypeOK, IsCache
<1>10. MutexHeld' /\ CAInUse' /\ mu' # None
  BY <1>1, <1>2, <1>5, <1>8, OnlyHolder DEF MutexHeld, CAInUse
<1>11. ApplyUnderway'
  <2>1. Range(idemp') \subseteq Range(idemp)
    BY <1>1, <1>2, CacheTyped, LookupProps
  <2>2. \A e \in Range(idemp') : e.key = r.key => e.applied = 0
    BY <1>1, <2>1 DEF applied, forKey
  <2>3. r.exp = Revision(active)
    BY <1>1 DEF Stale
  <2> QED BY <1>1, <1>8, <2>2, <2>3 DEF ApplyUnderway, forKey, Revision, c
<1>12. ApplyUntouched'
  BY <1>1, <1>2, <1>8 DEF ApplyUntouched, Settled, InForce, Revision
<1>13. ApplyInstalled'
  BY <1>1, <1>2, <1>4, <1>8 DEF ApplyInstalled, Settled, Revision
<1>14. ResetUnderway' /\ ResetProgress'
  BY <1>5, <1>8 DEF ResetUnderway, ResetProgress
<1>15. LogIsHistory'
  BY <1>1, <1>5, <1>8 DEF CtlInv, LogIsHistory
<1>16. AnswersTrue'
  BY <1>1, <1>7 DEF CtlInv, AnswersTrue, Committed
<1> QED BY <1>6, <1>9, <1>10, <1>11, <1>12, <1>13, <1>14, <1>15, <1>16 DEF CtlInv

\* A mutation that fails before its first effect.
LEMMA AbortInv ==
  ASSUME CtlInv, NEW o \in Operators, pc[o] \in {"stats", "caps", "wipe"}, Finish(o, Failed),
         UNCHANGED <<snapVars, idemp, bound, inboxVars, sessVars, log>>
  PROVE  CtlInv'
<1>1. /\ mu' = None /\ pc' = [pc EXCEPT ![o] = "idle"] /\ req' = [req EXCEPT ![o] = None]
      /\ cand' = [cand EXCEPT ![o] = None] /\ seen' = [seen EXCEPT ![o] = None]
      /\ answer' = [answer EXCEPT ![o] = Failed]
      /\ UNCHANGED <<active, previous, bootstrap, idemp, bound, caps, epoch, flows, spc, snap, pin,
                     began, exchanges, log>>
  BY DEF Finish, snapVars, inboxVars, sessVars
<1>2. TypeOK /\ CAInUse
  BY DEF CtlInv
<1>3. \A p \in Operators \ {o} : pc[p] = "idle"
  BY OnlyHolder
<1>4. DOMAIN pc = Operators /\ pc \in [Operators -> Steps] /\ "idle" \in Steps
      /\ DOMAIN req = Operators /\ DOMAIN cand = Operators
  BY <1>2 DEF TypeOK, Steps
<1>5. /\ pc' \in [Operators -> Steps] /\ \A p \in Operators : pc'[p] = "idle"
  BY <1>1, <1>3, <1>4
<1>6. TypeOK'
  <2>1. \A p \in Operators :
          /\ pc'[p] # "idle" => cand'[p] \in Snapshots
          /\ pc'[p] \in {"stats", "caps", "swap"} => req'[p] \in Requests
    BY <1>5
  <2>2. DOMAIN req' = Operators /\ DOMAIN cand' = Operators
    BY <1>1, <1>4
  <2> QED BY <1>1, <1>2, <1>5, <2>1, <2>2 DEF TypeOK
<1>7. Settled'
  <2>1. Settled
    BY DEF CtlInv, ApplyUntouched, ResetProgress
  <2> QED BY <1>1, <2>1 DEF Settled, Revision
<1>8. MutexHeld' /\ CAInUse'
  BY <1>1, <1>2, <1>5, ControlAssumption DEF MutexHeld, CAInUse
<1>9. ApplyUnderway' /\ ApplyUntouched' /\ ApplyInstalled' /\ ResetUnderway' /\ ResetProgress'
  BY <1>5 DEF ApplyUnderway, ApplyUntouched, ApplyInstalled, ResetUnderway, ResetProgress
<1>10. LogIsHistory' /\ CacheIsTrue'
  <2>1. \A p \in Operators : pc[p] # "commit"
    BY <1>3
  <2> QED BY <1>1, <1>5, <2>1 DEF CtlInv, LogIsHistory, CacheIsTrue, Committed
<1>11. AnswersTrue'
  BY <1>1 DEF CtlInv, AnswersTrue, Committed, Failed
<1> QED BY <1>6, <1>7, <1>8, <1>9, <1>10, <1>11 DEF CtlInv

LEMMA ApplyStatsInv ==
  ASSUME CtlInv, NEW o \in Operators, ApplyStats(o)
  PROVE  CtlInv'
<1>1. CASE refuses(req[o].change.caps, req[o])
  BY <1>1, AbortInv DEF ApplyStats
<1>2. CASE ~refuses(req[o].change.caps, req[o])
  <2>1. /\ pc[o] = "stats" /\ pc' = [pc EXCEPT ![o] = "caps"]
        /\ UNCHANGED <<mu, answer, req, cand, seen, active, previous, bootstrap, idemp, bound,
                       caps, epoch, flows, spc, snap, pin, began, exchanges, log>>
    BY <1>2 DEF ApplyStats, snapVars, inboxVars, sessVars
  <2>2. TypeOK
    BY DEF CtlInv
  <2>3. mu = o /\ \A p \in Operators \ {o} : pc[p] = "idle"
    BY <2>1, OnlyHolder
  <2>4. pc \in [Operators -> Steps] /\ "caps" \in Steps
    BY <2>2 DEF TypeOK, Steps
  <2>5. pc' \in [Operators -> Steps] /\ pc'[o] = "caps" /\ \A p \in Operators \ {o} : pc'[p] = "idle"
    BY <2>1, <2>3, <2>4
  <2>6. TypeOK'
    BY <2>1, <2>2, <2>5 DEF TypeOK
  <2>7. MutexHeld' /\ CAInUse' /\ mu' # None
    BY <2>1, <2>3, <2>5, ControlAssumption DEF CtlInv, MutexHeld, CAInUse
  <2>8. ApplyUnderway'
    BY <2>1, <2>5 DEF CtlInv, ApplyUnderway, forKey, Revision
  <2>9. ApplyUntouched'
    BY <2>1, <2>5 DEF CtlInv, ApplyUntouched, Settled, InForce, Revision
  <2>10. ApplyInstalled' /\ ResetUnderway' /\ ResetProgress'
    BY <2>5 DEF ApplyInstalled, ResetUnderway, ResetProgress
  <2>11. LogIsHistory' /\ CacheIsTrue' /\ AnswersTrue'
    BY <2>1, <2>3, <2>5 DEF CtlInv, LogIsHistory, CacheIsTrue, AnswersTrue, Committed
  <2> QED BY <2>6, <2>7, <2>8, <2>9, <2>10, <2>11 DEF CtlInv
<1> QED BY <1>1, <1>2

\* ReplaceCaps installs the caps the candidate has.
LEMMA ApplyCapsInv ==
  ASSUME CtlInv, NEW o \in Operators, ApplyCaps(o)
  PROVE  CtlInv'
<1>1. CASE refuses(req[o].change.caps, req[o])
  <2>1. inboxVars' = inboxVars
    BY <1>1 DEF ApplyCaps, inboxVars
  <2> QED BY <1>1, <2>1, AbortInv DEF ApplyCaps
<1>2. CASE ~refuses(req[o].change.caps, req[o])
  <2>1. /\ pc[o] = "caps" /\ pc' = [pc EXCEPT ![o] = "swap"]
        /\ caps' = req[o].change.caps /\ flows' = newest(flows, caps'.max)
        /\ UNCHANGED <<mu, answer, req, cand, seen, active, previous, bootstrap, idemp, bound,
                       epoch, spc, snap, pin, began, exchanges, log>>
    BY <1>2 DEF ApplyCaps, snapVars, inboxVars, sessVars
  <2>2. TypeOK /\ CAInUse /\ Settled
    BY <2>1 DEF CtlInv, ApplyUntouched
  <2>3. mu = o /\ \A p \in Operators \ {o} : pc[p] = "idle"
    BY <2>1, OnlyHolder
  <2>4. pc \in [Operators -> Steps] /\ "swap" \in Steps
    BY <2>2 DEF TypeOK, Steps
  <2>5. pc' \in [Operators -> Steps] /\ pc'[o] = "swap" /\ \A p \in Operators \ {o} : pc'[p] = "idle"
    BY <2>1, <2>3, <2>4
  <2>6. req[o] \in Requests /\ req[o].change.caps # None
        /\ cand[o] = compileCandidate(req[o].change, active)
    BY <2>1, <2>2 DEF CtlInv, ApplyUntouched, ApplyUnderway, TypeOK
  <2>7. req[o].change \in Changes /\ req[o].change \in ChangeRecords
    BY <2>6, ControlAssumption DEF Requests
  <2>8. caps' \in CapSet /\ caps'.max \in Nat
    BY <2>1, <2>6, <2>7, ControlAssumption DEF ChangeRecords
  <2>9. flows' \in Seq([gen : Nat, began : Nat])
    BY <2>1, <2>2, <2>8, NewestType DEF TypeOK
  <2>10. caps' = cand[o].spec.caps
    <3>1. active \in Snapshots /\ active.ca.tls = active.spec.tls
      BY <2>2 DEF TypeOK, CAInUse
    <3>2. compileCandidate(req[o].change, active).spec.caps = req[o].change.caps
      BY <2>6, <2>7, <3>1, CompiledProps
    <3> QED BY <2>1, <2>6, <3>2
  <2>11. TypeOK'
    BY <2>1, <2>2, <2>5, <2>8, <2>9 DEF TypeOK
  <2>12. MutexHeld' /\ CAInUse' /\ mu' # None
    BY <2>1, <2>3, <2>5, ControlAssumption DEF CtlInv, MutexHeld, CAInUse
  <2>13. ApplyUnderway'
    BY <2>1, <2>5 DEF CtlInv, ApplyUnderway, forKey, Revision
  <2>14. ApplyInstalled'
    BY <2>1, <2>2, <2>5, <2>10 DEF ApplyInstalled, Settled, Revision
  <2>15. ApplyUntouched' /\ ResetUnderway' /\ ResetProgress'
    BY <2>5 DEF ApplyUntouched, ResetUnderway, ResetProgress
  <2>16. LogIsHistory' /\ CacheIsTrue' /\ AnswersTrue'
    BY <2>1, <2>3, <2>5 DEF CtlInv, LogIsHistory, CacheIsTrue, AnswersTrue, Committed
  <2> QED BY <2>11, <2>12, <2>13, <2>14, <2>15, <2>16 DEF CtlInv
<1> QED BY <1>1, <1>2

\* One more record of the log keeps the earlier ones.
LEMMA LogGrows ==
  ASSUME LogIsHistory, NEW x \in Commits, log' = Append(log, x), x.gen = Len(log) + 1
  PROVE  /\ log' \in Seq(Commits) /\ Len(log') = Len(log) + 1 /\ Len(log) \in Nat
         /\ \A i \in 1 .. Len(log') : log'[i].gen = i
         /\ \A change, gen : Committed(log, change, gen) => Committed(log', change, gen)
         /\ Committed(log', x.change, x.gen)
<1>1. log \in Seq(Commits) /\ Len(log) \in Nat
  BY LenProperties DEF LogIsHistory
<1>2. /\ log' \in Seq(Commits) /\ Len(log') = Len(log) + 1
      /\ \A i \in 1 .. Len(log) : log'[i] = log[i]
      /\ log'[Len(log) + 1] = x
  BY <1>1, AppendProperties
<1>3. \A i \in 1 .. Len(log') : log'[i].gen = i
  BY <1>1, <1>2 DEF LogIsHistory
<1>4. \A change, gen : Committed(log, change, gen) => Committed(log', change, gen)
  BY <1>1, <1>2 DEF Committed
<1>5. Committed(log', x.change, x.gen)
  BY <1>1, <1>2 DEF Committed
<1> QED BY <1>1, <1>2, <1>3, <1>4, <1>5

\* Swap, audit and storeApply: the candidate takes effect and is remembered.
LEMMA ApplySwapInv ==
  ASSUME CtlInv, NEW o \in Operators, ApplySwap(o)
  PROVE  CtlInv'
<1> DEFINE r == req[o]
           c == cand[o]
           x == [key |-> r.key, change |-> r.change, gen |-> c.gen]
<1>1. /\ pc[o] = "swap" /\ active' = c /\ previous' = active
      /\ idemp' = storeApply(idemp, r, c.gen) /\ log' = Append(log, x)
      /\ mu' = None /\ pc' = [pc EXCEPT ![o] = "idle"] /\ req' = [req EXCEPT ![o] = None]
      /\ cand' = [cand EXCEPT ![o] = None] /\ seen' = [seen EXCEPT ![o] = None]
      /\ answer' = [answer EXCEPT ![o] = Applied(r.change, c.gen)]
      /\ UNCHANGED <<bootstrap, bound, caps, epoch, flows, spc, snap, pin, began, exchanges>>
  BY DEF ApplySwap, Swap, Finish, inboxVars, sessVars
<1>2. TypeOK /\ CAInUse /\ LogIsHistory
  BY DEF CtlInv
<1>3. \A p \in Operators \ {o} : pc[p] = "idle"
  BY <1>1, OnlyHolder
<1>4. /\ r \in Requests /\ c = compileCandidate(r.change, active)
      /\ caps = c.spec.caps /\ bound = active.spec.net /\ active.boot = Revision(bootstrap)
  BY <1>1, <1>2 DEF CtlInv, TypeOK, ApplyUnderway, ApplyInstalled
<1>5. r.key \in Keys \cup {None} /\ r.change \in Changes
  BY <1>4 DEF Requests
<1>6. /\ c \in Snapshots /\ c.gen = active.gen + 1 /\ c.boot = active.boot
      /\ c.ca.tls = c.spec.tls /\ c.spec.net = active.spec.net
  BY <1>2, <1>4, <1>5, CompiledProps DEF TypeOK, CAInUse
<1>7. pc \in [Operators -> Steps] /\ "idle" \in Steps
      /\ DOMAIN req = Operators /\ DOMAIN cand = Operators
  BY <1>2 DEF TypeOK, Steps
<1>8. /\ pc' \in [Operators -> Steps] /\ \A p \in Operators : pc'[p] = "idle"
  BY <1>1, <1>3, <1>7
<1>9. Len(log) = active.gen /\ c.gen \in Nat
  BY <1>1, <1>2, <1>3, <1>6 DEF LogIsHistory, Snapshots
<1> HIDE DEF c, r
<1>10. x \in Commits /\ x.gen = Len(log) + 1 /\ x.change = r.change /\ x.gen = c.gen
  BY <1>5, <1>6, <1>9 DEF Commits
<1> HIDE DEF x
<1>11. /\ log' \in Seq(Commits) /\ Len(log') = Len(log) + 1 /\ Len(log) \in Nat
       /\ \A i \in 1 .. Len(log') : log'[i].gen = i
       /\ \A change, gen : Committed(log, change, gen) => Committed(log', change, gen)
       /\ Committed(log', x.change, x.gen)
  BY <1>1, <1>2, <1>10, LogGrows
<1>12. LogIsHistory'
  BY <1>1, <1>6, <1>8, <1>9, <1>11 DEF LogIsHistory
<1>13. /\ IsCache(idemp') /\ Len(idemp') <= IdempMax
       /\ \A d \in Range(idemp') : d \in Range(idemp) \/ (d.change = r.change /\ d.applied = c.gen)
  BY <1>1, <1>2, <1>5, <1>9, CacheTyped, StoreApplyProps
<1>14. CacheIsTrue'
  BY <1>10, <1>11, <1>13 DEF CtlInv, CacheIsTrue
<1>15. AnswersTrue'
  <2>1. Applied(r.change, c.gen).change = r.change /\ Applied(r.change, c.gen).gen = c.gen
    BY DEF Applied
  <2>2. \A p \in Operators \ {o} : answer'[p] = answer[p]
    BY <1>1 DEF CtlInv, AnswersTrue
  <2>3. answer'[o] = Applied(r.change, c.gen) /\ DOMAIN answer' = Operators /\ DOMAIN seen' = Operators
    BY <1>1 DEF CtlInv, AnswersTrue
  <2>4. \A p \in Operators : answer'[p].ok => Committed(log', answer'[p].change, answer'[p].gen)
    BY <1>10, <1>11, <2>1, <2>2, <2>3 DEF CtlInv, AnswersTrue
  <2> QED BY <2>3, <2>4 DEF AnswersTrue
<1>16. TypeOK'
  <2>1. idemp' \in Seq(Entries) /\ DOMAIN idemp' = 1 .. Len(idemp')
    BY <1>13, LenProperties DEF IsCache
  <2>2. DOMAIN req' = Operators /\ DOMAIN cand' = Operators
    BY <1>1, <1>7
  <2> QED BY <1>1, <1>2, <1>6, <1>8, <1>13, <2>1, <2>2 DEF TypeOK, IsCache
<1>17. MutexHeld' /\ CAInUse' /\ Settled'
  BY <1>1, <1>4, <1>6, <1>8, ControlAssumption DEF MutexHeld, CAInUse, Settled, Revision
<1>18. ApplyUnderway' /\ ApplyUntouched' /\ ApplyInstalled' /\ ResetUnderway' /\ ResetProgress'
  BY <1>8 DEF ApplyUnderway, ApplyUntouched, ApplyInstalled, ResetUnderway, ResetProgress
<1> QED BY <1>12, <1>14, <1>15, <1>16, <1>17, <1>18 DEF CtlInv

LEMMA ResetBeginInv ==
  ASSUME CtlInv, NEW o \in Operators, NEW doc \in Files, ResetBegin(o, doc)
  PROVE  CtlInv'
<1> DEFINE c == bootstrapCandidate(doc, active.gen + 1)
<1>1. /\ mu = None /\ mu' = o /\ pc' = [pc EXCEPT ![o] = "wipe"]
      /\ cand' = [cand EXCEPT ![o] = c] /\ seen' = [seen EXCEPT ![o] = InForce]
      /\ UNCHANGED <<req, answer, active, previous, bootstrap, idemp, bound, caps, epoch, flows,
                     spc, snap, pin, began, exchanges, log>>
  BY DEF ResetBegin, Begin, canCall, snapVars, inboxVars, sessVars
<1>2. TypeOK /\ Settled /\ active.gen \in Nat
  BY <1>1 DEF CtlInv, TypeOK, Snapshots
<1>3. /\ c \in Snapshots /\ c.gen = active.gen + 1 /\ c.boot = c.spec /\ c.ca.tls = c.spec.tls
  BY <1>2, BootstrapProps
<1>4. pc[o] = "idle" /\ \A p \in Operators \ {o} : pc[p] = "idle"
  BY <1>1, OnlyHolder
<1>5. pc \in [Operators -> Steps] /\ "wipe" \in Steps /\ DOMAIN cand = Operators
      /\ DOMAIN seen = Operators
  BY <1>2 DEF TypeOK, Steps, CtlInv, AnswersTrue
<1>6. /\ pc' \in [Operators -> Steps] /\ DOMAIN cand' = Operators /\ DOMAIN seen' = Operators
      /\ pc'[o] = "wipe" /\ cand'[o] = c /\ seen'[o] = InForce
      /\ \A p \in Operators \ {o} : pc'[p] = "idle"
  BY <1>1, <1>4, <1>5
<1> HIDE DEF c
<1>7. TypeOK'
  BY <1>1, <1>2, <1>3, <1>6 DEF TypeOK
<1>8. MutexHeld' /\ CAInUse' /\ mu' # None
  BY <1>1, <1>6, ControlAssumption DEF CtlInv, MutexHeld, CAInUse
<1>9. ApplyUnderway' /\ ApplyUntouched' /\ ApplyInstalled'
  BY <1>6 DEF ApplyUnderway, ApplyUntouched, ApplyInstalled
<1>10. ResetUnderway'
  BY <1>3, <1>6 DEF ResetUnderway
<1>11. ResetProgress'
  BY <1>1, <1>2, <1>3, <1>6 DEF ResetProgress, Settled, InForce, Revision
<1>12. LogIsHistory' /\ CacheIsTrue' /\ AnswersTrue'
  BY <1>1, <1>4, <1>6 DEF CtlInv, LogIsHistory, CacheIsTrue, AnswersTrue
<1> QED BY <1>7, <1>8, <1>9, <1>10, <1>11, <1>12 DEF CtlInv

\* ResetTo: the inbox is wiped under the candidate's caps.
LEMMA ResetWipeInv ==
  ASSUME CtlInv, NEW o \in Operators, ResetWipe(o)
  PROVE  CtlInv'
<1>1. /\ pc[o] = "wipe" /\ pc' = [pc EXCEPT ![o] = "resetswap"]
      /\ caps' = cand[o].spec.caps /\ flows' = <<>> /\ epoch' = epoch + 1
      /\ UNCHANGED <<mu, req, cand, seen, answer, active, previous, bootstrap, idemp, bound,
                     spc, snap, pin, began, exchanges, log>>
  BY DEF ResetWipe, WipeInbox, snapVars, sessVars
<1>2. TypeOK
  BY DEF CtlInv
<1>3. mu = o /\ \A p \in Operators \ {o} : pc[p] = "idle"
  BY <1>1, OnlyHolder
<1>4. pc \in [Operators -> Steps] /\ "resetswap" \in Steps /\ cand[o] \in Snapshots
  BY <1>1, <1>2 DEF TypeOK, Steps
<1>5. /\ pc' \in [Operators -> Steps] /\ pc'[o] = "resetswap"
      /\ \A p \in Operators \ {o} : pc'[p] = "idle"
  BY <1>1, <1>3, <1>4
<1>6. caps' \in CapSet /\ epoch' \in Nat /\ flows' \in Seq([gen : Nat, began : Nat])
  BY <1>1, <1>2, <1>4 DEF TypeOK, Snapshots, Specs
<1>7. TypeOK'
  BY <1>1, <1>2, <1>4, <1>5, <1>6 DEF TypeOK
<1>8. MutexHeld' /\ CAInUse' /\ mu' # None
  BY <1>1, <1>3, <1>5, ControlAssumption DEF CtlInv, MutexHeld, CAInUse
<1>9. ApplyUnderway' /\ ApplyUntouched' /\ ApplyInstalled'
  BY <1>5 DEF ApplyUnderway, ApplyUntouched, ApplyInstalled
<1>10. ResetUnderway'
  BY <1>1, <1>5 DEF CtlInv, ResetUnderway
<1>11. ResetProgress'
  BY <1>1, <1>5 DEF CtlInv, ResetProgress
<1>12. LogIsHistory' /\ CacheIsTrue' /\ AnswersTrue'
  BY <1>1, <1>3, <1>5 DEF CtlInv, LogIsHistory, CacheIsTrue, AnswersTrue
<1> QED BY <1>7, <1>8, <1>9, <1>10, <1>11, <1>12 DEF CtlInv

LEMMA ResetSwapInv ==
  ASSUME CtlInv, NEW o \in Operators, ResetSwap(o)
  PROVE  CtlInv'
<1>1. /\ pc[o] = "resetswap" /\ pc' = [pc EXCEPT ![o] = "commit"]
      /\ active' = cand[o] /\ previous' = active
      /\ UNCHANGED <<mu, req, cand, seen, answer, bootstrap, idemp, bound, caps, epoch, flows,
                     spc, snap, pin, began, exchanges, log>>
  BY DEF ResetSwap, Swap, inboxVars, sessVars
<1>2. TypeOK
  BY DEF CtlInv
<1>3. mu = o /\ \A p \in Operators \ {o} : pc[p] = "idle"
  BY <1>1, OnlyHolder
<1>4. pc \in [Operators -> Steps] /\ "commit" \in Steps /\ cand[o] \in Snapshots
  BY <1>1, <1>2 DEF TypeOK, Steps
<1>5. /\ pc' \in [Operators -> Steps] /\ pc'[o] = "commit"
      /\ \A p \in Operators \ {o} : pc'[p] = "idle"
  BY <1>1, <1>3, <1>4
<1>6. cand[o].gen = active.gen + 1 /\ cand[o].ca.tls = cand[o].spec.tls /\ caps = cand[o].spec.caps
  BY <1>1 DEF CtlInv, ResetProgress, ResetUnderway
<1>7. TypeOK'
  BY <1>1, <1>2, <1>4, <1>5 DEF TypeOK
<1>8. MutexHeld' /\ CAInUse' /\ mu' # None
  BY <1>1, <1>3, <1>5, <1>6, ControlAssumption DEF CtlInv, MutexHeld, CAInUse
<1>9. ApplyUnderway' /\ ApplyUntouched' /\ ApplyInstalled'
  BY <1>5 DEF ApplyUnderway, ApplyUntouched, ApplyInstalled
<1>10. ResetUnderway'
  BY <1>1, <1>5 DEF CtlInv, ResetUnderway
<1>11. ResetProgress'
  BY <1>1, <1>5, <1>6 DEF ResetProgress
<1>12. LogIsHistory'
  BY <1>1, <1>3, <1>5, <1>6 DEF CtlInv, LogIsHistory
<1>13. CacheIsTrue' /\ AnswersTrue'
  BY <1>1 DEF CtlInv, CacheIsTrue, AnswersTrue
<1> QED BY <1>7, <1>8, <1>9, <1>10, <1>11, <1>12, <1>13 DEF CtlInv

\* SetBootstrap, commit of the runtime, audit: the process is settled again.
LEMMA ResetCommitInv ==
  ASSUME CtlInv, NEW o \in Operators, ResetCommit(o)
  PROVE  CtlInv'
<1> DEFINE c == cand[o]
           x == [key |-> None, change |-> None, gen |-> c.gen]
<1>1. /\ pc[o] = "commit" /\ bootstrap' = c /\ bound' = c.spec.net /\ idemp' = <<>>
      /\ log' = Append(log, x)
      /\ mu' = None /\ pc' = [pc EXCEPT ![o] = "idle"] /\ req' = [req EXCEPT ![o] = None]
      /\ cand' = [cand EXCEPT ![o] = None] /\ seen' = [seen EXCEPT ![o] = None]
      /\ answer' = [answer EXCEPT ![o] = Applied(None, c.gen)]
      /\ UNCHANGED <<active, previous, caps, epoch, flows, spc, snap, pin, began, exchanges>>
  BY DEF ResetCommit, Finish, inboxVars, sessVars
<1>2. TypeOK /\ CAInUse /\ LogIsHistory
  BY DEF CtlInv
<1>3. \A p \in Operators \ {o} : pc[p] = "idle"
  BY <1>1, OnlyHolder
<1>4. c \in Snapshots /\ active = c /\ caps = c.spec.caps /\ c.boot = c.spec
      /\ Len(log) + 1 = c.gen
  BY <1>1, <1>2 DEF CtlInv, TypeOK, ResetUnderway, ResetProgress, LogIsHistory
<1>5. pc \in [Operators -> Steps] /\ "idle" \in Steps
      /\ DOMAIN req = Operators /\ DOMAIN cand = Operators
  BY <1>2 DEF TypeOK, Steps
<1>6. /\ pc' \in [Operators -> Steps] /\ \A p \in Operators : pc'[p] = "idle"
  BY <1>1, <1>3, <1>5
<1> HIDE DEF c
<1>7. x \in Commits /\ x.gen = Len(log) + 1 /\ x.change = None /\ x.gen = c.gen
  BY <1>4 DEF Commits, Snapshots
<1> HIDE DEF x
<1>8. /\ log' \in Seq(Commits) /\ Len(log') = Len(log) + 1 /\ Len(log) \in Nat
      /\ \A i \in 1 .. Len(log') : log'[i].gen = i
      /\ \A change, gen : Committed(log, change, gen) => Committed(log', change, gen)
      /\ Committed(log', x.change, x.gen)
  BY <1>1, <1>2, <1>7, LogGrows
<1>9. LogIsHistory'
  BY <1>1, <1>4, <1>6, <1>8 DEF LogIsHistory
<1>10. CacheIsTrue'
  BY <1>1 DEF CacheIsTrue, Range
<1>11. AnswersTrue'
  <2>1. Applied(None, c.gen).change = None /\ Applied(None, c.gen).gen = c.gen
    BY DEF Applied
  <2>2. \A p \in Operators \ {o} : answer'[p] = answer[p]
    BY <1>1 DEF CtlInv, AnswersTrue
  <2>3. answer'[o] = Applied(None, c.gen) /\ DOMAIN answer' = Operators /\ DOMAIN seen' = Operators
    BY <1>1 DEF CtlInv, AnswersTrue
  <2>4. \A p \in Operators : answer'[p].ok => Committed(log', answer'[p].change, answer'[p].gen)
    BY <1>7, <1>8, <2>1, <2>2, <2>3 DEF CtlInv, AnswersTrue
  <2> QED BY <2>3, <2>4 DEF AnswersTrue
<1>12. TypeOK'
  <2>1. idemp' \in Seq(Entries) /\ Len(idemp') <= IdempMax /\ DOMAIN idemp' = {}
    BY <1>1, ControlAssumption
  <2>2. bound' \in Nets
    BY <1>1, <1>4 DEF Snapshots, Specs
  <2>3. DOMAIN req' = Operators /\ DOMAIN cand' = Operators
    BY <1>1, <1>5
  <2> QED BY <1>1, <1>2, <1>4, <1>6, <2>1, <2>2, <2>3 DEF TypeOK
<1>13. MutexHeld' /\ CAInUse' /\ Settled'
  BY <1>1, <1>2, <1>4, <1>6, ControlAssumption DEF MutexHeld, CAInUse, Settled, Revision
<1>14. ApplyUnderway' /\ ApplyUntouched' /\ ApplyInstalled' /\ ResetUnderway' /\ ResetProgress'
  BY <1>6 DEF ApplyUnderway, ApplyUntouched, ApplyInstalled, ResetUnderway, ResetProgress
<1> QED BY <1>9, <1>10, <1>11, <1>12, <1>13, <1>14 DEF CtlInv

LEMMA InitCtl ==
  ASSUME Init
  PROVE  CtlInv
<1>1. PICK doc \in Files : active = bootstrapCandidate(doc, 0)
  BY DEF Init
<1>2. /\ active \in Snapshots /\ active.gen = 0 /\ active.boot = doc /\ active.spec = doc
      /\ active.ca.tls = active.spec.tls
  BY <1>1, BootstrapProps
<1>3. doc \in Specs
  BY ControlAssumption
<1>4. TypeOK
  BY <1>2, <1>3, ControlAssumption DEF Init, TypeOK, Steps, Specs
<1>5. MutexHeld /\ Settled /\ CAInUse
  BY <1>2, ControlAssumption DEF Init, MutexHeld, Settled, CAInUse, Revision
<1>6. ApplyUnderway /\ ApplyUntouched /\ ApplyInstalled /\ ResetUnderway /\ ResetProgress
  BY DEF Init, ApplyUnderway, ApplyUntouched, ApplyInstalled, ResetUnderway, ResetProgress
<1>7. LogIsHistory /\ CacheIsTrue /\ AnswersTrue
  BY <1>2 DEF Init, LogIsHistory, CacheIsTrue, AnswersTrue, Failed, Range
<1> QED BY <1>4, <1>5, <1>6, <1>7 DEF CtlInv

LEMMA NextCtl ==
  ASSUME CtlInv, [Next]_vars
  PROVE  CtlInv'
<1>1. ASSUME NEW o \in Operators, NEW r \in Callable, PlanCall(o, r) PROVE CtlInv'
  BY <1>1, PlanCallInv
<1>2. ASSUME NEW o \in Operators, NEW r \in Callable, ApplyReplay(o, r) PROVE CtlInv'
  BY <1>2, ApplyReplayInv
<1>3. ASSUME NEW o \in Operators, NEW r \in Callable, ApplyBegin(o, r) PROVE CtlInv'
  BY <1>3, ApplyBeginInv
<1>4. ASSUME NEW o \in Operators, (\E r \in Callable : ApplyRefused(o, r)) \/ ResetRefused(o)
      PROVE  CtlInv'
  BY <1>4, RefusedInv
<1>5. ASSUME NEW o \in Operators, ApplyStats(o) \/ ApplyCaps(o) \/ ApplySwap(o) PROVE CtlInv'
  BY <1>5, ApplyStatsInv, ApplyCapsInv, ApplySwapInv
<1>6. ASSUME NEW o \in Operators, NEW doc \in Files, ResetBegin(o, doc) PROVE CtlInv'
  BY <1>6, ResetBeginInv
<1>7. ASSUME NEW o \in Operators, ResetCheck(o) PROVE CtlInv'
  BY <1>7, AbortInv DEF ResetCheck
<1>8. ASSUME NEW o \in Operators, ResetWipe(o) \/ ResetSwap(o) \/ ResetCommit(o) PROVE CtlInv'
  BY <1>8, ResetWipeInv, ResetSwapInv, ResetCommitInv
<1>9. ASSUME NEW s \in Sessions, SessionStep(s) PROVE CtlInv'
  BY <1>9, SessionInv
<1>10. CASE UNCHANGED vars
  <2>1. UNCHANGED <<mu, pc, req, cand, seen, answer, active, previous, bootstrap, idemp, bound,
                    caps, epoch, flows, spc, snap, pin, began, exchanges, log>>
    BY <1>10 DEF vars, ctlVars, snapVars, inboxVars, sessVars
  <2>2. TypeOK' /\ (mu = None => Settled)'
    BY <2>1 DEF CtlInv, TypeOK, Settled, Revision
  <2>3. MutexHeld' /\ CAInUse' /\ ResetUnderway' /\ LogIsHistory' /\ CacheIsTrue' /\ AnswersTrue'
    BY <2>1 DEF CtlInv, MutexHeld, CAInUse, ResetUnderway, LogIsHistory, CacheIsTrue, AnswersTrue
  <2>4. ApplyUnderway' /\ ApplyUntouched' /\ ApplyInstalled' /\ ResetProgress'
    BY <2>1 DEF CtlInv, ApplyUnderway, ApplyUntouched, ApplyInstalled, ResetProgress, Settled,
                InForce, Revision, forKey
  <2> QED BY <2>2, <2>3, <2>4 DEF CtlInv
<1> QED BY <1>1, <1>2, <1>3, <1>4, <1>5, <1>6, <1>7, <1>8, <1>9, <1>10
        DEF Next, ControlStep

\* The inductive invariant holds always.
THEOREM ControlInvariant == Spec => []CtlInv
<1>1. Init => CtlInv
  BY InitCtl
<1>2. CtlInv /\ [Next]_vars => CtlInv'
  BY NextCtl
<1> QED BY <1>1, <1>2, PTL DEF Spec

-----------------------------------------------------------------------------
(* The properties                                                          *)

\* Between mutations the process runs what its active snapshot says, and the CA
\* in use is the one its TLS part asks for (checkStoreCaps, ResetTo and commit
\* around Swap; compileCA).
THEOREM RuntimeFollows == Spec => []RuntimeMatchesConfig
<1>1. CtlInv => RuntimeMatchesConfig
  BY DEF CtlInv, RuntimeMatchesConfig, Settled, CAInUse
<1> QED BY <1>1, ControlInvariant, PTL

\* What an operator is told, at first or from the cache, was committed as the
\* generation it is told (lookup, storeApply after Swap and audit).
THEOREM AnswersHold == Spec => []AnswerIsCommitted
<1>1. CtlInv => AnswerIsCommitted
  <2> SUFFICES ASSUME CtlInv, NEW o \in Operators, answer[o].ok
               PROVE  /\ answer[o].gen \in DOMAIN log
                      /\ log[answer[o].gen].gen = answer[o].gen
                      /\ log[answer[o].gen].change = answer[o].change
    BY DEF AnswerIsCommitted
  <2>1. Committed(log, answer[o].change, answer[o].gen) /\ DOMAIN log = 1 .. Len(log)
    BY LenProperties DEF CtlInv, AnswersTrue, LogIsHistory
  <2> QED BY <2>1 DEF CtlInv, LogIsHistory, Committed
<1> QED BY <1>1, ControlInvariant, PTL

\* Only the two calls of Swap change the active snapshot, and only the last step
\* of a mutation gives the mutex back.
LEMMA StepKinds ==
  ASSUME CtlInv, Next
  PROVE  /\ active' # active => \E o \in Operators : ApplySwap(o) \/ ResetSwap(o)
         /\ (mu # None /\ mu' = None) =>
              \E o \in Operators :
                 \/ /\ pc[o] \in {"stats", "caps", "wipe"} /\ Finish(o, Failed)
                    /\ active' = active /\ caps' = caps /\ epoch' = epoch /\ bound' = bound
                 \/ ApplySwap(o) \/ ResetCommit(o)
<1> DEFINE A == active' # active => \E o \in Operators : ApplySwap(o) \/ ResetSwap(o)
           B == (mu # None /\ mu' = None) =>
                  \E o \in Operators :
                     \/ /\ pc[o] \in {"stats", "caps", "wipe"} /\ Finish(o, Failed)
                        /\ active' = active /\ caps' = caps /\ epoch' = epoch /\ bound' = bound
                     \/ ApplySwap(o) \/ ResetCommit(o)
<1>0. None \notin Operators
  BY ControlAssumption
<1>1. ASSUME NEW o \in Operators, NEW r \in Callable,
             PlanCall(o, r) \/ ApplyReplay(o, r) \/ ApplyRefused(o, r) \/ ApplyBegin(o, r)
      PROVE  A /\ B
  BY <1>0, <1>1 DEF PlanCall, ApplyReplay, ApplyRefused, ApplyBegin, canCall, snapVars, ctlVars
<1>2. ASSUME NEW o \in Operators, ApplyStats(o) PROVE A /\ B
  BY <1>2 DEF ApplyStats, snapVars, inboxVars
<1>3. ASSUME NEW o \in Operators, ApplyCaps(o) PROVE A /\ B
  BY <1>3 DEF ApplyCaps, snapVars
<1>4. ASSUME NEW o \in Operators, ApplySwap(o) PROVE A /\ B
  BY <1>4
<1>5. ASSUME NEW o \in Operators, NEW doc \in Files, ResetRefused(o) \/ ResetBegin(o, doc)
      PROVE  A /\ B
  BY <1>0, <1>5 DEF ResetRefused, ResetBegin, canCall, snapVars
<1>6. ASSUME NEW o \in Operators, ResetCheck(o) PROVE A /\ B
  BY <1>6 DEF ResetCheck, snapVars, inboxVars
<1>7. ASSUME NEW o \in Operators, ResetWipe(o) PROVE A /\ B
  BY <1>7 DEF ResetWipe, snapVars
<1>8. ASSUME NEW o \in Operators, ResetSwap(o) PROVE A /\ B
  BY <1>8 DEF ResetSwap
<1>9. ASSUME NEW o \in Operators, ResetCommit(o) PROVE A /\ B
  BY <1>9 DEF ResetCommit
<1>10. ASSUME NEW s \in Sessions, SessionStep(s) PROVE A /\ B
  BY <1>10 DEF SessionStep, beginSession, liveEpoch, InsertFlow, snapVars, ctlVars
<1>11. Files # {}
  BY ControlAssumption
<1> HIDE DEF A, B
<1>12. A /\ B
  BY <1>1, <1>2, <1>3, <1>4, <1>5, <1>6, <1>7, <1>8, <1>9, <1>10, <1>11 DEF Next, ControlStep
<1> QED BY <1>12 DEF A, B

\* A snapshot replaces only the one it was built from, under the revision its
\* author expected (buildCandidate, Swap).
THEOREM UpdatesKept == Spec => NoLostUpdate
<1> DEFINE P == active' # active =>
                  /\ active'.gen = active.gen + 1
                  /\ previous' = active
                  /\ \A o \in Operators :
                       (pc[o] = "swap" /\ pc'[o] = "idle") => req[o].exp = Revision(active)
<1>1. CtlInv /\ [Next]_vars => [P]_vars
  <2> SUFFICES ASSUME CtlInv, Next, active' # active PROVE P
    BY DEF vars, snapVars
  <2>1. PICK o \in Operators : ApplySwap(o) \/ ResetSwap(o)
    BY StepKinds
  <2>2. active' = cand[o] /\ previous' = active
    BY <2>1 DEF ApplySwap, ResetSwap, Swap
  <2>3. cand[o].gen = active.gen + 1
    <3>1. CASE ApplySwap(o)
      <4>1. cand[o] = compileCandidate(req[o].change, active)
        BY <3>1 DEF CtlInv, ApplyUnderway, ApplySwap
      <4> QED BY <4>1 DEF compileCandidate
    <3>2. CASE ResetSwap(o)
      BY <3>2 DEF CtlInv, ResetProgress, ResetSwap
    <3> QED BY <2>1, <3>1, <3>2
  <2>4. \A q \in Operators : pc[q] = "swap" => req[q].exp = Revision(active)
    BY DEF CtlInv, ApplyUnderway
  <2> QED BY <2>2, <2>3, <2>4
<1> QED BY <1>1, ControlInvariant, PTL DEF Spec, NoLostUpdate

\* A mutation that fails leaves configuration, caps, epoch and listeners as it
\* found them, wherever it failed (checkStoreCaps, CheckOptions before ResetTo).
THEOREM FailuresArePure == Spec => FailedChangeIsPure
<1> DEFINE P == \A o \in Operators :
                  mu = o /\ mu' = None /\ ~answer'[o].ok =>
                    /\ active' = seen[o].active /\ caps' = seen[o].caps
                    /\ epoch' = seen[o].epoch /\ bound' = seen[o].bound
<1>1. CtlInv /\ [Next]_vars => [P]_vars
  <2> SUFFICES ASSUME CtlInv, [Next]_vars, NEW o \in Operators, mu = o, mu' = None, ~answer'[o].ok
               PROVE  /\ active' = seen[o].active /\ caps' = seen[o].caps
                      /\ epoch' = seen[o].epoch /\ bound' = seen[o].bound
    BY DEF vars
  <2>1. mu # None /\ Next
    BY ControlAssumption DEF vars, ctlVars
  <2>2. PICK p \in Operators :
           \/ /\ pc[p] \in {"stats", "caps", "wipe"} /\ Finish(p, Failed)
              /\ active' = active /\ caps' = caps /\ epoch' = epoch /\ bound' = bound
           \/ ApplySwap(p) \/ ResetCommit(p)
    BY <2>1, StepKinds
  <2>3. p = o
    BY <2>2 DEF CtlInv, MutexHeld, ApplySwap, ResetCommit
  <2>4. ~ApplySwap(o) /\ ~ResetCommit(o)
    <3>1. DOMAIN answer = Operators
      BY DEF CtlInv, AnswersTrue
    <3> QED BY <3>1 DEF ApplySwap, ResetCommit, Finish, Applied
  <2>5. seen[o] = InForce
    BY <2>2, <2>3, <2>4 DEF CtlInv, ApplyUntouched, ResetProgress
  <2> QED BY <2>2, <2>3, <2>4, <2>5 DEF InForce
<1> QED BY <1>1, ControlInvariant, PTL DEF Spec, FailedChangeIsPure

\* An Apply that commits under a key finds no commit of that key remembered
\* (applyLocked, lookup).
THEOREM KeysCommitOnce == Spec => SameKeySwapsOnce
<1> DEFINE P == \A o \in Operators :
                  pc[o] = "swap" /\ pc'[o] = "idle" =>
                    \A e \in forKey(req[o].key) : e.applied = 0
<1>1. CtlInv /\ [Next]_vars => [P]_vars
  BY DEF CtlInv, ApplyUnderway
<1> QED BY <1>1, ControlInvariant, PTL DEF Spec, SameKeySwapsOnce

=============================================================================
