--------------------------- MODULE FlowStoreProofs ---------------------------
(***************************************************************************)
(* Proofs about the flow store and the breakpoint hop above it, for every  *)
(* number of clients, hops and races, every set of caps and sizes, and     *)
(* every bound.                                                            *)
(*                                                                         *)
(* The store (FlowStore).  The inductive invariant Inv adds to the         *)
(* properties only that a prepared insert owns its id and that a channel   *)
(* lives no longer than the call that made it.                             *)
(*                                                                         *)
(* The store implements the abstract BreakpointCell as long as nobody      *)
(* pauses a row a second time (only tests call Pause): the map of waiters, *)
(* the channels and the stored results amount to one broadcast per row.    *)
(* CellInv adds to the store's inductive invariant that a verdict on a     *)
(* channel and the stored one are the same verdict.                        *)
(*                                                                         *)
(* A hop that went on agrees with its row (waitBreakpoint).  HopInv adds   *)
(* who owns a row, and that a row, its stored result, its channels and the *)
(* operator's acknowledgement tell one story.                              *)
(***************************************************************************)
EXTENDS BreakpointHop, IndexLemmas

-----------------------------------------------------------------------------
(* The store.                                                              *)

\* A channel is made for one call of WaitPaused and dies with it.
FreshChannel ==
  \A c \in Clients : pc[c] # "wait" => chan[c] = None

Inv ==
  /\ TypeOK
  /\ OrderIsIndex
  /\ PreparedFresh
  /\ EpochFence
  /\ NoLostWaiter
  /\ RegisteredWait
  /\ FreshChannel

-----------------------------------------------------------------------------
(* Arithmetic of the byte counter.                                         *)

\* The recursive function in RunDown exists and yields natural numbers: the
\* byte counter saturates at zero instead of going negative (removeLocked).
LEMMA RunDownNat ==
  ASSUME NEW b \in Nat, NEW w \in Seq(Nat)
  PROVE  /\ RunDown(b, w) \in [0 .. Len(w) -> Nat]
         /\ RunDown(b, w)[0] = b
         /\ \A k \in 1 .. Len(w) : RunDown(b, w)[k] = Sub(RunDown(b, w)[k-1], w[k])
<1> DEFINE n == Len(w)
           Ok(h, m) == h = [k \in 0 .. m |-> IF k = 0 THEN b ELSE Sub(h[k-1], w[k])]
           S == {m \in Nat : m <= n => \E h \in [0 .. m -> Nat] : Ok(h, m)}
<1>0. n \in Nat /\ \A k \in 1 .. n : w[k] \in Nat
  BY LenProperties
<1>w. RunDown(b, w) = CHOOSE h : Ok(h, n)
  BY DEF RunDown
<1> HIDE DEF Ok, n
<1>1. 0 \in S
  <2> DEFINE h == [k \in 0 .. 0 |-> b]
  <2>1. h \in [0 .. 0 -> Nat] /\ Ok(h, 0)
    BY DEF Ok
  <2> QED BY <2>1
<1>2. ASSUME NEW m \in Nat, m \in S PROVE m + 1 \in S
  <2> SUFFICES ASSUME m + 1 <= n PROVE \E h \in [0 .. m+1 -> Nat] : Ok(h, m+1)
    BY DEF S
  <2>0. \E h \in [0 .. m -> Nat] : Ok(h, m)
    BY SMTT(40), <1>0, <1>2 DEF S
  <2>1. PICK h \in [0 .. m -> Nat] : Ok(h, m)
    BY <2>0
  <2> DEFINE hh == [k \in 0 .. m+1 |-> IF k = m+1 THEN Sub(h[m], w[m+1]) ELSE h[k]]
  <2>2. hh \in [0 .. m+1 -> Nat]
    BY <1>0 DEF Sub
  <2>3. \A k \in 0 .. m : h[k] = IF k = 0 THEN b ELSE Sub(h[k-1], w[k])
    BY <2>1 DEF Ok
  <2>4. ASSUME NEW k \in 0 .. m+1
        PROVE  hh[k] = IF k = 0 THEN b ELSE Sub(hh[k-1], w[k])
    <3>1. CASE k = m + 1
      BY <3>1
    <3>2. CASE k # m + 1
      <4>1. k \in 0 .. m /\ hh[k] = h[k] /\ (k # 0 => hh[k-1] = h[k-1])
        BY <3>2
      <4> QED BY <2>3, <4>1
    <3> QED BY <3>1, <3>2
  <2> HIDE DEF hh
  <2>5. Ok(hh, m+1)
    BY <2>2, <2>4 DEF Ok
  <2> QED BY <2>2, <2>5
<1>3. n \in S
  <2> HIDE DEF S
  <2> QED BY <1>0, <1>1, <1>2, SetInduction
<1>4. \E h : Ok(h, n)
  BY <1>0, <1>3 DEF S
<1> DEFINE r == RunDown(b, w)
<1>5. Ok(r, n)
  BY <1>4, <1>w
<1> HIDE DEF r
<1>6. \A k \in 0 .. n : r[k] = IF k = 0 THEN b ELSE Sub(r[k-1], w[k])
  BY <1>5 DEF Ok
<1>7. r = [k \in 0 .. n |-> r[k]]
  BY <1>5 DEF Ok
<1> DEFINE P == {m \in Nat : m <= n => r[m] \in Nat}
<1>8. 0 \in P
  BY <1>0, <1>6
<1>9. ASSUME NEW m \in Nat, m \in P PROVE m + 1 \in P
  <2> SUFFICES ASSUME m + 1 <= n PROVE r[m + 1] \in Nat
    OBVIOUS
  <2>1. r[m] \in Nat /\ w[m + 1] \in Nat /\ r[m + 1] = Sub(r[m], w[m + 1])
    BY <1>0, <1>6, <1>9
  <2> QED BY <2>1 DEF Sub
<1>10. Nat \subseteq P
  <2> HIDE DEF P
  <2> QED BY <1>8, <1>9, SetInduction
<1>11. \A k \in 0 .. n : r[k] \in Nat
  BY <1>0, <1>10
<1>12. r \in [0 .. n -> Nat]
  BY <1>7, <1>11
<1>13. r[0] = b
  BY <1>0, <1>6
<1>14. \A k \in 1 .. n : r[k] = Sub(r[k-1], w[k])
  BY <1>0, <1>6
<1> QED BY <1>12, <1>13, <1>14 DEF r, n

\* The byte counter after evicting any prefix of a list of resident rows.
LEMMA BytesLeftNat ==
  ASSUME bytes \in Nat, rows \in [DOMAIN rows -> Records], NEW s \in Seq(DOMAIN rows),
         NEW k \in 0 .. Len(s)
  PROVE  /\ BytesLeft(s)[k] \in Nat
         /\ BytesLeft(s)[0] = bytes
         /\ k # 0 => BytesLeft(s)[k] = Sub(BytesLeft(s)[k-1], rows[s[k]].resident)
<1> DEFINE w == [j \in 1 .. Len(s) |-> rows[s[j]].resident]
<1>1. Len(s) \in Nat /\ \A j \in 1 .. Len(s) : s[j] \in DOMAIN rows
  BY LenProperties
<1>2. \A j \in 1 .. Len(s) : rows[s[j]].resident \in Nat
  BY <1>1 DEF Records
<1>3. w \in Seq(Nat) /\ Len(w) = Len(s)
  BY <1>1, <1>2
<1>4. \A j \in 1 .. Len(s) : w[j] = rows[s[j]].resident
  OBVIOUS
<1>5. BytesLeft(s) = RunDown(bytes, w)
  BY DEF BytesLeft
<1> HIDE DEF w
<1>6. /\ RunDown(bytes, w) \in [0 .. Len(w) -> Nat]
      /\ RunDown(bytes, w)[0] = bytes
      /\ \A j \in 1 .. Len(w) : RunDown(bytes, w)[j] = Sub(RunDown(bytes, w)[j-1], w[j])
  BY <1>3, RunDownNat
<1>7. k # 0 => k \in 1 .. Len(s)
  BY <1>1
<1> QED BY <1>3, <1>4, <1>5, <1>6, <1>7

-----------------------------------------------------------------------------
(* The eviction order.                                                     *)

\* Injectivity and range of a sequence in the vocabulary of IndexLemmas.
LEMMA IndexVocabulary ==
  ASSUME NEW T, NEW s \in Seq(T)
  PROVE  /\ IsInjective(s) <=> Once(s)
         /\ ToSet(s) = Elems(s)
BY DEF IsInjective, ToSet, Once, Elems, FirstOf

\* What the order tells about the rows.
LEMMA OrderFacts ==
  ASSUME TypeOK, OrderIsIndex
  PROVE  /\ order \in Seq(DOMAIN rows) /\ order \in Seq(Ids) /\ Once(order)
         /\ Len(order) \in Nat
         /\ DOMAIN rows = Elems(order)
<1>1. order \in Seq(Ids) /\ Len(order) \in Nat
  BY LenProperties DEF TypeOK
<1>2. Once(order) /\ DOMAIN rows = Elems(order)
  BY <1>1, IndexVocabulary DEF OrderIsIndex
<1>3. order \in Seq(DOMAIN rows)
  BY <1>1, <1>2 DEF Elems, FirstOf
<1> QED BY <1>1, <1>2, <1>3

\* Evicting the k oldest rows leaves an order that lists exactly the others.
LEMMA EvictOldest ==
  ASSUME TypeOK, OrderIsIndex, NEW k \in 0 .. Len(order)
  PROVE  /\ Younger(k) \in Seq(DOMAIN rows) /\ Once(Younger(k))
         /\ Elems(Younger(k)) = DOMAIN rows \ Oldest(k)
         /\ Oldest(k) \subseteq DOMAIN rows
         /\ BytesLeft(order)[k] \in Nat
         /\ k \in Nat
         /\ k = 0 => Oldest(k) = {}
<1>1. /\ order \in Seq(DOMAIN rows) /\ Once(order) /\ Len(order) \in Nat
      /\ DOMAIN rows = Elems(order)
  BY OrderFacts
<1>2. /\ Younger(k) \in Seq(DOMAIN rows) /\ Once(Younger(k))
      /\ Elems(Younger(k)) = DOMAIN rows \ Oldest(k)
  <2>1. Oldest(k) = FirstOf(order, k)
    BY DEF Oldest, FirstOf
  <2> QED BY <1>1, <2>1, SuffixProps DEF Younger
<1>3. Oldest(k) \subseteq DOMAIN rows /\ k \in Nat /\ (k = 0 => Oldest(k) = {})
  BY <1>1 DEF Oldest, Elems, FirstOf
<1>4. BytesLeft(order)[k] \in Nat
  BY <1>1, BytesLeftNat DEF TypeOK
<1> QED BY <1>2, <1>3, <1>4

\* Position finds the row, and the order without it lists exactly the others.
LEMMA RemoveOne ==
  ASSUME TypeOK, OrderIsIndex, NEW id \in DOMAIN rows
  PROVE  /\ Position(id) \in 1 .. Len(order) /\ order[Position(id)] = id
         /\ Others(id) \in Seq(DOMAIN rows) /\ Once(Others(id))
         /\ Len(Others(id)) = Len(order) - 1
         /\ \A i \in 1 .. Len(Others(id)) :
              Others(id)[i] = IF i < Position(id) THEN order[i] ELSE order[i + 1]
         /\ Elems(Others(id)) = DOMAIN rows \ {id}
<1>1. /\ order \in Seq(DOMAIN rows) /\ Once(order) /\ Len(order) \in Nat
      /\ DOMAIN rows = Elems(order)
  BY OrderFacts
<1>2. \E i \in 1 .. Len(order) : order[i] = id
  BY <1>1 DEF Elems, FirstOf
<1>3. Position(id) \in 1 .. Len(order) /\ order[Position(id)] = id
  BY <1>2 DEF Position
<1>4. /\ Others(id) \in Seq(DOMAIN rows) /\ Len(Others(id)) = Len(order) - 1
      /\ Once(Others(id))
      /\ \A i \in 1 .. Len(Others(id)) :
           Others(id)[i] = IF i < Position(id) THEN order[i] ELSE order[i + 1]
      /\ Elems(Others(id))
           = Elems(order) \ {order[Position(id)]}
  <2>1. ASSUME NEW p \in 1 .. Len(order), NEW T, order \in Seq(T)
        PROVE  /\ RemoveAt(order, p) \in Seq(T)
               /\ Len(RemoveAt(order, p)) = Len(order) - 1
               /\ Once(RemoveAt(order, p))
               /\ \A i \in 1 .. Len(RemoveAt(order, p)) :
                    RemoveAt(order, p)[i] = IF i < p THEN order[i] ELSE order[i + 1]
               /\ Elems(RemoveAt(order, p)) = Elems(order) \ {order[p]}
    BY <1>1, <2>1, RemoveAtProps
  <2> QED BY <1>1, <1>3, <2>1 DEF Others
<1> QED BY <1>1, <1>3, <1>4

\* The eviction loops stop at a prefix of the order.
LEMMA LoopsStop ==
  ASSUME TypeOK
  PROVE  /\ \A candidate : EvictUntilFits(candidate) \in 0 .. Len(order)
         /\ \A o : EvictUntilUnderCaps(o) \in 0 .. Len(order)
<1>1. Len(order) \in Nat
  BY LenProperties DEF TypeOK
<1>2. ASSUME NEW candidate PROVE EvictUntilFits(candidate) \in 0 .. Len(order)
  <2> DEFINE S == {k \in 0 .. Len(order) : FitsAfter(k, candidate) \/ k = Len(order)}
  <2>1. S \in SUBSET Nat /\ Len(order) \in S
    BY <1>1
  <2>2. Min(S) \in S
    <3> HIDE DEF S
    <3> QED BY <2>1, MinOfNat
  <2> QED BY <2>2 DEF EvictUntilFits
<1>3. ASSUME NEW o PROVE EvictUntilUnderCaps(o) \in 0 .. Len(order)
  <2> DEFINE S == {k \in 0 .. Len(order) : UnderCapsAfter(k, o) \/ k = Len(order)}
  <2>1. S \in SUBSET Nat /\ Len(order) \in S
    BY <1>1
  <2>2. Min(S) \in S
    <3> HIDE DEF S
    <3> QED BY <2>1, MinOfNat
  <2> QED BY <2>2 DEF EvictUntilUnderCaps
<1> QED BY <1>2, <1>3

\* applyPatchLocked's loop stops before it runs out of other rows.
LEMMA VictimsStop ==
  ASSUME TypeOK, OrderIsIndex, NEW id \in DOMAIN rows, NEW extra
  PROVE  Victims(id, extra) \in 0 .. Len(order) - 1 /\ Victims(id, extra) \in Nat
<1> DEFINE S == {j \in 0 .. Len(order) - 1 :
                   BytesLeft(Others(id))[j] + extra <= caps.maxBytes \/ j = Len(order) - 1}
<1>1. Len(order) \in Nat /\ Len(order) >= 1
  BY OrderFacts, RemoveOne
<1>2. S \in SUBSET Nat /\ Len(order) - 1 \in S
  BY <1>1
<1>3. Min(S) \in S
  <2> HIDE DEF S
  <2> QED BY <1>2, MinOfNat
<1> QED BY <1>1, <1>3 DEF Victims

-----------------------------------------------------------------------------
(* The waiters.                                                            *)

\* A step that decides or removes the rows in S, tells their waiters and
\* leaves the state of the other rows alone loses nobody.
LEMMA WaitersKept ==
  ASSUME TypeOK, NoLostWaiter, RegisteredWait, FreshChannel,
         NEW S, NEW v, \A i \in S : v[i] \in Verdicts,
         chan' = Deliver(S, v), paused' = Unregistered(S), want' = want,
         \A c \in Clients : pc'[c] = "wait" <=> pc[c] = "wait",
         \A i \in DOMAIN rows \ S :
           /\ i \in DOMAIN rows'
           /\ rows'[i].state = rows[i].state /\ rows'[i].done = rows[i].done
  PROVE  /\ NoLostWaiter' /\ RegisteredWait' /\ FreshChannel'
         /\ chan' \in [Clients -> Verdicts \cup {None}]
         /\ paused' \subseteq paused
<1>1. \A w \in paused : w[2] \in Clients /\ w = <<w[1], w[2]>>
  BY DEF TypeOK
<1>2. ASSUME NEW c \in Clients, NEW i \in S, <<i, c>> \in paused
      PROVE  i = want[c] /\ v[want[c]] \in Verdicts
  <2>1. want[c] = i
    BY <1>2 DEF RegisteredWait
  <2> QED BY <2>1
<1>3. \A c \in Clients : chan'[c] = IF \E i \in S : <<i, c>> \in paused THEN v[want[c]] ELSE chan[c]
  BY DEF Deliver
<1>4. chan' \in [Clients -> Verdicts \cup {None}]
  BY <1>2 DEF Deliver, TypeOK
<1>5. None \notin Verdicts
  BY ConstantsAssumption DEF WaitReturns
<1>6. RegisteredWait'
  <2> SUFFICES ASSUME NEW w \in paused'
               PROVE pc'[w[2]] = "wait" /\ want'[w[2]] = w[1] /\ chan'[w[2]] = None
    BY DEF RegisteredWait
  <2>1. w \in paused /\ w[1] \notin S
    BY DEF Unregistered
  <2>2. pc[w[2]] = "wait" /\ want[w[2]] = w[1] /\ chan[w[2]] = None /\ w[2] \in Clients
    BY <1>1, <2>1 DEF RegisteredWait
  <2>3. ~ \E i \in S : <<i, w[2]>> \in paused
    BY <1>2, <2>1, <2>2
  <2> QED BY <1>3, <2>2, <2>3
<1>7. NoLostWaiter'
  <2> SUFFICES ASSUME NEW c \in Clients, pc'[c] = "wait", chan'[c] = None
               PROVE  /\ <<want'[c], c>> \in paused'
                      /\ want'[c] \in DOMAIN rows'
                      /\ rows'[want'[c]].state = "paused" /\ ~rows'[want'[c]].done
    BY DEF NoLostWaiter
  <2>1. ~ \E i \in S : <<i, c>> \in paused
    BY <1>2, <1>3, <1>5
  <2>2. chan[c] = None /\ pc[c] = "wait"
    BY <1>3, <2>1
  <2>3. /\ <<want[c], c>> \in paused /\ want[c] \in DOMAIN rows
        /\ rows[want[c]].state = "paused" /\ ~rows[want[c]].done
    BY <2>2 DEF NoLostWaiter
  <2>4. want[c] \notin S
    BY <2>1, <2>3
  <2> QED BY <2>3, <2>4 DEF Unregistered
<1>8. FreshChannel'
  <2> SUFFICES ASSUME NEW c \in Clients, pc[c] # "wait" PROVE chan'[c] = None
    BY DEF FreshChannel
  <2>1. ~ \E i \in S : <<i, c>> \in paused
    BY DEF RegisteredWait
  <2> QED BY <1>3, <2>1 DEF FreshChannel
<1> QED BY <1>4, <1>6, <1>7, <1>8 DEF Unregistered

-----------------------------------------------------------------------------
(* Parts of Inv that several actions share.                                *)

\* OrderIsIndex in the vocabulary of IndexLemmas, for the next state.
LEMMA IndexKept ==
  ASSUME TypeOK, nextId' = nextId, order' \in Seq(DOMAIN rows), Once(order'),
         Elems(order') = DOMAIN rows'
  PROVE  OrderIsIndex' /\ order' \in Seq(Ids)
<1>1. IsInjective(order') /\ ToSet(order') = Elems(order')
  BY IndexVocabulary
<1>2. order' \in Seq(Ids)
  <2>1. DOMAIN rows \subseteq Ids
    BY DEF TypeOK
  <2> QED BY <2>1
<1> QED BY <1>1, <1>2 DEF OrderIsIndex

\* An Insert in flight keeps its fresh id while rows only leave the index.
LEMMA PreparedKept ==
  ASSUME PreparedFresh, nextId' = nextId, prep' = prep, pc' = pc,
         DOMAIN rows' \subseteq DOMAIN rows
  PROVE  PreparedFresh'
BY DEF PreparedFresh, Ids

\* A step that only removes rows, whichever policy chose them.
LEMMA RowsRemoved ==
  ASSUME Inv, NEW S, S \subseteq DOMAIN rows,
         rows' = Without(S), order' \in Seq(DOMAIN rows), Once(order'),
         Elems(order') = DOMAIN rows \ S, bytes' \in Nat,
         chan' = Deliver(S, Gone(S)), paused' = Unregistered(S),
         caps' \in CapRecords, generation' \in Nat, evictions' \in Nat,
         UNCHANGED <<epoch, nextId, now, pc, prep, want, ins, ret>>
  PROVE  Inv'
<1>1. TypeOK /\ EpochFence /\ PreparedFresh /\ NoLostWaiter /\ RegisteredWait
      /\ FreshChannel
  BY DEF Inv
<1>2. /\ DOMAIN rows' = DOMAIN rows \ S
      /\ \A i \in DOMAIN rows' : rows'[i] = rows[i]
      /\ rows' \in [DOMAIN rows' -> Records]
  BY <1>1 DEF Without, TypeOK
<1>3. OrderIsIndex' /\ order' \in Seq(Ids)
  BY <1>1, <1>2, IndexKept
<1>4. NoLostWaiter' /\ RegisteredWait' /\ FreshChannel' /\ chan' \in [Clients -> Verdicts \cup {None}]
      /\ paused' \subseteq paused
  <2>1. \A i \in S : Gone(S)[i] \in Verdicts
    BY DEF Gone, Verdicts
  <2>2. \A i \in DOMAIN rows \ S :
          /\ i \in DOMAIN rows'
          /\ rows'[i].state = rows[i].state /\ rows'[i].done = rows[i].done
    BY <1>2
  <2> QED BY <1>1, <2>1, <2>2, WaitersKept
<1>5. TypeOK'
  <2>1. Ids' = Ids
    BY DEF Ids
  <2> QED BY <1>1, <1>2, <1>3, <1>4, <2>1 DEF TypeOK
<1>6. EpochFence'
  BY <1>1, <1>2 DEF EpochFence
<1>7. PreparedFresh'
  BY <1>1, <1>2, PreparedKept
<1> QED BY <1>3, <1>4, <1>5, <1>6, <1>7 DEF Inv

\* A step that decides or re-arms one row and leaves the others alone.
LEMMA RowDecided ==
  ASSUME Inv, NEW id \in DOMAIN rows, NEW r \in Records, NEW v \in Verdicts,
         r.epoch = rows[id].epoch,
         rows' = [rows EXCEPT ![id] = r],
         Finish(id, v), generation' \in Nat,
         UNCHANGED <<caps, epoch, evictions, bytes, order, nextId, now, pc, prep, want, ins, ret>>
  PROVE  Inv'
<1>1. TypeOK /\ OrderIsIndex /\ EpochFence /\ PreparedFresh /\ NoLostWaiter /\ RegisteredWait
      /\ FreshChannel
  BY DEF Inv
<1>2. /\ DOMAIN rows' = DOMAIN rows
      /\ \A i \in DOMAIN rows : rows'[i] = IF i = id THEN r ELSE rows[i]
      /\ rows' \in [DOMAIN rows' -> Records]
  BY <1>1 DEF TypeOK
<1>3. NoLostWaiter' /\ RegisteredWait' /\ FreshChannel' /\ chan' \in [Clients -> Verdicts \cup {None}]
      /\ paused' \subseteq paused
  <2> DEFINE S == {id}
             w == [i \in S |-> v]
  <2>1. \A i \in S : w[i] \in Verdicts
    OBVIOUS
  <2>2. \A i \in DOMAIN rows \ S :
          /\ i \in DOMAIN rows'
          /\ rows'[i].state = rows[i].state /\ rows'[i].done = rows[i].done
    BY <1>2
  <2>3. chan' = Deliver(S, w) /\ paused' = Unregistered(S)
    BY DEF Finish
  <2> HIDE DEF S, w
  <2> QED BY <1>1, <2>1, <2>2, <2>3, WaitersKept
<1>4. TypeOK' /\ OrderIsIndex'
  <2>1. Ids' = Ids
    BY DEF Ids
  <2> QED BY <1>1, <1>2, <1>3, <2>1 DEF TypeOK, OrderIsIndex
<1>5. EpochFence'
  BY <1>1, <1>2 DEF EpochFence
<1>6. PreparedFresh'
  BY <1>1, <1>2, PreparedKept
<1> QED BY <1>3, <1>4, <1>5, <1>6 DEF Inv

-----------------------------------------------------------------------------
(* One lemma per operation.                                                *)

\* The new store satisfies the invariant (New).
LEMMA InitInv == Init => Inv
<1> SUFFICES ASSUME Init PROVE Inv
  OBVIOUS
<1>1. DOMAIN rows = {} /\ order = << >> /\ Len(order) = 0
  BY DEF Init
<1>2. TypeOK
  BY <1>1, ConstantsAssumption DEF Init, TypeOK
<1>3. OrderIsIndex
  BY <1>1 DEF OrderIsIndex, IsInjective, ToSet
<1>4. PreparedFresh /\ EpochFence /\ NoLostWaiter /\ RegisteredWait /\ FreshChannel
  BY <1>1 DEF Init, PreparedFresh, EpochFence, NoLostWaiter, RegisteredWait, FreshChannel
<1> QED BY <1>2, <1>3, <1>4 DEF Inv

\* Insert, first critical section: a fresh id is reserved.
LEMMA InsertBeginInv ==
  ASSUME Inv, NEW c \in Clients, NEW state \in States, NEW phase \in Phases,
         NEW hdr \in Nat, NEW raw \in Nat, NEW at \in Nat, NEW e \in Nat,
         InsertBegin(c, state, phase, hdr, raw, at, e)
  PROVE  Inv'
<1> DEFINE flow == [id |-> nextId, state |-> state, phase |-> phase, hdr |-> hdr,
                    body |-> Capped(raw), at |-> at, epoch |-> e]
<1>1. TypeOK /\ OrderIsIndex /\ EpochFence /\ PreparedFresh /\ NoLostWaiter /\ RegisteredWait
      /\ FreshChannel
  BY DEF Inv
<1>2. nextId \in Nat /\ nextId' = nextId + 1 /\ Ids \subseteq Ids' /\ nextId \in Ids'
      /\ nextId \notin Ids
  BY SMTT(40), <1>1 DEF InsertBegin, TypeOK, Ids
<1>3. Capped(raw) \in Nat
  BY <1>1 DEF Capped, TypeOK, CapRecords
<1>4. flow \in Prepared /\ flow.id = nextId
  BY <1>2, <1>3 DEF Prepared
<1>5. UNCHANGED <<storeVars, now, want, chan, ret>> /\ pc[c] = "idle"
  BY DEF InsertBegin
<1>6. \/ UNCHANGED <<pc, prep>> /\ ins' = [ins EXCEPT ![c] = "toolarge"]
      \/ /\ pc' = [pc EXCEPT ![c] = "insert"]
         /\ prep' = [prep EXCEPT ![c] = flow] /\ UNCHANGED ins
  BY DEF InsertBegin
<1> HIDE DEF flow
<1>7. \A d \in Clients : pc'[d] = "wait" <=> pc[d] = "wait"
  BY <1>1, <1>5, <1>6 DEF TypeOK
<1>8. NoLostWaiter' /\ OrderIsIndex' /\ EpochFence'
  BY <1>1, <1>5, <1>7 DEF NoLostWaiter, OrderIsIndex, EpochFence, storeVars
<1>9. RegisteredWait' /\ FreshChannel'
  BY <1>1, <1>5, <1>7 DEF RegisteredWait, FreshChannel, storeVars, TypeOK
<1>10. TypeOK'
  <2>1. order' \in Seq(Ids')
    BY <1>1, <1>2, <1>5 DEF TypeOK, storeVars
  <2>2. /\ pc' \in [Clients -> {"idle", "insert", "wait"}]
        /\ prep' \in [Clients -> Prepared \cup {None}]
        /\ ins' \in [Clients -> InsertReturns \cup {None}]
    BY ZenonT(40), <1>1, <1>4, <1>6 DEF TypeOK, InsertReturns
  <2>3. nextId' \in Nat \ {0} /\ DOMAIN rows' \subseteq Ids' /\ paused' \subseteq Ids' \X Clients
    BY <1>1, <1>2, <1>5 DEF TypeOK, storeVars
  <2> QED BY <1>1, <1>5, <2>1, <2>2, <2>3 DEF TypeOK, storeVars
<1>11. PreparedFresh'
  <2>1. \A d \in Clients : pc[d] = "insert" => prep[d].id # nextId
    BY <1>1, <1>2 DEF PreparedFresh
  <2>2. nextId \notin DOMAIN rows
    BY <1>1, <1>2 DEF TypeOK
  <2>3. CASE UNCHANGED <<pc, prep>>
    BY <1>1, <1>2, <1>5, <2>3 DEF PreparedFresh, storeVars
  <2>4. CASE pc' = [pc EXCEPT ![c] = "insert"] /\ prep' = [prep EXCEPT ![c] = flow]
    <3>1. /\ prep'[c] = flow /\ pc'[c] = "insert"
          /\ \A d \in Clients \ {c} : prep'[d] = prep[d] /\ pc'[d] = pc[d]
      BY <1>1, <2>4 DEF TypeOK
    <3> QED BY ZenonT(40), <1>1, <1>2, <1>4, <1>5, <2>1, <2>2, <3>1 DEF PreparedFresh, storeVars
  <2> QED BY <1>6, <2>3, <2>4
<1> QED BY <1>8, <1>9, <1>10, <1>11 DEF Inv

\* Pause arms a row nobody waits for.
LEMMA PauseInv ==
  ASSUME Inv, NEW id \in DOMAIN rows, Pause(id)
  PROVE  Inv'
<1>1. TypeOK /\ OrderIsIndex /\ EpochFence /\ PreparedFresh /\ NoLostWaiter /\ RegisteredWait
      /\ FreshChannel
  BY DEF Inv
<1> DEFINE r == [rows[id] EXCEPT !.state = "paused", !.done = FALSE, !.result = None]
<1>2. /\ DOMAIN rows' = DOMAIN rows
      /\ \A i \in DOMAIN rows \ {id} : rows'[i] = rows[i]
      /\ rows'[id].epoch = rows[id].epoch
      /\ rows' \in [DOMAIN rows' -> Records]
  <2>1. rows[id] \in Records /\ rows \in [DOMAIN rows -> Records]
    BY <1>1 DEF TypeOK
  <2>2. r \in Records /\ r.epoch = rows[id].epoch
    BY <2>1 DEF Records, States
  <2>3. rows' = [rows EXCEPT ![id] = r]
    BY <2>1 DEF Pause, Records
  <2> HIDE DEF r
  <2> QED BY <2>1, <2>2, <2>3
<1>3. UNCHANGED <<caps, epoch, evictions, bytes, order, paused, nextId, now, clientVars>>
      /\ generation' = generation + 1 /\ rows[id].state # "paused"
  BY DEF Pause
<1> HIDE DEF r
<1>4. TypeOK' /\ OrderIsIndex' /\ EpochFence'
  <2>1. Ids' = Ids /\ generation' \in Nat
    BY <1>1, <1>3 DEF Ids, TypeOK
  <2>2. TypeOK'
    BY <1>1, <1>2, <1>3, <2>1 DEF TypeOK, clientVars
  <2>3. OrderIsIndex' /\ EpochFence'
    BY <1>1, <1>2, <1>3 DEF OrderIsIndex, EpochFence
  <2> QED BY <2>2, <2>3
<1>5. PreparedFresh' /\ RegisteredWait'
  BY <1>1, <1>2, <1>3 DEF PreparedFresh, RegisteredWait, Ids, clientVars
<1>6. NoLostWaiter' /\ FreshChannel'
  BY <1>1, <1>2, <1>3 DEF NoLostWaiter, FreshChannel, clientVars
<1> QED BY <1>4, <1>5, <1>6 DEF Inv

\* Drop decides one row and answers its waiters.
LEMMA DropInv ==
  ASSUME Inv, NEW id \in DOMAIN rows, Drop(id)
  PROVE  Inv'
<1> DEFINE r == [rows[id] EXCEPT !.state = "dropped", !.done = TRUE, !.result = "dropped"]
<1>1. rows[id] \in Records /\ generation \in Nat
  BY DEF Inv, TypeOK
<1>2. r \in Records /\ r.epoch = rows[id].epoch /\ "dropped" \in Verdicts
  BY <1>1 DEF Records, States, Verdicts
<1>3. rows' = [rows EXCEPT ![id] = r]
  BY <1>1 DEF Drop, Records
<1>4. /\ Finish(id, "dropped") /\ generation' \in Nat
      /\ UNCHANGED <<caps, epoch, evictions, bytes, order, nextId, now, pc, prep, want, ins, ret>>
  BY <1>1 DEF Drop
<1> HIDE DEF r
<1> QED BY <1>2, <1>3, <1>4, RowDecided

\* ExpireBreakpoint decides one row and answers its waiters.
LEMMA ExpireInv ==
  ASSUME Inv, NEW id \in DOMAIN rows, ExpireBreakpoint(id)
  PROVE  Inv'
<1> DEFINE r == [rows[id] EXCEPT !.state = "completed", !.at = now,
                                 !.done = TRUE, !.result = "expired"]
<1>1. rows[id] \in Records /\ generation \in Nat /\ now \in Nat
  BY DEF Inv, TypeOK
<1>2. r \in Records /\ r.epoch = rows[id].epoch /\ "expired" \in Verdicts
  BY <1>1 DEF Records, States, Verdicts
<1>3. rows' = [rows EXCEPT ![id] = r]
  BY <1>1 DEF ExpireBreakpoint, Records
<1>4. /\ Finish(id, "expired") /\ generation' \in Nat
      /\ UNCHANGED <<caps, epoch, evictions, bytes, order, nextId, now, pc, prep, want, ins, ret>>
  BY <1>1 DEF ExpireBreakpoint
<1> HIDE DEF r
<1> QED BY <1>2, <1>3, <1>4, RowDecided

\* WaitPaused answers at once or registers.
LEMMA WaitEnterInv ==
  ASSUME Inv, NEW c \in Clients, NEW id \in Ids, WaitEnter(c, id)
  PROVE  Inv'
<1>1. TypeOK /\ OrderIsIndex /\ EpochFence /\ PreparedFresh /\ NoLostWaiter /\ RegisteredWait
      /\ FreshChannel
  BY DEF Inv
<1>2. /\ UNCHANGED <<caps, epoch, generation, evictions, bytes, rows, order,
                    nextId, now, prep, chan, ins>>
      /\ pc[c] = "idle"
  BY DEF WaitEnter
<1>3. CASE UNCHANGED <<pc, want, paused>> /\ \E x \in WaitReturns \cup {None} : ret' = [ret EXCEPT ![c] = x]
  <2>1. ret' \in [Clients -> WaitReturns \cup {None}]
    BY <1>1, <1>3 DEF TypeOK
  <2>2. TypeOK' /\ OrderIsIndex'
    BY <1>1, <1>2, <1>3, <2>1 DEF TypeOK, OrderIsIndex, Ids
  <2>3. PreparedFresh' /\ EpochFence' /\ NoLostWaiter' /\ RegisteredWait' /\ FreshChannel'
    BY <1>1, <1>2, <1>3
       DEF PreparedFresh, EpochFence, NoLostWaiter, RegisteredWait, FreshChannel, Ids
  <2> QED BY <2>2, <2>3 DEF Inv
<1>4. CASE /\ id \in DOMAIN rows /\ ~rows[id].done /\ rows[id].state = "paused"
           /\ pc' = [pc EXCEPT ![c] = "wait"]
           /\ want' = [want EXCEPT ![c] = id]
           /\ paused' = paused \cup {<<id, c>>}
           /\ UNCHANGED ret
  <2>1. /\ pc'[c] = "wait" /\ want'[c] = id
        /\ \A d \in Clients \ {c} : pc'[d] = pc[d] /\ want'[d] = want[d]
    BY <1>1, <1>4 DEF TypeOK
  <2>2. \A w \in paused : w[2] \in Clients /\ w[2] # c
    BY <1>1, <1>2 DEF RegisteredWait, TypeOK
  <2>3. TypeOK' /\ OrderIsIndex'
    BY <1>1, <1>2, <1>4 DEF TypeOK, OrderIsIndex, Ids
  <2>4. PreparedFresh' /\ EpochFence'
    BY <1>1, <1>2, <1>4, <2>1 DEF PreparedFresh, EpochFence, Ids
  <2>5. NoLostWaiter' /\ FreshChannel'
    BY <1>1, <1>2, <1>4, <2>1 DEF NoLostWaiter, FreshChannel
  <2>6. RegisteredWait'
    <3>1. chan[c] = None
      BY <1>1, <1>2 DEF FreshChannel
    <3> QED BY <1>1, <1>2, <1>4, <2>1, <2>2, <3>1 DEF RegisteredWait
  <2> QED BY <2>3, <2>4, <2>5, <2>6 DEF Inv
<1>5. id \in DOMAIN rows => rows[id].result \in WaitReturns \cup {None}
  BY <1>1 DEF TypeOK, Records, WaitReturns
<1>6. {"notfound", "inactive"} \subseteq WaitReturns
  BY DEF WaitReturns, Verdicts
<1>7. CASE id \notin DOMAIN rows
  BY <1>3, <1>6, <1>7 DEF WaitEnter
<1>8. CASE id \in DOMAIN rows /\ rows[id].done
  BY <1>3, <1>5, <1>8 DEF WaitEnter
<1>9. CASE id \in DOMAIN rows /\ ~rows[id].done /\ rows[id].state # "paused"
  BY <1>3, <1>6, <1>9 DEF WaitEnter
<1>10. CASE id \in DOMAIN rows /\ ~rows[id].done /\ rows[id].state = "paused"
  BY <1>4, <1>10 DEF WaitEnter
<1> QED BY <1>7, <1>8, <1>9, <1>10

\* Delete removes one row and fails its waiters.
LEMMA DeleteInv ==
  ASSUME Inv, NEW id \in DOMAIN rows, Delete(id)
  PROVE  Inv'
<1>1. TypeOK /\ OrderIsIndex
  BY DEF Inv
<1>2. /\ Others(id) \in Seq(DOMAIN rows) /\ Once(Others(id))
      /\ Elems(Others(id)) = DOMAIN rows \ {id}
  BY <1>1, RemoveOne
<1>3. bytes' \in Nat /\ generation' \in Nat
  BY <1>1 DEF Delete, Sub, TypeOK, Records
<1> DEFINE S == {id}
<1>4. /\ rows' = Without(S) /\ order' = Others(id)
      /\ chan' = Deliver(S, Gone(S)) /\ paused' = Unregistered(S)
      /\ UNCHANGED <<caps, epoch, evictions, nextId, now, pc, prep, want, ins, ret>>
  BY DEF Delete, Finish, Gone
<1>5. S \subseteq DOMAIN rows /\ caps' \in CapRecords /\ evictions' \in Nat
  BY <1>1, <1>4 DEF TypeOK
<1> HIDE DEF S
<1> QED BY <1>2, <1>3, <1>4, <1>5, RowsRemoved DEF S

\* DeleteAll removes every row, oldest first.
LEMMA DeleteAllInv ==
  ASSUME Inv, DeleteAll
  PROVE  Inv'
<1>1. TypeOK /\ OrderIsIndex
  BY DEF Inv
<1> DEFINE n == Len(order)
           S == Oldest(n)
<1>2. n \in 0 .. Len(order) /\ n \in Nat
  BY <1>1, LenProperties DEF TypeOK
<1>3. S \subseteq DOMAIN rows /\ BytesLeft(order)[n] \in Nat /\ DOMAIN rows \ S = {}
  <2>1. S \subseteq DOMAIN rows /\ BytesLeft(order)[n] \in Nat
    BY <1>1, <1>2, EvictOldest
  <2>2. S = DOMAIN rows
    BY <1>1, OrderFacts DEF Oldest, Elems, FirstOf
  <2> QED BY <2>1, <2>2
<1>4. /\ rows' = Without(S) /\ order' = << >> /\ bytes' = BytesLeft(order)[n]
      /\ generation' = generation + n
      /\ chan' = Deliver(S, Gone(S)) /\ paused' = Unregistered(S)
      /\ UNCHANGED <<caps, epoch, evictions, nextId, now, pc, prep, want, ins, ret>>
  BY DEF DeleteAll
<1>5. order' \in Seq(DOMAIN rows) /\ Once(order') /\ Elems(order') = DOMAIN rows \ S
  BY <1>3, <1>4 DEF Once, Elems, FirstOf
<1>6. caps' \in CapRecords /\ evictions' \in Nat /\ generation' \in Nat
  <2>1. caps \in CapRecords /\ evictions \in Nat /\ generation \in Nat
    BY <1>1 DEF TypeOK
  <2>2. generation' = generation + n /\ caps' = caps /\ evictions' = evictions
    BY <1>4
  <2> HIDE DEF n
  <2> QED BY <1>2, <2>1, <2>2
<1> HIDE DEF S, n
<1> QED BY <1>3, <1>4, <1>5, <1>6, RowsRemoved

\* ReplaceCaps evicts the oldest rows until the new caps hold.
LEMMA ReplaceCapsInv ==
  ASSUME Inv, NEW o \in CapSet, NEW force \in BOOLEAN, ReplaceCaps(o, force)
  PROVE  Inv'
<1>1. TypeOK /\ OrderIsIndex
  BY DEF Inv
<1> DEFINE k == EvictUntilUnderCaps(o)
           S == Oldest(k)
<1>2. k \in 0 .. Len(order)
  BY <1>1, LoopsStop
<1>3. /\ Younger(k) \in Seq(DOMAIN rows) /\ Once(Younger(k))
      /\ Elems(Younger(k)) = DOMAIN rows \ S
      /\ S \subseteq DOMAIN rows /\ BytesLeft(order)[k] \in Nat /\ k \in Nat
  BY <1>1, <1>2, EvictOldest
<1>4. /\ rows' = Without(S) /\ order' = Younger(k) /\ bytes' = BytesLeft(order)[k]
      /\ generation' = generation + k /\ evictions' = evictions + k /\ caps' = o
      /\ chan' = Deliver(S, Gone(S)) /\ paused' = Unregistered(S)
      /\ UNCHANGED <<epoch, nextId, now, pc, prep, want, ins, ret>>
  BY DEF ReplaceCaps
<1>5. caps' \in CapRecords /\ evictions' \in Nat /\ generation' \in Nat
  <2>1. evictions \in Nat /\ generation \in Nat
    BY <1>1 DEF TypeOK
  <2>2. k \in Nat /\ caps' = o
    BY <1>3, <1>4
  <2>3. evictions' = evictions + k /\ generation' = generation + k
    BY <1>4
  <2>4. o \in CapRecords
    BY ConstantsAssumption
  <2> HIDE DEF k
  <2> QED BY <2>1, <2>2, <2>3, <2>4
<1> HIDE DEF S, k
<1> QED BY <1>3, <1>4, <1>5, RowsRemoved

\* ResetTo empties the store, fails every waiter and opens a new epoch.
LEMMA ResetToInv ==
  ASSUME Inv, NEW o \in CapRecords, ResetTo(o)
  PROVE  Inv'
<1>1. TypeOK /\ OrderIsIndex /\ EpochFence /\ PreparedFresh /\ NoLostWaiter /\ RegisteredWait
      /\ FreshChannel
  BY DEF Inv
<1>2. /\ DOMAIN rows' = {} /\ rows' = << >> /\ order' = << >> /\ Len(order') = 0
      /\ bytes' = 0 /\ paused' = {} /\ caps' = o
      /\ epoch' = epoch + 1 /\ generation' = generation + 1
      /\ UNCHANGED <<evictions, nextId, now, pc, prep, want, ins, ret>>
  BY DEF ResetTo
<1>3. \A c \in Clients : chan'[c] = IF \E w \in paused : w[2] = c THEN "stale" ELSE chan[c]
  BY DEF ResetTo
<1>4. chan' \in [Clients -> Verdicts \cup {None}]
  BY <1>1 DEF ResetTo, TypeOK, Verdicts
<1>5. TypeOK' /\ OrderIsIndex'
  <2>1. Ids' = Ids /\ order' \in Seq(Ids') /\ rows' \in [DOMAIN rows' -> Records]
    BY <1>2 DEF Ids
  <2>2. OrderIsIndex'
    BY <1>2 DEF OrderIsIndex, IsInjective, ToSet
  <2> QED BY <1>1, <1>2, <1>4, <2>1, <2>2 DEF TypeOK
<1>6. PreparedFresh'
  BY <1>1, <1>2 DEF PreparedFresh, Ids
<1>7. EpochFence' /\ RegisteredWait' /\ FreshChannel'
  <2>1. EpochFence' /\ RegisteredWait'
    BY <1>2 DEF EpochFence, RegisteredWait
  <2>2. ASSUME NEW c \in Clients, pc[c] # "wait" PROVE ~ \E w \in paused : w[2] = c
    BY <1>1, <2>2 DEF RegisteredWait
  <2>3. FreshChannel'
    BY <1>1, <1>2, <1>3, <2>2 DEF FreshChannel
  <2> QED BY <2>1, <2>3
<1>8. NoLostWaiter'
  <2> SUFFICES ASSUME NEW c \in Clients, pc[c] = "wait" PROVE chan'[c] # None
    BY <1>2 DEF NoLostWaiter
  <2>1. CASE chan[c] = None
    <3>1. <<want[c], c>> \in paused
      BY <1>1, <2>1 DEF NoLostWaiter
    <3>2. chan'[c] = "stale"
      BY <1>3, <3>1
    <3> QED BY <3>2, ConstantsAssumption DEF WaitReturns, Verdicts
  <2>2. CASE chan[c] # None
    BY <1>3, <2>2, ConstantsAssumption DEF WaitReturns, Verdicts
  <2> QED BY <2>1, <2>2
<1> QED BY <1>5, <1>6, <1>7, <1>8 DEF Inv

\* A call of WaitPaused ends: registration and channel go with it.
LEMMA WaitReturnInv ==
  ASSUME Inv, NEW c \in Clients, NEW r \in WaitReturns \cup {None},
         pc[c] = "wait", WaitReturn(c, r),
         paused' = {w \in paused : w[2] # c},
         UNCHANGED <<caps, epoch, generation, evictions, bytes, rows, order,
                     nextId, now, prep, ins>>
  PROVE  Inv'
<1>1. TypeOK /\ OrderIsIndex /\ EpochFence /\ PreparedFresh /\ NoLostWaiter /\ RegisteredWait
      /\ FreshChannel
  BY DEF Inv
<1>2. /\ pc'[c] = "idle" /\ want'[c] = 0 /\ chan'[c] = None
      /\ \A d \in Clients \ {c} : pc'[d] = pc[d] /\ want'[d] = want[d] /\ chan'[d] = chan[d]
  BY <1>1 DEF TypeOK, WaitReturn
<1>3. TypeOK' /\ OrderIsIndex'
  BY <1>1 DEF TypeOK, OrderIsIndex, Ids, WaitReturn
<1>4. PreparedFresh' /\ EpochFence'
  BY <1>1, <1>2 DEF PreparedFresh, EpochFence, Ids
<1>5. NoLostWaiter' /\ FreshChannel'
  BY <1>1, <1>2 DEF NoLostWaiter, FreshChannel
<1>6. RegisteredWait'
  BY <1>1, <1>2 DEF RegisteredWait, TypeOK
<1> QED BY <1>3, <1>4, <1>5, <1>6 DEF Inv

\* WaitPaused returns what the channel holds.
LEMMA WaitWakeInv ==
  ASSUME Inv, NEW c \in Clients, WaitWake(c)
  PROVE  Inv'
<1>1. chan[c] \in WaitReturns \cup {None}
  BY DEF Inv, TypeOK, WaitReturns
<1>2. paused' = {w \in paused : w[2] # c}
  BY DEF WaitWake, Inv, RegisteredWait, storeVars
<1>3. /\ pc[c] = "wait" /\ WaitReturn(c, chan[c])
      /\ UNCHANGED <<caps, epoch, generation, evictions, bytes, rows, order,
                     nextId, now, prep, ins>>
  BY DEF WaitWake, storeVars
<1> QED BY <1>1, <1>2, <1>3, WaitReturnInv

\* WaitPaused gives up, or prefers the verdict that is already there.
LEMMA WaitCtxDoneInv ==
  ASSUME Inv, NEW c \in Clients, WaitCtxDone(c)
  PROVE  Inv'
<1> DEFINE r == IF want[c] \in DOMAIN rows /\ rows[want[c]].done THEN rows[want[c]].result
                ELSE IF chan[c] # None THEN chan[c]
                ELSE "ctx"
<1>1. r \in WaitReturns \cup {None}
  <2>1. chan[c] \in WaitReturns \cup {None} /\ "ctx" \in WaitReturns
    BY DEF Inv, TypeOK, WaitReturns
  <2>2. want[c] \in DOMAIN rows => rows[want[c]].result \in WaitReturns \cup {None}
    BY DEF Inv, TypeOK, Records, WaitReturns
  <2> QED BY <2>1, <2>2
<1>2. paused' = {w \in paused : w[2] # c}
  <2>1. \A w \in paused : w = <<w[1], w[2]>> /\ (w[2] = c => w = <<want[c], c>>)
    BY DEF Inv, TypeOK, RegisteredWait
  <2> QED BY <2>1 DEF WaitCtxDone
<1>3. /\ pc[c] = "wait" /\ WaitReturn(c, r)
      /\ UNCHANGED <<caps, epoch, generation, evictions, bytes, rows, order,
                     nextId, now, prep, ins>>
  BY DEF WaitCtxDone
<1> HIDE DEF r
<1> QED BY <1>1, <1>2, <1>3, WaitReturnInv

\* The patched row stays, the k oldest of the others go.
LEMMA KeepPatched ==
  ASSUME TypeOK, OrderIsIndex, NEW id \in DOMAIN rows, NEW k \in 0 .. Len(order) - 1,
         NEW o, o = IF Position(id) <= k THEN InsertAt(Younger(k + 1), 1, id) ELSE Younger(k)
  PROVE  /\ o \in Seq(DOMAIN rows) /\ Once(o)
         /\ Elems(o) = DOMAIN rows \ FirstOf(Others(id), k)
         /\ id \notin FirstOf(Others(id), k)
         /\ FirstOf(Others(id), k) \subseteq DOMAIN rows
<1> DEFINE p == Position(id)
           V == FirstOf(Others(id), k)
<1>1. /\ p \in 1 .. Len(order) /\ order[p] = id /\ Len(Others(id)) = Len(order) - 1
      /\ \A i \in 1 .. Len(Others(id)) : Others(id)[i] = IF i < p THEN order[i] ELSE order[i + 1]
      /\ Elems(Others(id)) = DOMAIN rows \ {id}
  BY RemoveOne
<1>2. Len(order) \in Nat /\ Once(order) /\ DOMAIN rows = Elems(order) /\ order \in Seq(DOMAIN rows)
  BY OrderFacts
<1>3. id \notin V /\ V \subseteq DOMAIN rows
  <2>1. \A i \in 1 .. k : i \in 1 .. Len(Others(id))
    BY <1>1, <1>2
  <2>2. V \subseteq Elems(Others(id))
    BY <2>1 DEF Elems, FirstOf
  <2> HIDE DEF V
  <2> QED BY <1>1, <2>2
<1>4. \A i \in 1 .. k : Others(id)[i] = IF i < p THEN order[i] ELSE order[i + 1]
  BY <1>1, <1>2
<1> HIDE DEF p
<1>5. CASE p > k
  <2>1. V = FirstOf(order, k)
    BY SMTT(40), <1>1, <1>2, <1>4, <1>5 DEF FirstOf
  <2>2. k \in 0 .. Len(order) /\ o = Younger(k) /\ Oldest(k) = FirstOf(order, k)
    BY <1>1, <1>2, <1>5 DEF Oldest, FirstOf, p
  <2> QED BY <1>3, <2>1, <2>2, EvictOldest
<1>6. CASE p <= k
  <2> DEFINE y == Younger(k + 1)
             old == FirstOf(order, k + 1)
  <2>1. k + 1 \in 0 .. Len(order) /\ Oldest(k + 1) = old
    BY <1>2 DEF Oldest, FirstOf
  <2>2. y \in Seq(DOMAIN rows) /\ Once(y) /\ Elems(y) = DOMAIN rows \ old
    BY <2>1, EvictOldest
  <2>3. id \in old
    BY <1>1, <1>2, <1>6 DEF FirstOf
  <2>4. V = old \ {id}
    <3>1. ASSUME NEW i \in 1 .. k PROVE Others(id)[i] \in old
      BY <1>2, <1>4 DEF FirstOf
    <3>2. ASSUME NEW i \in 1 .. k + 1, order[i] # id PROVE order[i] \in V
      <4>1. CASE i < p
        BY <1>4, <1>6, <4>1, <1>1 DEF FirstOf
      <4>2. CASE i > p
        <5>1. i - 1 \in 1 .. k /\ Others(id)[i - 1] = order[i]
          BY <1>1, <1>4, <4>2
        <5> QED BY <5>1 DEF FirstOf
      <4> QED BY <1>1, <3>2, <4>1, <4>2
    <3> QED BY <1>3, <3>1, <3>2 DEF FirstOf
  <2>5. o = InsertAt(y, 1, id)
    BY <1>6 DEF p
  <2>6. \A i \in 1 .. Len(y) : y[i] # id
    BY <2>2, <2>3 DEF Elems, FirstOf
  <2> HIDE DEF y, old, V
  <2>7. Len(y) \in Nat /\ 1 \in 1 .. Len(y) + 1
    BY <2>2, LenProperties
  <2>8. o \in Seq(DOMAIN rows) /\ Once(o) /\ Elems(o) = Elems(y) \cup {id}
    BY <2>2, <2>5, <2>6, <2>7, InsertAtProps
  <2>9. old \subseteq DOMAIN rows
    BY <2>1, EvictOldest
  <2> QED BY <1>3, <2>2, <2>3, <2>4, <2>8, <2>9 DEF V
<1> QED BY <1>1, <1>2, <1>5, <1>6

\* Resume patches one row, evicts others to make room and answers everybody.
LEMMA ResumeInv ==
  ASSUME Inv, NEW id \in DOMAIN rows, NEW hdr \in Hdrs \cup {None},
         NEW body \in Bodies \cup {None}, Resume(id, hdr, body)
  PROVE  Inv'
<1> DEFINE r == rows[id]
           newHdr == IF hdr = None THEN r.hdr ELSE hdr
           newBody == IF body = None THEN r.body ELSE body
           extra == newHdr + newBody - r.resident
           k == Victims(id, extra)
           V == {Others(id)[i] : i \in 1 .. k}
           left == BytesLeft(Others(id))[k] + extra
           nr == [r EXCEPT !.hdr = newHdr, !.body = newBody,
                           !.resident = newHdr + newBody,
                           !.state = IF r.phase = "request" THEN "open" ELSE "completed",
                           !.done = TRUE, !.result = "resumed"]
           v == [i \in V \cup {id} |-> IF i = id THEN "resumed" ELSE "notfound"]
<1>1. TypeOK /\ OrderIsIndex /\ EpochFence /\ PreparedFresh /\ NoLostWaiter /\ RegisteredWait
      /\ FreshChannel
  BY DEF Inv
<1>2. r \in Records /\ newHdr \in Nat /\ newBody \in Nat /\ r.resident \in Nat
  <2>1. r \in Records
    BY <1>1 DEF TypeOK
  <2> QED BY <2>1, ConstantsAssumption DEF Records
<1>3. nr \in Records /\ nr.epoch = r.epoch
  <2> HIDE DEF newHdr, newBody, r
  <2> DEFINE st == IF r.phase = "request" THEN "open" ELSE "completed"
             sum == newHdr + newBody
  <2>1. st \in States /\ sum \in Nat /\ "resumed" \in Verdicts
    BY <1>2 DEF States, Verdicts
  <2> HIDE DEF st, sum
  <2>2. [r EXCEPT !.hdr = newHdr, !.body = newBody, !.resident = sum,
                  !.state = st, !.done = TRUE, !.result = "resumed"] \in Records
    BY <1>2, <2>1 DEF Records
  <2>3. nr \in Records
    BY <2>2 DEF st, sum
  <2>4. nr.epoch = r.epoch
    BY <1>2 DEF Records
  <2> QED BY <2>3, <2>4
<1>4. /\ rows' = [i \in DOMAIN rows \ V |-> IF i # id THEN rows[i] ELSE nr]
      /\ order' = IF Position(id) <= k THEN InsertAt(Younger(k + 1), 1, id) ELSE Younger(k)
      /\ bytes' = IF left < 0 THEN 0 ELSE left
      /\ generation' = generation + k + 1
      /\ evictions' = evictions + k
      /\ chan' = Deliver(V \cup {id}, v)
      /\ paused' = Unregistered(V \cup {id})
      /\ UNCHANGED <<caps, epoch, nextId, now, pc, prep, want, ins, ret>>
  BY DEF Resume
<1> HIDE DEF nr, newHdr, newBody
<1>5. extra \in Int
  BY <1>2
<1> HIDE DEF r, extra
<1>6. k \in 0 .. Len(order) - 1 /\ k \in Nat
  BY <1>1, VictimsStop
<1> HIDE DEF k
<1>7. V = FirstOf(Others(id), k)
  BY DEF FirstOf
<1>8. /\ order' \in Seq(DOMAIN rows) /\ Once(order') /\ Elems(order') = DOMAIN rows \ V
      /\ id \notin V /\ V \subseteq DOMAIN rows
  BY <1>1, <1>4, <1>6, <1>7, KeepPatched
<1>9. bytes' \in Nat
  <2>1. Others(id) \in Seq(DOMAIN rows) /\ k \in 0 .. Len(Others(id))
    BY <1>1, <1>6, RemoveOne
  <2>2. BytesLeft(Others(id))[k] \in Nat
    BY <1>1, <2>1, BytesLeftNat DEF TypeOK
  <2> QED BY <1>4, <1>5, <2>2
<1>10. \A i \in V \cup {id} : v[i] \in Verdicts
  BY DEF Verdicts
<1> HIDE DEF V, v, left
<1>11. /\ DOMAIN rows' = DOMAIN rows \ V
       /\ \A i \in DOMAIN rows' : rows'[i] = IF i # id THEN rows[i] ELSE nr
       /\ rows' \in [DOMAIN rows' -> Records]
  BY <1>1, <1>3, <1>4 DEF TypeOK
<1>12. NoLostWaiter' /\ RegisteredWait' /\ FreshChannel' /\ chan' \in [Clients -> Verdicts \cup {None}]
       /\ paused' \subseteq paused
  <2> DEFINE S == V \cup {id}
  <2>1. \A i \in DOMAIN rows \ S :
          /\ i \in DOMAIN rows'
          /\ rows'[i].state = rows[i].state /\ rows'[i].done = rows[i].done
    BY <1>11
  <2>2. \A i \in S : v[i] \in Verdicts
    BY <1>10
  <2>3. chan' = Deliver(S, v) /\ paused' = Unregistered(S) /\ want' = want /\ pc' = pc
    BY <1>4
  <2> HIDE DEF S
  <2> QED BY <1>1, <2>1, <2>2, <2>3, WaitersKept
<1>13. OrderIsIndex' /\ order' \in Seq(Ids)
  BY <1>1, <1>4, <1>8, <1>11, IndexKept
<1>14. TypeOK'
  <2>1. Ids' = Ids /\ generation' \in Nat /\ evictions' \in Nat
    <3>1. generation \in Nat /\ evictions \in Nat
      BY <1>1 DEF TypeOK
    <3> QED BY <1>4, <1>6, <3>1 DEF Ids
  <2> QED BY <1>1, <1>4, <1>9, <1>11, <1>12, <1>13, <2>1 DEF TypeOK
<1>15. EpochFence'
  BY <1>1, <1>3, <1>4, <1>11 DEF EpochFence, r
<1>16. PreparedFresh'
  BY <1>1, <1>4, <1>11, PreparedKept
<1> QED BY <1>12, <1>13, <1>14, <1>15, <1>16 DEF Inv

\* The caller of Insert leaves; nobody else moves and no waiter is touched.
LEMMA InsertReturnFacts ==
  ASSUME TypeOK, PreparedFresh, NEW c \in Clients, NEW r \in InsertReturns,
         pc[c] = "insert", InsertReturn(c, r)
  PROVE  /\ pc' \in [Clients -> {"idle", "insert", "wait"}]
         /\ prep' \in [Clients -> Prepared \cup {None}]
         /\ ins' \in [Clients -> InsertReturns \cup {None}]
         /\ \A d \in Clients : pc'[d] = "wait" <=> pc[d] = "wait"
         /\ \A d \in Clients : pc'[d] = "insert" =>
              /\ pc[d] = "insert" /\ d # c /\ prep'[d] = prep[d]
BY DEF TypeOK, InsertReturn

\* The second critical section of Insert, for the rows evicted before it ends.
LEMMA CommitParts ==
  ASSUME Inv, NEW c \in Clients, NEW r \in InsertReturns, NEW S, NEW N,
         pc[c] = "insert", InsertReturn(c, r),
         S \subseteq DOMAIN rows, N \subseteq {prep[c].id},
         DOMAIN rows' = (DOMAIN rows \ S) \cup N,
         rows' \in [DOMAIN rows' -> Records],
         \A i \in DOMAIN rows \ S : rows'[i] = rows[i],
         \A i \in N : rows'[i].epoch = epoch,
         order' \in Seq(Ids), Once(order'), Elems(order') = DOMAIN rows',
         bytes' \in Nat, generation' \in Nat, evictions' \in Nat,
         chan' = Deliver(S, Gone(S)), paused' = Unregistered(S),
         UNCHANGED <<caps, epoch, nextId, now, want, ret>>
  PROVE  Inv'
<1>1. TypeOK /\ OrderIsIndex /\ EpochFence /\ PreparedFresh /\ NoLostWaiter /\ RegisteredWait
      /\ FreshChannel
  BY DEF Inv
<1>2. /\ pc' \in [Clients -> {"idle", "insert", "wait"}]
      /\ prep' \in [Clients -> Prepared \cup {None}]
      /\ ins' \in [Clients -> InsertReturns \cup {None}]
      /\ \A d \in Clients : pc'[d] = "wait" <=> pc[d] = "wait"
      /\ \A d \in Clients : pc'[d] = "insert" =>
           pc[d] = "insert" /\ d # c /\ prep'[d] = prep[d]
  BY <1>1, InsertReturnFacts
<1>3. NoLostWaiter' /\ RegisteredWait' /\ FreshChannel' /\ chan' \in [Clients -> Verdicts \cup {None}]
      /\ paused' \subseteq paused
  <2>1. \A i \in S : Gone(S)[i] \in Verdicts
    BY DEF Gone, Verdicts
  <2>2. \A i \in DOMAIN rows \ S :
          /\ i \in DOMAIN rows'
          /\ rows'[i].state = rows[i].state /\ rows'[i].done = rows[i].done
    OBVIOUS
  <2> QED BY <1>1, <1>2, <2>1, <2>2, WaitersKept
<1>4. Ids' = Ids /\ DOMAIN rows' \subseteq Ids
  <2>1. prep[c].id \in Ids
    BY <1>1 DEF PreparedFresh
  <2>2. DOMAIN rows \subseteq Ids
    BY <1>1 DEF TypeOK
  <2> QED BY <2>1, <2>2 DEF Ids
<1>5. TypeOK'
  BY <1>1, <1>2, <1>3, <1>4 DEF TypeOK
<1>6. OrderIsIndex'
  BY IndexVocabulary DEF OrderIsIndex
<1>7. EpochFence'
  BY <1>1 DEF EpochFence
<1>8. PreparedFresh'
  <2> SUFFICES ASSUME NEW d \in Clients, pc'[d] = "insert"
               PROVE  /\ prep'[d] \in Prepared /\ prep'[d].id \in Ids'
                      /\ prep'[d].id \notin DOMAIN rows'
                      /\ \A e \in Clients \ {d} : pc'[e] = "insert" => prep'[e].id # prep'[d].id
    BY DEF PreparedFresh
  <2>1. pc[d] = "insert" /\ d # c /\ prep'[d] = prep[d]
    BY <1>2
  <2>2. /\ prep[d] \in Prepared /\ prep[d].id \in Ids /\ prep[d].id \notin DOMAIN rows
        /\ prep[d].id # prep[c].id
        /\ \A e \in Clients \ {d} : pc[e] = "insert" => prep[e].id # prep[d].id
    BY <1>1, <2>1 DEF PreparedFresh
  <2> QED BY <1>2, <1>4, <2>1, <2>2
<1> QED BY <1>3, <1>5, <1>6, <1>7, <1>8 DEF Inv

\* Insert, second critical section: refuse, or evict and file the flow.
LEMMA InsertCommitInv ==
  ASSUME Inv, NEW c \in Clients, InsertCommit(c)
  PROVE  Inv'
<1> DEFINE f == prep[c]
           candidate == f.hdr + f.body
           k == EvictUntilFits(candidate)
           S == Oldest(k)
<1>1. TypeOK /\ OrderIsIndex /\ EpochFence /\ PreparedFresh /\ NoLostWaiter /\ RegisteredWait
      /\ FreshChannel
  BY DEF Inv
<1>2. pc[c] = "insert" /\ UNCHANGED <<nextId, now, want, ret>>
  BY DEF InsertCommit
<1>3. f \in Prepared /\ f.id \in Ids /\ f.id \notin DOMAIN rows
  BY <1>1, <1>2 DEF PreparedFresh
<1>4. candidate \in Nat
  BY <1>3 DEF Prepared
<1>5. k \in 0 .. Len(order)
  BY <1>1, LoopsStop
<1>6. /\ Younger(k) \in Seq(DOMAIN rows) /\ Once(Younger(k))
      /\ Elems(Younger(k)) = DOMAIN rows \ S
      /\ S \subseteq DOMAIN rows /\ BytesLeft(order)[k] \in Nat /\ k \in Nat
  BY <1>1, <1>5, EvictOldest
<1>7. DOMAIN rows \subseteq Ids /\ Younger(k) \in Seq(Ids) /\ generation \in Nat /\ evictions \in Nat
      /\ rows \in [DOMAIN rows -> Records]
  BY <1>1, <1>6 DEF TypeOK
<1>8. {"stale", "full", "inserted"} \subseteq InsertReturns
  BY DEF InsertReturns
<1>9. CASE \E r \in {"stale", "full"} : InsertReturn(c, r) /\ UNCHANGED <<storeVars, chan>>
  <2>1. PICK r \in {"stale", "full"} : InsertReturn(c, r) /\ UNCHANGED <<storeVars, chan>>
    BY <1>9
  <2>2. /\ pc' \in [Clients -> {"idle", "insert", "wait"}]
        /\ prep' \in [Clients -> Prepared \cup {None}]
        /\ ins' \in [Clients -> InsertReturns \cup {None}]
        /\ \A d \in Clients : pc'[d] = "wait" <=> pc[d] = "wait"
        /\ \A d \in Clients : pc'[d] = "insert" =>
             pc[d] = "insert" /\ d # c /\ prep'[d] = prep[d]
    BY <1>1, <1>2, <1>8, <2>1, InsertReturnFacts
  <2>3. TypeOK' /\ OrderIsIndex'
    BY <1>1, <1>2, <2>1, <2>2 DEF TypeOK, OrderIsIndex, storeVars, Ids
  <2>4. PreparedFresh' /\ EpochFence'
    BY <1>1, <1>2, <2>1, <2>2 DEF PreparedFresh, EpochFence, storeVars, Ids
  <2>5. NoLostWaiter' /\ RegisteredWait' /\ FreshChannel'
    BY <1>1, <1>2, <2>1, <2>2 DEF NoLostWaiter, RegisteredWait, FreshChannel, storeVars, TypeOK
  <2> QED BY <2>3, <2>4, <2>5 DEF Inv
<1>10. CASE /\ f.epoch = epoch
            /\ evictions' = evictions + k
            /\ chan' = Deliver(S, Gone(S)) /\ paused' = Unregistered(S)
            /\ UNCHANGED <<caps, epoch>>
            /\ InsertIndexed(c, k, candidate)
  <2> DEFINE y == Younger(k)
             p == OrderPosition(y, f.id, f.at)
             N == {f.id}
  <2>1. Len(y) \in Nat /\ p \in 1 .. Len(y) + 1
    <3> DEFINE P == {q \in 1 .. Len(y) + 1 :
                       q <= Len(y) => \/ f.at < rows[y[q]].at
                                      \/ f.at = rows[y[q]].at /\ f.id < y[q]}
    <3>1. Len(y) \in Nat
      BY <1>6, LenProperties
    <3>2. P \in SUBSET Nat /\ Len(y) + 1 \in P
      BY <3>1
    <3>3. Min(P) \in P
      <4> HIDE DEF P
      <4> QED BY <3>2, MinOfNat
    <3> QED BY <3>1, <3>3 DEF OrderPosition
  <2>2. \A i \in 1 .. Len(y) : y[i] # f.id
    BY <1>3, <1>6, <1>7, LenProperties
  <2>3. /\ rows' = [i \in (DOMAIN rows \ S) \cup N |-> IF i = f.id THEN RowOf(f) ELSE rows[i]]
        /\ order' = InsertAt(y, p, f.id)
        /\ bytes' = BytesLeft(order)[k] + candidate
        /\ generation' = generation + k + 1
        /\ InsertReturn(c, "inserted")
    BY <1>10 DEF InsertIndexed
  <2>4. RowOf(f) \in Records /\ RowOf(f).epoch = epoch
    BY <1>3, <1>10 DEF RowOf, Records, Prepared
  <2>5. bytes' \in Nat /\ generation' \in Nat /\ evictions' \in Nat
    BY <1>4, <1>6, <1>7, <1>10, <2>3, SMTT(20)
  <2> HIDE DEF y, p, S, f, candidate, k
  <2>6. order' \in Seq(Ids) /\ Once(order') /\ Elems(order') = Elems(y) \cup N
    <3>1. y \in Seq(Ids) /\ Once(y)
      BY <1>6, <1>7 DEF y
    <3> QED BY <1>3, <2>1, <2>2, <2>3, <3>1, InsertAtProps
  <2>7. /\ DOMAIN rows' = (DOMAIN rows \ S) \cup N
        /\ \A i \in DOMAIN rows \ S : rows'[i] = rows[i]
        /\ \A i \in N : rows'[i].epoch = epoch
        /\ rows' \in [DOMAIN rows' -> Records]
    BY <1>3, <1>7, <2>3, <2>4
  <2>8. Elems(order') = DOMAIN rows'
    BY <1>6, <2>6, <2>7 DEF y
  <2>9. N \subseteq {prep[c].id}
    BY DEF f
  <2> HIDE DEF N
  <2> QED BY <1>2, <1>6, <1>8, <1>10, <2>3, <2>5, <2>6, <2>7, <2>8, <2>9, CommitParts
<1>11. CASE /\ evictions' = evictions + k
            /\ chan' = Deliver(S, Gone(S)) /\ paused' = Unregistered(S)
            /\ UNCHANGED <<caps, epoch>>
            /\ rows' = Without(S) /\ order' = Younger(k)
            /\ bytes' = BytesLeft(order)[k] /\ generation' = generation + k
            /\ InsertReturn(c, "full")
  <2> DEFINE N == {}
  <2>1. /\ DOMAIN rows' = (DOMAIN rows \ S) \cup N
        /\ \A i \in DOMAIN rows \ S : rows'[i] = rows[i]
        /\ \A i \in N : rows'[i].epoch = epoch
        /\ rows' \in [DOMAIN rows' -> Records]
    BY <1>7, <1>11 DEF Without
  <2> HIDE DEF S, k, candidate, f
  <2>2. /\ generation' \in Nat /\ evictions' \in Nat /\ bytes' \in Nat
        /\ order' \in Seq(Ids) /\ Once(order')
    BY <1>6, <1>7, <1>11
  <2>3. Elems(order') = DOMAIN rows' /\ N \subseteq {prep[c].id}
    BY <1>6, <1>11, <2>1
  <2> HIDE DEF N
  <2> QED BY <1>2, <1>6, <1>8, <1>11, <2>1, <2>2, <2>3, CommitParts
<1>12. \/ \E r \in {"stale", "full"} : InsertReturn(c, r) /\ UNCHANGED <<storeVars, chan>>
       \/ /\ f.epoch = epoch
          /\ evictions' = evictions + k
          /\ chan' = Deliver(S, Gone(S)) /\ paused' = Unregistered(S)
          /\ UNCHANGED <<caps, epoch>>
          /\ \/ InsertIndexed(c, k, candidate)
             \/ /\ rows' = Without(S) /\ order' = Younger(k)
                /\ bytes' = BytesLeft(order)[k] /\ generation' = generation + k
                /\ InsertReturn(c, "full")
  BY DEF InsertCommit, EpochCurrent
<1> HIDE DEF f, candidate, k, S
<1> QED BY <1>9, <1>10, <1>11, <1>12

\* Time passes, or nothing happens.
LEMMA TickInv ==
  ASSUME Inv, UNCHANGED <<storeVars, nextId, clientVars>>, now' \in Nat
  PROVE  Inv'
<1>1. TypeOK' /\ OrderIsIndex'
  BY DEF Inv, TypeOK, OrderIsIndex, storeVars, clientVars, Ids
<1>2. PreparedFresh' /\ EpochFence' /\ NoLostWaiter' /\ RegisteredWait' /\ FreshChannel'
  BY DEF Inv, PreparedFresh, EpochFence, NoLostWaiter, RegisteredWait, FreshChannel,
         storeVars, clientVars, Ids
<1> QED BY <1>1, <1>2 DEF Inv

-----------------------------------------------------------------------------
(* The theorems.                                                           *)

\* Every operation of the store preserves the inductive invariant.
LEMMA NextInv == Inv /\ [Next]_vars => Inv'
<1> SUFFICES ASSUME Inv, [Next]_vars PROVE Inv'
  OBVIOUS
<1>1. now \in Nat /\ epoch \in Nat /\ caps \in CapRecords
  BY DEF Inv, TypeOK
<1>2. ASSUME NEW c \in Clients, Insert(c) PROVE Inv'
  <2>1. CASE InsertCommit(c)
    BY <2>1, InsertCommitInv
  <2>2. ASSUME NEW state \in {"paused", "completed"}, NEW hdr \in Hdrs, NEW raw \in Bodies,
               NEW at \in 1 .. now, NEW e \in 1 .. epoch,
               NEW phase \in IF state = "paused" THEN Phases ELSE {"response"},
               InsertBegin(c, state, phase, hdr, raw, at, e)
        PROVE  Inv'
    <3>1. state \in States /\ phase \in Phases
      BY DEF States, Phases
    <3>2. hdr \in Nat /\ raw \in Nat /\ at \in Nat /\ e \in Nat
      BY <1>1, ConstantsAssumption
    <3> QED BY <2>2, <3>1, <3>2, InsertBeginInv
  <2> QED BY <1>2, <2>1, <2>2 DEF Insert
<1>3. ASSUME NEW c \in Clients, WaitPaused(c) PROVE Inv'
  BY <1>3, WaitEnterInv, WaitWakeInv, WaitCtxDoneInv DEF WaitPaused
<1>4. CASE Breakpoint
  BY <1>4, PauseInv, ResumeInv, DropInv, ExpireInv DEF Breakpoint
<1>5. CASE Admin
  <2>1. \A o \in CapSet : o \in CapRecords
    BY ConstantsAssumption
  <2>2. CASE Wipe
    BY <1>1, <2>2, ResetToInv DEF Wipe
  <2>3. CASE \E o \in CapSet : ResetTo(o)
    BY <2>1, <2>3, ResetToInv
  <2>4. CASE DeleteAll \/ \E id \in DOMAIN rows : Delete(id)
    BY <2>4, DeleteInv, DeleteAllInv
  <2>5. CASE \E o \in CapSet, force \in BOOLEAN : ReplaceCaps(o, force)
    BY <2>5, ReplaceCapsInv
  <2> QED BY <1>5, <2>2, <2>3, <2>4, <2>5 DEF Admin
<1>6. CASE Tick
  BY <1>1, <1>6, TickInv DEF Tick
<1>7. CASE UNCHANGED vars
  BY <1>1, <1>7, TickInv DEF vars, storeVars, clientVars
<1> QED BY <1>2, <1>3, <1>4, <1>5, <1>6, <1>7 DEF Next

\* The inductive invariant holds in every state of the store.
THEOREM Invariance == Spec => []Inv
BY InitInv, NextInv, PTL DEF Spec

\* Type correctness of internal/store.Memory and its callers.
THEOREM TypeCorrect == Spec => []TypeOK
<1>1. Inv => TypeOK
  BY DEF Inv
<1> QED BY Invariance, <1>1, PTL

\* The eviction order and the index never disagree, whichever rows eviction,
\* patching, deletion and late inserts pick (memory.go, order and byID).
THEOREM IndexConsistent == Spec => []OrderIsIndex
<1>1. Inv => OrderIsIndex
  BY DEF Inv
<1> QED BY Invariance, <1>1, PTL

\* No flow of a session pinned before a wipe is resident after it (the epoch
\* check of Insert's second critical section).
THEOREM NoStaleFlow == Spec => []EpochFence
<1>1. Inv => EpochFence
  BY DEF Inv
<1> QED BY Invariance, <1>1, PTL

\* Every goroutine blocked in WaitPaused is answered or still reachable by
\* whoever decides its row, for any number of waiters, rows and races.
THEOREM NobodyForgotten == Spec => [](NoLostWaiter /\ RegisteredWait)
<1>1. Inv => NoLostWaiter /\ RegisteredWait
  BY DEF Inv
<1> QED BY Invariance, <1>1, PTL

\* Removing k rows moves the generation by k, and removing none changes nothing.
LEMMA EvictionMoves ==
  ASSUME Inv, NEW k \in 0 .. Len(order), rows' = Without(Oldest(k)),
         generation' = generation + k
  PROVE  rows' # rows => generation' > generation
<1>1. rows \in [DOMAIN rows -> Records] /\ generation \in Nat /\ TypeOK /\ OrderIsIndex
  BY DEF Inv, TypeOK
<1>2. k \in Nat /\ (k = 0 => Oldest(k) = {})
  BY <1>1, EvictOldest
<1>3. CASE k = 0
  <2>1. Oldest(k) = {}
    BY <1>2, <1>3
  <2>2. rows' = [i \in DOMAIN rows |-> rows[i]]
    BY <2>1 DEF Without
  <2> QED BY <1>1, <2>2
<1>4. CASE k # 0
  BY <1>1, <1>2, <1>4
<1> QED BY <1>3, <1>4

\* The step form of GenerationCoversChange.
LEMMA NextGeneration ==
  ASSUME Inv, [Next]_vars
  PROVE  (rows' # rows \/ epoch' # epoch) => generation' > generation
<1>1. generation \in Nat /\ TypeOK /\ OrderIsIndex
  BY DEF Inv, TypeOK
<1>2. ASSUME NEW c \in Clients, Insert(c)
      PROVE  (rows' # rows \/ epoch' # epoch) => generation' > generation
  <2>1. CASE InsertCommit(c)
    <3> DEFINE candidate == prep[c].hdr + prep[c].body
               k == EvictUntilFits(candidate)
    <3>1. k \in 0 .. Len(order) /\ k \in Nat
      BY <1>1, LoopsStop, EvictOldest
    <3>2. \/ rows' = rows /\ epoch' = epoch
          \/ epoch' = epoch /\ generation' = generation + k + 1
          \/ epoch' = epoch /\ rows' = Without(Oldest(k)) /\ generation' = generation + k
      BY <2>1 DEF InsertCommit, InsertIndexed, storeVars
    <3> HIDE DEF k
    <3> QED BY <1>1, <3>1, <3>2, EvictionMoves
  <2>2. CASE rows' = rows /\ epoch' = epoch
    BY <2>2
  <2> QED BY <1>2, <2>1, <2>2 DEF Insert, InsertBegin, storeVars
<1>3. ASSUME NEW c \in Clients, WaitPaused(c) PROVE rows' = rows /\ epoch' = epoch
  BY <1>3 DEF WaitPaused, WaitEnter, WaitWake, WaitCtxDone, storeVars
<1>4. CASE Breakpoint
  <2>1. ASSUME NEW id \in DOMAIN rows, Pause(id) \/ Drop(id) \/ ExpireBreakpoint(id)
        PROVE  generation' > generation
    BY <1>1, <2>1 DEF Pause, Drop, ExpireBreakpoint
  <2>2. ASSUME NEW id \in DOMAIN rows, NEW hdr \in Hdrs \cup {None},
               NEW body \in Bodies \cup {None}, Resume(id, hdr, body)
        PROVE  generation' > generation
    <3> DEFINE r == rows[id]
               extra == (IF hdr = None THEN r.hdr ELSE hdr)
                        + (IF body = None THEN r.body ELSE body) - r.resident
               k == Victims(id, extra)
    <3>1. generation' = generation + k + 1
      BY <2>2 DEF Resume
    <3> HIDE DEF extra
    <3>2. k \in Nat
      BY <1>1, VictimsStop
    <3> HIDE DEF k
    <3> QED BY <1>1, <3>1, <3>2
  <2> QED BY <1>4, <2>1, <2>2 DEF Breakpoint
<1>5. CASE Admin
  <2>1. ASSUME NEW o, ResetTo(o) PROVE generation' > generation
    BY <1>1, <2>1 DEF ResetTo
  <2>2. ASSUME NEW id \in DOMAIN rows, Delete(id) PROVE generation' > generation
    BY <1>1, <2>2 DEF Delete
  <2>3. CASE DeleteAll
    <3>1. Len(order) \in 0 .. Len(order)
      BY <1>1, OrderFacts
    <3> QED BY <2>3, <3>1, EvictionMoves DEF DeleteAll
  <2>4. ASSUME NEW o \in CapSet, NEW force \in BOOLEAN, ReplaceCaps(o, force)
        PROVE  (rows' # rows \/ epoch' # epoch) => generation' > generation
    <3>1. EvictUntilUnderCaps(o) \in 0 .. Len(order)
      BY <1>1, LoopsStop
    <3> QED BY <2>4, <3>1, EvictionMoves DEF ReplaceCaps
  <2> QED BY <1>5, <2>1, <2>2, <2>3, <2>4 DEF Admin, Wipe
<1>6. CASE Tick \/ UNCHANGED vars
  BY <1>6 DEF Tick, vars, storeVars
<1> QED BY <1>2, <1>3, <1>4, <1>5, <1>6 DEF Next

\* No visible change of the inbox escapes the generation counter, although
\* eviction, patching and deletion bump it at different places (removeLocked,
\* Insert, Resume, ResetTo).
THEOREM EveryChangeIsNumbered == Spec => GenerationCoversChange
<1>1. Inv /\ [Next]_vars => [(rows' # rows \/ epoch' # epoch) => generation' > generation]_vars
  BY NextGeneration
<1> QED BY Invariance, <1>1, PTL DEF Spec, GenerationCoversChange


\* When the dry run accepts a flow, the eviction loop stops where it fits.
LEMMA DryRunIsExact ==
  ASSUME TypeOK, NEW candidate, CanAccept(candidate)
  PROVE  FitsAfter(EvictUntilFits(candidate), candidate)
<1> DEFINE S == {k \in 0 .. Len(order) : FitsAfter(k, candidate) \/ k = Len(order)}
<1>1. Len(order) \in Nat
  BY LenProperties DEF TypeOK
<1>2. PICK k \in 0 .. Len(order) : FitsAfter(k, candidate)
  BY <1>1 DEF CanAccept
<1>3. S \in SUBSET Nat /\ k \in S
  BY <1>1, <1>2
<1>4. Min(S) \in S /\ Min(S) <= k
  <2> HIDE DEF S
  <2> QED BY <1>3, MinOfNat
<1>5. CASE Min(S) = Len(order)
  <2>1. k = Len(order)
    <3> HIDE DEF S
    <3> QED BY <1>1, <1>2, <1>4, <1>5
  <2> QED BY <1>2, <1>5, <2>1 DEF EvictUntilFits
<1>6. CASE Min(S) # Len(order)
  BY <1>4, <1>6 DEF EvictUntilFits
<1> QED BY <1>5, <1>6

\* The step form of RefusedInsertIsPure.
LEMMA NextRefusal ==
  ASSUME Inv, [Next]_vars, NEW c \in Clients,
         pc[c] = "insert", pc'[c] = "idle", ins'[c] # "inserted"
  PROVE  UNCHANGED storeVars
<1>1. TypeOK
  BY DEF Inv
<1>2. ASSUME NEW d \in Clients, InsertCommit(d) PROVE UNCHANGED storeVars
  <2> DEFINE candidate == prep[d].hdr + prep[d].body
             k == EvictUntilFits(candidate)
  <2>1. d = c
    BY <1>1, <1>2 DEF InsertCommit, InsertIndexed, InsertReturn, TypeOK
  <2>2. CASE ~EpochCurrent(prep[d]) \/ ~CanAccept(candidate)
    BY <1>2, <2>2 DEF InsertCommit
  <2>3. CASE EpochCurrent(prep[d]) /\ CanAccept(candidate)
    <3>1. FitsAfter(k, candidate)
      BY <1>1, <2>3, DryRunIsExact
    <3>2. InsertIndexed(d, k, candidate)
      BY <1>2, <2>3, <3>1 DEF InsertCommit
    <3>3. ins'[c] = "inserted"
      BY <1>1, <2>1, <3>2 DEF InsertIndexed, InsertReturn, TypeOK
    <3> QED BY <3>3
  <2> QED BY <2>2, <2>3
<1>3. ASSUME NEW d \in Clients, NEW state, NEW phase, NEW hdr, NEW raw, NEW at, NEW e,
             InsertBegin(d, state, phase, hdr, raw, at, e)
      PROVE  UNCHANGED storeVars
  BY <1>3 DEF InsertBegin
<1>4. ASSUME NEW d \in Clients, WaitPaused(d) PROVE FALSE
  BY <1>1, <1>4 DEF WaitPaused, WaitEnter, WaitWake, WaitCtxDone, WaitReturn, TypeOK
<1>5. CASE pc' = pc
  BY <1>5
<1>6. CASE Breakpoint
  <2>1. \A id : Pause(id) \/ Drop(id) \/ ExpireBreakpoint(id) => pc' = pc
    BY DEF Pause, Drop, ExpireBreakpoint, clientVars
  <2>2. \A id, hdr, body : Resume(id, hdr, body) => pc' = pc
    BY DEF Resume
  <2> QED BY <1>5, <1>6, <2>1, <2>2 DEF Breakpoint
<1>7. CASE Admin
  BY <1>5, <1>7 DEF Admin, Delete, DeleteAll, ReplaceCaps, ResetTo, Wipe
<1>8. CASE Tick \/ UNCHANGED vars
  BY <1>5, <1>8 DEF Tick, vars, clientVars
<1> QED BY <1>2, <1>3, <1>4, <1>6, <1>7, <1>8 DEF Next, Insert

\* A refused Insert evicts nothing and charges nothing: canAcceptLocked promises
\* exactly what the eviction loop of memory.go then needs.
THEOREM RefusalIsPure == Spec => RefusedInsertIsPure
<1>1. Inv /\ [Next]_vars =>
        [\A c \in Clients :
           pc[c] = "insert" /\ pc'[c] = "idle" /\ ins'[c] # "inserted"
             => UNCHANGED storeVars]_vars
  BY NextRefusal
<1> QED BY Invariance, <1>1, PTL DEF Spec, RefusedInsertIsPure

-----------------------------------------------------------------------------
(* The byte counter and the caps.                                          *)

\* What the resident rows weigh.
Sizes == [i \in DOMAIN rows |-> rows[i].hdr + rows[i].body]
Held(S) == SumFunctionOnSet(Sizes, S)

\* residentBytes is recomputed wherever headers or body change.
ResidentIsSize == \A i \in DOMAIN rows : rows[i].resident = rows[i].hdr + rows[i].body

CapInv == Inv /\ ResidentIsSize /\ OccupancyWithinCaps

\* Finitely many rows, each of some size.
LEMMA RowsFinite ==
  ASSUME TypeOK
  PROVE  /\ IsFiniteSet(DOMAIN rows) /\ Cardinality(DOMAIN rows) \in Nat
         /\ \A S \in SUBSET DOMAIN rows :
              /\ IsFiniteSet(S) /\ Cardinality(S) \in Nat /\ Held(S) \in Nat
              /\ S = {} => Held(S) = 0
              /\ \A i \in S : Sizes[i] \in Nat
         /\ SumFunction(Sizes) = Held(DOMAIN rows)
<1>1. nextId \in Nat /\ DOMAIN rows \subseteq Ids /\ rows \in [DOMAIN rows -> Records]
  BY DEF TypeOK
<1>2. IsFiniteSet(DOMAIN rows)
  <2>1. IsFiniteSet(Ids)
    BY <1>1, FS_Interval DEF Ids
  <2> QED BY <1>1, <2>1, FS_Subset
<1>3. \A i \in DOMAIN rows : Sizes[i] \in Nat
  BY <1>1 DEF Sizes, Records
<1>4. ASSUME NEW S \in SUBSET DOMAIN rows
      PROVE  /\ IsFiniteSet(S) /\ Cardinality(S) \in Nat /\ Held(S) \in Nat
             /\ S = {} => Held(S) = 0
             /\ \A i \in S : Sizes[i] \in Nat
  <2>1. IsFiniteSet(S) /\ \A i \in S : Sizes[i] \in Nat
    BY <1>2, <1>3, FS_Subset
  <2> QED BY <2>1, SumProps, FS_CardinalityType DEF Held
<1>5. SumFunction(Sizes) = Held(DOMAIN rows)
  BY DEF SumFunction, Held, Sizes
<1> QED BY <1>2, <1>4, <1>5

\* Taking one row away takes its size away.
LEMMA HeldWithout ==
  ASSUME TypeOK, NEW S \in SUBSET DOMAIN rows, NEW x \in S
  PROVE  /\ Held(S) = Held(S \ {x}) + Sizes[x]
         /\ Held(S \ {x}) \in Nat /\ Sizes[x] \in Nat
<1> DEFINE T == S \ {x}
<1>1. T \in SUBSET DOMAIN rows /\ x \notin T /\ S = T \cup {x}
  OBVIOUS
<1> HIDE DEF T
<1>2. IsFiniteSet(T) /\ Held(T) \in Nat /\ Sizes[x] \in Nat /\ \A i \in T : Sizes[i] \in Nat
  BY <1>1, RowsFinite
<1>3. Held(T \cup {x}) = Held(T) + Sizes[x]
  BY <1>1, <1>2, SumProps DEF Held
<1> QED BY <1>1, <1>2, <1>3 DEF T

\* The eviction loops' byte counter is exactly what the rows they keep weigh.
LEMMA BytesLeftExact ==
  ASSUME CapInv, NEW s \in Seq(DOMAIN rows), Once(s), NEW k \in 0 .. Len(s)
  PROVE  BytesLeft(s)[k] = Held(DOMAIN rows \ FirstOf(s, k))
<1> DEFINE left(j) == DOMAIN rows \ FirstOf(s, j)
           P == {j \in Nat : j <= Len(s) => BytesLeft(s)[j] = Held(left(j))}
<1>1. TypeOK /\ ResidentIsSize /\ bytes = SumFunction(Sizes) /\ bytes \in Nat
      /\ rows \in [DOMAIN rows -> Records]
  BY DEF CapInv, Inv, OccupancyWithinCaps, Sizes, TypeOK
<1>2. Len(s) \in Nat /\ \A j \in 1 .. Len(s) : s[j] \in DOMAIN rows
  BY LenProperties
<1>3. 0 \in P
  <2>1. left(0) = DOMAIN rows
    <3>1. 1 .. 0 = {}
      OBVIOUS
    <3> QED BY <3>1 DEF FirstOf
  <2>2. BytesLeft(s)[0] = bytes
    BY <1>1, <1>2, BytesLeftNat
  <2> QED BY <1>1, <2>1, <2>2, RowsFinite
<1>4. ASSUME NEW j \in Nat, j \in P PROVE j + 1 \in P
  <2> SUFFICES ASSUME j + 1 <= Len(s) PROVE BytesLeft(s)[j + 1] = Held(left(j + 1))
    OBVIOUS
  <2>0. j + 1 \in 0 .. Len(s) /\ j \in 0 .. Len(s) /\ j + 1 \in 1 .. Len(s)
    BY <1>2
  <2> DEFINE x == s[j + 1]
  <2>1. x \in DOMAIN rows /\ x \notin FirstOf(s, j)
    BY <1>2, <2>0 DEF Once, FirstOf
  <2>2. left(j + 1) = left(j) \ {x}
    BY <1>2, <2>0 DEF FirstOf
  <2>3. BytesLeft(s)[j + 1] = Sub(BytesLeft(s)[j], rows[x].resident)
    <3>1. j + 1 # 0 /\ (j + 1) - 1 = j
      OBVIOUS
    <3> QED BY <1>1, <2>0, <3>1, BytesLeftNat
  <2>4. BytesLeft(s)[j] = Held(left(j)) /\ rows[x].resident = Sizes[x]
    BY <1>1, <1>4, <2>0, <2>1 DEF ResidentIsSize, Sizes
  <2> DEFINE L == left(j)
  <2>5. L \in SUBSET DOMAIN rows /\ x \in L
    BY <2>1
  <2> HIDE DEF L, x, left
  <2>6. Held(L) = Held(L \ {x}) + Sizes[x] /\ Held(L \ {x}) \in Nat /\ Sizes[x] \in Nat
    BY <1>1, <2>5, HeldWithout
  <2>7. BytesLeft(s)[j + 1] = Held(L \ {x})
    <3>1. BytesLeft(s)[j] = Held(L)
      BY <2>4 DEF L
    <3> QED BY <2>3, <2>4, <2>6, <3>1 DEF Sub
  <2> QED BY <2>2, <2>7 DEF L
<1>5. Nat \subseteq P
  <2> HIDE DEF P
  <2> QED BY <1>3, <1>4, SetInduction
<1> QED BY <1>2, <1>5

\* Rows whose sizes stay: the new sum is the old one over what is left.
LEMMA SumKept ==
  ASSUME TypeOK, DOMAIN rows' \subseteq DOMAIN rows,
         \A i \in DOMAIN rows' : rows'[i].hdr + rows'[i].body = Sizes[i]
  PROVE  /\ SumFunction(Sizes') = Held(DOMAIN rows')
         /\ Held(DOMAIN rows') <= Held(DOMAIN rows)
         /\ Cardinality(DOMAIN rows') <= Cardinality(DOMAIN rows)
<1> DEFINE D == DOMAIN rows'
           g == [i \in D |-> rows'[i].hdr + rows'[i].body]
<1>1. D \in SUBSET DOMAIN rows /\ DOMAIN g = D /\ \A i \in D : g[i] = Sizes[i]
  OBVIOUS
<1>2. Sizes' = g
  BY DEF Sizes
<1> HIDE DEF g, D
<1>3. /\ IsFiniteSet(D) /\ IsFiniteSet(DOMAIN rows) /\ \A i \in D : Sizes[i] \in Nat
      /\ \A i \in DOMAIN rows : Sizes[i] \in Nat
  BY <1>1, RowsFinite
<1>4. SumFunctionOnSet(g, D) = SumFunctionOnSet(Sizes, D)
  BY <1>1, <1>3, SumProps
<1>5. SumFunctionOnSet(Sizes, D) <= SumFunctionOnSet(Sizes, DOMAIN rows)
  BY <1>1, <1>3, SumMonotone
<1>6. Cardinality(D) <= Cardinality(DOMAIN rows)
  BY <1>1, <1>3, FS_Subset
<1> QED BY <1>1, <1>2, <1>4, <1>5, <1>6 DEF SumFunction, Held, D

\* Rows leave and the counter follows exactly.
LEMMA RemovalIsExact ==
  ASSUME CapInv, NEW S \in SUBSET DOMAIN rows, rows' = Without(S),
         bytes' = Held(DOMAIN rows \ S),
         \/ caps' = caps
         \/ /\ Cardinality(DOMAIN rows') <= caps'.maxFlows
            /\ bytes' <= caps'.maxBytes
  PROVE  ResidentIsSize' /\ OccupancyWithinCaps'
<1>1. TypeOK /\ ResidentIsSize /\ OccupancyWithinCaps
  BY DEF CapInv, Inv
<1>2. DOMAIN rows' = DOMAIN rows \ S /\ \A i \in DOMAIN rows' : rows'[i] = rows[i]
  BY DEF Without
<1>3. ResidentIsSize' /\ \A i \in DOMAIN rows' : rows'[i].hdr + rows'[i].body = Sizes[i]
  BY <1>1, <1>2 DEF ResidentIsSize, Sizes
<1>4. /\ SumFunction(Sizes') = Held(DOMAIN rows')
      /\ Held(DOMAIN rows') <= Held(DOMAIN rows)
      /\ Cardinality(DOMAIN rows') <= Cardinality(DOMAIN rows)
  BY <1>1, <1>2, <1>3, SumKept
<1>5. /\ Cardinality(DOMAIN rows) <= caps.maxFlows /\ bytes <= caps.maxBytes
      /\ bytes = Held(DOMAIN rows)
  BY <1>1, RowsFinite DEF OccupancyWithinCaps, Sizes
<1>6. /\ Cardinality(DOMAIN rows) \in Nat /\ Cardinality(DOMAIN rows') \in Nat
      /\ Held(DOMAIN rows) \in Nat /\ Held(DOMAIN rows') \in Nat
      /\ caps.maxFlows \in Nat /\ caps.maxBytes \in Nat
  <2>1. DOMAIN rows' \in SUBSET DOMAIN rows
    BY <1>2
  <2>2. Held(DOMAIN rows) \in Nat /\ Held(DOMAIN rows') \in Nat /\ Cardinality(DOMAIN rows') \in Nat
    BY <1>1, <2>1, RowsFinite
  <2> QED BY <1>1, <2>2, RowsFinite DEF TypeOK, CapRecords
<1>7. Cardinality(DOMAIN rows') <= caps'.maxFlows /\ bytes' <= caps'.maxBytes
  BY <1>2, <1>4, <1>5, <1>6
<1>8. bytes' = SumFunction(Sizes')
  BY <1>2, <1>4
<1> QED BY <1>3, <1>7, <1>8 DEF OccupancyWithinCaps, Sizes

\* Steps that leave the size of every row alone.
LEMMA SameSizes ==
  ASSUME CapInv, UNCHANGED <<bytes, caps>>, DOMAIN rows' = DOMAIN rows,
         \A i \in DOMAIN rows :
           /\ rows'[i].hdr = rows[i].hdr /\ rows'[i].body = rows[i].body
           /\ rows'[i].resident = rows[i].resident
  PROVE  ResidentIsSize' /\ OccupancyWithinCaps'
<1>1. TypeOK /\ ResidentIsSize /\ OccupancyWithinCaps
  BY DEF CapInv, Inv
<1>2. ResidentIsSize' /\ \A i \in DOMAIN rows' : rows'[i].hdr + rows'[i].body = Sizes[i]
  BY <1>1 DEF ResidentIsSize, Sizes
<1>3. SumFunction(Sizes') = Held(DOMAIN rows) /\ SumFunction(Sizes) = Held(DOMAIN rows)
  BY <1>1, <1>2, SumKept, RowsFinite
<1>4. /\ Cardinality(DOMAIN rows) <= caps.maxFlows /\ bytes <= caps.maxBytes
      /\ bytes = SumFunction(Sizes)
  BY <1>1 DEF OccupancyWithinCaps, Sizes
<1>5. bytes' = SumFunction(Sizes')
  BY <1>3, <1>4
<1> QED BY <1>2, <1>4, <1>5 DEF OccupancyWithinCaps, Sizes

\* What the eviction loops leave: how many rows, and how many bytes.
LEMMA EvictionIsExact ==
  ASSUME CapInv, NEW k \in 0 .. Len(order)
  PROVE  /\ Oldest(k) \in SUBSET DOMAIN rows
         /\ BytesLeft(order)[k] = Held(DOMAIN rows \ Oldest(k))
         /\ Cardinality(DOMAIN rows \ Oldest(k)) = Cardinality(DOMAIN rows) - k
         /\ k = Len(order) => DOMAIN rows \ Oldest(k) = {}
<1>1. TypeOK /\ OrderIsIndex
  BY DEF CapInv, Inv
<1>2. order \in Seq(DOMAIN rows) /\ Once(order) /\ DOMAIN rows = Elems(order)
  BY <1>1, OrderFacts
<1>3. Oldest(k) = FirstOf(order, k)
  BY DEF Oldest, FirstOf
<1>4. Oldest(k) \in SUBSET DOMAIN rows
  BY <1>1, EvictOldest
<1>5. BytesLeft(order)[k] = Held(DOMAIN rows \ Oldest(k))
  BY <1>2, <1>3, BytesLeftExact
<1>6. IsFiniteSet(Oldest(k)) /\ Cardinality(Oldest(k)) = k
  BY <1>2, <1>3, FirstOfSize
<1>7. Cardinality(DOMAIN rows \ Oldest(k)) = Cardinality(DOMAIN rows) - k
  <2>1. DOMAIN rows \cap Oldest(k) = Oldest(k)
    BY <1>4
  <2>2. IsFiniteSet(DOMAIN rows)
    BY <1>1, RowsFinite
  <2>3. Cardinality(DOMAIN rows \ Oldest(k))
          = Cardinality(DOMAIN rows) - Cardinality(DOMAIN rows \cap Oldest(k))
    BY <2>2, FS_Difference
  <2> QED BY <1>6, <2>1, <2>3
<1>8. k = Len(order) => DOMAIN rows \ Oldest(k) = {}
  BY <1>2, <1>3 DEF Elems
<1> QED BY <1>4, <1>5, <1>7, <1>8

\* Deletion of one row or of all of them.
LEMMA DeletionCaps ==
  ASSUME CapInv, DeleteAll \/ \E id \in DOMAIN rows : Delete(id)
  PROVE  ResidentIsSize' /\ OccupancyWithinCaps'
<1>1. TypeOK /\ ResidentIsSize /\ OrderIsIndex /\ bytes = Held(DOMAIN rows)
  BY RowsFinite DEF CapInv, Inv, OccupancyWithinCaps, Sizes
<1>2. ASSUME NEW id \in DOMAIN rows, Delete(id) PROVE ResidentIsSize' /\ OccupancyWithinCaps'
  <2> DEFINE S == {id}
  <2>1. rows' = Without(S) /\ bytes' = Sub(bytes, rows[id].resident) /\ caps' = caps
        /\ S \in SUBSET DOMAIN rows
    BY <1>2 DEF Delete
  <2>2. rows[id].resident = Sizes[id]
    BY <1>1 DEF ResidentIsSize, Sizes
  <2>3. /\ Held(DOMAIN rows) = Held(DOMAIN rows \ {id}) + Sizes[id]
        /\ Held(DOMAIN rows \ {id}) \in Nat /\ Sizes[id] \in Nat
    BY <1>1, HeldWithout
  <2>4. bytes' = Held(DOMAIN rows \ S)
    BY <1>1, <2>1, <2>2, <2>3 DEF Sub
  <2> HIDE DEF S
  <2> QED BY <2>1, <2>4, RemovalIsExact
<1>3. CASE DeleteAll
  <2> DEFINE k == Len(order)
             S == Oldest(k)
  <2>1. k \in 0 .. Len(order)
    BY <1>1, OrderFacts
  <2>2. rows' = Without(S) /\ bytes' = BytesLeft(order)[k] /\ caps' = caps
    BY <1>3 DEF DeleteAll
  <2> HIDE DEF k
  <2>3. S \in SUBSET DOMAIN rows /\ bytes' = Held(DOMAIN rows \ S)
    BY <2>1, <2>2, EvictionIsExact
  <2> HIDE DEF S
  <2> QED BY <2>2, <2>3, RemovalIsExact
<1> QED BY <1>2, <1>3

\* New caps: eviction goes on until they hold, or nothing is left.
LEMMA ReplaceCapsCaps ==
  ASSUME CapInv, NEW o \in CapSet, NEW force \in BOOLEAN, ReplaceCaps(o, force)
  PROVE  ResidentIsSize' /\ OccupancyWithinCaps'
<1> DEFINE k == EvictUntilUnderCaps(o)
           S == Oldest(k)
           K == {j \in 0 .. Len(order) : UnderCapsAfter(j, o) \/ j = Len(order)}
<1>1. TypeOK /\ OrderIsIndex /\ o.maxFlows \in Nat /\ o.maxBytes \in Nat
  BY ConstantsAssumption DEF CapInv, Inv, CapRecords
<1>2. k \in K
  <2>1. Len(order) \in Nat
    BY <1>1, OrderFacts
  <2>2. K \in SUBSET Nat /\ Len(order) \in K
    BY <2>1
  <2>3. Min(K) \in K
    <3> HIDE DEF K
    <3> QED BY <2>2, MinOfNat
  <2> QED BY <2>3 DEF EvictUntilUnderCaps
<1>3. rows' = Without(S) /\ bytes' = BytesLeft(order)[k] /\ caps' = o
  BY DEF ReplaceCaps
<1> HIDE DEF k
<1>4. k \in 0 .. Len(order) /\ (UnderCapsAfter(k, o) \/ k = Len(order))
  BY <1>2
<1>5. /\ S \in SUBSET DOMAIN rows /\ bytes' = Held(DOMAIN rows \ S)
      /\ Cardinality(DOMAIN rows \ S) = Cardinality(DOMAIN rows) - k
      /\ k = Len(order) => DOMAIN rows \ S = {}
  BY <1>3, <1>4, EvictionIsExact
<1> HIDE DEF S
<1>6. DOMAIN rows' = DOMAIN rows \ S
  BY <1>3 DEF Without
<1>7. Cardinality(DOMAIN rows') <= caps'.maxFlows /\ bytes' <= caps'.maxBytes
  <2>1. CASE UnderCapsAfter(k, o)
    BY <1>3, <1>5, <1>6, <2>1 DEF UnderCapsAfter
  <2>2. CASE k = Len(order)
    <3>1. DOMAIN rows' = {} /\ {} \in SUBSET DOMAIN rows /\ bytes' = Held({})
      BY <1>5, <1>6, <2>2
    <3>2. bytes' = 0
      BY <1>1, <3>1, RowsFinite
    <3>3. Cardinality(DOMAIN rows') = 0
      BY <3>1, FS_EmptySet
    <3> QED BY <1>1, <1>3, <3>2, <3>3
  <2> QED BY <1>4, <2>1, <2>2
<1> QED BY <1>3, <1>5, <1>7, RemovalIsExact

\* A wipe empties the inbox.
LEMMA ResetToCaps ==
  ASSUME CapInv, NEW o \in CapRecords, ResetTo(o)
  PROVE  ResidentIsSize' /\ OccupancyWithinCaps'
<1>1. TypeOK /\ o.maxFlows \in Nat /\ o.maxBytes \in Nat
  BY DEF CapInv, Inv, CapRecords
<1>2. DOMAIN rows' = {} /\ bytes' = 0 /\ caps' = o
  BY DEF ResetTo
<1>3. SumFunction(Sizes') = Held({}) /\ {} \in SUBSET DOMAIN rows
  BY <1>1, <1>2, SumKept
<1>4. bytes' = SumFunction(Sizes')
  BY <1>1, <1>2, <1>3, RowsFinite
<1>5. Cardinality(DOMAIN rows') = 0
  BY <1>2, FS_EmptySet
<1> QED BY <1>1, <1>2, <1>4, <1>5 DEF ResidentIsSize, OccupancyWithinCaps, Sizes

\* One row is replaced or added: the sum moves by the difference.
LEMMA SumChanged ==
  ASSUME TypeOK, NEW D \in SUBSET DOMAIN rows, NEW x, x \notin D,
         DOMAIN rows' = D \cup {x}, NEW n \in Nat, rows'[x].hdr + rows'[x].body = n,
         \A i \in D : rows'[i] = rows[i]
  PROVE  SumFunction(Sizes') = Held(D) + n /\ Cardinality(DOMAIN rows') = Cardinality(D) + 1
<1> DEFINE g == [i \in D \cup {x} |-> rows'[i].hdr + rows'[i].body]
<1>1. DOMAIN g = D \cup {x} /\ g[x] = n /\ \A i \in D : g[i] = Sizes[i]
  BY DEF Sizes
<1>2. Sizes' = g
  BY DEF Sizes
<1> HIDE DEF g
<1>3. IsFiniteSet(D) /\ \A i \in D : Sizes[i] \in Nat
  BY RowsFinite
<1>4. SumFunctionOnSet(g, D \cup {x}) = SumFunctionOnSet(g, D) + n
  BY <1>1, <1>3, SumProps
<1>5. SumFunctionOnSet(g, D) = SumFunctionOnSet(Sizes, D)
  BY <1>1, <1>3, SumProps
<1>6. Cardinality(D \cup {x}) = Cardinality(D) + 1
  BY <1>3, FS_AddElement
<1> QED BY <1>1, <1>2, <1>4, <1>5, <1>6 DEF SumFunction, Held

\* Insert commits only what fits after the rows it evicts.
LEMMA InsertCommitCaps ==
  ASSUME CapInv, NEW c \in Clients, InsertCommit(c)
  PROVE  ResidentIsSize' /\ OccupancyWithinCaps'
<1> DEFINE f == prep[c]
           candidate == f.hdr + f.body
           k == EvictUntilFits(candidate)
           D == DOMAIN rows \ Oldest(k)
<1>1. TypeOK /\ ResidentIsSize /\ PreparedFresh /\ pc[c] = "insert"
      /\ caps.maxFlows \in Nat /\ caps.maxBytes \in Nat
  BY DEF CapInv, Inv, InsertCommit, TypeOK, CapRecords
<1>2. f \in Prepared /\ f.id \notin DOMAIN rows /\ candidate \in Nat
  BY <1>1 DEF PreparedFresh, Prepared
<1>3. k \in 0 .. Len(order)
  BY <1>1, LoopsStop
<1>4. CASE ~EpochCurrent(f) \/ ~CanAccept(candidate)
  <2>1. UNCHANGED <<rows, bytes, caps>>
    BY <1>4 DEF InsertCommit, storeVars
  <2> QED BY <2>1, SameSizes
<1>5. CASE EpochCurrent(f) /\ CanAccept(candidate)
  <2>1. FitsAfter(k, candidate)
    BY <1>1, <1>5, DryRunIsExact
  <2>2. InsertIndexed(c, k, candidate) /\ caps' = caps
    BY <1>5, <2>1 DEF InsertCommit
  <2> HIDE DEF k, candidate
  <2>3. /\ D \in SUBSET DOMAIN rows /\ BytesLeft(order)[k] = Held(D)
        /\ Cardinality(D) = Cardinality(DOMAIN rows) - k
    BY <1>3, EvictionIsExact
  <2>4. /\ rows' = [i \in D \cup {f.id} |-> IF i = f.id THEN RowOf(f) ELSE rows[i]]
        /\ bytes' = Held(D) + candidate
    BY <2>2, <2>3 DEF InsertIndexed
  <2> HIDE DEF D
  <2>5. /\ DOMAIN rows' = D \cup {f.id} /\ rows'[f.id] = RowOf(f) /\ f.id \notin D
        /\ \A i \in D : rows'[i] = rows[i]
    BY <1>2, <2>3, <2>4
  <2>6. /\ RowOf(f).hdr + RowOf(f).body = candidate
        /\ RowOf(f).resident = RowOf(f).hdr + RowOf(f).body
    BY DEF RowOf, candidate
  <2>7. SumFunction(Sizes') = Held(D) + candidate /\ Cardinality(DOMAIN rows') = Cardinality(D) + 1
    BY <1>1, <1>2, <2>3, <2>5, <2>6, SumChanged
  <2>8. Cardinality(D) < caps.maxFlows /\ Held(D) + candidate <= caps.maxBytes /\ Cardinality(D) \in Nat
    BY <1>1, <2>1, <2>3, RowsFinite DEF FitsAfter
  <2>9. Cardinality(DOMAIN rows') <= caps'.maxFlows /\ bytes' <= caps'.maxBytes
    BY <1>1, <2>2, <2>4, <2>7, <2>8
  <2>10. ResidentIsSize'
    BY <1>1, <2>3, <2>5, <2>6 DEF ResidentIsSize
  <2> QED BY <2>4, <2>7, <2>9, <2>10 DEF OccupancyWithinCaps, Sizes
<1> QED BY <1>4, <1>5

\* Resume charges the patch after the rows it evicts.
LEMMA ResumeCaps ==
  ASSUME CapInv, NEW id \in DOMAIN rows, NEW hdr \in Hdrs \cup {None},
         NEW body \in Bodies \cup {None}, Resume(id, hdr, body)
  PROVE  ResidentIsSize' /\ OccupancyWithinCaps'
<1> DEFINE r == rows[id]
           newHdr == IF hdr = None THEN r.hdr ELSE hdr
           newBody == IF body = None THEN r.body ELSE body
           extra == newHdr + newBody - r.resident
           k == Victims(id, extra)
           V == {Others(id)[i] : i \in 1 .. k}
           left == BytesLeft(Others(id))[k] + extra
           nr == [r EXCEPT !.hdr = newHdr, !.body = newBody,
                           !.resident = newHdr + newBody,
                           !.state = IF r.phase = "request" THEN "open" ELSE "completed",
                           !.done = TRUE, !.result = "resumed"]
           D == (DOMAIN rows \ V) \ {id}
           n == newHdr + newBody
<1>1. TypeOK /\ OrderIsIndex /\ ResidentIsSize /\ OccupancyWithinCaps
      /\ caps.maxFlows \in Nat /\ caps.maxBytes \in Nat
  BY DEF CapInv, Inv, TypeOK, CapRecords
<1>2. r \in Records /\ newHdr \in Nat /\ newBody \in Nat /\ r.resident \in Nat
  <2>1. r \in Records
    BY <1>1 DEF TypeOK
  <2> QED BY <2>1, ConstantsAssumption DEF Records
<1>3. /\ rows' = [i \in DOMAIN rows \ V |-> IF i # id THEN rows[i] ELSE nr]
      /\ order' = IF Position(id) <= k THEN InsertAt(Younger(k + 1), 1, id) ELSE Younger(k)
      /\ bytes' = IF left < 0 THEN 0 ELSE left
      /\ left <= caps.maxBytes /\ caps' = caps
  BY DEF Resume
<1>4. nr.hdr = newHdr /\ nr.body = newBody /\ nr.resident = n
  <2> HIDE DEF newHdr, newBody, r
  <2> QED BY <1>2 DEF Records, n
<1> HIDE DEF nr, newHdr, newBody
<1>5. /\ n \in Nat /\ nr.hdr + nr.body = n /\ nr.resident = nr.hdr + nr.body
      /\ extra = n - r.resident
  BY <1>2, <1>4
<1>6. r.resident = Sizes[id]
  BY <1>1 DEF ResidentIsSize, Sizes
<1> HIDE DEF n, extra
<1>7. k \in 0 .. Len(order) - 1
  BY <1>1, VictimsStop
<1> HIDE DEF k
<1>8. V = FirstOf(Others(id), k)
  BY DEF FirstOf
<1>9. id \notin V /\ V \subseteq DOMAIN rows
  BY <1>1, <1>3, <1>7, <1>8, KeepPatched
<1>10. BytesLeft(Others(id))[k] = Held(DOMAIN rows \ V)
  <2>1. Others(id) \in Seq(DOMAIN rows) /\ Once(Others(id)) /\ k \in 0 .. Len(Others(id))
    BY <1>1, <1>7, RemoveOne
  <2> QED BY <1>8, <2>1, BytesLeftExact
<1> HIDE DEF V
<1>11. /\ Held(DOMAIN rows \ V) = Held(D) + Sizes[id] /\ Held(D) \in Nat /\ Sizes[id] \in Nat
  BY <1>1, <1>9, HeldWithout
<1>12. left = Held(D) + n
  BY <1>2, <1>5, <1>6, <1>10, <1>11
<1> HIDE DEF r, left, D
<1>13. bytes' = Held(D) + n /\ bytes' <= caps.maxBytes
  BY <1>3, <1>5, <1>11, <1>12
<1>14. /\ D \in SUBSET DOMAIN rows /\ id \notin D /\ DOMAIN rows' = D \cup {id}
       /\ rows'[id] = nr /\ \A i \in D : rows'[i] = rows[i]
  BY <1>3, <1>9 DEF D
<1>15. SumFunction(Sizes') = Held(D) + n
  BY <1>1, <1>5, <1>14, SumChanged
<1>16. Cardinality(DOMAIN rows') <= Cardinality(DOMAIN rows)
  BY <1>1, <1>14, RowsFinite, FS_Subset
<1>17. Cardinality(DOMAIN rows') <= caps'.maxFlows
  <2>1. Cardinality(DOMAIN rows) \in Nat /\ Cardinality(DOMAIN rows') \in Nat
    <3>1. DOMAIN rows' \in SUBSET DOMAIN rows
      BY <1>14
    <3> QED BY <1>1, <3>1, RowsFinite
  <2> QED BY <1>1, <1>3, <1>16, <2>1 DEF OccupancyWithinCaps
<1>18. ResidentIsSize'
  BY <1>1, <1>5, <1>14 DEF ResidentIsSize
<1> QED BY <1>3, <1>13, <1>15, <1>17, <1>18 DEF OccupancyWithinCaps, Sizes

\* Every operation keeps the caps and the counter.
LEMMA NextCaps ==
  ASSUME CapInv, [Next]_vars
  PROVE  CapInv'
<1>1. Inv' /\ Inv /\ caps \in CapRecords /\ rows \in [DOMAIN rows -> Records]
  BY NextInv DEF CapInv, Inv, TypeOK
<1>2. CASE UNCHANGED <<rows, bytes, caps>>
  BY <1>1, <1>2, SameSizes DEF CapInv
<1>3. ASSUME NEW c \in Clients, Insert(c) PROVE CapInv'
  <2>1. CASE InsertCommit(c)
    BY <1>1, <2>1, InsertCommitCaps DEF CapInv
  <2>2. CASE ~InsertCommit(c)
    BY <1>2, <1>3, <2>2 DEF Insert, InsertBegin, storeVars
  <2> QED BY <2>1, <2>2
<1>4. ASSUME NEW c \in Clients, WaitPaused(c) PROVE CapInv'
  BY <1>2, <1>4 DEF WaitPaused, WaitEnter, WaitWake, WaitCtxDone, storeVars
<1>5. ASSUME NEW id \in DOMAIN rows, Pause(id) \/ Drop(id) \/ ExpireBreakpoint(id) PROVE CapInv'
  <2>1. rows[id] \in Records
    BY <1>1
  <2>2. /\ DOMAIN rows' = DOMAIN rows /\ UNCHANGED <<bytes, caps>>
        /\ \A i \in DOMAIN rows :
             /\ rows'[i].hdr = rows[i].hdr /\ rows'[i].body = rows[i].body
             /\ rows'[i].resident = rows[i].resident
    BY <1>1, <1>5, <2>1 DEF Pause, Drop, ExpireBreakpoint, Records
  <2> QED BY <1>1, <2>2, SameSizes DEF CapInv
<1>6. CASE Breakpoint
  BY <1>1, <1>5, <1>6, ResumeCaps DEF Breakpoint, CapInv
<1>7. CASE Admin
  <2>1. \A o \in CapSet : o \in CapRecords
    BY ConstantsAssumption
  <2> QED BY <1>1, <1>7, <2>1, DeletionCaps, ReplaceCapsCaps, ResetToCaps DEF Admin, Wipe, CapInv
<1>8. CASE Tick \/ UNCHANGED vars
  BY <1>2, <1>8 DEF Tick, vars, storeVars
<1> QED BY <1>3, <1>4, <1>6, <1>7, <1>8 DEF Next

\* An empty inbox weighs nothing.
LEMMA InitCaps == Init => CapInv
<1> SUFFICES ASSUME Init PROVE CapInv
  OBVIOUS
<1>1. Inv /\ TypeOK /\ DOMAIN rows = {} /\ bytes = 0 /\ caps.maxFlows \in Nat /\ caps.maxBytes \in Nat
  BY InitInv DEF Init, Inv, TypeOK, CapRecords
<1>2. {} \in SUBSET DOMAIN rows
  OBVIOUS
<1>3. SumFunction(Sizes) = 0
  BY <1>1, <1>2, RowsFinite
<1>4. Cardinality(DOMAIN rows) = 0
  BY <1>1, FS_EmptySet
<1> QED BY <1>1, <1>3, <1>4 DEF CapInv, ResidentIsSize, OccupancyWithinCaps, Sizes

\* The inbox never exceeds the caps in force and its byte counter is exactly
\* what the resident flows weigh, for every set of sizes and caps, whatever
\* Insert, patches, eviction, ReplaceCaps and wipes do to each other.
THEOREM WithinCaps == Spec => []OccupancyWithinCaps
<1>1. CapInv /\ [Next]_vars => CapInv'
  BY NextCaps
<1>2. CapInv => OccupancyWithinCaps
  BY DEF CapInv
<1> QED BY <1>1, <1>2, InitCaps, PTL DEF Spec

-----------------------------------------------------------------------------
(* The refinement and the hop.                                             *)

\* The operations of the store other than Pause.
StoreNext ==
  \/ \E c \in Clients :
       \/ \E state \in {"paused", "completed"}, phase \in Phases, hdr \in Nat, raw \in Nat,
             at \in Nat, e \in Nat : InsertBegin(c, state, phase, hdr, raw, at, e)
       \/ InsertCommit(c) \/ WaitWake(c) \/ WaitCtxDone(c)
       \/ \E id \in Ids : WaitEnter(c, id)
  \/ \E id \in DOMAIN rows :
       \/ \E hdr \in Hdrs \cup {None}, body \in Bodies \cup {None} : Resume(id, hdr, body)
       \/ Drop(id) \/ ExpireBreakpoint(id) \/ Delete(id)
  \/ DeleteAll
  \/ \E o \in CapSet, force \in BOOLEAN : ReplaceCaps(o, force)
  \/ \E o \in CapRecords : ResetTo(o)
  \/ Tick

\* Ids are given out up to the bound.
IdsBounded == nextId <= MaxId + 1

\* A decided row is not paused, and its result is a verdict.
DecidedRow ==
  \A i \in DOMAIN rows : rows[i].done => rows[i].state # "paused" /\ rows[i].result \in Verdicts

\* A waiter that has been answered finds the same answer in its row, as long as
\* the row is there.
OneVerdict ==
  \A c \in Clients : pc[c] = "wait" /\ chan[c] # None /\ want[c] \in DOMAIN rows =>
    rows[want[c]].done /\ rows[want[c]].result = chan[c]

\* Nobody waits for a row that is not inserted yet.
WaitsForInserted ==
  \A c, d \in Clients : pc[c] = "wait" /\ pc[d] = "insert" => prep[d].id # want[c]

\* Ids are positive, and what is waited for was given out.
WantIsId == \A c \in Clients : pc[c] = "wait" => want[c] \in Ids

CellInv ==
  /\ Inv
  /\ IdsBounded
  /\ DecidedRow
  /\ OneVerdict
  /\ WaitsForInserted
  /\ WantIsId

-----------------------------------------------------------------------------
(* What the operations that decide, remove or add rows have in common.     *)

\* The rows in S are decided with v or removed, the rows in N are added by an
\* Insert that commits, and the waiters of S are told.
Deciding(S, N, v) ==
  /\ S \subseteq DOMAIN rows /\ \A i \in S : v[i] \in Verdicts
  /\ chan' = Deliver(S, v) /\ paused' = Unregistered(S)
  /\ want' = want /\ ret' = ret /\ nextId' = nextId
  /\ \A c \in Clients :
       /\ pc'[c] = "wait" <=> pc[c] = "wait"
       /\ pc'[c] = "insert" => pc[c] = "insert" /\ prep'[c] = prep[c]
  /\ DOMAIN rows \ S \subseteq DOMAIN rows' /\ DOMAIN rows' \subseteq DOMAIN rows \cup N
  /\ \A i \in DOMAIN rows \ S :
       /\ rows'[i].state = rows[i].state /\ rows'[i].done = rows[i].done
       /\ rows'[i].result = rows[i].result
  /\ \A i \in S \cap DOMAIN rows' :
       /\ rows[i].state = "paused"
       /\ rows'[i].state # "paused" /\ rows'[i].done /\ rows'[i].result = v[i]
  /\ \A i \in N :
       /\ i \in DOMAIN rows' /\ ~rows'[i].done
       /\ \E c \in Clients : pc[c] = "insert" /\ pc'[c] # "insert" /\ prep[c].id = i

\* Removing rows tells their waiters that they are gone.
LEMMA RemovalDecides ==
  ASSUME Inv, NEW S \in SUBSET DOMAIN rows, rows' = Without(S),
         chan' = Deliver(S, Gone(S)), paused' = Unregistered(S),
         UNCHANGED <<want, ret, nextId, pc, prep>>
  PROVE  Deciding(S, {}, Gone(S))
<1>1. rows \in [DOMAIN rows -> Records]
  BY DEF Inv, TypeOK
<1>2. /\ DOMAIN rows' = DOMAIN rows \ S
      /\ \A i \in DOMAIN rows \ S : rows'[i] = rows[i]
  BY DEF Without
<1>3. \A i \in S : Gone(S)[i] \in Verdicts
  BY DEF Gone, Verdicts
<1> QED BY <1>2, <1>3 DEF Deciding

\* Delete, DeleteAll and ReplaceCaps remove rows.
LEMMA AdminDecides ==
  ASSUME Inv,
         \/ \E id \in DOMAIN rows : Delete(id)
         \/ DeleteAll
         \/ \E o \in CapSet, force \in BOOLEAN : ReplaceCaps(o, force)
  PROVE  \E S \in SUBSET DOMAIN rows : Deciding(S, {}, Gone(S)) /\ rows' = Without(S)
<1>0. TypeOK /\ OrderIsIndex
  BY DEF Inv
<1>1. ASSUME NEW id \in DOMAIN rows, Delete(id)
      PROVE  \E S \in SUBSET DOMAIN rows : Deciding(S, {}, Gone(S)) /\ rows' = Without(S)
  <2> DEFINE S == {id}
  <2>1. S \in SUBSET DOMAIN rows
    OBVIOUS
  <2>2. /\ rows' = Without(S) /\ chan' = Deliver(S, Gone(S)) /\ paused' = Unregistered(S)
        /\ UNCHANGED <<want, ret, nextId, pc, prep>>
    BY <1>1 DEF Delete
  <2> HIDE DEF S
  <2> QED BY <2>1, <2>2, RemovalDecides
<1>2. ASSUME NEW k \in 0 .. Len(order),
             rows' = Without(Oldest(k)), chan' = Deliver(Oldest(k), Gone(Oldest(k))),
             paused' = Unregistered(Oldest(k)), UNCHANGED <<want, ret, nextId, pc, prep>>
      PROVE  \E S \in SUBSET DOMAIN rows : Deciding(S, {}, Gone(S)) /\ rows' = Without(S)
  <2>1. Oldest(k) \in SUBSET DOMAIN rows
    BY <1>0, EvictOldest
  <2> QED BY <1>2, <2>1, RemovalDecides
<1>3. CASE DeleteAll
  <2>1. Len(order) \in 0 .. Len(order)
    BY <1>0, OrderFacts
  <2> QED BY <1>2, <1>3, <2>1 DEF DeleteAll
<1>4. ASSUME NEW o \in CapSet, NEW force \in BOOLEAN, ReplaceCaps(o, force)
      PROVE  \E S \in SUBSET DOMAIN rows : Deciding(S, {}, Gone(S)) /\ rows' = Without(S)
  <2>1. EvictUntilUnderCaps(o) \in 0 .. Len(order)
    BY <1>0, LoopsStop
  <2> QED BY <1>2, <1>4, <2>1 DEF ReplaceCaps
<1> QED BY <1>1, <1>3, <1>4

\* ResetTo removes every row; its waiters are told that the store was reset.
LEMMA ResetDecides ==
  ASSUME Inv, NEW o, ResetTo(o)
  PROVE  Deciding(DOMAIN rows, {}, [i \in DOMAIN rows |-> "stale"])
<1> DEFINE S == DOMAIN rows
           v == [i \in S |-> "stale"]
<1>1. \A w \in paused : w = <<w[1], w[2]>> /\ w[2] \in Clients
  BY DEF Inv, TypeOK
<1>2. \A w \in paused : w[1] \in S /\ w[1] = want[w[2]]
  BY <1>1 DEF Inv, RegisteredWait, NoLostWaiter
<1>3. \A c \in Clients : (\E w \in paused : w[2] = c) <=> (\E i \in S : <<i, c>> \in paused)
  BY <1>1, <1>2
<1>4. \A c \in Clients : (\E i \in S : <<i, c>> \in paused) => v[want[c]] = "stale"
  BY <1>1, <1>2
<1>5. chan' = Deliver(S, v)
  BY <1>3, <1>4 DEF ResetTo, Deliver
<1>6. paused' = Unregistered(S)
  BY <1>2 DEF ResetTo, Unregistered
<1>7. DOMAIN rows' = {}
  BY DEF ResetTo
<1>8. want' = want /\ ret' = ret /\ nextId' = nextId /\ pc' = pc /\ prep' = prep
  BY DEF ResetTo
<1>9. \A i \in S : v[i] \in Verdicts
  BY DEF Verdicts
<1> HIDE DEF v
<1> QED BY <1>5, <1>6, <1>7, <1>8, <1>9 DEF Deciding, v

\* Drop and ExpireBreakpoint decide one row.
LEMMA VerbDecides ==
  ASSUME Inv, NEW id \in DOMAIN rows
  PROVE  /\ Drop(id) => Deciding({id}, {}, [i \in {id} |-> "dropped"])
         /\ ExpireBreakpoint(id) => Deciding({id}, {}, [i \in {id} |-> "expired"])
<1>1. rows \in [DOMAIN rows -> Records]
  BY DEF Inv, TypeOK
<1>2. ASSUME NEW v \in Verdicts, NEW state \in States, state # "paused", Finish(id, v), rows[id].state = "paused",
             DOMAIN rows' = DOMAIN rows,
             \A i \in DOMAIN rows \ {id} : rows'[i] = rows[i],
             rows'[id].state = state /\ rows'[id].done /\ rows'[id].result = v,
             UNCHANGED <<want, ret, nextId, pc, prep>>
      PROVE  Deciding({id}, {}, [i \in {id} |-> v])
  BY <1>2 DEF Deciding, Finish
<1>3. ASSUME Drop(id) PROVE Deciding({id}, {}, [i \in {id} |-> "dropped"])
  <2>1. /\ DOMAIN rows' = DOMAIN rows
        /\ \A i \in DOMAIN rows \ {id} : rows'[i] = rows[i]
        /\ rows'[id].state = "dropped" /\ rows'[id].done /\ rows'[id].result = "dropped"
    BY <1>1, <1>3 DEF Drop, Records
  <2>2. Finish(id, "dropped") /\ rows[id].state = "paused" /\ UNCHANGED <<want, ret, nextId, pc, prep>>
    BY <1>3 DEF Drop
  <2> QED BY <1>2, <2>1, <2>2 DEF Verdicts, States
<1>4. ASSUME ExpireBreakpoint(id) PROVE Deciding({id}, {}, [i \in {id} |-> "expired"])
  <2>1. /\ DOMAIN rows' = DOMAIN rows
        /\ \A i \in DOMAIN rows \ {id} : rows'[i] = rows[i]
        /\ rows'[id].state = "completed" /\ rows'[id].done /\ rows'[id].result = "expired"
    BY <1>1, <1>4 DEF ExpireBreakpoint, Records
  <2>2. Finish(id, "expired") /\ rows[id].state = "paused" /\ UNCHANGED <<want, ret, nextId, pc, prep>>
    BY <1>4 DEF ExpireBreakpoint
  <2> QED BY <1>2, <2>1, <2>2 DEF Verdicts, States
<1> QED BY <1>3, <1>4

\* Resume decides its row and removes the rows its patch pushes out.
LEMMA ResumeDecides ==
  ASSUME Inv, NEW id \in DOMAIN rows, NEW hdr, NEW body, Resume(id, hdr, body)
  PROVE  \E V \in SUBSET (DOMAIN rows \ {id}) :
           /\ Deciding(V \cup {id}, {}, [i \in V \cup {id} |->
                                           IF i = id THEN "resumed" ELSE "notfound"])
           /\ DOMAIN rows' = DOMAIN rows \ V
           /\ rows'[id].state \in {"open", "completed"}
<1> DEFINE r == rows[id]
           newHdr == IF hdr = None THEN r.hdr ELSE hdr
           newBody == IF body = None THEN r.body ELSE body
           extra == newHdr + newBody - r.resident
           k == Victims(id, extra)
           V == {Others(id)[i] : i \in 1 .. k}
           st == IF r.phase = "request" THEN "open" ELSE "completed"
           nr == [r EXCEPT !.hdr = newHdr, !.body = newBody,
                           !.resident = newHdr + newBody, !.state = st,
                           !.done = TRUE, !.result = "resumed"]
           v == [i \in V \cup {id} |-> IF i = id THEN "resumed" ELSE "notfound"]
<1>1. TypeOK /\ OrderIsIndex /\ r \in Records
  BY DEF Inv, TypeOK
<1>2. /\ rows' = [i \in DOMAIN rows \ V |-> IF i # id THEN rows[i] ELSE nr]
      /\ order' = IF Position(id) <= k THEN InsertAt(Younger(k + 1), 1, id) ELSE Younger(k)
      /\ chan' = Deliver(V \cup {id}, v)
      /\ paused' = Unregistered(V \cup {id})
      /\ UNCHANGED <<nextId, pc, prep, want, ret>>
      /\ r.state = "paused"
  BY DEF Resume
<1>3. /\ nr.state = st /\ nr.done = TRUE /\ nr.result = "resumed"
      /\ st \in {"open", "completed"}
  <2> HIDE DEF newHdr, newBody, r
  <2> QED BY <1>1 DEF Records
<1> HIDE DEF nr, extra, st
<1>4. k \in 0 .. Len(order) - 1
  BY <1>1, VictimsStop
<1> HIDE DEF k
<1>5. V = FirstOf(Others(id), k)
  BY DEF FirstOf
<1>6. id \notin V /\ V \subseteq DOMAIN rows
  BY <1>1, <1>2, <1>4, <1>5, KeepPatched
<1>7. \A i \in V \cup {id} : v[i] \in Verdicts /\ (i = id => v[i] = "resumed")
  BY DEF Verdicts
<1> HIDE DEF V
<1>8. /\ DOMAIN rows' = DOMAIN rows \ V
      /\ rows'[id] = nr
      /\ \A i \in DOMAIN rows' \ {id} : rows'[i] = rows[i]
  BY <1>2, <1>6
<1>9. \A i \in (V \cup {id}) \cap DOMAIN rows' :
        rows[i].state = "paused" /\ rows'[i].state # "paused" /\ rows'[i].done /\ rows'[i].result = v[i]
  BY <1>2, <1>3, <1>7, <1>8
<1>10. Deciding(V \cup {id}, {}, v)
  <2> HIDE DEF v
  <2>1. V \cup {id} \subseteq DOMAIN rows
    BY <1>6
  <2>2. \A i \in DOMAIN rows \ (V \cup {id}) : i \in DOMAIN rows' /\ rows'[i] = rows[i]
    BY <1>8
  <2>3. DOMAIN rows' \subseteq DOMAIN rows
    BY <1>8
  <2> DEFINE S == V \cup {id}
  <2> HIDE DEF S
  <2> SUFFICES Deciding(S, {}, v)
    BY DEF S
  <2> QED BY <1>2, <1>7, <1>9, <2>1, <2>2, <2>3 DEF Deciding, S
<1> QED BY <1>3, <1>6, <1>8, <1>10

\* The commit of an Insert removes the rows it evicts and adds its own.
LEMMA InsertCommitDecides ==
  ASSUME Inv, NEW c \in Clients, InsertCommit(c)
  PROVE  \E S \in SUBSET DOMAIN rows :
           \/ ins'[c] # "inserted" /\ Deciding(S, {}, Gone(S)) /\ DOMAIN rows' = DOMAIN rows \ S
           \/ /\ ins'[c] = "inserted" /\ Deciding(S, {prep[c].id}, Gone(S))
              /\ DOMAIN rows' = (DOMAIN rows \ S) \cup {prep[c].id}
              /\ rows'[prep[c].id] = RowOf(prep[c])
<1> DEFINE f == prep[c]
           candidate == f.hdr + f.body
           k == EvictUntilFits(candidate)
<1>1. TypeOK /\ OrderIsIndex /\ PreparedFresh /\ pc[c] = "insert"
      /\ rows \in [DOMAIN rows -> Records]
  BY DEF Inv, InsertCommit, TypeOK
<1>2. f.id \notin DOMAIN rows
  BY <1>1 DEF PreparedFresh
<1>3. k \in 0 .. Len(order)
  BY <1>1, LoopsStop
<1>4. Oldest(k) \in SUBSET DOMAIN rows
  BY <1>1, <1>3, EvictOldest
<1>5. \A S : \A i \in S : Gone(S)[i] \in Verdicts
  BY DEF Gone, Verdicts
<1>6. ASSUME NEW r \in InsertReturns, InsertReturn(c, r)
      PROVE  /\ ins'[c] = r /\ pc'[c] = "idle"
             /\ \A d \in Clients :
                  /\ pc'[d] = "wait" <=> pc[d] = "wait"
                  /\ pc'[d] = "insert" => pc[d] = "insert" /\ prep'[d] = prep[d]
  BY <1>1, <1>6 DEF InsertReturn, TypeOK
<1>7. {"stale", "full", "inserted"} \subseteq InsertReturns
  BY DEF InsertReturns
<1>8. want' = want /\ ret' = ret /\ nextId' = nextId
  BY DEF InsertCommit
<1>9. CASE \E r \in {"stale", "full"} : InsertReturn(c, r) /\ UNCHANGED <<storeVars, chan>>
  <2>1. PICK r \in {"stale", "full"} : InsertReturn(c, r) /\ UNCHANGED <<storeVars, chan>>
    BY <1>9
  <2>2. chan' = Deliver({}, Gone({})) /\ paused' = Unregistered({})
    BY <1>1, <2>1 DEF Deliver, Unregistered, TypeOK, storeVars
  <2>3. rows' = rows
    BY <2>1 DEF storeVars
  <2>4. Deciding({}, {}, Gone({}))
    BY <1>6, <1>7, <1>8, <2>1, <2>2, <2>3 DEF Deciding
  <2>5. ins'[c] # "inserted" /\ {} \in SUBSET DOMAIN rows /\ DOMAIN rows' = DOMAIN rows \ {}
    BY <1>6, <1>7, <2>1, <2>3
  <2> QED BY <2>4, <2>5
<1>10. CASE /\ chan' = Deliver(Oldest(k), Gone(Oldest(k))) /\ paused' = Unregistered(Oldest(k))
            /\ rows' = Without(Oldest(k)) /\ InsertReturn(c, "full")
  <2> HIDE DEF k
  <2>1. DOMAIN rows' = DOMAIN rows \ Oldest(k) /\ \A i \in DOMAIN rows' : rows'[i] = rows[i]
    BY <1>10 DEF Without
  <2>2. Deciding(Oldest(k), {}, Gone(Oldest(k)))
    BY <1>4, <1>5, <1>6, <1>7, <1>8, <1>10, <2>1 DEF Deciding
  <2> QED BY <1>4, <1>6, <1>7, <1>10, <2>1, <2>2
<1>11. CASE /\ chan' = Deliver(Oldest(k), Gone(Oldest(k))) /\ paused' = Unregistered(Oldest(k))
            /\ InsertIndexed(c, k, candidate)
  <2> HIDE DEF k, candidate
  <2>1. /\ DOMAIN rows' = (DOMAIN rows \ Oldest(k)) \cup {f.id}
        /\ \A i \in DOMAIN rows \ Oldest(k) : rows'[i] = rows[i]
        /\ rows'[f.id] = RowOf(f) /\ InsertReturn(c, "inserted")
    BY <1>2, <1>11 DEF InsertIndexed
  <2>2. ~RowOf(f).done
    BY DEF RowOf
  <2>3. Deciding(Oldest(k), {f.id}, Gone(Oldest(k)))
    <3> DEFINE S == Oldest(k)
               N == {f.id}
    <3>1. \A i \in S \cap DOMAIN rows' : FALSE
      BY <1>2, <1>4, <2>1
    <3>2. \A i \in N : /\ i \in DOMAIN rows' /\ ~rows'[i].done
                       /\ \E d \in Clients : pc[d] = "insert" /\ pc'[d] # "insert" /\ prep[d].id = i
      BY <1>1, <1>6, <1>7, <2>1, <2>2
    <3>3. /\ S \subseteq DOMAIN rows
          /\ chan' = Deliver(S, Gone(S)) /\ paused' = Unregistered(S)
          /\ DOMAIN rows' = (DOMAIN rows \ S) \cup N
          /\ \A i \in DOMAIN rows \ S : rows'[i] = rows[i]
      BY <1>4, <1>11, <2>1
    <3>4. \A i \in S : Gone(S)[i] \in Verdicts
      BY <1>5
    <3>5. \A d \in Clients :
                  /\ pc'[d] = "wait" <=> pc[d] = "wait"
                  /\ pc'[d] = "insert" => pc[d] = "insert" /\ prep'[d] = prep[d]
      BY <1>6, <1>7, <2>1
    <3> HIDE DEF S, N
    <3>6. Deciding(S, N, Gone(S))
      BY <1>8, <3>1, <3>2, <3>3, <3>4, <3>5 DEF Deciding
    <3> QED BY <3>6 DEF S, N
  <2> QED BY <1>4, <1>6, <1>7, <2>1, <2>3
<1>12. \/ \E r \in {"stale", "full"} : InsertReturn(c, r) /\ UNCHANGED <<storeVars, chan>>
       \/ /\ chan' = Deliver(Oldest(k), Gone(Oldest(k))) /\ paused' = Unregistered(Oldest(k))
          /\ \/ InsertIndexed(c, k, candidate)
             \/ rows' = Without(Oldest(k)) /\ InsertReturn(c, "full")
  BY DEF InsertCommit
<1> HIDE DEF k, candidate, f
<1> QED BY <1>9, <1>10, <1>11, <1>12

-----------------------------------------------------------------------------
(* The store keeps CellInv, and each of its steps is a step of the cell.   *)

armedIds == {i \in DOMAIN rows : rows[i].state = "paused"}

\* A step that decides rows keeps the new parts of CellInv.
LEMMA DecidingKeeps ==
  ASSUME CellInv, NEW S, NEW N, NEW v, Deciding(S, N, v)
  PROVE  IdsBounded' /\ DecidedRow' /\ OneVerdict' /\ WaitsForInserted' /\ WantIsId'
<1>1. TypeOK /\ NoLostWaiter /\ RegisteredWait /\ PreparedFresh
      /\ IdsBounded /\ DecidedRow /\ OneVerdict /\ WaitsForInserted /\ WantIsId
  BY DEF CellInv, Inv
<1>2. IdsBounded' /\ WantIsId'
  BY <1>1 DEF Deciding, IdsBounded, WantIsId, Ids
<1>3. WaitsForInserted'
  BY <1>1 DEF Deciding, WaitsForInserted
<1>4. \A i \in DOMAIN rows' : i \in N \/ i \in S \/ i \in DOMAIN rows \ S
  BY DEF Deciding
<1>5. \A i \in N : i \in DOMAIN rows' /\ i \notin DOMAIN rows /\ ~rows'[i].done
  BY <1>1 DEF Deciding, PreparedFresh
<1>6. DecidedRow'
  BY <1>1, <1>4, <1>5 DEF Deciding, DecidedRow
<1>7. OneVerdict'
  <2> SUFFICES ASSUME NEW c \in Clients, pc'[c] = "wait", chan'[c] # None,
                      want'[c] \in DOMAIN rows'
               PROVE  rows'[want'[c]].done /\ rows'[want'[c]].result = chan'[c]
    BY DEF OneVerdict
  <2> DEFINE i == want[c]
  <2>1. pc[c] = "wait" /\ want' = want
    BY DEF Deciding
  <2>2. i \notin N
    BY <1>1, <2>1 DEF Deciding, WaitsForInserted
  <2>3. chan'[c] = IF \E j \in S : <<j, c>> \in paused THEN v[i] ELSE chan[c]
    BY DEF Deciding, Deliver
  <2>4. \A j \in S : <<j, c>> \in paused => j = i
    BY <1>1 DEF RegisteredWait
  <2>5. CASE i \in S
    <3>1. rows[i].state = "paused" /\ rows'[i].done /\ rows'[i].result = v[i] /\ i \in DOMAIN rows
      BY <2>1, <2>5 DEF Deciding
    <3>2. chan[c] = None
      BY <1>1, <2>1, <3>1 DEF OneVerdict, DecidedRow
    <3>3. <<i, c>> \in paused
      BY <1>1, <2>1, <3>2 DEF NoLostWaiter
    <3> QED BY <2>1, <2>3, <2>5, <3>1, <3>3
  <2>6. CASE i \in DOMAIN rows \ S
    <3>1. chan'[c] = chan[c]
      BY <2>3, <2>4, <2>6
    <3>2. rows[i].done /\ rows[i].result = chan[c]
      BY <1>1, <2>1, <2>6, <3>1 DEF OneVerdict
    <3> QED BY <2>1, <2>6, <3>1, <3>2 DEF Deciding
  <2> QED BY <1>4, <2>1, <2>2, <2>5, <2>6
<1> QED BY <1>2, <1>3, <1>6, <1>7

\* Seen through the refinement mapping it is one broadcast.
LEMMA DecidingCell ==
  ASSUME CellInv, NEW S, NEW N, NEW v, Deciding(S, N, v)
  PROVE  Cell!Next
<1> DEFINE D == S \cap armedIds
           A == N \cap armedIds'
           w == [i \in D |-> v[i]]
<1>1. TypeOK /\ NoLostWaiter /\ RegisteredWait /\ PreparedFresh
      /\ IdsBounded /\ DecidedRow /\ OneVerdict /\ WaitsForInserted /\ WantIsId
  BY DEF CellInv, Inv
<1>2. \A i \in N : i \in DOMAIN rows' /\ i \notin DOMAIN rows /\ i \in Ids
  BY <1>1 DEF Deciding, PreparedFresh
<1>3. Ids \subseteq 1 .. MaxId
  BY <1>1, ConstantsAssumption DEF IdsBounded, Ids, TypeOK
<1>4. D \in SUBSET armedIds /\ A \in SUBSET (1 .. MaxId \ armedIds)
  BY <1>2, <1>3 DEF armedIds
<1>5. w \in [D -> Verdicts]
  BY DEF Deciding
<1>6. armedIds' = (armedIds \ D) \cup A
  BY <1>2 DEF armedIds, Deciding
<1>7. ASSUME NEW c \in Clients, pc[c] = "wait", chan[c] = None
      PROVE  /\ want[c] \in armedIds /\ want[c] # 0
             /\ chan'[c] = IF want[c] \in D THEN w[want[c]] ELSE None
             /\ chan'[c] = None <=> want[c] \notin D
  <2>1. want[c] \in armedIds /\ <<want[c], c>> \in paused
    BY <1>1, <1>7 DEF NoLostWaiter, armedIds
  <2>2. \A j \in S : <<j, c>> \in paused => j = want[c]
    BY <1>1 DEF RegisteredWait
  <2>3. chan'[c] = IF \E j \in S : <<j, c>> \in paused THEN v[want[c]] ELSE chan[c]
    BY DEF Deciding, Deliver
  <2>4. want[c] # 0
    BY <1>1, <1>7 DEF WantIsId, Ids
  <2>5. chan'[c] = IF want[c] \in D THEN w[want[c]] ELSE None
    BY <1>7, <2>1, <2>2, <2>3
  <2>6. want[c] \in D => w[want[c]] # None
    <3> HIDE DEF w, D
    <3> QED BY <1>5, ConstantsAssumption DEF WaitReturns
  <2> QED BY <2>1, <2>4, <2>5, <2>6
<1>8. ASSUME NEW c \in Clients, pc[c] # "wait" \/ chan[c] # None PROVE chan'[c] = chan[c]
  BY <1>1, <1>8 DEF Deciding, Deliver, RegisteredWait
<1>9. 0 \notin D /\ None \notin Verdicts
  BY <1>1, ConstantsAssumption DEF armedIds, TypeOK, Ids, WaitReturns
<1>10. \A c \in Clients : (pc'[c] = "wait" <=> pc[c] = "wait") /\ want'[c] = want[c] /\ ret'[c] = ret[c]
  BY DEF Deciding
<1>11. Cell!Decide(D, A, w)
  <2>1. {c \in Clients : pc'[c] = "wait"} = {c \in Clients : pc[c] = "wait"}
    BY <1>10
  <2> DEFINE held(c) == IF pc[c] = "wait" /\ chan[c] = None THEN want[c] ELSE 0
             heldNext(c) == IF pc'[c] = "wait" /\ chan'[c] = None THEN want'[c] ELSE 0
             out(c) == IF pc[c] = "wait" THEN chan[c] ELSE ret[c]
             outNext(c) == IF pc'[c] = "wait" THEN chan'[c] ELSE ret'[c]
  <2>2. \A c \in Clients : heldNext(c) = IF held(c) \in D THEN 0 ELSE held(c)
    <3> HIDE DEF D, w
    <3> QED BY <1>7, <1>8, <1>9, <1>10
  <2>3. \A c \in Clients : outNext(c) = IF held(c) \in D THEN w[held(c)] ELSE out(c)
    BY <1>7, <1>8, <1>9, <1>10
  <2> QED BY <1>6, <2>1, <2>2, <2>3 DEF Cell!Decide, armedIds
<1> HIDE DEF D, A, w
<1>12. \E X \in SUBSET armedIds, Y \in SUBSET ((1 .. MaxId) \ armedIds) :
         \E x \in [X -> Verdicts] : Cell!Decide(X, Y, x)
  BY <1>4, <1>5, <1>11 DEF Cell!Decide
<1> QED BY <1>12 DEF Cell!Next, armedIds


\* Insert, first critical section: the cell does not notice.
LEMMA InsertBeginCell ==
  ASSUME CellInv, NEW c \in Clients, NEW state \in States, NEW phase \in Phases,
         NEW hdr \in Nat, NEW raw \in Nat, NEW at \in Nat, NEW e \in Nat,
         InsertBegin(c, state, phase, hdr, raw, at, e)
  PROVE  CellInv' /\ UNCHANGED Cell!cellVars
<1>1. TypeOK /\ IdsBounded /\ DecidedRow /\ OneVerdict /\ WaitsForInserted /\ WantIsId
  BY DEF CellInv, Inv
<1>2. /\ pc[c] = "idle" /\ nextId <= MaxId /\ nextId' = nextId + 1
      /\ rows' = rows /\ want' = want /\ chan' = chan /\ ret' = ret
  BY DEF InsertBegin, storeVars
<1>3. \A d \in Clients : pc'[d] = "wait" <=> pc[d] = "wait"
  BY <1>1, <1>2 DEF InsertBegin, TypeOK
<1>4. \A d \in Clients : pc'[d] = "insert" =>
        (pc[d] = "insert" /\ prep'[d] = prep[d]) \/ prep'[d].id = nextId
  BY <1>1, <1>2 DEF InsertBegin, TypeOK
<1>5. IdsBounded' /\ WantIsId' /\ nextId \notin Ids
  <2>1. nextId \in Nat /\ MaxId \in Nat
    BY <1>1, ConstantsAssumption DEF TypeOK
  <2>2. Ids \subseteq Ids' /\ nextId \notin Ids
    BY <1>2, <2>1 DEF Ids
  <2>3. nextId' <= MaxId + 1
    BY <1>2, <2>1
  <2> QED BY <1>1, <1>2, <1>3, <2>2, <2>3 DEF IdsBounded, WantIsId
<1>6. WaitsForInserted'
  <2> SUFFICES ASSUME NEW d \in Clients, NEW i \in Clients, pc'[d] = "wait", pc'[i] = "insert"
               PROVE  prep'[i].id # want'[d]
    BY DEF WaitsForInserted
  <2>1. pc[d] = "wait" /\ want'[d] \in Ids
    BY <1>1, <1>2, <1>3 DEF WantIsId
  <2> QED BY <1>1, <1>2, <1>4, <1>5, <2>1 DEF WaitsForInserted
<1>7. DecidedRow' /\ OneVerdict'
  BY <1>1, <1>2, <1>3 DEF DecidedRow, OneVerdict
<1>8. UNCHANGED Cell!cellVars
  <2>1. \A d \in Clients : (pc'[d] = "wait") = (pc[d] = "wait")
    BY <1>3
  <2> QED BY <1>2, <2>1 DEF Cell!cellVars
<1>9. Inv'
  BY InsertBeginInv DEF CellInv
<1> QED BY <1>5, <1>6, <1>7, <1>8, <1>9 DEF CellInv

\* WaitPaused, first critical section: the client is held, or it missed.
LEMMA WaitEnterCell ==
  ASSUME CellInv, NEW c \in Clients, NEW id \in Ids, WaitEnter(c, id)
  PROVE  CellInv' /\ Cell!Next
<1>1. TypeOK /\ IdsBounded /\ DecidedRow /\ OneVerdict /\ WaitsForInserted /\ WantIsId
      /\ FreshChannel /\ PreparedFresh
  BY DEF CellInv, Inv
<1>2. pc[c] = "idle" /\ UNCHANGED <<rows, nextId, prep, chan>>
  BY DEF WaitEnter
<1>3. Inv' /\ chan[c] = None
  BY <1>1, <1>2, WaitEnterInv DEF CellInv, FreshChannel
<1>4. CASE /\ id \in DOMAIN rows /\ rows[id].state = "paused"
           /\ pc' = [pc EXCEPT ![c] = "wait"] /\ want' = [want EXCEPT ![c] = id] /\ ret' = ret
  <2>1. /\ pc'[c] = "wait" /\ want'[c] = id
        /\ \A d \in Clients \ {c} : pc'[d] = pc[d] /\ want'[d] = want[d]
    BY <1>1, <1>4 DEF TypeOK
  <2>2. \A d \in Clients : pc[d] = "insert" => prep[d].id # id
    BY <1>1, <1>4 DEF PreparedFresh
  <2>3. IdsBounded' /\ WantIsId'
    BY <1>1, <1>2, <2>1 DEF IdsBounded, WantIsId, Ids
  <2>4. WaitsForInserted'
    BY <1>1, <1>2, <2>1, <2>2 DEF WaitsForInserted
  <2>5. DecidedRow' /\ OneVerdict'
    BY <1>1, <1>2, <1>3, <2>1 DEF DecidedRow, OneVerdict
  <2>6. Cell!Hold(c, id)
    <3> DEFINE held(d) == IF pc[d] = "wait" /\ chan[d] = None THEN want[d] ELSE 0
               heldNext(d) == IF pc'[d] = "wait" /\ chan'[d] = None THEN want'[d] ELSE 0
               out(d) == IF pc[d] = "wait" THEN chan[d] ELSE ret[d]
               outNext(d) == IF pc'[d] = "wait" THEN chan'[d] ELSE ret'[d]
    <3>1. \A d \in Clients \ {c} : heldNext(d) = held(d) /\ outNext(d) = out(d)
      BY <1>2, <1>4, <2>1
    <3>2. heldNext(c) = id /\ outNext(c) = None
      BY <1>2, <1>3, <2>1
    <3>3. {d \in Clients : pc'[d] = "wait"} = {d \in Clients : pc[d] = "wait"} \cup {c}
      BY <2>1
    <3>4. c \notin {d \in Clients : pc[d] = "wait"}
      BY <1>2
    <3> QED BY <1>2, <3>1, <3>2, <3>3, <3>4 DEF Cell!Hold
  <2> QED BY <1>3, <1>4, <2>3, <2>4, <2>5, <2>6 DEF CellInv, Cell!Next
<1>5. CASE /\ UNCHANGED <<pc, want>>
           /\ \E a \in Verdicts \cup {"inactive"} : ret' = [ret EXCEPT ![c] = a]
  <2>1. PICK a \in Verdicts \cup {"inactive"} : ret' = [ret EXCEPT ![c] = a]
    BY <1>5
  <2>2. IdsBounded' /\ WantIsId' /\ WaitsForInserted' /\ DecidedRow' /\ OneVerdict'
    BY <1>1, <1>2, <1>5 DEF IdsBounded, WantIsId, WaitsForInserted, DecidedRow, OneVerdict, Ids
  <2>3. Cell!Miss(c, a)
    <3> DEFINE out(d) == IF pc[d] = "wait" THEN chan[d] ELSE ret[d]
               outNext(d) == IF pc'[d] = "wait" THEN chan'[d] ELSE ret'[d]
    <3>1. outNext(c) = a /\ \A d \in Clients \ {c} : outNext(d) = out(d)
      BY <1>1, <1>2, <1>5, <2>1 DEF TypeOK
    <3> QED BY <1>2, <1>5, <3>1 DEF Cell!Miss
  <2> QED BY <1>3, <2>1, <2>2, <2>3 DEF CellInv, Cell!Next
<1>6. {"notfound", "inactive"} \subseteq Verdicts \cup {"inactive"}
  BY DEF Verdicts
<1>7. \/ /\ id \in DOMAIN rows /\ rows[id].state = "paused"
         /\ pc' = [pc EXCEPT ![c] = "wait"] /\ want' = [want EXCEPT ![c] = id] /\ ret' = ret
      \/ UNCHANGED <<pc, want>> /\ ret' = [ret EXCEPT ![c] = "notfound"]
      \/ UNCHANGED <<pc, want>> /\ ret' = [ret EXCEPT ![c] = "inactive"]
      \/ /\ UNCHANGED <<pc, want>> /\ ret' = [ret EXCEPT ![c] = rows[id].result]
         /\ id \in DOMAIN rows /\ rows[id].done
  BY DEF WaitEnter
<1>8. id \in DOMAIN rows /\ rows[id].done => rows[id].result \in Verdicts
  BY <1>1 DEF DecidedRow
<1> QED BY <1>4, <1>5, <1>6, <1>7, <1>8

\* WaitPaused returns the verdict that was sent, or else the context's error:
\* looking at the row again makes no difference.
LEMMA WaitReturnAnswer ==
  ASSUME CellInv, NEW c \in Clients, WaitWake(c) \/ WaitCtxDone(c)
  PROVE  /\ pc[c] = "wait" /\ UNCHANGED <<rows, nextId, prep>>
         /\ WaitReturn(c, IF chan[c] # None THEN chan[c] ELSE "ctx")
<1>1. OneVerdict /\ NoLostWaiter
  BY DEF CellInv, Inv
<1>2. pc[c] = "wait" /\ UNCHANGED <<rows, nextId, prep>>
  BY DEF WaitWake, WaitCtxDone, storeVars
<1>3. CASE chan[c] # None
  <2>1. want[c] \in DOMAIN rows => rows[want[c]].result = chan[c]
    BY <1>1, <1>2, <1>3 DEF OneVerdict
  <2> QED BY <1>2, <1>3, <2>1 DEF WaitWake, WaitCtxDone
<1>4. CASE chan[c] = None
  <2>1. ~rows[want[c]].done
    BY <1>1, <1>2, <1>4 DEF NoLostWaiter
  <2> QED BY <1>2, <1>4, <2>1 DEF WaitWake, WaitCtxDone
<1> QED BY <1>3, <1>4

\* WaitPaused returns with the verdict, or with the context's error while the
\* row is undecided.
LEMMA WaitReturnCell ==
  ASSUME CellInv, NEW c \in Clients, WaitWake(c) \/ WaitCtxDone(c)
  PROVE  CellInv' /\ Cell!Next
<1> DEFINE r == IF chan[c] # None THEN chan[c] ELSE "ctx"
<1>1. TypeOK /\ IdsBounded /\ DecidedRow /\ OneVerdict /\ WaitsForInserted /\ WantIsId
      /\ FreshChannel /\ NoLostWaiter
  BY DEF CellInv, Inv
<1>2. pc[c] = "wait" /\ UNCHANGED <<rows, nextId, prep>>
  BY WaitReturnAnswer
<1>3. Inv'
  BY WaitWakeInv, WaitCtxDoneInv DEF CellInv
<1>4. WaitReturn(c, r)
  BY WaitReturnAnswer
<1>5. /\ pc'[c] = "idle" /\ want'[c] = 0 /\ chan'[c] = None /\ ret'[c] = r
      /\ \A d \in Clients \ {c} :
           pc'[d] = pc[d] /\ want'[d] = want[d] /\ chan'[d] = chan[d] /\ ret'[d] = ret[d]
  BY <1>1, <1>4 DEF WaitReturn, TypeOK
<1>6. IdsBounded' /\ WantIsId' /\ WaitsForInserted' /\ DecidedRow' /\ OneVerdict'
  BY <1>1, <1>2, <1>5 DEF IdsBounded, WantIsId, WaitsForInserted, DecidedRow, OneVerdict, Ids
<1> DEFINE held(d) == IF pc[d] = "wait" /\ chan[d] = None THEN want[d] ELSE 0
           heldNext(d) == IF pc'[d] = "wait" /\ chan'[d] = None THEN want'[d] ELSE 0
           out(d) == IF pc[d] = "wait" THEN chan[d] ELSE ret[d]
           outNext(d) == IF pc'[d] = "wait" THEN chan'[d] ELSE ret'[d]
<1>7. /\ heldNext(c) = 0 /\ outNext(c) = r
      /\ \A d \in Clients \ {c} : heldNext(d) = held(d) /\ outNext(d) = out(d)
  BY <1>5
<1>8. {d \in Clients : pc'[d] = "wait"} = {d \in Clients : pc[d] = "wait"} \ {c}
  BY <1>5
<1>9. CASE chan[c] # None
  <2>1. held(c) = 0 /\ out(c) = r
    BY <1>2, <1>9
  <2>2. Cell!Return(c)
    BY <1>2, <1>7, <1>8, <2>1 DEF Cell!Return
  <2> QED BY <1>3, <1>6, <2>2 DEF CellInv, Cell!Next
<1>10. CASE chan[c] = None
  <2>1. want[c] \in DOMAIN rows /\ rows[want[c]].state = "paused"
    BY <1>1, <1>2, <1>10 DEF NoLostWaiter
  <2>2. held(c) = want[c]
    BY <1>2, <1>10
  <2>3. Cell!GiveUp(c)
    BY <1>2, <1>7, <1>8, <1>10, <2>1, <2>2 DEF Cell!GiveUp
  <2> QED BY <1>3, <1>6, <2>3 DEF CellInv, Cell!Next
<1> QED BY <1>9, <1>10


\* Every operation of the store keeps CellInv and is a step of the cell.
LEMMA StoreNextCell ==
  ASSUME CellInv, [StoreNext]_vars
  PROVE  CellInv' /\ [Cell!Next]_(Cell!cellVars)
<1>0. Inv /\ now \in Nat
  BY DEF CellInv, Inv, TypeOK
<1>1. ASSUME Inv', NEW S, NEW N, NEW v, Deciding(S, N, v)
      PROVE  CellInv' /\ Cell!Next
  BY <1>1, DecidingKeeps, DecidingCell DEF CellInv
<1>2. ASSUME NEW c \in Clients, InsertCommit(c) PROVE CellInv' /\ Cell!Next
  BY <1>0, <1>1, <1>2, InsertCommitInv, InsertCommitDecides
<1>3. ASSUME NEW id \in DOMAIN rows, Drop(id) \/ ExpireBreakpoint(id) PROVE CellInv' /\ Cell!Next
  BY <1>0, <1>1, <1>3, DropInv, ExpireInv, VerbDecides
<1>4. ASSUME NEW id \in DOMAIN rows, NEW hdr \in Hdrs \cup {None},
             NEW body \in Bodies \cup {None}, Resume(id, hdr, body)
      PROVE  CellInv' /\ Cell!Next
  BY <1>0, <1>1, <1>4, ResumeInv, ResumeDecides
<1>5. CASE \/ \E id \in DOMAIN rows : Delete(id)
           \/ DeleteAll
           \/ \E o \in CapSet, force \in BOOLEAN : ReplaceCaps(o, force)
  BY <1>0, <1>1, <1>5, DeleteInv, DeleteAllInv, ReplaceCapsInv, AdminDecides
<1>6. ASSUME NEW o \in CapRecords, ResetTo(o) PROVE CellInv' /\ Cell!Next
  BY <1>0, <1>1, <1>6, ResetToInv, ResetDecides
<1>7. CASE Tick \/ UNCHANGED vars
  <2>1. UNCHANGED <<storeVars, nextId, clientVars>> /\ now' \in Nat
    BY <1>0, <1>7 DEF Tick, vars, storeVars, clientVars
  <2>2. Inv'
    BY <1>0, <2>1, TickInv
  <2>3. UNCHANGED <<rows, nextId, pc, prep, want, chan, ret>>
    BY <2>1 DEF storeVars, clientVars
  <2>4. IdsBounded' /\ WantIsId' /\ WaitsForInserted' /\ DecidedRow' /\ OneVerdict'
    BY <2>3 DEF CellInv, IdsBounded, WantIsId, WaitsForInserted, DecidedRow, OneVerdict, Ids
  <2>5. UNCHANGED Cell!cellVars
    BY <2>3 DEF Cell!cellVars
  <2> QED BY <2>2, <2>4, <2>5 DEF CellInv
<1>8. ASSUME NEW c \in Clients, NEW state \in {"paused", "completed"}, NEW phase \in Phases,
             NEW hdr \in Nat, NEW raw \in Nat, NEW at \in Nat, NEW e \in Nat,
             InsertBegin(c, state, phase, hdr, raw, at, e)
      PROVE  CellInv' /\ UNCHANGED Cell!cellVars
  <2>1. state \in States
    BY DEF States
  <2> QED BY <1>8, <2>1, InsertBeginCell
<1> QED BY <1>2, <1>3, <1>4, <1>5, <1>6, <1>7, <1>8, WaitEnterCell, WaitReturnCell DEF StoreNext

\* The store starts as the cell does.
LEMMA InitCell == Init => CellInv /\ Cell!Init
<1> SUFFICES ASSUME Init PROVE CellInv /\ Cell!Init
  OBVIOUS
<1>1. Inv
  BY InitInv
<1>2. DOMAIN rows = {} /\ \A c \in Clients : pc[c] = "idle" /\ ret[c] = None
  BY DEF Init
<1>3. IdsBounded /\ WantIsId /\ WaitsForInserted /\ DecidedRow /\ OneVerdict
  BY <1>2, ConstantsAssumption DEF Init, IdsBounded, WantIsId, WaitsForInserted, DecidedRow, OneVerdict
<1>4. Cell!Init
  BY <1>2 DEF Cell!Init, Init
<1> QED BY <1>1, <1>3, <1>4 DEF CellInv

\* Without Pause the operations of the store are the ones of StoreNext.
LEMMA NextIsStoreNext ==
  ASSUME TypeOK, ~PauseCalls, [Next]_vars
  PROVE  [StoreNext]_vars
<1>1. now \in Nat /\ epoch \in Nat /\ caps \in CapRecords
  BY DEF TypeOK
<1>2. ASSUME NEW c \in Clients, Insert(c) PROVE StoreNext
  <2>1. CASE InsertCommit(c)
    BY <2>1 DEF StoreNext
  <2>2. ASSUME NEW state \in {"paused", "completed"}, NEW hdr \in Hdrs, NEW raw \in Bodies,
               NEW at \in 1 .. now, NEW e \in 1 .. epoch,
               NEW phase \in IF state = "paused" THEN Phases ELSE {"response"},
               InsertBegin(c, state, phase, hdr, raw, at, e)
        PROVE  StoreNext
    <3>1. phase \in Phases /\ hdr \in Nat /\ raw \in Nat /\ at \in Nat /\ e \in Nat
      BY <1>1, ConstantsAssumption DEF Phases
    <3> QED BY <2>2, <3>1 DEF StoreNext
  <2> QED BY <1>2, <2>1, <2>2 DEF Insert
<1>3. ASSUME NEW c \in Clients, WaitPaused(c) PROVE StoreNext
  BY <1>3 DEF WaitPaused, StoreNext
<1>4. CASE Breakpoint
  BY <1>4 DEF Breakpoint, StoreNext
<1>5. CASE Admin
  <2>1. \A o \in CapSet : o \in CapRecords
    BY ConstantsAssumption
  <2> QED BY <1>1, <1>5, <2>1 DEF Admin, Wipe, StoreNext
<1> QED BY <1>2, <1>3, <1>4, <1>5 DEF Next, StoreNext

\* The store implements the broadcast cell for any number of rows, waiters and
\* wipes: everybody held by a row is answered, alike, in the step that decides
\* it, and a context's error is returned only while the row is undecided.
THEOREM StoreIsCell == ~PauseCalls => (Spec => CellSpec)
<1> SUFFICES ASSUME ~PauseCalls PROVE Spec => CellSpec
  OBVIOUS
<1>1. CellInv /\ [Next]_vars => CellInv' /\ [Cell!Next]_(Cell!cellVars)
  BY NextIsStoreNext, StoreNextCell DEF CellInv, Inv
<1> QED BY <1>1, InitCell, PTL DEF Spec, CellSpec, Cell!Spec


-----------------------------------------------------------------------------
(* The hop.                                                                *)

Stages == {"new", "insert", "stored", "wait", "lookup", "expire", "done"}

HopTypeOK ==
  /\ stage \in [Clients -> Stages] /\ tid \in [Clients -> Nat]
  /\ ack \in [1 .. MaxId -> Acks \cup {None}]
  /\ outcome \in [Clients -> {"resumed", "dropped", "timedout", None}]

\* The ids whose Insert has ended.
Inserted == {i \in Ids : \A d \in Clients : pc[d] = "insert" => prep[d].id # i}

\* waitBreakpoint is inside the store exactly when its stage says so, and a hop
\* inserts its row paused.
StageIsPc ==
  \A c \in Clients :
    /\ stage[c] = "insert" <=> pc[c] = "insert"
    /\ stage[c] = "wait" <=> pc[c] = "wait"
    /\ stage[c] = "wait" => want[c] = tid[c]
    /\ pc[c] = "insert" => prep[c].state = "paused"

\* A hop has a row from its Insert on, and no two hops share one.
OwnRow ==
  \A c \in Clients :
    /\ stage[c] \in {"new", "insert"} => tid[c] = 0
    /\ stage[c] \in {"stored", "wait", "lookup", "expire"} => tid[c] # 0
    /\ tid[c] # 0 => tid[c] \in Inserted /\ \A d \in Clients \ {c} : tid[d] # tid[c]

\* Operators decide only rows that are there.
AckOfRow == \A i \in 1 .. MaxId : ack[i] # None => i \in Inserted

\* What the operator was told is what the row shows.
AckIsRow ==
  \A i \in DOMAIN rows : ack[i] # None =>
    /\ ack[i].verb = "resumed" => rows[i].state \in {"open", "completed"}
    /\ ack[i].verb = "dropped" => rows[i].state = "dropped"

\* A row that nobody decided stays paused until its hop has gone on.
RowIsAck ==
  \A i \in DOMAIN rows : rows[i].state # "paused" /\ ack[i] = None =>
    \A c \in Clients : tid[c] = i => stage[c] = "done"

\* v does not claim a verdict on row i that no operator gave.
Tells(i, v) == v \in {"resumed", "dropped"} => ack[i] # None /\ ack[i].verb = v

\* Stored results, channels and returned answers tell the operator's verdict.
ResultIsAck == \A i \in DOMAIN rows : rows[i].done => Tells(i, rows[i].result)
AnswerIsAck ==
  \A c \in Clients :
    /\ stage[c] = "wait" => Tells(tid[c], chan[c])
    /\ stage[c] \in {"lookup", "expire"} => Tells(tid[c], ret[c])

\* A verdict that the hop can no longer see is known to be late.
LateAck ==
  \A c \in Clients :
    stage[c] = "expire" /\ tid[c] \in DOMAIN rows /\ ack[tid[c]] # None => tid[c] \in late

HopInv ==
  /\ CellInv /\ HopTypeOK
  /\ StageIsPc /\ OwnRow
  /\ AckOfRow /\ AckIsRow /\ RowIsAck
  /\ ResultIsAck /\ AnswerIsAck /\ LateAck
  /\ HopAgreesWithRow

\* The facts every case starts from.
LEMMA HopFacts ==
  ASSUME HopInv
  PROVE  /\ Inv /\ TypeOK /\ PreparedFresh /\ NoLostWaiter /\ RegisteredWait
         /\ DOMAIN rows \subseteq Inserted /\ Ids \subseteq 1 .. MaxId /\ 0 \notin Ids
         /\ DOMAIN rows \subseteq 1 .. MaxId
         /\ \A i \in Inserted : i \in Ids /\ i \in 1 .. MaxId /\ i # 0
         /\ \A i \in 1 .. MaxId : ack[i] # None => ack[i].verb \in {"resumed", "dropped"}
         /\ \A i \in DOMAIN rows : rows[i].state = "paused" => ack[i] = None
         /\ \A i \in DOMAIN rows : rows[i].state = "paused" => ~rows[i].done
<1>1. Inv /\ TypeOK /\ PreparedFresh /\ NoLostWaiter /\ RegisteredWait /\ IdsBounded /\ HopTypeOK
      /\ AckIsRow /\ DecidedRow
  BY DEF HopInv, CellInv, Inv
<1>2. Ids \subseteq 1 .. MaxId /\ 0 \notin Ids
  <2>1. nextId \in Nat /\ MaxId \in Nat /\ nextId <= MaxId + 1
    BY <1>1, ConstantsAssumption DEF TypeOK, IdsBounded
  <2> QED BY <2>1 DEF Ids
<1>3. DOMAIN rows \subseteq Inserted
  BY <1>1 DEF PreparedFresh, TypeOK, Inserted
<1>4. DOMAIN rows \subseteq 1 .. MaxId /\ \A i \in Inserted : i \in Ids /\ i \in 1 .. MaxId /\ i # 0
  BY <1>2, <1>3 DEF Inserted
<1>5. \A i \in 1 .. MaxId : ack[i] # None => ack[i].verb \in {"resumed", "dropped"}
  BY <1>1 DEF HopTypeOK, Acks
<1>6. \A i \in DOMAIN rows : rows[i].state = "paused" => ack[i] = None
  BY <1>1, <1>4, <1>5 DEF AckIsRow
<1>7. \A i \in DOMAIN rows : rows[i].state = "paused" => ~rows[i].done
  BY <1>1 DEF DecidedRow
<1> QED BY <1>1, <1>2, <1>3, <1>4, <1>5, <1>6, <1>7

\* What a waiter's channel holds after a step that decides rows.
LEMMA DecidingAnswers ==
  ASSUME Inv, NEW S, NEW N, NEW v, Deciding(S, N, v), NEW c \in Clients, pc[c] = "wait"
  PROVE  chan'[c] = chan[c] \/ (want[c] \in S /\ chan'[c] = v[want[c]])
<1>1. \A j \in S : <<j, c>> \in paused => j = want[c]
  BY DEF Inv, RegisteredWait
<1>2. chan'[c] = IF \E j \in S : <<j, c>> \in paused THEN v[want[c]] ELSE chan[c]
  BY DEF Deciding, Deliver
<1> QED BY <1>1, <1>2

\* Rows are removed, by deletion, new caps or a wipe: hops see no verdict.
LEMMA HopRemoval ==
  ASSUME HopInv, CellInv', UNCHANGED hopVars, UNCHANGED <<pc, prep>>,
         NEW S, NEW v, Deciding(S, {}, v), DOMAIN rows' = DOMAIN rows \ S,
         \A i \in S : v[i] \notin {"resumed", "dropped"}
  PROVE  HopInv'
<1>1. /\ UNCHANGED <<stage, tid, ack, late, outcome, forward>>
      /\ want' = want /\ ret' = ret /\ nextId' = nextId
  BY DEF hopVars, Deciding
<1>2. \A i \in DOMAIN rows' :
        /\ i \in DOMAIN rows
        /\ rows'[i].state = rows[i].state /\ rows'[i].done = rows[i].done
        /\ rows'[i].result = rows[i].result
  BY DEF Deciding
<1>3. Inserted' = Inserted
  BY <1>1 DEF Inserted, Ids
<1>4. HopTypeOK' /\ StageIsPc' /\ OwnRow' /\ AckOfRow'
  BY <1>1, <1>3 DEF HopInv, HopTypeOK, StageIsPc, OwnRow, AckOfRow
<1>5. AckIsRow' /\ RowIsAck' /\ LateAck'
  BY <1>1, <1>2 DEF HopInv, AckIsRow, RowIsAck, LateAck
<1>6. ResultIsAck'
  BY <1>1, <1>2 DEF HopInv, ResultIsAck, Tells
<1>7. AnswerIsAck'
  <2>1. \A c \in Clients : stage[c] = "wait" => pc[c] = "wait"
    BY DEF HopInv, StageIsPc
  <2>2. \A c \in Clients : stage[c] = "wait" =>
          chan'[c] = chan[c] \/ chan'[c] \notin {"resumed", "dropped"}
    BY <2>1, DecidingAnswers, HopFacts
  <2> QED BY <1>1, <2>2 DEF HopInv, AnswerIsAck, Tells
<1>8. HopAgreesWithRow'
  BY <1>1, <1>2 DEF HopInv, HopAgreesWithRow
<1> QED BY <1>4, <1>5, <1>6, <1>7, <1>8 DEF HopInv


\* An operator decides a row: the row, its result, its waiters and the
\* acknowledgement change together.
LEMMA HopVerdict ==
  ASSUME HopInv, CellInv', UNCHANGED <<pc, prep>>,
         NEW id \in DOMAIN rows, NEW verb \in {"resumed", "dropped"}, NEW body \in BOOLEAN,
         Acknowledge(id, verb, body),
         NEW S, NEW v, Deciding(S, {}, v), id \in S, v[id] = verb,
         \A i \in S \ {id} : v[i] \notin {"resumed", "dropped"},
         DOMAIN rows' = (DOMAIN rows \ S) \cup {id},
         verb = "resumed" => rows'[id].state \in {"open", "completed"},
         verb = "dropped" => rows'[id].state = "dropped"
  PROVE  HopInv'
<1>0. HopTypeOK /\ StageIsPc /\ OwnRow /\ AckOfRow /\ AckIsRow /\ RowIsAck
      /\ ResultIsAck /\ AnswerIsAck /\ LateAck /\ HopAgreesWithRow
  BY DEF HopInv
<1>1. /\ UNCHANGED <<stage, tid, outcome, forward>>
      /\ want' = want /\ ret' = ret /\ nextId' = nextId
  BY DEF Acknowledge, Deciding
<1>2. \A i \in DOMAIN rows' : i # id =>
        /\ i \in DOMAIN rows
        /\ rows'[i].state = rows[i].state /\ rows'[i].done = rows[i].done
        /\ rows'[i].result = rows[i].result
  BY DEF Deciding
<1>3. /\ rows[id].state = "paused" /\ ~rows[id].done /\ ack[id] = None
      /\ rows'[id].state # "paused" /\ rows'[id].result = verb
      /\ id \in Inserted /\ id \in 1 .. MaxId
  BY HopFacts DEF Deciding
<1>4. [verb |-> verb, body |-> body] \in Acks
  BY DEF Acks
<1>5. /\ ack' \in [1 .. MaxId -> Acks \cup {None}]
      /\ ack'[id] # None /\ ack'[id].verb = verb
      /\ \A i \in 1 .. MaxId : i # id => ack'[i] = ack[i]
  BY <1>0, <1>3, <1>4, NoneAssumption DEF Acknowledge, HopTypeOK
<1>6. Inserted' = Inserted
  BY <1>1 DEF Inserted, Ids
<1>7. HopTypeOK' /\ StageIsPc' /\ OwnRow' /\ AckOfRow'
  BY <1>0, <1>1, <1>3, <1>5, <1>6 DEF HopTypeOK, StageIsPc, OwnRow, AckOfRow
<1>8. \A i \in DOMAIN rows : i \in 1 .. MaxId
  BY HopFacts
<1>9. AckIsRow' /\ RowIsAck'
  BY <1>0, <1>1, <1>2, <1>5, <1>8 DEF AckIsRow, RowIsAck
<1>10. ResultIsAck'
  BY <1>0, <1>2, <1>3, <1>5, <1>8 DEF ResultIsAck, Tells
<1>11. AnswerIsAck'
  <2> DEFINE Told(i, x) == x \in {"resumed", "dropped"} => ack'[i] # None /\ ack'[i].verb = x
  <2> SUFFICES ASSUME NEW c \in Clients
               PROVE  /\ stage[c] = "wait" => Told(tid[c], chan'[c])
                      /\ stage[c] \in {"lookup", "expire"} => Told(tid[c], ret[c])
    BY <1>1 DEF AnswerIsAck, Tells
  <2>1. stage[c] \in {"wait", "lookup", "expire"} => tid[c] \in 1 .. MaxId
    BY <1>0, HopFacts DEF OwnRow
  <2>2. stage[c] \in {"lookup", "expire"} => Told(tid[c], ret[c])
    BY <1>0, <1>1, <1>3, <1>5, <2>1 DEF AnswerIsAck, Tells
  <2>3. ASSUME stage[c] = "wait" PROVE Told(tid[c], chan'[c])
    <3>1. pc[c] = "wait" /\ want[c] = tid[c]
      BY <1>0, <2>3 DEF StageIsPc
    <3>2. chan'[c] = chan[c] \/ (want[c] \in S /\ chan'[c] = v[want[c]])
      BY <3>1, DecidingAnswers, HopFacts
    <3>3. CASE chan'[c] = chan[c]
      BY <1>0, <1>1, <1>3, <1>5, <2>1, <2>3, <3>3 DEF AnswerIsAck, Tells
    <3>4. CASE want[c] = id /\ chan'[c] = v[id]
      BY <1>5, <3>1, <3>4
    <3>5. CASE want[c] \in S \ {id} /\ chan'[c] = v[want[c]]
      BY <3>5
    <3> QED BY <3>2, <3>3, <3>4, <3>5
  <2> QED BY <2>2, <2>3
<1>12. LateAck'
  <2>1. late \subseteq late' /\ \A c \in Clients : tid[c] = id /\ stage[c] = "expire" => id \in late'
    BY DEF Acknowledge
  <2> QED BY <1>0, <1>1, <1>2, <1>5, <1>8, <2>1 DEF LateAck
<1>13. HopAgreesWithRow'
  <2> SUFFICES ASSUME NEW c \in Clients, stage[c] = "done"
               PROVE  /\ outcome[c] \in {"resumed", "dropped"} =>
                           tid[c] # 0 /\ ack'[tid[c]] # None /\ ack'[tid[c]].verb = outcome[c]
                      /\ tid[c] \in DOMAIN rows' =>
                           /\ rows'[tid[c]].state # "paused"
                           /\ ack'[tid[c]] # None /\ tid[c] \notin late' =>
                                outcome[c] = ack'[tid[c]].verb
    BY <1>1 DEF HopAgreesWithRow
  <2>1. tid[c] # id
    BY <1>0, <1>3 DEF HopAgreesWithRow
  <2>2. tid[c] # 0 => tid[c] \in 1 .. MaxId
    BY <1>0, HopFacts DEF OwnRow
  <2>3. late \subseteq late'
    BY DEF Acknowledge
  <2>4. tid[c] \in DOMAIN rows' => tid[c] \in 1 .. MaxId
    BY <1>2, <1>8, <2>1
  <2> QED BY <1>0, <1>2, <1>5, <2>1, <2>2, <2>3, <2>4 DEF HopAgreesWithRow
<1> QED BY <1>7, <1>9, <1>10, <1>11, <1>12, <1>13 DEF HopInv


\* Insert, first critical section.
LEMMA HopInsertInv ==
  ASSUME HopInv, CellInv', NEW c \in Clients, HopInsert(c)
  PROVE  HopInv'
<1>0. HopTypeOK /\ StageIsPc /\ OwnRow /\ AckOfRow /\ AckIsRow /\ RowIsAck
      /\ ResultIsAck /\ AnswerIsAck /\ LateAck /\ HopAgreesWithRow
  BY DEF HopInv
<1>1. TypeOK
  BY HopFacts
<1>2. /\ stage[c] = "new" /\ pc[c] = "idle" /\ nextId' = nextId + 1
      /\ UNCHANGED <<rows, want, chan, ret, tid, ack, late>>
  BY DEF HopInsert, InsertBegin, storeVars
<1>3. \/ pc'[c] = "idle" /\ pc' = pc /\ prep' = prep
      \/ /\ pc'[c] = "insert" /\ prep'[c].id = nextId /\ prep'[c].state = "paused"
         /\ \A d \in Clients \ {c} : pc'[d] = pc[d] /\ prep'[d] = prep[d]
  BY <1>1 DEF HopInsert, InsertBegin, TypeOK
<1>4. Inserted \subseteq Inserted'
  <2>1. nextId \in Nat
    BY <1>1 DEF TypeOK
  <2>2. Ids \subseteq Ids' /\ nextId \notin Ids
    BY <1>2, <2>1 DEF Ids
  <2> QED BY <1>3, <2>2 DEF Inserted
<1>5. /\ stage' \in [Clients -> Stages]
      /\ outcome' \in [Clients -> {"resumed", "dropped", "timedout", None}]
      /\ \A d \in Clients \ {c} : stage'[d] = stage[d] /\ outcome'[d] = outcome[d]
      /\ \/ stage'[c] = "insert" /\ pc'[c] = "insert"
         \/ stage'[c] = "done" /\ pc'[c] # "insert" /\ outcome'[c] = "timedout"
  BY <1>0 DEF HopInsert, GoTo, Finished, HopTypeOK, Stages
<1>6. tid[c] = 0 /\ 0 \notin DOMAIN rows
  BY <1>0, <1>2, HopFacts DEF OwnRow
<1>7. HopTypeOK' /\ StageIsPc'
  BY <1>0, <1>2, <1>3, <1>5 DEF HopTypeOK, StageIsPc
<1>8. OwnRow' /\ AckOfRow'
  BY <1>0, <1>2, <1>4, <1>5, <1>6 DEF OwnRow, AckOfRow
<1>9. AckIsRow' /\ RowIsAck' /\ ResultIsAck'
  BY <1>0, <1>2, <1>5, <1>6 DEF AckIsRow, RowIsAck, ResultIsAck, Tells
<1>10. AnswerIsAck' /\ LateAck'
  BY <1>0, <1>2, <1>5 DEF AnswerIsAck, LateAck, Tells
<1>11. HopAgreesWithRow'
  BY <1>0, <1>2, <1>5, <1>6 DEF HopAgreesWithRow
<1> QED BY <1>7, <1>8, <1>9, <1>10, <1>11 DEF HopInv

\* Insert, second critical section: other hops may lose their rows.
LEMMA HopStoredInv ==
  ASSUME HopInv, CellInv', NEW c \in Clients, HopStored(c)
  PROVE  HopInv'
<1> DEFINE id == prep[c].id
<1>0. HopTypeOK /\ StageIsPc /\ OwnRow /\ AckOfRow /\ AckIsRow /\ RowIsAck
      /\ ResultIsAck /\ AnswerIsAck /\ LateAck /\ HopAgreesWithRow
  BY DEF HopInv
<1>1. TypeOK /\ PreparedFresh /\ Inv /\ CellInv
  BY HopFacts DEF HopInv
<1>2. InsertCommit(c) /\ UNCHANGED <<ack, late>> /\ pc[c] = "insert" /\ stage[c] = "insert" /\ tid[c] = 0
  BY <1>0 DEF HopStored, InsertCommit, OwnRow
<1>3. PICK S \in SUBSET DOMAIN rows :
           \/ ins'[c] # "inserted" /\ Deciding(S, {}, Gone(S)) /\ DOMAIN rows' = DOMAIN rows \ S
           \/ /\ ins'[c] = "inserted" /\ Deciding(S, {id}, Gone(S))
              /\ DOMAIN rows' = (DOMAIN rows \ S) \cup {id}
              /\ rows'[id] = RowOf(prep[c])
  BY <1>1, <1>2, InsertCommitDecides
<1>4. PICK N \in {{}, {id}} : Deciding(S, N, Gone(S))
  BY <1>3
<1>5. want' = want /\ ret' = ret /\ nextId' = nextId
  BY <1>4 DEF Deciding
<1>6. /\ pc'[c] = "idle"
      /\ \A d \in Clients \ {c} : pc'[d] = pc[d] /\ prep'[d] = prep[d]
  BY <1>1, <1>2 DEF InsertCommit, InsertIndexed, InsertReturn, TypeOK
<1>7. /\ id \in Ids /\ id \notin DOMAIN rows /\ id \notin Inserted /\ id \in 1 .. MaxId
      /\ prep[c].state = "paused" /\ id # 0
  BY <1>0, <1>1, <1>2, HopFacts DEF PreparedFresh, StageIsPc, Inserted
<1>8. Inserted' = Inserted \cup {id}
  BY <1>1, <1>2, <1>5, <1>6, <1>7 DEF Inserted, PreparedFresh, Ids
<1>9. ack[id] = None /\ \A d \in Clients : tid[d] # id
  BY <1>0, <1>7 DEF AckOfRow, OwnRow
<1>10. \A i \in DOMAIN rows' : i # id =>
         /\ i \in DOMAIN rows
         /\ rows'[i].state = rows[i].state /\ rows'[i].done = rows[i].done
         /\ rows'[i].result = rows[i].result
  BY <1>3, <1>4 DEF Deciding
<1>11. id \in DOMAIN rows' => rows'[id].state = "paused" /\ ~rows'[id].done
  BY <1>3, <1>7 DEF RowOf
<1>12. /\ stage' \in [Clients -> Stages] /\ tid' \in [Clients -> Nat]
       /\ outcome' \in [Clients -> {"resumed", "dropped", "timedout", None}]
       /\ \A d \in Clients \ {c} : stage'[d] = stage[d] /\ outcome'[d] = outcome[d] /\ tid'[d] = tid[d]
       /\ \/ stage'[c] = "stored" /\ tid'[c] = id
          \/ stage'[c] = "done" /\ tid'[c] = 0 /\ outcome'[c] = "timedout"
  <2>1. id \in Nat
    BY <1>7
  <2> HIDE DEF id
  <2>2. \/ GoTo(c, "stored") /\ tid' = [tid EXCEPT ![c] = id] /\ UNCHANGED <<outcome, forward>>
        \/ Finished(c, "timedout", "original") /\ UNCHANGED tid
    BY DEF HopStored, id
  <2> QED BY <1>0, <1>2, <2>1, <2>2 DEF GoTo, Finished, HopTypeOK, Stages
<1> HIDE DEF id
<1>13. HopTypeOK' /\ StageIsPc'
  <2>1. HopTypeOK'
    BY <1>0, <1>2, <1>12 DEF HopTypeOK
  <2>2. ASSUME NEW d \in Clients
        PROVE  /\ stage'[d] = "insert" <=> pc'[d] = "insert"
               /\ stage'[d] = "wait" <=> pc'[d] = "wait"
               /\ stage'[d] = "wait" => want'[d] = tid'[d]
               /\ pc'[d] = "insert" => prep'[d].state = "paused"
    <3>1. CASE d = c
      BY <1>6, <1>12, <3>1
    <3>2. CASE d # c
      <4>1. /\ stage'[d] = stage[d] /\ tid'[d] = tid[d] /\ pc'[d] = pc[d]
            /\ prep'[d] = prep[d] /\ want'[d] = want[d]
        BY <1>5, <1>6, <1>12, <3>2
      <4> QED BY <1>0, <4>1 DEF StageIsPc
    <3> QED BY <3>1, <3>2
  <2> QED BY <2>1, <2>2 DEF StageIsPc
<1>14. OwnRow' /\ AckOfRow'
  BY <1>0, <1>2, <1>7, <1>8, <1>9, <1>12 DEF OwnRow, AckOfRow
<1>15. AckIsRow' /\ RowIsAck'
  BY <1>0, <1>2, <1>9, <1>10, <1>11, <1>12 DEF AckIsRow, RowIsAck
<1>16. ResultIsAck'
  BY <1>0, <1>2, <1>10, <1>11 DEF ResultIsAck, Tells
<1>17. AnswerIsAck'
  <2>1. \A d \in Clients : stage'[d] = "wait" =>
          /\ stage[d] = "wait" /\ tid'[d] = tid[d]
          /\ chan'[d] = chan[d] \/ chan'[d] = "notfound"
    <3> SUFFICES ASSUME NEW d \in Clients, stage'[d] = "wait"
                 PROVE  /\ stage[d] = "wait" /\ tid'[d] = tid[d]
                        /\ chan'[d] = chan[d] \/ chan'[d] = "notfound"
      OBVIOUS
    <3>1. stage[d] = "wait" /\ tid'[d] = tid[d] /\ pc[d] = "wait"
      BY <1>0, <1>12 DEF StageIsPc
    <3>2. chan'[d] = chan[d] \/ (want[d] \in S /\ chan'[d] = Gone(S)[want[d]])
      BY <1>1, <1>4, <3>1, DecidingAnswers
    <3> QED BY <3>1, <3>2 DEF Gone
  <2> QED BY <1>0, <1>2, <1>5, <1>12, <2>1 DEF AnswerIsAck, Tells
<1>18. LateAck'
  BY <1>0, <1>2, <1>9, <1>10, <1>12 DEF LateAck
<1>19. HopAgreesWithRow'
  BY <1>0, <1>2, <1>7, <1>9, <1>10, <1>12, HopFacts DEF HopAgreesWithRow
<1> QED BY <1>13, <1>14, <1>15, <1>16, <1>17, <1>18, <1>19 DEF HopInv


\* A hop between two calls: the store is as it was, or only this hop's WaitPaused
\* moved.
LEMMA HopWaits ==
  ASSUME HopInv, CellInv', NEW c \in Clients, NEW s \in {"wait", "lookup"},
         stage[c] \in {"stored", "wait"}, GoTo(c, s),
         UNCHANGED <<rows, nextId, prep, tid, ack, late, outcome>>,
         pc[c] # "insert", pc'[c] # "insert",
         s = "wait" <=> pc'[c] = "wait",
         s = "wait" => want'[c] = tid[c] /\ Tells(tid[c], chan[c]) /\ chan'[c] = chan[c],
         s = "lookup" => Tells(tid[c], IF ret'[c] \in Verdicts THEN ret'[c] ELSE "ctx"),
         \A d \in Clients \ {c} :
           pc'[d] = pc[d] /\ want'[d] = want[d] /\ chan'[d] = chan[d] /\ ret'[d] = ret[d]
  PROVE  HopInv'
<1>0. HopTypeOK /\ StageIsPc /\ OwnRow /\ AckOfRow /\ AckIsRow /\ RowIsAck
      /\ ResultIsAck /\ AnswerIsAck /\ LateAck /\ HopAgreesWithRow
  BY DEF HopInv
<1>1. /\ stage' \in [Clients -> Stages] /\ stage'[c] = s
      /\ \A d \in Clients \ {c} : stage'[d] = stage[d]
  BY <1>0 DEF GoTo, HopTypeOK, Stages
<1>2. \A d \in Clients : pc'[d] = "insert" <=> pc[d] = "insert"
  OBVIOUS
<1>3. Inserted' = Inserted
  BY <1>2 DEF Inserted, Ids
<1>4. HopTypeOK' /\ StageIsPc'
  BY <1>0, <1>1, <1>2 DEF HopTypeOK, StageIsPc
<1>5. OwnRow' /\ AckOfRow'
  BY <1>0, <1>1, <1>3 DEF OwnRow, AckOfRow
<1>6. AckIsRow' /\ RowIsAck' /\ ResultIsAck' /\ LateAck'
  BY <1>0, <1>1 DEF AckIsRow, RowIsAck, ResultIsAck, LateAck, Tells
<1>7. AnswerIsAck'
  BY <1>0, <1>1 DEF AnswerIsAck, Tells, Verdicts
<1>8. HopAgreesWithRow'
  BY <1>0, <1>1 DEF HopAgreesWithRow
<1> QED BY <1>4, <1>5, <1>6, <1>7, <1>8 DEF HopInv

\* WaitPaused is entered.
LEMMA HopWaitEnterInv ==
  ASSUME HopInv, CellInv', NEW c \in Clients, HopWaitEnter(c)
  PROVE  HopInv'
<1> DEFINE id == tid[c]
<1>1. TypeOK /\ FreshChannel /\ ResultIsAck /\ DecidedRow
  BY DEF HopInv, CellInv, Inv
<1>2. /\ stage[c] = "stored" /\ pc[c] = "idle"
      /\ UNCHANGED <<rows, nextId, prep, chan, tid, ack, late, outcome>>
  BY DEF HopWaitEnter, WaitEnter
<1>3. chan[c] = None /\ chan[c] \notin {"resumed", "dropped"}
  BY <1>1, <1>2, ConstantsAssumption DEF FreshChannel, WaitReturns, Verdicts
<1>4. \/ /\ pc' = [pc EXCEPT ![c] = "wait"] /\ want' = [want EXCEPT ![c] = id] /\ ret' = ret
      \/ UNCHANGED <<pc, want>> /\ ret' = [ret EXCEPT ![c] = "notfound"]
      \/ UNCHANGED <<pc, want>> /\ ret' = [ret EXCEPT ![c] = "inactive"]
      \/ /\ UNCHANGED <<pc, want>> /\ ret' = [ret EXCEPT ![c] = rows[id].result]
         /\ id \in DOMAIN rows /\ rows[id].done
  BY DEF HopWaitEnter, WaitEnter
<1>5. \A d \in Clients \ {c} :
        pc'[d] = pc[d] /\ want'[d] = want[d] /\ chan'[d] = chan[d] /\ ret'[d] = ret[d]
  BY <1>1, <1>2, <1>4 DEF TypeOK
<1>6. CASE pc'[c] = "wait"
  <2>1. want'[c] = id
    BY <1>1, <1>2, <1>4, <1>6 DEF TypeOK
  <2>2. GoTo(c, "wait")
    BY <1>6 DEF HopWaitEnter
  <2> QED BY <1>2, <1>3, <1>5, <1>6, <2>1, <2>2, HopWaits DEF Tells
<1>7. CASE pc'[c] # "wait"
  <2>1. /\ pc'[c] = "idle"
        /\ \/ ret'[c] \in {"notfound", "inactive"}
           \/ id \in DOMAIN rows /\ rows[id].done /\ ret'[c] = rows[id].result
    BY <1>1, <1>2, <1>4, <1>7 DEF TypeOK
  <2>2. Tells(id, IF ret'[c] \in Verdicts THEN ret'[c] ELSE "ctx")
    BY <1>1, <2>1 DEF ResultIsAck, Tells
  <2>3. GoTo(c, "lookup")
    BY <1>7 DEF HopWaitEnter
  <2> QED BY <1>2, <1>5, <2>1, <2>2, <2>3, HopWaits
<1> QED BY <1>6, <1>7

\* WaitPaused returns.
LEMMA HopWaitReturnInv ==
  ASSUME HopInv, CellInv', NEW c \in Clients, HopWaitReturn(c)
  PROVE  HopInv'
<1> DEFINE r == IF chan[c] # None THEN chan[c] ELSE "ctx"
<1>1. TypeOK /\ AnswerIsAck /\ CellInv
  BY DEF HopInv, CellInv, Inv
<1>2. /\ stage[c] = "wait" /\ (WaitWake(c) \/ WaitCtxDone(c)) /\ GoTo(c, "lookup")
      /\ UNCHANGED <<tid, ack, late, outcome>>
  BY DEF HopWaitReturn
<1>3. pc[c] = "wait" /\ UNCHANGED <<rows, nextId, prep>> /\ WaitReturn(c, r)
  BY <1>1, <1>2, WaitReturnAnswer
<1>4. /\ pc'[c] = "idle" /\ ret'[c] = r
      /\ \A d \in Clients \ {c} :
           pc'[d] = pc[d] /\ want'[d] = want[d] /\ chan'[d] = chan[d] /\ ret'[d] = ret[d]
  BY <1>1, <1>3 DEF WaitReturn, TypeOK
<1>5. Tells(tid[c], IF ret'[c] \in Verdicts THEN ret'[c] ELSE "ctx")
  BY <1>1, <1>2, <1>4 DEF AnswerIsAck, Tells
<1> QED BY <1>2, <1>3, <1>4, <1>5, HopWaits

\* The second look at the row.
LEMMA HopLookupInv ==
  ASSUME HopInv, CellInv', NEW c \in Clients, HopLookup(c)
  PROVE  HopInv'
<1> DEFINE id == tid[c]
           state == IF id \in DOMAIN rows THEN rows[id].state ELSE None
<1>0. HopTypeOK /\ StageIsPc /\ OwnRow /\ AckOfRow /\ AckIsRow /\ RowIsAck
      /\ ResultIsAck /\ AnswerIsAck /\ LateAck /\ HopAgreesWithRow
  BY DEF HopInv
<1>1. /\ stage[c] = "lookup" /\ UNCHANGED <<tid, ack, late>>
      /\ UNCHANGED <<rows, nextId, pc, prep, want, chan, ret>>
  BY DEF HopLookup, vars
<1>2. Inserted' = Inserted /\ pc[c] # "insert" /\ pc[c] # "wait" /\ id # 0 /\ id \in 1 .. MaxId
      /\ \A d \in Clients \ {c} : tid[d] # id
  BY <1>0, <1>1, HopFacts DEF Inserted, Ids, StageIsPc, OwnRow
<1>3. id \in DOMAIN rows =>
        \/ rows[id].state = "paused" /\ ack[id] = None
        \/ rows[id].state = "dropped" /\ ack[id] # None /\ ack[id].verb = "dropped"
        \/ rows[id].state \in {"open", "completed"} /\ ack[id] # None /\ ack[id].verb = "resumed"
  <2> SUFFICES ASSUME id \in DOMAIN rows
               PROVE  \/ rows[id].state = "paused" /\ ack[id] = None
                      \/ rows[id].state = "dropped" /\ ack[id] # None /\ ack[id].verb = "dropped"
                      \/ /\ rows[id].state \in {"open", "completed"}
                         /\ ack[id] # None /\ ack[id].verb = "resumed"
    OBVIOUS
  <2>1. rows[id].state = "paused" \/ ack[id] # None
    BY <1>0, <1>1 DEF RowIsAck
  <2>2. ack[id] # None => ack[id].verb \in {"resumed", "dropped"}
    BY <1>2, HopFacts
  <2>3. rows[id].state = "paused" => ack[id] = None
    BY HopFacts
  <2> QED BY <1>0, <2>1, <2>2, <2>3 DEF AckIsRow
<1>4. \/ \E o \in {"resumed", "dropped"}, f \in {"original", "patched", "prefix", None} :
           /\ Finished(c, o, f)
           /\ ack[id] # None /\ ack[id].verb = o
           /\ id \in DOMAIN rows => rows[id].state # "paused"
      \/ /\ GoTo(c, "expire") /\ outcome' = outcome
         /\ id \in DOMAIN rows => rows[id].state = "paused" /\ ack[id] = None
  <2>1. CASE state = "dropped"
    <3>1. id \in DOMAIN rows
      BY <2>1, NoneAssumption DEF States
    <3> QED BY <1>3, <2>1, <3>1 DEF HopLookup
  <2>2. CASE state \in {"open", "completed"} /\ id \in DOMAIN rows
    <3>1. PICK f \in IF ret[c] = "resumed" THEN {Patched(c)} ELSE FromFlow(c) : Finished(c, "resumed", f)
      BY <2>2 DEF HopLookup
    <3>2. f \in {"original", "patched", "prefix", None}
      BY DEF Patched, FromFlow
    <3> QED BY <1>3, <2>2, <3>1, <3>2
  <2>3. CASE state \notin {"dropped", "open", "completed"}
    <3>1. id \in DOMAIN rows => rows[id].state = "paused" /\ ack[id] = None
      BY <1>3, <2>3
    <3>2. Tells(id, ret[c])
      BY <1>0, <1>1 DEF AnswerIsAck
    <3>3. \/ ret[c] = "resumed" /\ Finished(c, "resumed", Patched(c))
          \/ ret[c] = "dropped" /\ Finished(c, "dropped", None)
          \/ GoTo(c, "expire") /\ outcome' = outcome
      BY <2>3 DEF HopLookup
    <3>4. Patched(c) \in {"original", "patched"}
      BY DEF Patched
    <3> QED BY <3>1, <3>2, <3>3, <3>4 DEF Tells
  <2>4. CASE state \in {"open", "completed"} /\ id \notin DOMAIN rows
    <3>1. state = None
      BY <2>4
    <3> HIDE DEF state
    <3>2. state \in {"open", "completed"}
      BY <2>4
    <3> QED BY <3>1, <3>2, NoneAssumption DEF States
  <2> QED BY <2>1, <2>2, <2>3, <2>4
<1>5. \/ /\ stage' \in [Clients -> Stages] /\ stage'[c] = "done"
         /\ outcome' \in [Clients -> {"resumed", "dropped", "timedout", None}]
         /\ outcome'[c] \in {"resumed", "dropped"}
         /\ ack[id] # None /\ ack[id].verb = outcome'[c]
         /\ id \in DOMAIN rows => rows[id].state # "paused"
      \/ /\ stage' \in [Clients -> Stages] /\ stage'[c] = "expire" /\ outcome' = outcome
         /\ id \in DOMAIN rows => rows[id].state = "paused" /\ ack[id] = None
  BY <1>0, <1>4 DEF Finished, GoTo, HopTypeOK, Stages
<1>6. \A d \in Clients \ {c} : stage'[d] = stage[d] /\ outcome'[d] = outcome[d]
  BY <1>0, <1>4 DEF Finished, GoTo, HopTypeOK
<1> HIDE DEF id, state
<1>7. tid[c] = id
  BY DEF id
<1>8. HopTypeOK' /\ StageIsPc'
  BY <1>0, <1>1, <1>2, <1>5, <1>6 DEF HopTypeOK, StageIsPc
<1>9. OwnRow' /\ AckOfRow'
  BY <1>0, <1>1, <1>2, <1>5, <1>6, <1>7 DEF OwnRow, AckOfRow
<1>10. AckIsRow' /\ RowIsAck' /\ ResultIsAck'
  BY <1>0, <1>1, <1>5, <1>6, <1>7 DEF AckIsRow, RowIsAck, ResultIsAck, Tells
<1>11. AnswerIsAck' /\ LateAck'
  BY <1>0, <1>1, <1>5, <1>6, <1>7 DEF AnswerIsAck, LateAck, Tells
<1>12. HopAgreesWithRow'
  BY <1>0, <1>1, <1>2, <1>5, <1>6, <1>7 DEF HopAgreesWithRow
<1> QED BY <1>8, <1>9, <1>10, <1>11, <1>12 DEF HopInv

\* The breakpoint times out: a verdict that came too late is left in the row.
LEMMA HopExpireInv ==
  ASSUME HopInv, CellInv', NEW c \in Clients, HopExpire(c)
  PROVE  HopInv'
<1> DEFINE id == tid[c]
<1>0. HopTypeOK /\ StageIsPc /\ OwnRow /\ AckOfRow /\ AckIsRow /\ RowIsAck
      /\ ResultIsAck /\ AnswerIsAck /\ LateAck /\ HopAgreesWithRow
  BY DEF HopInv
<1>1. stage[c] = "expire" /\ UNCHANGED <<tid, ack, late>> /\ Finished(c, "timedout", "original")
  BY DEF HopExpire
<1>2. /\ stage' \in [Clients -> Stages] /\ stage'[c] = "done" /\ outcome'[c] = "timedout"
      /\ outcome' \in [Clients -> {"resumed", "dropped", "timedout", None}]
      /\ \A d \in Clients \ {c} : stage'[d] = stage[d] /\ outcome'[d] = outcome[d]
  BY <1>0, <1>1 DEF Finished, GoTo, HopTypeOK, Stages
<1>3. /\ pc[c] # "insert" /\ pc[c] # "wait" /\ id # 0 /\ id \in 1 .. MaxId
      /\ \A d \in Clients \ {c} : tid[d] # id
  BY <1>0, <1>1, HopFacts DEF StageIsPc, OwnRow
<1>4. /\ UNCHANGED <<nextId, pc, prep, want, ret>>
      /\ DOMAIN rows' = DOMAIN rows
      /\ \A i \in DOMAIN rows \ {id} :
           /\ rows'[i].state = rows[i].state /\ rows'[i].done = rows[i].done
           /\ rows'[i].result = rows[i].result
      /\ id \in DOMAIN rows =>
           /\ rows'[id].state # "paused"
           /\ rows[id].state # "paused" => rows'[id] = rows[id]
           /\ rows[id].state = "paused" => rows'[id].result = "expired" /\ ack[id] = None
      /\ \A d \in Clients : pc[d] = "wait" => chan'[d] = chan[d] \/ chan'[d] = "expired"
  <2>1. CASE id \in DOMAIN rows /\ rows[id].state = "paused"
    <3>1. ExpireBreakpoint(id) /\ Inv /\ ack[id] = None
      BY <2>1, HopFacts DEF HopExpire
    <3>2. Deciding({id}, {}, [i \in {id} |-> "expired"])
      BY <2>1, <3>1, VerbDecides
    <3>3. UNCHANGED <<nextId, pc, prep, want, ret>> /\ DOMAIN rows' = DOMAIN rows
      BY <3>1 DEF ExpireBreakpoint
    <3>4. \A d \in Clients : pc[d] = "wait" => chan'[d] = chan[d] \/ chan'[d] = "expired"
      BY <3>1, <3>2, DecidingAnswers
    <3>5. /\ \A i \in DOMAIN rows \ {id} :
               /\ rows'[i].state = rows[i].state /\ rows'[i].done = rows[i].done
               /\ rows'[i].result = rows[i].result
          /\ rows'[id].state # "paused" /\ rows'[id].result = "expired"
      BY <2>1, <3>2, <3>3 DEF Deciding
    <3> QED BY <2>1, <3>1, <3>3, <3>4, <3>5
  <2>2. CASE ~(id \in DOMAIN rows /\ rows[id].state = "paused")
    BY <2>2 DEF HopExpire, vars
  <2> QED BY <2>1, <2>2
<1>5. id \in DOMAIN rows /\ ack[id] # None => id \in late
  BY <1>0, <1>1 DEF LateAck
<1>6. Inserted' = Inserted
  BY <1>4 DEF Inserted, Ids
<1> HIDE DEF id
<1>7. tid[c] = id
  BY DEF id
<1>8. HopTypeOK' /\ StageIsPc'
  BY <1>0, <1>1, <1>2, <1>3, <1>4 DEF HopTypeOK, StageIsPc
<1>9. OwnRow' /\ AckOfRow'
  BY <1>0, <1>1, <1>2, <1>3, <1>6, <1>7 DEF OwnRow, AckOfRow
<1>10. AckIsRow'
  BY <1>0, <1>1, <1>4 DEF AckIsRow
<1>11. RowIsAck'
  BY <1>0, <1>1, <1>2, <1>3, <1>4, <1>7 DEF RowIsAck
<1>12. ResultIsAck'
  BY <1>0, <1>1, <1>4 DEF ResultIsAck, Tells
<1>13. AnswerIsAck' /\ LateAck'
  <2>1. \A d \in Clients : stage[d] = "wait" => pc[d] = "wait"
    BY <1>0 DEF StageIsPc
  <2> QED BY <1>0, <1>1, <1>2, <1>4, <2>1 DEF AnswerIsAck, LateAck, Tells
<1>14. HopAgreesWithRow'
  BY <1>0, <1>1, <1>2, <1>3, <1>4, <1>5, <1>7 DEF HopAgreesWithRow
<1> QED BY <1>8, <1>9, <1>10, <1>11, <1>12, <1>13, <1>14 DEF HopInv


\* Nothing that the invariant speaks of changes.
LEMMA HopSame ==
  ASSUME HopInv, CellInv', UNCHANGED <<stage, tid, ack, late, outcome>>,
         UNCHANGED <<rows, nextId, pc, prep, want, chan, ret>>
  PROVE  HopInv'
<1>1. Inserted' = Inserted
  BY DEF Inserted, Ids
<1>2. HopTypeOK' /\ StageIsPc' /\ OwnRow' /\ AckOfRow'
  BY <1>1 DEF HopInv, HopTypeOK, StageIsPc, OwnRow, AckOfRow
<1>3. AckIsRow' /\ RowIsAck' /\ ResultIsAck' /\ AnswerIsAck' /\ LateAck' /\ HopAgreesWithRow'
  BY DEF HopInv, AckIsRow, RowIsAck, ResultIsAck, AnswerIsAck, LateAck, HopAgreesWithRow, Tells
<1> QED BY <1>2, <1>3 DEF HopInv

\* The operators' verbs.
LEMMA OperatorInv ==
  ASSUME HopInv, CellInv', Operator
  PROVE  HopInv'
<1>1. Inv
  BY HopFacts
<1>2. ASSUME NEW id \in DOMAIN rows, NEW body \in Bodies \cup {None},
             Resume(id, None, body), Acknowledge(id, "resumed", body # None)
      PROVE  HopInv'
  <2>1. PICK V \in SUBSET (DOMAIN rows \ {id}) :
          /\ Deciding(V \cup {id}, {}, [i \in V \cup {id} |->
                                          IF i = id THEN "resumed" ELSE "notfound"])
          /\ DOMAIN rows' = DOMAIN rows \ V
          /\ rows'[id].state \in {"open", "completed"}
    BY <1>1, <1>2, ResumeDecides
  <2> DEFINE S == V \cup {id}
             v == [i \in S |-> IF i = id THEN "resumed" ELSE "notfound"]
  <2>2. UNCHANGED <<pc, prep>>
    BY <1>2 DEF Resume
  <2>3. /\ Deciding(S, {}, v) /\ id \in S /\ v[id] = "resumed"
        /\ \A i \in S \ {id} : v[i] \notin {"resumed", "dropped"}
        /\ DOMAIN rows' = (DOMAIN rows \ S) \cup {id}
    BY <2>1
  <2> HIDE DEF S, v
  <2>4. (body # None) \in BOOLEAN
    OBVIOUS
  <2> QED BY <1>2, <2>1, <2>2, <2>3, <2>4, HopVerdict
<1>3. ASSUME NEW id \in DOMAIN rows, Drop(id), Acknowledge(id, "dropped", FALSE)
      PROVE  HopInv'
  <2> DEFINE S == {id}
             v == [i \in S |-> "dropped"]
  <2>1. Deciding(S, {}, v)
    BY <1>1, <1>3, VerbDecides
  <2>2. UNCHANGED <<pc, prep>> /\ DOMAIN rows' = DOMAIN rows /\ rows'[id].state = "dropped"
    <3>1. rows[id] \in Records
      BY <1>1 DEF Inv, TypeOK
    <3> QED BY <1>3, <3>1 DEF Drop, Records
  <2>3. /\ id \in S /\ v[id] = "dropped" /\ S \ {id} = {}
        /\ DOMAIN rows' = (DOMAIN rows \ S) \cup {id}
    BY <2>2
  <2> HIDE DEF S, v
  <2> QED BY <1>3, <2>1, <2>2, <2>3, HopVerdict
<1>4. ASSUME NEW id \in DOMAIN rows, Delete(id), UNCHANGED hopVars
      PROVE  HopInv'
  <2>1. PICK S \in SUBSET DOMAIN rows : Deciding(S, {}, Gone(S)) /\ rows' = Without(S)
    BY <1>1, <1>4, AdminDecides
  <2>2. UNCHANGED <<pc, prep>> /\ DOMAIN rows' = DOMAIN rows \ S
    BY <1>4, <2>1 DEF Delete, Without
  <2>3. \A i \in S : Gone(S)[i] \notin {"resumed", "dropped"}
    BY DEF Gone
  <2> QED BY <1>4, <2>1, <2>2, <2>3, HopRemoval
<1> QED BY <1>2, <1>3, <1>4 DEF Operator

\* New caps, a wipe, or time.
LEMMA EnvironmentInv ==
  ASSUME HopInv, CellInv', Environment
  PROVE  HopInv'
<1>1. Inv /\ UNCHANGED hopVars
  BY HopFacts DEF Environment
<1>2. ASSUME NEW o \in CapSet, ReplaceCaps(o, TRUE) PROVE HopInv'
  <2>1. PICK S \in SUBSET DOMAIN rows : Deciding(S, {}, Gone(S)) /\ rows' = Without(S)
    BY <1>1, <1>2, AdminDecides
  <2>2. UNCHANGED <<pc, prep>> /\ DOMAIN rows' = DOMAIN rows \ S
    BY <1>2, <2>1 DEF ReplaceCaps, Without
  <2>3. \A i \in S : Gone(S)[i] \notin {"resumed", "dropped"}
    BY DEF Gone
  <2> QED BY <1>1, <2>1, <2>2, <2>3, HopRemoval
<1>3. ASSUME NEW o \in CapSet, ResetTo(o) PROVE HopInv'
  <2> DEFINE S == DOMAIN rows
             v == [i \in S |-> "stale"]
  <2>1. Deciding(S, {}, v)
    BY <1>1, <1>3, ResetDecides
  <2>2. UNCHANGED <<pc, prep>> /\ DOMAIN rows' = DOMAIN rows \ S
    BY <1>3 DEF ResetTo
  <2>3. \A i \in S : v[i] \notin {"resumed", "dropped"}
    OBVIOUS
  <2> HIDE DEF S, v
  <2> QED BY <1>1, <2>1, <2>2, <2>3, HopRemoval
<1>4. CASE Tick
  <2>1. UNCHANGED <<stage, tid, ack, late, outcome, forward>>
        /\ UNCHANGED <<rows, nextId, pc, prep, want, chan, ret>>
    BY <1>1, <1>4 DEF hopVars, Tick, storeVars, clientVars
  <2> QED BY <2>1, HopSame
<1> QED BY <1>2, <1>3, <1>4 DEF Environment


\* The hops, the operators and the environment use the store only through its
\* operations other than Pause.
LEMMA HopNextIsStoreNext ==
  ASSUME HopInv, [HopNext]_allVars
  PROVE  [StoreNext]_vars
<1>1. TypeOK /\ OwnRow /\ now \in Nat /\ epoch \in Nat /\ Inserted \subseteq Ids
  BY HopFacts DEF HopInv, TypeOK
<1>2. ASSUME NEW c \in Clients, HopInsert(c) PROVE StoreNext
  <2>1. PICK phase \in Phases, hdr \in Hdrs, raw \in Bodies, e \in 1 .. epoch :
          InsertBegin(c, "paused", phase, hdr, raw, now, e)
    BY <1>2 DEF HopInsert
  <2>2. hdr \in Nat /\ raw \in Nat /\ e \in Nat
    BY <1>1, ConstantsAssumption
  <2> QED BY <1>1, <2>1, <2>2 DEF StoreNext
<1>3. ASSUME NEW c \in Clients, HopStored(c) \/ HopWaitReturn(c) PROVE StoreNext
  BY <1>3 DEF HopStored, HopWaitReturn, StoreNext
<1>4. ASSUME NEW c \in Clients, HopWaitEnter(c) PROVE StoreNext
  <2>1. WaitEnter(c, tid[c]) /\ tid[c] \in Ids
    BY <1>1, <1>4 DEF HopWaitEnter, OwnRow
  <2> QED BY <2>1 DEF StoreNext
<1>5. ASSUME NEW c \in Clients, HopLookup(c) PROVE UNCHANGED vars
  BY <1>5 DEF HopLookup
<1>6. ASSUME NEW c \in Clients, HopExpire(c) PROVE [StoreNext]_vars
  BY <1>6 DEF HopExpire, StoreNext
<1>7. CASE Operator
  BY <1>7 DEF Operator, StoreNext
<1>8. CASE Environment
  <2>1. \A o \in CapSet : o \in CapRecords
    BY ConstantsAssumption
  <2> QED BY <1>8, <2>1 DEF Environment, StoreNext
<1>9. CASE UNCHANGED allVars
  BY <1>9 DEF allVars
<1> QED BY <1>2, <1>3, <1>4, <1>5, <1>6, <1>7, <1>8, <1>9 DEF HopNext, HopStep

\* Every step of the composition keeps the invariant and is a step of the cell.
LEMMA HopNextInv ==
  ASSUME HopInv, [HopNext]_allVars
  PROVE  HopInv' /\ [Cell!Next]_(Cell!cellVars)
<1>1. CellInv' /\ [Cell!Next]_(Cell!cellVars)
  BY HopNextIsStoreNext, StoreNextCell DEF HopInv
<1>2. ASSUME NEW c \in Clients, HopStep(c) PROVE HopInv'
  BY <1>1, <1>2, HopInsertInv, HopStoredInv, HopWaitEnterInv, HopWaitReturnInv, HopLookupInv,
     HopExpireInv DEF HopStep
<1>3. CASE UNCHANGED allVars
  <2>1. UNCHANGED <<stage, tid, ack, late, outcome, forward>>
        /\ UNCHANGED <<rows, nextId, pc, prep, want, chan, ret>>
    BY <1>3 DEF allVars, hopVars, vars
  <2> QED BY <1>1, <2>1, HopSame
<1> QED BY <1>1, <1>2, <1>3, OperatorInv, EnvironmentInv DEF HopNext

\* Nobody has a row yet.
LEMMA HopInitInv == HopInit => HopInv /\ Cell!Init
<1> SUFFICES ASSUME HopInit PROVE HopInv /\ Cell!Init
  OBVIOUS
<1>1. CellInv /\ Cell!Init /\ DOMAIN rows = {} /\ \A c \in Clients : pc[c] = "idle"
  BY InitCell DEF HopInit, Init
<1>2. /\ stage = [c \in Clients |-> "new"] /\ tid = [c \in Clients |-> 0]
      /\ ack = [i \in 1 .. MaxId |-> None] /\ late = {} /\ outcome = [c \in Clients |-> None]
  BY DEF HopInit
<1>3. HopTypeOK /\ StageIsPc /\ OwnRow /\ AckOfRow
  BY <1>1, <1>2 DEF HopTypeOK, StageIsPc, OwnRow, AckOfRow, Stages
<1>4. AckIsRow /\ RowIsAck /\ ResultIsAck /\ AnswerIsAck /\ LateAck /\ HopAgreesWithRow
  BY <1>1, <1>2 DEF AckIsRow, RowIsAck, ResultIsAck, AnswerIsAck, LateAck, HopAgreesWithRow
<1> QED BY <1>1, <1>3, <1>4 DEF HopInv

\* A hop that went on agrees with its row, for any number of hops, rows, wipes
\* and operators (waitBreakpoint): its verdict is the operator's, whatever raced
\* the timeout, and its row cannot be decided any more.
THEOREM HopAgrees == HopSpec => []HopAgreesWithRow
<1>1. HopInv /\ [HopNext]_allVars => HopInv'
  BY HopNextInv
<1>2. HopInv => HopAgreesWithRow
  BY DEF HopInv
<1> QED BY <1>1, <1>2, HopInitInv, PTL DEF HopSpec

\* The same cell is implemented by the store while hops use it.
THEOREM HopsSeeCell == HopSpec => CellSpec
<1>1. HopInv /\ [HopNext]_allVars => HopInv' /\ [Cell!Next]_(Cell!cellVars)
  BY HopNextInv
<1> QED BY <1>1, HopInitInv, PTL DEF HopSpec, CellSpec, Cell!Spec

=============================================================================
