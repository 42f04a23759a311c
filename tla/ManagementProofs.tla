-------------------------- MODULE ManagementProofs --------------------------
(***************************************************************************)
(* Three results about the management surface, for any number of requests, *)
(* identities, sessions and changes, and for every rate and burst.         *)
(*                                                                         *)
(* A usable session carries what the verifier grants now: GrantsAreKnown   *)
(* ties a session, and a principal on its way to a login, to the verifier  *)
(* through the generation.  A change reaches the verifier: HooksCatchUp    *)
(* follows the two hooks of a change.  No source is served beyond its rate *)
(* and burst: BucketsPay weighs what has passed against what is left in    *)
(* the bucket at the time of its last stamp.                               *)
(***************************************************************************)
EXTENDS Management, IndexLemmas

Pcs == {"idle", "auth", "authorize", "handle",
        "reload", "compare", "replace", "clear", "clearAgain"}

Principals == [scopes : SUBSET {"read", "admin"}, gen : Nat, id : Identities]

RequestRecords ==
  [pc : Pcs, cap : {"health", "read", "write", "session", "login", "logout"},
   cookie : Nat, secret : Secrets, csrf : {"none", "wrong", "right"},
   prin : Principals \cup {None}, hooks : {<< >>, <<"rest">>, Hooks},
   next : Identities \cup {None}, changed : BOOLEAN]

SessionRecords == [id : Identities, gen : Nat, made : Nat, seen : Nat]

TypeOK ==
  /\ spec \in Identities /\ recent \subseteq Identities
  /\ ver \in [id : Identities, gen : Nat]
  /\ DOMAIN sess \subseteq 1 .. issued
  /\ \A c \in DOMAIN sess : sess[c] \in SessionRecords
  /\ req \in [Requests -> RequestRecords]
  /\ bucket \in [Doors -> Buckets \cup {None}] /\ passed \in [Doors -> Nat]
  /\ now \in Nat /\ issued \in Nat /\ failed \in BOOLEAN

\* What a verifier v granted as generation g it grants still, if g is current.
Grant(v, i, g) == g <= v.gen /\ (g = v.gen => i = v.id)

\* Sessions and principals on their way were granted by the verifier.
GrantsAreKnown ==
  /\ \A c \in DOMAIN sess : Grant(ver, sess[c].id, sess[c].gen)
  /\ \A r \in Requests : req[r].pc \in {"authorize", "handle"} /\ req[r].cap # "health" =>
       req[r].prin \in Principals /\ Grant(ver, req[r].prin.id, req[r].prin.gen)

TableFits == Cardinality(DOMAIN sess) <= MaxSessions

\* The hook of a change that has installed an identity, or is beyond that.
Caught(r) == InHooks(r) /\ (Len(req[r].hooks) = 1 \/ req[r].pc \in {"clear", "clearAgain"})

HooksCatchUp ==
  /\ spec \in recent
  /\ \A r \in Requests : InHooks(r) => req[r].hooks \in {<<"rest">>, Hooks}
  /\ \A r \in Requests : req[r].pc \in {"compare", "replace"} => req[r].next \in recent
  /\ ~failed /\ (Quiet \/ \E r \in Requests : Caught(r)) => ver.id \in recent

\* What has passed, and what may still pass at once, was paid for by the time of
\* the last stamp.
BucketsPay ==
  \A d \in Doors :
    /\ bucket[d] = None => passed[d] = 0
    /\ bucket[d] # None => /\ bucket[d].last <= now
                           /\ passed[d] + bucket[d].tokens <= Burst + Rate * bucket[d].last

MgmtInv == TypeOK /\ GrantsAreKnown /\ TableFits /\ HooksCatchUp /\ BucketsPay

-----------------------------------------------------------------------------
(* The limiters                                                            *)

LEMMA ConstantsTyped == Burst \in Nat /\ Burst # 0 /\ Rate \in Nat /\ IdleFor \in Nat
                        /\ MaxSessions \in Nat /\ MaxSessions # 0 /\ IdleFor * Rate >= Burst
                        /\ First \in Identities /\ None \notin Buckets
BY ManagementConstants

LEMMA TimesFacts ==
  /\ \A a, b \in Nat : a * b \in Nat /\ a * b = b * a
  /\ \A a, b, c \in Nat : a <= b => a * c <= b * c
  /\ \A a, b, c \in Nat : (a + b) * c = a * c + b * c
<1>1. \A a, b \in Nat : a * b \in Nat /\ a * b = b * a
  OBVIOUS
<1>2. \A a, b, c \in Nat : (a + b) * c = a * c + b * c
  OBVIOUS
<1>3. ASSUME NEW a \in Nat, NEW b \in Nat, NEW c \in Nat, a <= b PROVE a * c <= b * c
  <2>1. PICK e \in Nat : b = a + e
    <3>1. b - a \in Nat /\ b = a + (b - a)
      BY <1>3
    <3> QED BY <3>1
  <2>2. b * c = a * c + e * c /\ a * c \in Nat /\ e * c \in Nat
    BY <1>1, <1>2, <2>1
  <2> QED BY <2>2
<1> QED BY <1>1, <1>2, <1>3

\* A refilled bucket holds no more than the time gone has paid for.
LEMMA RefillPaid ==
  ASSUME TypeOK, BucketsPay, NEW d \in Doors
  PROVE  /\ Refilled(bucket[d]) \in 0 .. Burst
         /\ passed[d] + Refilled(bucket[d]) <= Burst + Rate * now
         /\ passed[d] \in Nat /\ now \in Nat /\ Rate * now \in Nat
<1> DEFINE b == bucket[d]
<1>1. /\ b \in Buckets \cup {None} /\ passed[d] \in Nat /\ now \in Nat /\ Rate * now \in Nat
  <2>1. b \in Buckets \cup {None} /\ passed[d] \in Nat /\ now \in Nat
    BY DEF TypeOK
  <2> QED BY <2>1, ConstantsTyped, TimesFacts
<1>2. CASE b = None
  <2>1. passed[d] = 0 /\ Refilled(b) = Burst
    BY <1>2 DEF BucketsPay, Refilled, EvictIdle
  <2> QED BY <1>1, <2>1, ConstantsTyped
<1>3. CASE b # None
  <2> DEFINE gone == now - b.last
  <2>1. /\ b.last \in Nat /\ b.tokens \in 0 .. Burst /\ b.last <= now
        /\ passed[d] + b.tokens <= Burst + Rate * b.last
    BY <1>1, <1>3, ConstantsTyped DEF BucketsPay, Buckets
  <2>2. gone \in Nat /\ b.last + gone = now
    BY <1>1, <2>1
  <2>3. /\ Rate * now = Rate * b.last + gone * Rate
        /\ gone * Rate \in Nat /\ Rate * b.last \in Nat
    <3> HIDE DEF gone, b
    <3>1. (b.last + gone) * Rate = b.last * Rate + gone * Rate
      BY <2>1, <2>2, ConstantsTyped, TimesFacts
    <3>2. Rate * now = now * Rate /\ Rate * b.last = b.last * Rate /\ gone * Rate \in Nat
          /\ Rate * b.last \in Nat
      BY <1>1, <2>1, <2>2, ConstantsTyped, TimesFacts
    <3> QED BY <2>2, <3>1, <3>2
  <2>4. CASE gone > IdleFor
    <3>1. IdleFor * Rate <= gone * Rate
      <4> HIDE DEF gone
      <4>1. IdleFor <= gone
        BY <2>2, <2>4, ConstantsTyped
      <4> QED BY <2>2, <4>1, ConstantsTyped, TimesFacts
    <3>2. Refilled(b) = Burst
      BY <2>4 DEF Refilled, EvictIdle
    <3>3. IdleFor * Rate \in Nat
      BY ConstantsTyped, TimesFacts
    <3>4. Refilled(b) \in 0 .. Burst /\ passed[d] + Refilled(b) <= Burst + Rate * now
      <4> HIDE DEF gone, b
      <4> QED BY <1>1, <2>1, <2>3, <3>1, <3>2, <3>3, ConstantsTyped
    <3> QED BY <1>1, <3>4
  <2>5. CASE ~(gone > IdleFor)
    <3> DEFINE t == b.tokens + gone * Rate
    <3>1. Refilled(b) = IF t > Burst THEN Burst ELSE t
      BY <1>3, <2>5 DEF Refilled, EvictIdle
    <3>2. t \in Nat /\ t = b.tokens + gone * Rate
      <4> HIDE DEF gone, b
      <4> QED BY <2>1, <2>3, ConstantsTyped
    <3>3. Refilled(b) \in 0 .. Burst /\ passed[d] + Refilled(b) <= Burst + Rate * now
      <4> HIDE DEF t, gone, b
      <4> QED BY <1>1, <2>1, <2>3, <3>1, <3>2, ConstantsTyped
    <3> QED BY <1>1, <3>3
  <2> QED BY <2>4, <2>5
<1> QED BY <1>2, <1>3

\* A request that passes takes a token, one that does not leaves the stamp.
LEMMA StampPays ==
  ASSUME TypeOK, BucketsPay, NEW d \in Doors, NEW n \in {0, 1}, Refilled(bucket[d]) >= n,
         bucket' = [bucket EXCEPT ![d] = [tokens |-> Refilled(@) - n, last |-> now]],
         passed' = [passed EXCEPT ![d] = @ + n], now' = now
  PROVE  /\ BucketsPay'
         /\ bucket' \in [Doors -> Buckets \cup {None}] /\ passed' \in [Doors -> Nat]
<1> DEFINE t == Refilled(bucket[d])
           b == [tokens |-> t - n, last |-> now]
<1>1. /\ t \in 0 .. Burst /\ passed[d] + t <= Burst + Rate * now
      /\ passed[d] \in Nat /\ now \in Nat /\ Rate * now \in Nat
  BY RefillPaid
<1>2. bucket \in [Doors -> Buckets \cup {None}] /\ passed \in [Doors -> Nat]
  BY DEF TypeOK
<1>3. bucket'[d] = b /\ passed'[d] = passed[d] + n
      /\ \A e \in Doors \ {d} : bucket'[e] = bucket[e] /\ passed'[e] = passed[e]
  BY <1>2
<1> HIDE DEF t
<1>4. b \in Buckets /\ b.tokens = t - n /\ b.last = now
  BY <1>1, ConstantsTyped DEF Buckets, t
<1>5. bucket' \in [Doors -> Buckets \cup {None}] /\ passed' \in [Doors -> Nat]
  BY <1>1, <1>2, <1>4 DEF t
<1> HIDE DEF b
<1>6. b # None
  BY <1>4, ConstantsTyped
<1>7. passed'[d] + b.tokens <= Burst + Rate * b.last /\ b.last <= now
  <2>1. passed'[d] + b.tokens = passed[d] + t
    BY <1>1, <1>3, <1>4
  <2> QED BY <1>1, <1>4, <2>1
<1>8. BucketsPay'
  BY <1>3, <1>6, <1>7 DEF BucketsPay
<1> QED BY <1>5, <1>8

-----------------------------------------------------------------------------
(* The table of sessions                                                   *)

\* A table with no session that was not there, and none of another identity or
\* generation.
Within(t) ==
  /\ DOMAIN t \subseteq DOMAIN sess
  /\ \A c \in DOMAIN t :
       t[c] \in SessionRecords /\ t[c].id = sess[c].id /\ t[c].gen = sess[c].gen

LEMMA WithinFacts ==
  ASSUME TypeOK
  PROVE  /\ Within(sess)
         /\ \A C : Within(Dropped(C)) /\ DOMAIN Dropped(C) = DOMAIN sess \ C
         /\ \A c : Within(Lookup(c))
<1>1. Within(sess)
  BY DEF TypeOK, Within
<1>2. ASSUME NEW C PROVE Within(Dropped(C)) /\ DOMAIN Dropped(C) = DOMAIN sess \ C
  BY <1>1 DEF Dropped, Within
<1>3. ASSUME NEW c PROVE Within(Lookup(c))
  <2>1. CASE Usable(c)
    <3> DEFINE t == [sess EXCEPT ![c].seen = now]
    <3>1. Lookup(c) = t /\ c \in DOMAIN sess /\ now \in Nat
      BY <2>1 DEF Lookup, Usable, TypeOK
    <3>2. DOMAIN t = DOMAIN sess /\ \A d \in DOMAIN sess \ {c} : t[d] = sess[d]
      OBVIOUS
    <3>3. t[c] = [sess[c] EXCEPT !.seen = now]
      BY <3>1
    <3>4. sess[c] \in SessionRecords
      BY <3>1 DEF TypeOK
    <3> HIDE DEF t
    <3>5. t[c] \in SessionRecords /\ t[c].id = sess[c].id /\ t[c].gen = sess[c].gen
      BY <3>1, <3>3, <3>4 DEF SessionRecords
    <3> QED BY <1>1, <3>1, <3>2, <3>5 DEF Within
  <2>2. CASE ~Usable(c)
    BY <1>2, <2>2 DEF Lookup
  <2> QED BY <2>1, <2>2
<1> QED BY <1>1, <1>2, <1>3

\* Such a table keeps what the invariant says of it.
LEMMA WithinKeeps ==
  ASSUME MgmtInv, Within(sess'), issued' = issued,
         \A i \in Identities, g \in Nat : Grant(ver, i, g) => Grant(ver', i, g)
  PROVE  /\ DOMAIN sess' \subseteq 1 .. issued'
         /\ \A c \in DOMAIN sess' : sess'[c] \in SessionRecords
         /\ \A c \in DOMAIN sess' : Grant(ver', sess'[c].id, sess'[c].gen)
         /\ TableFits'
<1>1. /\ DOMAIN sess' \subseteq DOMAIN sess /\ DOMAIN sess \subseteq 1 .. issued
      /\ issued \in Nat
  BY DEF MgmtInv, TypeOK, Within
<1>2. IsFiniteSet(DOMAIN sess)
  <2>1. IsFiniteSet(1 .. issued)
    BY <1>1, FS_Interval
  <2> QED BY <1>1, <2>1, FS_Subset
<1>3. Cardinality(DOMAIN sess') <= Cardinality(DOMAIN sess)
  BY <1>1, <1>2, FS_Subset
<1>4. Cardinality(DOMAIN sess) \in Nat /\ Cardinality(DOMAIN sess') \in Nat
  <2>1. IsFiniteSet(DOMAIN sess')
    BY <1>1, <1>2, FS_Subset
  <2> QED BY <1>2, <2>1, FS_CardinalityType
<1>5. TableFits'
  BY <1>3, <1>4, ConstantsTyped DEF MgmtInv, TableFits
<1>6. \A c \in DOMAIN sess' : Grant(ver', sess'[c].id, sess'[c].gen)
  <2> SUFFICES ASSUME NEW c \in DOMAIN sess' PROVE Grant(ver', sess'[c].id, sess'[c].gen)
    OBVIOUS
  <2>1. sess[c] \in SessionRecords /\ Grant(ver, sess[c].id, sess[c].gen)
    BY <1>1 DEF MgmtInv, TypeOK, GrantsAreKnown
  <2>2. sess[c].id \in Identities /\ sess[c].gen \in Nat
    BY <2>1 DEF SessionRecords
  <2> QED BY <2>1, <2>2 DEF Within
<1> QED BY <1>1, <1>5, <1>6 DEF Within

\* evictOldestLocked finds an oldest session.
LEMMA OldestExists ==
  ASSUME TypeOK, NEW C \in SUBSET DOMAIN sess, C # {}
  PROVE  \E c \in C : OldestOf(C) = {c}
<1> DEFINE S == {sess[c].seen : c \in C}
<1>1. S \in SUBSET Nat /\ S # {}
  BY DEF TypeOK, SessionRecords
<1>2. PICK m \in S : \A k \in S : m <= k
  BY <1>1, LeastNat
<1>3. \E c \in C : \A d \in C : sess[c].seen <= sess[d].seen
  BY <1>2
<1> QED BY <1>3 DEF OldestOf

\* A login finds room: the table is below its size when the session is added.
LEMMA RoomMade ==
  ASSUME MgmtInv
  PROVE  /\ Within(MadeRoom) /\ IsFiniteSet(DOMAIN MadeRoom)
         /\ Cardinality(DOMAIN MadeRoom) \in Nat /\ Cardinality(DOMAIN MadeRoom) < MaxSessions
<1> DEFINE kept == DOMAIN sess \ Expiring
           full == Cardinality(kept) >= MaxSessions
           gone == Expiring \cup (IF full THEN OldestOf(kept) ELSE {})
<1>1. TypeOK /\ TableFits /\ DOMAIN sess \subseteq 1 .. issued /\ issued \in Nat
  BY DEF MgmtInv, TypeOK
<1>2. IsFiniteSet(DOMAIN sess)
  <2>1. IsFiniteSet(1 .. issued)
    BY <1>1, FS_Interval
  <2> QED BY <1>1, <2>1, FS_Subset
<1>3. MadeRoom = Dropped(gone)
  BY DEF MadeRoom
<1>4. Within(MadeRoom) /\ DOMAIN MadeRoom = DOMAIN sess \ gone
  BY <1>1, <1>3, WithinFacts
<1>5. IsFiniteSet(kept) /\ Cardinality(kept) <= Cardinality(DOMAIN sess)
  BY <1>2, FS_Subset
<1>6. Cardinality(kept) \in Nat /\ Cardinality(DOMAIN sess) \in Nat
  BY <1>2, <1>5, FS_CardinalityType
<1>7. CASE ~full
  <2>1. DOMAIN MadeRoom = kept
    BY <1>4, <1>7
  <2> HIDE DEF kept
  <2> QED BY <1>4, <1>5, <1>6, <1>7, <2>1, ConstantsTyped
<1>8. CASE full
  <2>1. kept # {}
    <3>1. Cardinality(kept) # 0
      BY <1>6, <1>8, ConstantsTyped
    <3> QED BY <3>1, FS_EmptySet
  <2>2. PICK c \in kept : OldestOf(kept) = {c}
    BY <1>1, <2>1, OldestExists
  <2>3. DOMAIN MadeRoom = kept \ {c}
    BY <1>4, <1>8, <2>2
  <2> HIDE DEF kept
  <2>4. IsFiniteSet(kept \ {c}) /\ Cardinality(kept \ {c}) = Cardinality(kept) - 1
    BY <1>5, <2>2, FS_RemoveElement
  <2>5. Cardinality(kept) <= MaxSessions
    BY <1>1, <1>5, <1>6, ConstantsTyped DEF TableFits
  <2>6. Cardinality(kept) - 1 \in Nat /\ Cardinality(kept) - 1 < MaxSessions
    <3>1. Cardinality(kept) # 0
      BY <1>5, <2>2, FS_EmptySet
    <3> QED BY <1>6, <2>5, <3>1, ConstantsTyped
  <2> QED BY <1>4, <2>3, <2>4, <2>6
<1> QED BY <1>7, <1>8

-----------------------------------------------------------------------------
(* MgmtInv is inductive                                                    *)

LEMMA InitMgmt ==
  ASSUME Init
  PROVE  MgmtInv
<1>1. NoReq \in RequestRecords /\ NoReq.pc = "idle"
  BY DEF NoReq, RequestRecords, Pcs, Secrets, Hooks
<1>2. DOMAIN sess = {}
  BY DEF Init
<1>3. TypeOK
  <2>1. ver \in [id : Identities, gen : Nat] /\ spec \in Identities /\ recent \subseteq Identities
    BY ConstantsTyped DEF Init
  <2>2. req \in [Requests -> RequestRecords]
    BY <1>1 DEF Init
  <2>3. bucket \in [Doors -> Buckets \cup {None}] /\ passed \in [Doors -> Nat]
    BY DEF Init
  <2> QED BY <1>2, <2>1, <2>2, <2>3 DEF Init, TypeOK
<1>4. GrantsAreKnown
  BY <1>1, <1>2 DEF Init, GrantsAreKnown
<1>7. TableFits
  BY <1>2, FS_EmptySet, ConstantsTyped DEF TableFits
<1>5. HooksCatchUp
  BY <1>1 DEF Init, HooksCatchUp, InHooks
<1>6. BucketsPay
  BY DEF Init, BucketsPay
<1> QED BY <1>3, <1>4, <1>5, <1>6, <1>7 DEF MgmtInv

Outside == {"idle", "auth", "authorize", "handle"}

\* A step of a request that is not running hooks, before and after.
LEMMA PlainStep ==
  ASSUME MgmtInv, NEW r \in Requests, NEW q \in RequestRecords,
         req' = [req EXCEPT ![r] = q], req[r].pc \in Outside, q.pc \in Outside,
         q.pc \in {"authorize", "handle"} /\ q.cap # "health" =>
            q.prin \in Principals /\ Grant(ver, q.prin.id, q.prin.gen),
         DOMAIN sess' \subseteq 1 .. issued', \A c \in DOMAIN sess' : sess'[c] \in SessionRecords,
         \A c \in DOMAIN sess' : Grant(ver', sess'[c].id, sess'[c].gen), TableFits',
         UNCHANGED <<spec, ver, recent, failed, now>>, issued' \in Nat,
         bucket' \in [Doors -> Buckets \cup {None}], passed' \in [Doors -> Nat], BucketsPay'
  PROVE  MgmtInv'
<1>1. TypeOK
  BY DEF MgmtInv
<1>2. req'[r] = q /\ \A p \in Requests \ {r} : req'[p] = req[p]
  BY <1>1 DEF TypeOK
<1>3. TypeOK'
  BY <1>1 DEF TypeOK
<1>4. GrantsAreKnown'
  BY <1>2 DEF MgmtInv, GrantsAreKnown
<1>5. HooksCatchUp'
  <2>1. ~InHooks(r) /\ ~InHooks(r)' /\ req'[r].pc \notin {"compare", "replace"}
    BY <1>2 DEF InHooks, Outside
  <2>2. \A p \in Requests : InHooks(p)' <=> InHooks(p)
    BY <1>2, <2>1 DEF InHooks
  <2>3. \A p \in Requests : Caught(p)' <=> Caught(p)
    BY <1>2, <2>1, <2>2 DEF Caught
  <2> QED BY <1>2, <2>1, <2>2, <2>3 DEF MgmtInv, HooksCatchUp, Quiet
<1> QED BY <1>3, <1>4, <1>5 DEF MgmtInv

\* The same, when the table loses sessions at most.
LEMMA PlainStepWithin ==
  ASSUME MgmtInv, NEW r \in Requests, NEW q \in RequestRecords,
         req' = [req EXCEPT ![r] = q], req[r].pc \in Outside, q.pc \in Outside,
         q.pc \in {"authorize", "handle"} /\ q.cap # "health" =>
            q.prin \in Principals /\ Grant(ver, q.prin.id, q.prin.gen),
         Within(sess'), UNCHANGED <<spec, ver, recent, failed, now, issued, bucket, passed>>
  PROVE  MgmtInv'
<1>1. /\ DOMAIN sess' \subseteq 1 .. issued'
      /\ \A c \in DOMAIN sess' : sess'[c] \in SessionRecords
      /\ \A c \in DOMAIN sess' : Grant(ver', sess'[c].id, sess'[c].gen)
      /\ TableFits'
  BY WithinKeeps
<1>2. /\ bucket' \in [Doors -> Buckets \cup {None}] /\ passed' \in [Doors -> Nat]
      /\ issued' \in Nat
  BY DEF MgmtInv, TypeOK
<1>3. BucketsPay'
  BY DEF MgmtInv, BucketsPay
<1> QED BY <1>1, <1>2, <1>3, PlainStep

LEMMA NoReqTyped == NoReq \in RequestRecords /\ NoReq.pc = "idle" /\ NoReq.pc \in Outside
BY DEF NoReq, RequestRecords, Pcs, Secrets, Hooks, Outside

LEMMA ArriveInv ==
  ASSUME MgmtInv, NEW r \in Requests, NEW q \in RequestRecords, q.pc = "auth", Admitted(r),
         Enter(r, q), UNCHANGED <<bucket, passed>> \/ \E d \in Doors : Allow(d)
  PROVE  MgmtInv'
<1>1. TypeOK /\ BucketsPay
  BY DEF MgmtInv
<1>2. req[r].pc = "idle" /\ req[r].pc \in Outside
  BY DEF Admitted, Outside
<1>4. /\ req' = [req EXCEPT ![r] = q]
      /\ UNCHANGED <<spec, ver, sess, open, now, issued, changes, recent, failed>>
  BY DEF Enter
<1>6. bucket' \in [Doors -> Buckets \cup {None}] /\ passed' \in [Doors -> Nat] /\ BucketsPay'
  <2>1. CASE UNCHANGED <<bucket, passed>>
    BY <1>1, <1>4, <2>1 DEF TypeOK, BucketsPay
  <2>2. ASSUME NEW d \in Doors, Allow(d)
        PROVE  bucket' \in [Doors -> Buckets \cup {None}] /\ passed' \in [Doors -> Nat] /\ BucketsPay'
    <3>1. /\ Refilled(bucket[d]) >= 1
          /\ bucket' = [bucket EXCEPT ![d] = [tokens |-> Refilled(@) - 1, last |-> now]]
          /\ passed' = [passed EXCEPT ![d] = @ + 1]
      BY <2>2 DEF Allow
    <3> QED BY <1>1, <1>4, <3>1, StampPays
  <2> QED BY <2>1, <2>2
<1>7. Within(sess') /\ ver' = ver /\ issued' = issued
  BY <1>1, <1>4, WithinFacts DEF Within
<1>8. /\ DOMAIN sess' \subseteq 1 .. issued'
      /\ \A c \in DOMAIN sess' : sess'[c] \in SessionRecords
      /\ \A c \in DOMAIN sess' : Grant(ver', sess'[c].id, sess'[c].gen)
      /\ TableFits'
  BY <1>7, WithinKeeps
<1>9. issued' \in Nat /\ q.pc \in Outside /\ q.pc \notin {"authorize", "handle"}
  BY <1>1, <1>4 DEF TypeOK, Outside
<1> QED BY <1>2, <1>4, <1>6, <1>8, <1>9, PlainStep

LEMMA ArriveRESTInv ==
  ASSUME MgmtInv, NEW r \in Requests,
         NEW cap \in {"health", "read", "write", "session", "login", "logout"}, NEW t \in Secrets,
         NEW c \in 0 .. issued, NEW csrf \in {"none", "wrong", "right"}, Arrive(r, cap, t, c, csrf)
  PROVE  MgmtInv'
<1> DEFINE q == [NoReq EXCEPT !.pc = "auth", !.cap = cap, !.secret = t,
                              !.cookie = c, !.csrf = csrf]
<1>1. c \in Nat
  BY DEF MgmtInv, TypeOK
<1>2. q \in RequestRecords /\ q.pc = "auth"
  BY <1>1, NoReqTyped DEF RequestRecords, Pcs
<1>3. Admitted(r) /\ Enter(r, q) /\ (UNCHANGED <<bucket, passed>> \/ Allow("rest"))
  BY DEF Arrive
<1>4. "rest" \in Doors
  BY DEF Doors
<1> HIDE DEF q
<1> QED BY <1>2, <1>3, <1>4, ArriveInv

LEMMA ArriveMCPInv ==
  ASSUME MgmtInv, NEW r \in Requests, NEW cap \in {"read", "write"}, NEW t \in Secrets,
         ArriveMCP(r, cap, t)
  PROVE  MgmtInv'
<1> DEFINE q == [NoReq EXCEPT !.pc = "auth", !.cap = cap, !.secret = t]
<1>1. q \in RequestRecords /\ q.pc = "auth"
  BY NoReqTyped DEF RequestRecords, Pcs
<1>2. Admitted(r) /\ Enter(r, q) /\ Allow("mcp")
  BY DEF ArriveMCP
<1>3. "mcp" \in Doors
  BY DEF Doors
<1> HIDE DEF q
<1> QED BY <1>1, <1>2, <1>3, ArriveInv

\* authenticate: the principal is a usable session's or the verifier's.
LEMMA AuthenticateInv ==
  ASSUME MgmtInv, NEW r \in Requests, Authenticate(r)
  PROVE  MgmtInv'
<1> DEFINE c == req[r].cookie
           p == IF req[r].cap = "health" THEN [scopes |-> {}, gen |-> 0, id |-> First]
                ELSE IF Usable(c) THEN Principal(sess[c].id, sess[c].gen)
                ELSE Bearer(req[r].secret)
           q == [req[r] EXCEPT !.pc = "authorize", !.prin = p, !.secret = None]
<1>1. /\ req[r].pc = "auth" /\ sess' = Lookup(c)
      /\ IF p = None THEN Done(r) ELSE req' = [req EXCEPT ![r] = q]
      /\ UNCHANGED <<spec, ver, recent, failed, now, issued, bucket, passed>>
  BY DEF Authenticate
<1>2. TypeOK /\ req[r] \in RequestRecords /\ ver \in [id : Identities, gen : Nat]
  BY DEF MgmtInv, TypeOK
<1>3. Within(sess')
  BY <1>1, <1>2, WithinFacts
<1>4. req[r].pc \in Outside
  BY <1>1 DEF Outside
<1>5. CASE p = None
  BY <1>1, <1>3, <1>4, <1>5, NoReqTyped, PlainStepWithin DEF Done
<1>6. CASE p # None
  <2>1. \A i \in Identities, g \in Nat : Principal(i, g) \in Principals
    BY ManagementConstants DEF Principal, Principals
  <2>2. p \in Principals
    <3>1. CASE req[r].cap = "health"
      BY <3>1, ConstantsTyped DEF Principals
    <3>2. CASE req[r].cap # "health" /\ Usable(c)
      <4>1. sess[c] \in SessionRecords
        BY <1>2, <3>2 DEF TypeOK, Usable
      <4> QED BY <2>1, <3>2, <4>1 DEF SessionRecords
    <3>3. CASE req[r].cap # "health" /\ ~Usable(c)
      BY <1>2, <1>6, <2>1, <3>3 DEF Bearer
    <3> QED BY <3>1, <3>2, <3>3
  <2>3. req[r].cap # "health" => Grant(ver, p.id, p.gen)
    <3>1. CASE req[r].cap # "health" /\ Usable(c)
      <4>1. Grant(ver, sess[c].id, sess[c].gen)
        BY <3>1 DEF MgmtInv, GrantsAreKnown, Usable
      <4>2. p.id = sess[c].id /\ p.gen = sess[c].gen
        BY <3>1 DEF Principal
      <4> QED BY <4>1, <4>2
    <3>2. CASE req[r].cap # "health" /\ ~Usable(c)
      <4>1. p.id = ver.id /\ p.gen = ver.gen
        BY <1>6, <3>2 DEF Bearer, Principal
      <4> QED BY <1>2, <4>1 DEF Grant
    <3> QED BY <3>1, <3>2
  <2>4. req' = [req EXCEPT ![r] = q]
    BY <1>1, <1>6
  <2> HIDE DEF p
  <2>5. q \in RequestRecords /\ q.pc = "authorize" /\ q.cap = req[r].cap /\ q.prin = p
    BY <1>2, <2>2 DEF RequestRecords, Pcs, Secrets
  <2> HIDE DEF q
  <2>6. q.pc \in Outside
    BY <2>5 DEF Outside
  <2> QED BY <1>1, <1>3, <1>4, <2>2, <2>3, <2>4, <2>5, <2>6, PlainStepWithin
<1> QED BY <1>5, <1>6

LEMMA AuthorizeInv ==
  ASSUME MgmtInv, NEW r \in Requests, Authorize(r)
  PROVE  MgmtInv'
<1> DEFINE q == [req[r] EXCEPT !.pc = "handle"]
<1>1. /\ req[r].pc = "authorize" /\ (sess' = sess \/ sess' = Dropped({req[r].cookie}))
      /\ Done(r) \/ req' = [req EXCEPT ![r] = q]
      /\ UNCHANGED <<spec, ver, recent, failed, now, issued, bucket, passed>>
  BY DEF Authorize
<1>2. TypeOK /\ req[r] \in RequestRecords
  BY DEF MgmtInv, TypeOK
<1>3. Within(sess')
  BY <1>1, <1>2, WithinFacts
<1>4. req[r].pc \in Outside
  BY <1>1 DEF Outside
<1>5. CASE Done(r)
  BY <1>1, <1>3, <1>4, <1>5, NoReqTyped, PlainStepWithin DEF Done
<1>6. CASE req' = [req EXCEPT ![r] = q]
  <2>1. q \in RequestRecords /\ q.pc = "handle" /\ q.cap = req[r].cap /\ q.prin = req[r].prin
    BY <1>2 DEF RequestRecords, Pcs
  <2> HIDE DEF q
  <2>2. q.cap # "health" => q.prin \in Principals /\ Grant(ver, q.prin.id, q.prin.gen)
    BY <1>1, <2>1 DEF MgmtInv, GrantsAreKnown
  <2>3. q.pc \in Outside
    BY <2>1 DEF Outside
  <2> QED BY <1>1, <1>3, <1>4, <1>6, <2>1, <2>2, <2>3, PlainStepWithin
<1> QED BY <1>1, <1>5, <1>6

\* A handler that changes nothing but the table.
LEMMA HandlerInv ==
  ASSUME MgmtInv, NEW r \in Requests, Read(r) \/ SessionGet(r) \/ Logout(r) \/ ChangeRefused(r)
  PROVE  MgmtInv'
<1>1. /\ req[r].pc = "handle" /\ Done(r)
      /\ sess' = sess \/ sess' = Lookup(req[r].cookie) \/ sess' = Dropped({req[r].cookie})
      /\ UNCHANGED <<spec, ver, recent, failed, now, issued, bucket, passed>>
  BY DEF Read, SessionGet, Logout, ChangeRefused
<1>2. TypeOK
  BY DEF MgmtInv
<1>3. Within(sess')
  <2>1. CASE sess' = sess
    BY <1>2, <2>1, WithinFacts
  <2>2. CASE sess' = Lookup(req[r].cookie)
    BY <1>2, <2>2, WithinFacts
  <2>3. CASE sess' = Dropped({req[r].cookie})
    BY <1>2, <2>3, WithinFacts
  <2> QED BY <1>1, <2>1, <2>2, <2>3
<1>4. req[r].pc \in Outside
  BY <1>1 DEF Outside
<1> QED BY <1>1, <1>3, <1>4, NoReqTyped, PlainStepWithin DEF Done

\* Create takes only a principal of the current generation.
LEMMA LoginInv ==
  ASSUME MgmtInv, NEW r \in Requests, Login(r)
  PROVE  MgmtInv'
<1> DEFINE p == req[r].prin
           n == [id |-> p.id, gen |-> p.gen, made |-> now, seen |-> now]
<1>1. /\ req[r].pc = "handle" /\ req[r].cap = "login" /\ Done(r)
      /\ UNCHANGED <<spec, ver, recent, failed, now, bucket, passed>>
  BY DEF Login
<1>2. TypeOK /\ issued \in Nat /\ now \in Nat
  BY DEF MgmtInv, TypeOK
<1>3. req[r].pc \in Outside
  BY <1>1 DEF Outside
<1>4. CASE p.gen # ver.gen
  <2>1. issued' = issued /\ sess' = sess
    BY <1>4 DEF Login
  <2>2. Within(sess')
    BY <1>2, <2>1, WithinFacts DEF Within
  <2> QED BY <1>1, <1>3, <2>1, <2>2, NoReqTyped, PlainStepWithin DEF Done
<1>5. CASE p.gen = ver.gen
  <2> DEFINE k == issued + 1
             M == MadeRoom
  <2>1. issued' = k /\ sess' = [c \in DOMAIN M \cup {k} |-> IF c = k THEN n ELSE M[c]]
    BY <1>5 DEF Login
  <2>2. p \in Principals /\ Grant(ver, p.id, p.gen)
    BY <1>1 DEF MgmtInv, GrantsAreKnown
  <2>3. n \in SessionRecords /\ n.id = p.id /\ n.gen = p.gen
    BY <1>2, <2>2 DEF Principals, SessionRecords
  <2> HIDE DEF n, p
  <2>4. /\ Within(M) /\ IsFiniteSet(DOMAIN M)
        /\ Cardinality(DOMAIN M) \in Nat /\ Cardinality(DOMAIN M) < MaxSessions
    BY RoomMade
  <2> HIDE DEF M
  <2>5. /\ DOMAIN sess' = DOMAIN M \cup {k} /\ sess'[k] = n
        /\ \A c \in DOMAIN M \ {k} : sess'[c] = M[c]
    BY <2>1
  <2>6. DOMAIN M \subseteq 1 .. issued /\ k \notin DOMAIN M
    BY <1>2, <2>4 DEF Within, TypeOK
  <2>7. DOMAIN sess' \subseteq 1 .. issued' /\ issued' \in Nat
    BY <1>2, <2>1, <2>5, <2>6
  <2>8. TableFits'
    <3>1. Cardinality(DOMAIN M \cup {k}) = Cardinality(DOMAIN M) + 1
      BY <2>4, <2>6, FS_AddElement
    <3> QED BY <2>4, <2>5, <3>1, ConstantsTyped DEF TableFits
  <2>9. ASSUME NEW c \in DOMAIN M
        PROVE  sess'[c] \in SessionRecords /\ Grant(ver, sess'[c].id, sess'[c].gen)
    <3>1. c \in DOMAIN sess /\ M[c] \in SessionRecords /\ M[c].id = sess[c].id /\ M[c].gen = sess[c].gen
      BY <2>4 DEF Within
    <3>2. sess'[c] = M[c]
      BY <2>5, <2>6
    <3> QED BY <3>1, <3>2 DEF MgmtInv, GrantsAreKnown
  <2>10. /\ \A c \in DOMAIN sess' : sess'[c] \in SessionRecords
         /\ \A c \in DOMAIN sess' : Grant(ver', sess'[c].id, sess'[c].gen)
    BY <1>1, <2>2, <2>3, <2>5, <2>9
  <2>11. /\ bucket' \in [Doors -> Buckets \cup {None}] /\ passed' \in [Doors -> Nat]
         /\ BucketsPay'
    BY <1>1 DEF MgmtInv, TypeOK, BucketsPay
  <2> QED BY <1>1, <1>3, <2>7, <2>8, <2>10, <2>11, NoReqTyped, PlainStep DEF Done
<1> QED BY <1>4, <1>5

-----------------------------------------------------------------------------
(* The hooks of a change                                                   *)

HookPcs == {"reload", "compare", "replace", "clear", "clearAgain"}

\* What a step into, inside or out of the hooks leaves alone.
LEMMA RestKept ==
  ASSUME MgmtInv, NEW r \in Requests, NEW q \in RequestRecords,
         req' = [req EXCEPT ![r] = q], q.pc \notin {"authorize", "handle"},
         spec' \in Identities, recent' \subseteq Identities,
         ver' \in [id : Identities, gen : Nat], failed' \in BOOLEAN,
         \A i \in Identities, g \in Nat : Grant(ver, i, g) => Grant(ver', i, g),
         Within(sess'), UNCHANGED <<bucket, passed, now, issued>>
  PROVE  TypeOK' /\ GrantsAreKnown' /\ TableFits' /\ BucketsPay'
<1>1. TypeOK
  BY DEF MgmtInv
<1>2. req'[r] = q /\ \A p \in Requests \ {r} : req'[p] = req[p]
  BY <1>1 DEF TypeOK
<1>3. /\ DOMAIN sess' \subseteq 1 .. issued'
      /\ \A c \in DOMAIN sess' : sess'[c] \in SessionRecords
      /\ \A c \in DOMAIN sess' : Grant(ver', sess'[c].id, sess'[c].gen)
      /\ TableFits'
  BY WithinKeeps
<1>4. TypeOK'
  BY <1>1, <1>3 DEF TypeOK
<1>5. ASSUME NEW p \in Requests, req'[p].pc \in {"authorize", "handle"}, req'[p].cap # "health"
      PROVE  req'[p].prin \in Principals /\ Grant(ver', req'[p].prin.id, req'[p].prin.gen)
  <2>1. p # r /\ req'[p] = req[p]
    BY <1>2, <1>5
  <2>2. req[p].prin \in Principals /\ Grant(ver, req[p].prin.id, req[p].prin.gen)
    BY <1>5, <2>1 DEF MgmtInv, GrantsAreKnown
  <2>3. req[p].prin.id \in Identities /\ req[p].prin.gen \in Nat
    BY <2>2 DEF Principals
  <2> QED BY <2>1, <2>2, <2>3
<1>6. GrantsAreKnown'
  BY <1>3, <1>5 DEF GrantsAreKnown
<1>7. BucketsPay'
  BY DEF MgmtInv, BucketsPay
<1> QED BY <1>3, <1>4, <1>6, <1>7

\* A step of a request that is running hooks keeps up, if it leaves a mark of
\* failure, installs a recent identity, or had done so before.
LEMMA HookStep ==
  ASSUME TypeOK, HooksCatchUp, NEW r \in Requests, NEW q \in RequestRecords,
         req' = [req EXCEPT ![r] = q], InHooks(r),
         q.pc \in HookPcs \cup {"idle"}, q.pc # "idle" => q.hooks \in {<<"rest">>, Hooks},
         q.pc \in {"compare", "replace"} => q.next \in recent,
         spec' = spec, recent' = recent,
         \/ failed'
         \/ ver'.id \in recent
         \/ /\ ver' = ver /\ failed' = failed
            /\ \/ Caught(r)
               \/ q.pc \in HookPcs \ {"clear", "clearAgain"} /\ Len(q.hooks) # 1
  PROVE  HooksCatchUp'
<1>1. req'[r] = q /\ \A p \in Requests \ {r} : req'[p] = req[p]
  BY DEF TypeOK
<1>2. /\ \A p \in Requests \ {r} : InHooks(p)' = InHooks(p) /\ Caught(p)' = Caught(p)
      /\ InHooks(r)' <=> q.pc \in HookPcs
      /\ Caught(r)' <=> q.pc \in HookPcs /\ (Len(q.hooks) = 1 \/ q.pc \in {"clear", "clearAgain"})
  BY <1>1 DEF InHooks, Caught, HookPcs
<1>3. ~failed' /\ (Quiet' \/ \E p \in Requests : Caught(p)') => ver'.id \in recent
  <2> SUFFICES ASSUME ~failed', Quiet' \/ \E p \in Requests : Caught(p)', ver'.id \notin recent
               PROVE  FALSE
    OBVIOUS
  <2>1. ver' = ver /\ ~failed
    OBVIOUS
  <2>2. \E p \in Requests : Caught(p)
    <3>1. CASE Caught(r)
      BY <3>1
    <3>2. CASE q.pc \in HookPcs \ {"clear", "clearAgain"} /\ Len(q.hooks) # 1
      <4>1. InHooks(r)' /\ ~Caught(r)'
        BY <1>2, <3>2
      <4>2. ~Quiet'
        BY <4>1 DEF Quiet
      <4> QED BY <1>2, <4>1, <4>2
    <3> QED BY <3>1, <3>2
  <2> QED BY <2>1, <2>2 DEF HooksCatchUp
<1>4. \A p \in Requests : InHooks(p)' => req'[p].hooks \in {<<"rest">>, Hooks}
  BY <1>1, <1>2 DEF HooksCatchUp, HookPcs
<1>5. \A p \in Requests : req'[p].pc \in {"compare", "replace"} => req'[p].next \in recent
  BY <1>1 DEF HooksCatchUp
<1> QED BY <1>3, <1>4, <1>5 DEF HooksCatchUp

\* The next hook, or the end of the request.
LEMMA NextHookIs ==
  ASSUME TypeOK, HooksCatchUp, NEW r \in Requests, InHooks(r), NextHook(r)
  PROVE  \E q \in RequestRecords :
           /\ req' = [req EXCEPT ![r] = q]
           /\ q.pc = "idle" \/ (q.pc = "reload" /\ q.hooks = <<"rest">>)
<1> DEFINE q == IF Len(req[r].hooks) = 1 THEN NoReq
                ELSE [req[r] EXCEPT !.pc = "reload", !.hooks = Tail(req[r].hooks),
                                    !.next = None, !.changed = FALSE]
<1>1. req[r] \in RequestRecords /\ req[r].hooks \in {<<"rest">>, Hooks}
  BY DEF TypeOK, HooksCatchUp
<1>2. req' = [req EXCEPT ![r] = q]
  BY DEF NextHook
<1>3. CASE req[r].hooks = <<"rest">>
  <2>1. q = NoReq
    BY <1>3
  <2> QED BY <1>2, <2>1, NoReqTyped
<1>4. CASE req[r].hooks = Hooks
  <2>1. Len(Hooks) = 2 /\ Tail(Hooks) = <<"rest">>
    BY DEF Hooks
  <2>2. q = [req[r] EXCEPT !.pc = "reload", !.hooks = <<"rest">>, !.next = None, !.changed = FALSE]
    <3>1. ~(Len(req[r].hooks) = 1) /\ Tail(req[r].hooks) = <<"rest">>
      BY <1>4, <2>1
    <3> QED BY <3>1, Zenon
  <2> HIDE DEF q
  <2>3. q \in RequestRecords /\ q.pc = "reload" /\ q.hooks = <<"rest">>
    BY <1>1, <2>2 DEF RequestRecords, Pcs
  <2> QED BY <1>2, <2>3 DEF q
<1> QED BY <1>1, <1>3, <1>4

LEMMA ChangeInv ==
  ASSUME MgmtInv, NEW r \in Requests, Change(r)
  PROVE  MgmtInv'
<1> DEFINE q == [req[r] EXCEPT !.pc = "reload", !.hooks = Hooks]
<1>1. PICK i \in Identities : spec' = i /\ recent' = IF Quiet THEN {i} ELSE recent \cup {i}
  BY DEF Change
<1>2. /\ req[r].pc = "handle" /\ failed' = (failed /\ ~Quiet) /\ req' = [req EXCEPT ![r] = q]
      /\ UNCHANGED <<ver, sess, bucket, passed, now, issued>>
  BY DEF Change
<1>3. TypeOK /\ HooksCatchUp /\ req[r] \in RequestRecords /\ failed \in BOOLEAN
      /\ ver \in [id : Identities, gen : Nat]
  BY DEF MgmtInv, TypeOK
<1>4. q \in RequestRecords /\ q.pc = "reload" /\ q.hooks = Hooks /\ Len(Hooks) = 2
  BY <1>3 DEF RequestRecords, Pcs, Hooks
<1> HIDE DEF q
<1>5. Within(sess')
  BY <1>2, <1>3, WithinFacts
<1>6. TypeOK' /\ GrantsAreKnown' /\ TableFits' /\ BucketsPay'
  <2>1. failed' \in BOOLEAN /\ spec' \in Identities /\ ver' \in [id : Identities, gen : Nat]
        /\ recent' \subseteq Identities /\ q.pc \notin {"authorize", "handle"}
    BY <1>1, <1>2, <1>3, <1>4 DEF TypeOK
  <2> QED BY <1>2, <1>4, <1>5, <2>1, RestKept
<1>7. /\ req'[r] = q /\ \A p \in Requests \ {r} : req'[p] = req[p]
  BY <1>2, <1>3 DEF TypeOK
<1>8. /\ ~InHooks(r) /\ InHooks(r)' /\ ~Caught(r) /\ ~Caught(r)'
      /\ \A p \in Requests \ {r} : InHooks(p)' = InHooks(p) /\ Caught(p)' = Caught(p)
  BY <1>2, <1>4, <1>7 DEF InHooks, Caught
<1>9. ~Quiet'
  BY <1>8 DEF Quiet
<1>10. HooksCatchUp'
  <2>1. spec' \in recent'
    BY <1>1
  <2>2. \A p \in Requests : InHooks(p)' => req'[p].hooks \in {<<"rest">>, Hooks}
    BY <1>3, <1>4, <1>7, <1>8 DEF HooksCatchUp
  <2>3. ASSUME NEW p \in Requests, req'[p].pc \in {"compare", "replace"}
        PROVE  req'[p].next \in recent'
    <3>1. p # r /\ req'[p] = req[p]
      BY <1>4, <1>7, <2>3
    <3>2. InHooks(p) /\ req[p].next \in recent
      BY <1>3, <2>3, <3>1 DEF InHooks, HooksCatchUp
    <3>3. ~Quiet
      BY <3>2 DEF Quiet
    <3> QED BY <1>1, <3>1, <3>2, <3>3
  <2>4. ~failed' /\ (Quiet' \/ \E p \in Requests : Caught(p)') => ver'.id \in recent'
    <3> SUFFICES ASSUME ~failed', NEW p \in Requests, Caught(p)' PROVE ver'.id \in recent'
      BY <1>9
    <3>1. p # r /\ Caught(p)
      BY <1>8
    <3>2. InHooks(p) /\ ~Quiet
      BY <3>1 DEF Caught, Quiet
    <3>3. ~failed
      BY <1>2, <1>3, <3>2
    <3>4. ver.id \in recent
      BY <1>3, <3>1, <3>3 DEF HooksCatchUp
    <3> QED BY <1>1, <1>2, <3>2, <3>4
  <2> QED BY <2>1, <2>2, <2>3, <2>4 DEF HooksCatchUp
<1> QED BY <1>6, <1>10 DEF MgmtInv

LEMMA ReloadInv ==
  ASSUME MgmtInv, NEW r \in Requests, Reload(r) \/ ReloadFails(r) \/ Compare(r)
  PROVE  MgmtInv'
<1>1. TypeOK /\ HooksCatchUp /\ req[r] \in RequestRecords /\ failed \in BOOLEAN
      /\ ver \in [id : Identities, gen : Nat] /\ spec \in Identities /\ recent \subseteq Identities
  BY DEF MgmtInv, TypeOK
<1>2. /\ req[r].pc \in {"reload", "compare"} /\ InHooks(r)
      /\ UNCHANGED <<spec, ver, sess, bucket, passed, now, issued, recent>>
  BY DEF Reload, ReloadFails, Compare, InHooks
<1>3. Within(sess')
  BY <1>1, <1>2, WithinFacts
<1>4. req[r].hooks \in {<<"rest">>, Hooks} /\ spec \in recent
  BY <1>1, <1>2 DEF HooksCatchUp
<1>5. CASE Reload(r) \/ Compare(r)
  <2>1. PICK q \in RequestRecords :
           /\ req' = [req EXCEPT ![r] = q] /\ q.pc \in {"compare", "replace"}
           /\ q.hooks = req[r].hooks /\ q.next \in recent
    <3>1. CASE Reload(r)
      <4> DEFINE st == IF Head(req[r].hooks) = "rest" THEN "compare" ELSE "replace"
                 q == [req[r] EXCEPT !.next = spec, !.pc = st]
      <4>1. req' = [req EXCEPT ![r] = q]
        BY <3>1 DEF Reload
      <4>2. st \in {"compare", "replace"}
        OBVIOUS
      <4> HIDE DEF st
      <4>3. q \in RequestRecords /\ q.pc = st /\ q.hooks = req[r].hooks /\ q.next = spec
        BY <1>1, <4>2 DEF RequestRecords, Pcs
      <4> HIDE DEF q
      <4> QED BY <1>4, <4>1, <4>2, <4>3
    <3>2. CASE Compare(r)
      <4> DEFINE ch == ver.id # req[r].next
                 q == [req[r] EXCEPT !.pc = "replace", !.changed = ch]
      <4>1. req' = [req EXCEPT ![r] = q] /\ req[r].pc = "compare"
        BY <3>2 DEF Compare
      <4>2. ch \in BOOLEAN
        OBVIOUS
      <4> HIDE DEF ch
      <4>3. q \in RequestRecords /\ q.pc = "replace" /\ q.hooks = req[r].hooks
            /\ q.next = req[r].next
        BY <1>1, <4>2 DEF RequestRecords, Pcs
      <4> HIDE DEF q
      <4> QED BY <1>1, <4>1, <4>3 DEF HooksCatchUp
    <3> QED BY <1>5, <3>1, <3>2
  <2>2. failed' = failed
    BY <1>5 DEF Reload, Compare
  <2>3. q.pc \in HookPcs \ {"clear", "clearAgain"} /\ q.pc \notin {"authorize", "handle"}
    BY <2>1 DEF HookPcs
  <2>4. Len(q.hooks) # 1 \/ Caught(r)
    BY <1>2, <2>1 DEF Caught
  <2>5. TypeOK' /\ GrantsAreKnown' /\ TableFits' /\ BucketsPay'
    BY <1>1, <1>2, <1>3, <2>1, <2>2, <2>3, RestKept
  <2>6. HooksCatchUp'
    BY <1>1, <1>2, <1>4, <2>1, <2>2, <2>3, <2>4, HookStep
  <2> QED BY <2>5, <2>6 DEF MgmtInv
<1>6. CASE ReloadFails(r)
  <2>1. NextHook(r) /\ failed' = TRUE
    BY <1>6 DEF ReloadFails
  <2>2. PICK q \in RequestRecords :
           /\ req' = [req EXCEPT ![r] = q]
           /\ q.pc = "idle" \/ (q.pc = "reload" /\ q.hooks = <<"rest">>)
    BY <1>1, <1>2, <2>1, NextHookIs
  <2>3. q.pc \in HookPcs \cup {"idle"} /\ q.pc \notin {"authorize", "handle", "compare", "replace"}
    BY <2>2 DEF HookPcs
  <2>4. TypeOK' /\ GrantsAreKnown' /\ TableFits' /\ BucketsPay'
    BY <1>1, <1>2, <1>3, <2>1, <2>2, <2>3, RestKept
  <2>5. HooksCatchUp'
    BY <1>1, <1>2, <2>1, <2>2, <2>3, HookStep
  <2> QED BY <2>4, <2>5 DEF MgmtInv
<1> QED BY <1>5, <1>6

\* Replace installs what was configured, as a new generation if it differs.
LEMMA ReplaceInv ==
  ASSUME MgmtInv, NEW r \in Requests, Replace(r)
  PROVE  MgmtInv'
<1> DEFINE n == req[r].next
           g == IF ver.id = n THEN ver.gen ELSE ver.gen + 1
<1>1. TypeOK /\ HooksCatchUp /\ req[r] \in RequestRecords /\ failed \in BOOLEAN
      /\ ver \in [id : Identities, gen : Nat] /\ spec \in Identities /\ recent \subseteq Identities
  BY DEF MgmtInv, TypeOK
<1>2. /\ req[r].pc = "replace" /\ InHooks(r) /\ ver' = [id |-> n, gen |-> g]
      /\ UNCHANGED <<spec, sess, bucket, passed, now, issued, recent, failed>>
  BY DEF Replace, InHooks, SameIdentity, Installed
<1>3. Within(sess')
  BY <1>1, <1>2, WithinFacts
<1>4. req[r].hooks \in {<<"rest">>, Hooks} /\ n \in recent
  BY <1>1, <1>2 DEF HooksCatchUp
<1>5. PICK q \in RequestRecords :
         /\ req' = [req EXCEPT ![r] = q]
         /\ q.pc \in {"idle", "reload", "clear", "clearAgain"}
         /\ q.pc # "idle" => q.hooks \in {<<"rest">>, Hooks}
  <2>1. ASSUME NEW x \in {"clear", "clearAgain"}, req' = [req EXCEPT ![r].pc = x]
        PROVE  \E q \in RequestRecords :
                 /\ req' = [req EXCEPT ![r] = q]
                 /\ q.pc \in {"idle", "reload", "clear", "clearAgain"}
                 /\ q.pc # "idle" => q.hooks \in {<<"rest">>, Hooks}
    <3> DEFINE q == [req[r] EXCEPT !.pc = x]
    <3>1. q \in RequestRecords /\ q.pc = x /\ q.hooks = req[r].hooks
      BY <1>1 DEF RequestRecords, Pcs
    <3>2. req' = [req EXCEPT ![r] = q]
      BY <2>1
    <3> HIDE DEF q
    <3> QED BY <1>4, <3>1, <3>2
  <2>2. CASE NextHook(r)
    BY <1>1, <1>2, <2>2, NextHookIs
  <2> QED BY <2>1, <2>2 DEF Replace
<1>6. n \in Identities /\ g \in Nat
  BY <1>1, <1>4
<1>7. ver' \in [id : Identities, gen : Nat] /\ ver'.id = n /\ ver'.gen = g
  <2> HIDE DEF n, g
  <2> QED BY <1>2, <1>6
<1>8. \A i \in Identities, e \in Nat : Grant(ver, i, e) => Grant(ver', i, e)
  BY <1>1, <1>7 DEF Grant
<1>9. q.pc \in HookPcs \cup {"idle"} /\ q.pc \notin {"authorize", "handle", "compare", "replace"}
  BY <1>5 DEF HookPcs
<1> HIDE DEF n, g
<1>10. TypeOK' /\ GrantsAreKnown' /\ TableFits' /\ BucketsPay'
  BY <1>1, <1>2, <1>3, <1>5, <1>7, <1>8, <1>9, RestKept
<1>11. HooksCatchUp'
  BY <1>1, <1>2, <1>4, <1>5, <1>7, <1>9, HookStep
<1> QED BY <1>10, <1>11 DEF MgmtInv

LEMMA ClearSessionsInv ==
  ASSUME MgmtInv, NEW r \in Requests, ClearSessions(r)
  PROVE  MgmtInv'
<1>1. TypeOK /\ HooksCatchUp /\ req[r] \in RequestRecords /\ failed \in BOOLEAN
      /\ ver \in [id : Identities, gen : Nat] /\ spec \in Identities /\ recent \subseteq Identities
  BY DEF MgmtInv, TypeOK
<1>2. /\ req[r].pc \in {"clear", "clearAgain"} /\ InHooks(r) /\ Caught(r) /\ sess' = << >>
      /\ UNCHANGED <<spec, ver, bucket, passed, now, issued, recent, failed>>
  BY DEF ClearSessions, InHooks, Caught
<1>3. Within(sess')
  BY <1>2 DEF Within
<1>4. req[r].hooks \in {<<"rest">>, Hooks}
  BY <1>1, <1>2 DEF HooksCatchUp
<1>5. PICK q \in RequestRecords :
         /\ req' = [req EXCEPT ![r] = q]
         /\ q.pc \in {"idle", "reload", "clearAgain"}
         /\ q.pc # "idle" => q.hooks \in {<<"rest">>, Hooks}
  <2>1. CASE req' = [req EXCEPT ![r].pc = "clearAgain"]
    <3> DEFINE q == [req[r] EXCEPT !.pc = "clearAgain"]
    <3>1. q \in RequestRecords /\ q.pc = "clearAgain" /\ q.hooks = req[r].hooks
      BY <1>1 DEF RequestRecords, Pcs
    <3>2. req' = [req EXCEPT ![r] = q]
      BY <2>1
    <3> HIDE DEF q
    <3> QED BY <1>4, <3>1, <3>2
  <2>2. CASE NextHook(r)
    BY <1>1, <1>2, <2>2, NextHookIs
  <2> QED BY <2>1, <2>2 DEF ClearSessions
<1>6. q.pc \in HookPcs \cup {"idle"} /\ q.pc \notin {"authorize", "handle", "compare", "replace"}
  BY <1>5 DEF HookPcs
<1>7. TypeOK' /\ GrantsAreKnown' /\ TableFits' /\ BucketsPay'
  BY <1>1, <1>2, <1>3, <1>5, <1>6, RestKept
<1>8. HooksCatchUp'
  BY <1>1, <1>2, <1>5, <1>6, HookStep
<1> QED BY <1>7, <1>8 DEF MgmtInv

-----------------------------------------------------------------------------
\* A refused request, a shutdown, a tick.
LEMMA OtherInv ==
  ASSUME MgmtInv, (\E d \in Doors : RateLimited(d)) \/ Shutdown \/ Tick \/ UNCHANGED vars
  PROVE  MgmtInv'
<1>1. TypeOK /\ BucketsPay
  BY DEF MgmtInv
<1>2. UNCHANGED <<spec, ver, sess, req, issued, recent, failed>>
  BY DEF RateLimited, Shutdown, Tick, vars
<1>3. /\ now' \in Nat /\ now <= now'
      /\ bucket' \in [Doors -> Buckets \cup {None}] /\ passed' \in [Doors -> Nat] /\ BucketsPay'
  <2>1. ASSUME NEW d \in Doors, RateLimited(d)
        PROVE  /\ now' = now
               /\ bucket' \in [Doors -> Buckets \cup {None}] /\ passed' \in [Doors -> Nat]
               /\ BucketsPay'
    <3>1. /\ bucket' = [bucket EXCEPT ![d] = [tokens |-> Refilled(@), last |-> now]]
          /\ passed' = passed /\ now' = now
      BY <2>1 DEF RateLimited
    <3>2. Refilled(bucket[d]) \in 0 .. Burst /\ passed \in [Doors -> Nat]
      BY <1>1, RefillPaid DEF TypeOK
    <3>3. Refilled(bucket[d]) - 0 = Refilled(bucket[d]) /\ Refilled(bucket[d]) >= 0
      BY <3>2, ConstantsTyped
    <3>4. bucket' = [bucket EXCEPT ![d] = [tokens |-> Refilled(@) - 0, last |-> now]]
      BY <3>1, <3>3
    <3>5. passed' = [passed EXCEPT ![d] = @ + 0]
      BY <3>1, <3>2
    <3> QED BY <1>1, <3>1, <3>3, <3>4, <3>5, StampPays
  <2>2. CASE Shutdown \/ Tick \/ UNCHANGED vars
    <3>1. UNCHANGED <<bucket, passed>> /\ now' \in Nat /\ now <= now'
      BY <1>1, <2>2 DEF Shutdown, Tick, vars, TypeOK
    <3>2. ASSUME NEW d \in Doors, bucket[d] # None PROVE bucket[d].last <= now'
      <4>1. bucket[d].last \in Nat /\ bucket[d].last <= now /\ now \in Nat
        BY <1>1, <3>2 DEF TypeOK, BucketsPay, Buckets
      <4> QED BY <3>1, <4>1
    <3>3. BucketsPay'
      BY <1>1, <3>1, <3>2 DEF BucketsPay
    <3> QED BY <1>1, <3>1, <3>3 DEF TypeOK
  <2>3. now \in Nat
    BY <1>1 DEF TypeOK
  <2> QED BY <2>1, <2>2, <2>3
<1>4. TypeOK'
  BY <1>1, <1>2, <1>3 DEF TypeOK
<1>5. GrantsAreKnown' /\ TableFits'
  BY <1>2 DEF MgmtInv, GrantsAreKnown, TableFits
<1>6. HooksCatchUp'
  BY <1>2 DEF MgmtInv, HooksCatchUp, Quiet, InHooks, Caught
<1> QED BY <1>3, <1>4, <1>5, <1>6 DEF MgmtInv

LEMMA NextMgmt ==
  ASSUME MgmtInv, [Next]_vars
  PROVE  MgmtInv'
<1>1. ASSUME NEW r \in Requests,
             NEW cap \in {"health", "read", "write", "session", "login", "logout"},
             NEW t \in Secrets, NEW c \in 0 .. issued, NEW csrf \in {"none", "wrong", "right"},
             Arrive(r, cap, t, c, csrf)
      PROVE  MgmtInv'
  BY <1>1, ArriveRESTInv
<1>2. ASSUME NEW r \in Requests, NEW cap \in {"read", "write"}, NEW t \in Secrets,
             ArriveMCP(r, cap, t)
      PROVE  MgmtInv'
  BY <1>2, ArriveMCPInv
<1>3. ASSUME NEW r \in Requests, Authenticate(r) \/ Authorize(r) \/ Login(r) PROVE MgmtInv'
  BY <1>3, AuthenticateInv, AuthorizeInv, LoginInv
<1>4. ASSUME NEW r \in Requests, Read(r) \/ SessionGet(r) \/ Logout(r) \/ ChangeRefused(r)
      PROVE  MgmtInv'
  BY <1>4, HandlerInv
<1>5. ASSUME NEW r \in Requests, Change(r) PROVE MgmtInv'
  BY <1>5, ChangeInv
<1>6. ASSUME NEW r \in Requests, Reload(r) \/ ReloadFails(r) \/ Compare(r) PROVE MgmtInv'
  BY <1>6, ReloadInv
<1>7. ASSUME NEW r \in Requests, Replace(r) \/ ClearSessions(r) PROVE MgmtInv'
  BY <1>7, ReplaceInv, ClearSessionsInv
<1>8. CASE (\E d \in Doors : RateLimited(d)) \/ Shutdown \/ Tick \/ UNCHANGED vars
  BY <1>8, OtherInv
<1> QED BY <1>1, <1>2, <1>3, <1>4, <1>5, <1>6, <1>7, <1>8 DEF Next

\* The inductive invariant holds always.
THEOREM ManagementInvariant == Spec => []MgmtInv
<1>1. Init => MgmtInv
  BY InitMgmt
<1>2. MgmtInv /\ [Next]_vars => MgmtInv'
  BY NextMgmt
<1> QED BY <1>1, <1>2, PTL DEF Spec

\* A session that Lookup would accept carries what the verifier grants now, and
\* the table keeps to its size (Replace, Create, revokedLocked).
THEOREM SessionsFollowVerifier == Spec => []SessionsAreCurrent
<1>1. MgmtInv => SessionsAreCurrent
  BY DEF MgmtInv, GrantsAreKnown, TableFits, Grant, SessionsAreCurrent, Usable, Revoked
<1> QED BY <1>1, ManagementInvariant, PTL

\* No change is lost on its way to the verifier (reloadAuth).
THEOREM ChangesArrive == Spec => []VerifierKeepsUp
<1>1. MgmtInv => VerifierKeepsUp
  BY DEF MgmtInv, HooksCatchUp, VerifierKeepsUp
<1> QED BY <1>1, ManagementInvariant, PTL

\* No adapter lets a source exceed its rate and burst (allow, evictIdleLocked).
THEOREM LimitersHold == Spec => []RateHeld
<1>1. MgmtInv => RateHeld
  <2> SUFFICES ASSUME MgmtInv, NEW d \in Doors PROVE passed[d] <= Burst + Rate * now
    BY DEF RateHeld
  <2>1. /\ Refilled(bucket[d]) \in 0 .. Burst
        /\ passed[d] + Refilled(bucket[d]) <= Burst + Rate * now
        /\ passed[d] \in Nat /\ Rate * now \in Nat
    BY RefillPaid DEF MgmtInv
  <2> QED BY <2>1, ConstantsTyped
<1> QED BY <1>1, ManagementInvariant, PTL

=============================================================================
