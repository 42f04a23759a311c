---------------------------- MODULE InboxProofs ----------------------------
(***************************************************************************)
(* Proofs about the read side of the inbox (Inbox), for any number of      *)
(* writers, readers, rows and pages and every kind of flow.                *)
(*                                                                         *)
(* FilesAreOwned needs that ids are never used twice (IdsAreFresh).        *)
(* WalkIsExact speaks of finished walks.  Read and Walk say what a walk    *)
(* has so far: which part of the rows of its generation its pages, what it *)
(* skipped and what it has still to load make up, that the rows are still  *)
(* those as long as the generation is, and that a row it passes over has   *)
(* lost its file to a patch or is gone.                                    *)
(***************************************************************************)
EXTENDS Inbox, IndexLemmas

Pcs == {"idle", "load", "recheck", "page", "walked", "loop", "asleep", "remove"}
Ops == {"none", "get", "list", "wait"}

RowRecords == [paused : Sides \cup {"no"}, spill : SUBSET Sides, ver : [Sides -> {1, 2}]]
Snaps == [id : Nat, row : RowRecords]
Names == (Nat \ {0}) \X Sides \X {"tmp", "final"}

Inserts ==
  [pc : {"idle", "write"}, id : Nat, epoch : Nat, big : SUBSET Sides,
   paused : Sides \cup {"no"}, left : SUBSET Sides]

Calls ==
  [pc : Pcs, op : Ops, snap : SUBSET Snaps, cur : Cursors \cup {None}, next : Nat \cup {None},
   gen : Nat, all : SUBSET Nat, page : SUBSET Nat, seen : Seq(SUBSET Nat),
   skipped : SUBSET Nat, ctx : BOOLEAN]

Subs ==
  [pc : {"none", "live", "cancelling"}, ring : Nat, held : BOOLEAN, missed : BOOLEAN, calls : Nat]

TypeOK ==
  /\ nextId \in Nat \ {0} /\ gen \in Nat /\ epoch \in Nat /\ key \in Nat
  /\ DOMAIN rows \subseteq 1 .. nextId - 1
  /\ \A i \in DOMAIN rows : rows[i] \in RowRecords
  /\ DOMAIN disk \subseteq Names
  /\ ins \in [Writers -> Inserts]
  /\ rd \in [Readers -> Calls]
  /\ sub \in Subs /\ pend \in Nat /\ full \in BOOLEAN /\ (full => pend > 0)

\* An Insert under way has an id of its own, which no row has or had.
IdsAreFresh ==
  \A w \in Writers :
    /\ ins[w].pc = "idle" => ins[w].id = 0
    /\ ins[w].pc = "write" =>
         /\ ins[w].id \in 1 .. nextId - 1 /\ ins[w].id \notin DOMAIN rows
         /\ \A v \in Writers \ {w} : ins[v].id # ins[w].id

\* The id was given to an Insert that is over.
Spent(i, n, I) == i \in 1 .. n - 1 /\ \A w \in Writers : I[w].id # i

Patched(row) == 2 \in Range(row.ver)

\* What the call c has in hand or has passed over, beside the rows R.
Read(c, R, n, I) ==
  /\ \A sn \in c.snap :
       /\ Spent(sn.id, n, I)
       /\ sn.id \in DOMAIN R => R[sn.id].spill = sn.row.spill \/ Patched(R[sn.id])
  /\ \A i \in c.skipped : Spent(i, n, I) /\ (i \in DOMAIN R => Patched(R[i]))

Listed(c) == UNION ToSet(c.seen)
InHand(c) == c.page \cup {sn.id : sn \in c.snap}
DownTo(A, k) == {i \in A : k = None \/ i >= k}

\* A page that will be accepted.
Current(c) == c.cur = None \/ c.cur.gen = c.gen

\* How far the walk c is, beside the rows' ids L and the generation g.
Walk(c, L, g) ==
  /\ c.pc \in {"page", "walked"} => c.op = "list"
  /\ c.op = "list" =>
       /\ c.pc \in {"page", "load", "walked"}
       /\ c.gen <= g
       /\ c.cur = None => c.pc = "walked" \/ c.seen = << >>
       /\ c.cur # None => c.cur.gen <= g
       /\ \A j, k \in 1 .. Len(c.seen) : j # k => c.seen[j] \cap c.seen[k] = {}
  /\ c.pc = "page" /\ c.cur = None => c.skipped = {}
  /\ c.pc = "page" /\ c.cur # None =>
       /\ Listed(c) \cup c.skipped = DownTo(c.all, c.cur.id)
       /\ c.cur.gen = g => L = c.all
  /\ c.op = "list" /\ c.pc = "load" /\ Current(c) =>
       /\ Listed(c) \cup c.skipped \cup InHand(c) = DownTo(c.all, c.next)
       /\ Listed(c) \cap InHand(c) = {}
       /\ c.gen = g => L = c.all
  /\ c.pc = "walked" => Listed(c) \cup c.skipped = c.all

InboxInv ==
  /\ TypeOK
  /\ IdsAreFresh
  /\ FilesAreOwned
  /\ \A r \in Readers : Read(rd[r], rows, nextId, ins) /\ Walk(rd[r], DOMAIN rows, gen)
  /\ NoSleepOnMatch
  /\ NoSendOnClosed

-----------------------------------------------------------------------------
(* What the steps have in common.                                          *)

\* The values the actions write are of their fields' types.
LEMMA Literals ==
  /\ "idle" \in Pcs /\ "load" \in Pcs /\ "recheck" \in Pcs /\ "page" \in Pcs /\ "walked" \in Pcs
  /\ "loop" \in Pcs /\ "asleep" \in Pcs /\ "remove" \in Pcs
  /\ "none" \in Ops /\ "get" \in Ops /\ "list" \in Ops /\ "wait" \in Ops
BY DEF Pcs, Ops

LEMMA NoCallIs ==
  /\ NoCall \in Calls
  /\ NoCall.pc = "idle" /\ NoCall.op = "none" /\ NoCall.snap = {} /\ NoCall.skipped = {}
  /\ NoCall.cur = None /\ NoCall.seen = << >>
<1>1. << >> \in Seq(SUBSET Nat)
  OBVIOUS
<1>2. NoCall \in Calls
  BY <1>1, Literals DEF NoCall, Calls
<1> QED BY <1>2 DEF NoCall

\* A call that is not a walk.
LEMMA NoWalk ==
  ASSUME NEW c, c.op # "list", c.pc \notin {"page", "walked"}, NEW L, NEW g
  PROVE  Walk(c, L, g)
BY DEF Walk

LEMMA NothingRead ==
  ASSUME NEW c, c.snap = {}, c.skipped = {}, NEW R, NEW n, NEW I
  PROVE  Read(c, R, n, I)
BY DEF Read

LEMMA CallAt ==
  ASSUME InboxInv, NEW r \in Readers
  PROVE  /\ rd \in [Readers -> Calls] /\ rd[r] \in Calls
         /\ Read(rd[r], rows, nextId, ins) /\ Walk(rd[r], DOMAIN rows, gen)
         /\ gen \in Nat
BY DEF InboxInv, TypeOK

\* A step of one reader.
LEMMA ReaderMoves ==
  ASSUME InboxInv, NEW r \in Readers, NEW c \in Calls,
         Read(c, rows, nextId, ins), Walk(c, DOMAIN rows, gen),
         c.pc = "asleep" => Matches = {},
         rd' = [rd EXCEPT ![r] = c],
         UNCHANGED <<rows, disk, epoch, gen, nextId, key, ins, sub, pend, full>>
  PROVE  InboxInv'
<1>1. rd \in [Readers -> Calls]
  BY DEF InboxInv, TypeOK
<1>2. TypeOK'
  BY <1>1 DEF InboxInv, TypeOK
<1>3. IdsAreFresh' /\ FilesAreOwned' /\ NoSendOnClosed'
  BY DEF InboxInv, IdsAreFresh, FilesAreOwned, NoSendOnClosed, Live
<1>4. \A q \in Readers : Read(rd'[q], rows', nextId', ins') /\ Walk(rd'[q], DOMAIN rows', gen')
  <2>1. \A q \in Readers : rd'[q] = IF q = r THEN c ELSE rd[q]
    BY <1>1
  <2>2. rows' = rows /\ nextId' = nextId /\ ins' = ins /\ gen' = gen
    OBVIOUS
  <2> QED BY <2>1, <2>2 DEF InboxInv
<1>5. NoSleepOnMatch'
  BY <1>1 DEF InboxInv, NoSleepOnMatch, Matches, Live
<1> QED BY <1>2, <1>3, <1>4, <1>5 DEF InboxInv

\* A step that leaves the index and the readers alone.
LEMMA IndexStays ==
  ASSUME InboxInv, TypeOK', IdsAreFresh', FilesAreOwned',
         \A i : Spent(i, nextId, ins) => Spent(i, nextId', ins'),
         UNCHANGED <<rows, gen, rd, sub, pend>>
  PROVE  InboxInv'
<1>1. \A c : Read(c, rows, nextId, ins) => Read(c, rows, nextId', ins')
  BY DEF Read
<1>2. \A q \in Readers : Read(rd'[q], rows', nextId', ins') /\ Walk(rd'[q], DOMAIN rows', gen')
  <2>1. rd' = rd /\ rows' = rows /\ gen' = gen
    OBVIOUS
  <2> QED BY <1>1, <2>1 DEF InboxInv
<1>3. NoSleepOnMatch' /\ NoSendOnClosed'
  BY DEF InboxInv, NoSleepOnMatch, NoSendOnClosed, Matches, Live
<1> QED BY <1>2, <1>3 DEF InboxInv

\* A change of the index: whoever slept in Wait runs again, a new set of ids is a
\* new generation, and a row that loses its file is marked by its version.
LEMMA IndexMoves ==
  ASSUME InboxInv, TypeOK', IdsAreFresh', FilesAreOwned',
         \A i : Spent(i, nextId, ins) => Spent(i, nextId', ins'),
         \A i \in DOMAIN rows' : Spent(i, nextId, ins) =>
           /\ i \in DOMAIN rows
           /\ \/ rows'[i].spill = rows[i].spill /\ rows'[i].ver = rows[i].ver
              \/ Patched(rows'[i]),
         gen' >= gen, gen' = gen => DOMAIN rows' = DOMAIN rows,
         \A r \in Readers : rd'[r] \in {rd[r], Broadcast[r], NoCall} /\ rd'[r].pc # "asleep",
         sub' = sub, NoSendOnClosed'
  PROVE  InboxInv'
<1>1. ASSUME NEW c, Read(c, rows, nextId, ins) PROVE Read(c, rows', nextId', ins')
  <2>1. ASSUME NEW i, Spent(i, nextId, ins), i \in DOMAIN rows', NEW f,
               i \in DOMAIN rows => rows[i].spill = f \/ Patched(rows[i])
        PROVE  rows'[i].spill = f \/ Patched(rows'[i])
    BY <2>1 DEF Patched
  <2>2. ASSUME NEW i, Spent(i, nextId, ins), i \in DOMAIN rows',
               i \in DOMAIN rows => Patched(rows[i])
        PROVE  Patched(rows'[i])
    BY <2>2 DEF Patched
  <2> QED BY <1>1, <2>1, <2>2 DEF Read
<1>2. ASSUME NEW c \in Calls, Walk(c, DOMAIN rows, gen) PROVE Walk(c, DOMAIN rows', gen')
  <2>1. gen \in Nat /\ gen' \in Nat /\ c.gen \in Nat
    BY <1>2 DEF InboxInv, TypeOK, Calls
  <2>2. c.cur # None => c.cur.gen \in Nat
    BY <1>2 DEF Calls, Cursors
  <2> QED BY <1>2, <2>1, <2>2 DEF Walk
<1>3. ASSUME NEW r \in Readers
      PROVE  Read(rd'[r], rows', nextId', ins') /\ Walk(rd'[r], DOMAIN rows', gen')
  <2>1. /\ rd[r] \in Calls /\ Read(rd[r], rows, nextId, ins) /\ Walk(rd[r], DOMAIN rows, gen)
    BY CallAt
  <2>2. CASE rd'[r] = rd[r]
    BY <1>1, <1>2, <2>1, <2>2
  <2>3. CASE rd'[r] = NoCall
    BY <2>3, NoCallIs, NoWalk, NothingRead
  <2>4. CASE rd'[r] = [rd[r] EXCEPT !.pc = "loop"] /\ rd[r].pc = "asleep"
    <3> DEFINE c == [rd[r] EXCEPT !.pc = "loop"]
    <3>1. c.pc = "loop" /\ c.op = rd[r].op /\ c.snap = rd[r].snap /\ c.skipped = rd[r].skipped
      BY <2>1 DEF Calls
    <3>2. rd[r].op # "list"
      BY <2>1, <2>4 DEF Walk
    <3> HIDE DEF c
    <3>3. Walk(c, DOMAIN rows', gen')
      BY <3>1, <3>2, NoWalk
    <3>4. Read(c, rows, nextId, ins)
      BY <2>1, <3>1 DEF Read
    <3> QED BY <1>1, <2>4, <3>3, <3>4 DEF c
  <2> QED BY <2>2, <2>3, <2>4 DEF Broadcast
<1>4. NoSleepOnMatch'
  BY DEF NoSleepOnMatch
<1> QED BY <1>3, <1>4 DEF InboxInv

-----------------------------------------------------------------------------
(* Get and Wait.                                                           *)

\* A row that is there has an id that was given out and is used up.
LEMMA LiveIsSpent ==
  ASSUME InboxInv, NEW i \in DOMAIN rows
  PROVE  Spent(i, nextId, ins)
<1>1. i \in 1 .. nextId - 1
  BY DEF InboxInv, TypeOK
<1>2. ASSUME NEW w \in Writers PROVE ins[w].id # i
  <2>1. ins[w].pc = "idle" \/ ins[w].pc = "write"
    BY DEF InboxInv, TypeOK, Inserts
  <2> QED BY <1>1, <2>1 DEF InboxInv, IdsAreFresh
<1> QED BY <1>1, <1>2 DEF Spent

LEMMA SnapIs ==
  ASSUME InboxInv, NEW i \in DOMAIN rows
  PROVE  Snap(i) \in Snaps /\ Snap(i).id = i /\ Snap(i).row = rows[i]
<1>1. i \in Nat /\ rows[i] \in RowRecords
  BY DEF InboxInv, TypeOK
<1> QED BY <1>1 DEF Snap, Snaps

\* What has just been taken from the index is read.
LEMMA SnapsAreRead ==
  ASSUME InboxInv, NEW S \in SUBSET DOMAIN rows, NEW c, c.snap = {Snap(i) : i \in S},
         NEW d, Read(d, rows, nextId, ins), c.skipped = d.skipped \/ c.skipped = {}
  PROVE  Read(c, rows, nextId, ins)
<1>1. ASSUME NEW sn \in c.snap
      PROVE  /\ Spent(sn.id, nextId, ins)
             /\ sn.id \in DOMAIN rows => rows[sn.id].spill = sn.row.spill
  <2>1. PICK i \in S : sn = Snap(i)
    BY <1>1
  <2> QED BY <2>1, SnapIs, LiveIsSpent
<1> QED BY <1>1 DEF Read

LEMMA GreatestOf ==
  ASSUME NEW S \in SUBSET Nat, S # {}, NEW n \in Nat, \A i \in S : i <= n
  PROVE  \E m \in S : \A i \in S : i <= m
<1> DEFINE B == {k \in Nat : \A i \in S : i <= k}
<1>1. PICK m \in B : \A k \in B : m <= k
  <2>1. B \in SUBSET Nat /\ n \in B
    OBVIOUS
  <2> HIDE DEF B
  <2> QED BY <2>1, LeastNat
<1>2. CASE m \in S
  BY <1>1, <1>2
<1>3. CASE m \notin S
  <2>1. PICK i \in S : TRUE
    OBVIOUS
  <2>2. \A j \in S : j <= m - 1
    BY <1>1, <1>3
  <2>3. m - 1 \in Nat
    BY <1>1, <2>1, <2>2
  <2>4. m - 1 \in B
    BY <2>2, <2>3
  <2> QED BY <1>1, <2>4
<1> QED BY <1>2, <1>3

LEMMA GetFlowKeeps ==
  ASSUME InboxInv, NEW r \in Readers, NEW i \in DOMAIN rows, GetFlow(r, i)
  PROVE  InboxInv'
<1> DEFINE c == [NoCall EXCEPT !.pc = "load", !.op = "get", !.snap = {Snap(i)}]
<1>1. rd' = [rd EXCEPT ![r] = c]
      /\ UNCHANGED <<rows, disk, epoch, gen, nextId, key, ins, sub, pend, full>>
  BY DEF GetFlow
<1>2. c \in Calls
  <2>1. {Snap(i)} \in SUBSET Snaps
    BY SnapIs
  <2> QED BY <2>1, NoCallIs, Literals DEF Calls
<1>3. c.pc = "load" /\ c.op = "get" /\ c.snap = {Snap(i)} /\ c.skipped = {}
  BY NoCallIs DEF Calls
<1> HIDE DEF c
<1>4. Walk(c, DOMAIN rows, gen)
  BY <1>3, NoWalk
<1>5. Read(c, rows, nextId, ins)
  <2>1. c.snap = {Snap(j) : j \in {i}} /\ {i} \in SUBSET DOMAIN rows
    BY <1>3
  <2>2. Read(NoCall, rows, nextId, ins)
    BY NoCallIs, NothingRead
  <2> QED BY <1>3, <2>1, <2>2, SnapsAreRead
<1> QED BY <1>1, <1>2, <1>3, <1>4, <1>5, ReaderMoves

\* The call is over.
LEMMA Returns ==
  ASSUME InboxInv, NEW r \in Readers, rd' = [rd EXCEPT ![r] = NoCall],
         UNCHANGED <<rows, disk, epoch, gen, nextId, key, ins, sub, pend, full>>
  PROVE  InboxInv'
<1>1. Read(NoCall, rows, nextId, ins) /\ Walk(NoCall, DOMAIN rows, gen)
  BY NoCallIs, NothingRead, NoWalk
<1> QED BY <1>1, NoCallIs, ReaderMoves

\* The call goes on at pc, with what it has.
LEMMA StepsTo ==
  ASSUME InboxInv, NEW r \in Readers, rd[r].op # "list",
         NEW pc \in Pcs \ {"page", "walked"}, pc = "asleep" => Matches = {},
         rd' = [rd EXCEPT ![r] = [rd[r] EXCEPT !.pc = pc]],
         UNCHANGED <<rows, disk, epoch, gen, nextId, key, ins, sub, pend, full>>
  PROVE  InboxInv'
<1> DEFINE c == [rd[r] EXCEPT !.pc = pc]
<1>1. rd[r] \in Calls /\ Read(rd[r], rows, nextId, ins)
  BY CallAt
<1>2. c \in Calls
  BY <1>1 DEF Calls
<1>3. c.pc = pc /\ c.op = rd[r].op /\ c.snap = rd[r].snap /\ c.skipped = rd[r].skipped
  BY <1>1 DEF Calls
<1> HIDE DEF c
<1>4. Walk(c, DOMAIN rows, gen) /\ Read(c, rows, nextId, ins)
  BY <1>1, <1>3, NoWalk DEF Read
<1>5. rd' = [rd EXCEPT ![r] = c]
  BY DEF c
<1> QED BY <1>2, <1>3, <1>4, <1>5, ReaderMoves

LEMMA LoadKeeps ==
  ASSUME InboxInv, NEW r \in Readers, Load(r)
  PROVE  InboxInv'
<1>1. rd[r].op # "list" /\ "recheck" \in Pcs \ {"page", "walked"}
      /\ UNCHANGED <<rows, disk, epoch, gen, nextId, key, ins, sub, pend, full>>
  BY Literals DEF Load
<1>2. CASE Missing(Newest(rd[r].snap))
  <2>1. rd' = [rd EXCEPT ![r] = [rd[r] EXCEPT !.pc = "recheck"]]
    BY <1>2, CallAt DEF Load
  <2> QED BY <1>1, <2>1, StepsTo
<1>3. CASE ~Missing(Newest(rd[r].snap))
  BY <1>1, <1>3, Returns DEF Load
<1> QED BY <1>2, <1>3

LEMMA RecheckKeeps ==
  ASSUME InboxInv, NEW r \in Readers, Recheck(r)
  PROVE  InboxInv'
<1> DEFINE c == [rd[r] EXCEPT !.pc = "loop", !.snap = {}]
<1>1. rd[r] \in Calls /\ Read(rd[r], rows, nextId, ins) /\ Walk(rd[r], DOMAIN rows, gen)
  BY CallAt
<1>2. rd[r].pc = "recheck" /\ UNCHANGED <<rows, disk, epoch, gen, nextId, key, ins, sub, pend, full>>
  BY DEF Recheck
<1>3. rd' = [rd EXCEPT ![r] = c] \/ rd' = [rd EXCEPT ![r] = NoCall]
  BY CallAt DEF Recheck
<1>4. CASE rd' = [rd EXCEPT ![r] = c]
  <2>1. c \in Calls
    BY <1>1, Literals DEF Calls
  <2>2. c.pc = "loop" /\ c.op = rd[r].op /\ c.snap = {} /\ c.skipped = rd[r].skipped
    BY <1>1 DEF Calls
  <2> HIDE DEF c
  <2>3. rd[r].op # "list"
    BY <1>1, <1>2 DEF Walk
  <2>4. Walk(c, DOMAIN rows, gen) /\ Read(c, rows, nextId, ins)
    BY <1>1, <2>2, <2>3, NoWalk DEF Read
  <2> QED BY <1>2, <1>4, <2>1, <2>2, <2>4, ReaderMoves
<1>5. CASE rd' = [rd EXCEPT ![r] = NoCall]
  BY <1>2, <1>5, Returns
<1> QED BY <1>3, <1>4, <1>5

LEMMA BeginsKeep ==
  ASSUME InboxInv, NEW r \in Readers,
         FirstPage(r) \/ WaitBegin(r) \/ MatchStoreGeneration(r)
  PROVE  InboxInv'
<1>1. UNCHANGED <<rows, disk, epoch, gen, nextId, key, ins, sub, pend, full>>
  BY DEF FirstPage, WaitBegin, MatchStoreGeneration
<1>2. CASE FirstPage(r)
  <2> DEFINE c == [NoCall EXCEPT !.pc = "page", !.op = "list"]
  <2>1. rd' = [rd EXCEPT ![r] = c]
    BY <1>2 DEF FirstPage
  <2>2. c \in Calls
    BY NoCallIs, Literals DEF Calls
  <2>3. /\ c.pc = "page" /\ c.op = "list" /\ c.snap = {} /\ c.skipped = {} /\ c.cur = None
        /\ c.seen = << >> /\ c.gen = 0
    BY NoCallIs DEF Calls, NoCall
  <2> HIDE DEF c
  <2>4. gen \in Nat
    BY CallAt
  <2>5. Walk(c, DOMAIN rows, gen) /\ Read(c, rows, nextId, ins)
    BY <2>3, <2>4, NothingRead DEF Walk
  <2> QED BY <1>1, <2>1, <2>2, <2>3, <2>5, ReaderMoves
<1>3. CASE WaitBegin(r) \/ MatchStoreGeneration(r)
  <2>1. PICK c \in Calls :
          /\ rd' = [rd EXCEPT ![r] = c] /\ c.pc \in {"loop", "remove"} /\ c.op \in {"wait", "none"}
          /\ c.snap = {} /\ c.skipped = {}
    <3>1. CASE WaitBegin(r)
      <4> DEFINE d == [NoCall EXCEPT !.pc = "loop", !.op = "wait"]
      <4>1. d \in Calls
        BY NoCallIs, Literals DEF Calls
      <4>2. d.pc = "loop" /\ d.op = "wait" /\ d.snap = {} /\ d.skipped = {}
        BY NoCallIs DEF Calls
      <4>3. rd' = [rd EXCEPT ![r] = d]
        BY <3>1 DEF WaitBegin
      <4> HIDE DEF d
      <4> QED BY <4>1, <4>2, <4>3
    <3>2. CASE MatchStoreGeneration(r)
      <4> DEFINE d == [NoCall EXCEPT !.pc = "remove"]
      <4>1. d \in Calls
        BY NoCallIs, Literals DEF Calls
      <4>2. d.pc = "remove" /\ d.op = "none" /\ d.snap = {} /\ d.skipped = {}
        BY NoCallIs DEF Calls
      <4>3. rd' = [rd EXCEPT ![r] = d]
        BY <3>2 DEF MatchStoreGeneration
      <4> HIDE DEF d
      <4> QED BY <4>1, <4>2, <4>3
    <3> QED BY <1>3, <3>1, <3>2
  <2>2. Walk(c, DOMAIN rows, gen) /\ Read(c, rows, nextId, ins)
    BY <2>1, NothingRead, NoWalk
  <2> QED BY <1>1, <2>1, <2>2, ReaderMoves
<1> QED BY <1>2, <1>3

LEMMA WaitLoopKeeps ==
  ASSUME InboxInv, NEW r \in Readers, WaitLoop(r)
  PROVE  InboxInv'
<1> DEFINE c == [rd[r] EXCEPT !.pc = "load", !.snap = {Snap(Max(Matches))}]
<1>1. rd[r] \in Calls /\ Read(rd[r], rows, nextId, ins) /\ Walk(rd[r], DOMAIN rows, gen)
  BY CallAt
<1>2. rd[r].pc = "loop" /\ UNCHANGED <<rows, disk, epoch, gen, nextId, key, ins, sub, pend, full>>
  BY DEF WaitLoop
<1>3. rd[r].op # "list"
  BY <1>1, <1>2 DEF Walk
<1>4. CASE Matches # {}
  <2>1. rd' = [rd EXCEPT ![r] = c]
    BY <1>4, CallAt DEF WaitLoop
  <2>2. Max(Matches) \in DOMAIN rows
    <3>1. Matches \in SUBSET Nat /\ (\A i \in Matches : i <= nextId) /\ nextId \in Nat
          /\ Matches \subseteq DOMAIN rows
      BY DEF InboxInv, TypeOK, Matches, Live
    <3>2. \E m \in Matches : \A i \in Matches : m >= i
      BY <1>4, <3>1, GreatestOf
    <3> QED BY <3>1, <3>2 DEF Max
  <2>3. {Snap(Max(Matches))} \in SUBSET Snaps
    BY <2>2, SnapIs
  <2>4. c \in Calls
    BY <1>1, <2>3, Literals DEF Calls
  <2>5. /\ c.pc = "load" /\ c.op = rd[r].op /\ c.skipped = rd[r].skipped
        /\ c.snap = {Snap(i) : i \in {Max(Matches)}}
    BY <1>1 DEF Calls
  <2> HIDE DEF c
  <2>6. Walk(c, DOMAIN rows, gen)
    BY <1>3, <2>5, NoWalk
  <2>7. Read(c, rows, nextId, ins)
    BY <1>1, <2>2, <2>5, SnapsAreRead
  <2> QED BY <1>2, <2>1, <2>4, <2>5, <2>6, <2>7, ReaderMoves
<1>5. CASE Matches = {}
  <2>1. rd' = [rd EXCEPT ![r] = NoCall] \/ rd' = [rd EXCEPT ![r] = [rd[r] EXCEPT !.pc = "asleep"]]
    BY <1>5, CallAt DEF WaitLoop
  <2>2. "asleep" \in Pcs \ {"page", "walked"}
    BY Literals
  <2> QED BY <1>2, <1>3, <1>5, <2>1, <2>2, Returns, StepsTo
<1> QED BY <1>4, <1>5

LEMMA CtxDoneKeeps ==
  ASSUME InboxInv, NEW r \in Readers, CtxDone(r)
  PROVE  InboxInv'
<1> DEFINE c == [rd[r] EXCEPT !.ctx = TRUE]
<1>1. rd[r] \in Calls /\ Read(rd[r], rows, nextId, ins) /\ Walk(rd[r], DOMAIN rows, gen)
  BY CallAt
<1>2. /\ rd[r].op = "wait" /\ rd' = [rd EXCEPT ![r] = c]
      /\ UNCHANGED <<rows, disk, epoch, gen, nextId, key, ins, sub, pend, full>>
  BY CallAt DEF CtxDone
<1>3. c \in Calls
  BY <1>1 DEF Calls
<1>4. c.pc = rd[r].pc /\ c.op = rd[r].op /\ c.snap = rd[r].snap /\ c.skipped = rd[r].skipped
  BY <1>1 DEF Calls
<1> HIDE DEF c
<1>5. Read(c, rows, nextId, ins)
  BY <1>1, <1>4 DEF Read
<1>6. Walk(c, DOMAIN rows, gen)
  <2>1. rd[r].pc \notin {"page", "walked"}
    BY <1>1, <1>2 DEF Walk
  <2> QED BY <1>2, <1>4, <2>1, NoWalk
<1>7. c.pc = "asleep" => Matches = {}
  BY <1>4 DEF InboxInv, NoSleepOnMatch
<1> QED BY <1>2, <1>3, <1>5, <1>6, <1>7, ReaderMoves

\* Those that sleep run again.
LEMMA Broadcasts ==
  ASSUME InboxInv
  PROVE  /\ Broadcast \in [Readers -> Calls]
         /\ \A r \in Readers : Broadcast[r].pc # "asleep"
<1>1. ASSUME NEW r \in Readers, rd[r].pc = "asleep"
      PROVE  LET c == [rd[r] EXCEPT !.pc = "loop"] IN c \in Calls /\ c.pc # "asleep"
  BY <1>1, CallAt, Literals DEF Calls
<1>2. \A r \in Readers : rd[r] \in Calls
  BY CallAt
<1> QED BY <1>1, <1>2 DEF Broadcast

LEMMA WatcherKeeps ==
  ASSUME InboxInv, NEW r \in Readers, Watcher(r)
  PROVE  InboxInv'
<1>1. rd' = Broadcast /\ UNCHANGED <<rows, disk, epoch, gen, nextId, key, ins, sub, pend, full>>
  BY DEF Watcher
<1>2. TypeOK' /\ IdsAreFresh' /\ FilesAreOwned' /\ NoSendOnClosed'
  BY <1>1, Broadcasts DEF InboxInv, TypeOK, IdsAreFresh, FilesAreOwned, NoSendOnClosed, Live
<1>3. gen' >= gen
  BY <1>1 DEF InboxInv, TypeOK
<1>4. \A q \in Readers : rd'[q] \in {rd[q], Broadcast[q], NoCall} /\ rd'[q].pc # "asleep"
  BY <1>1, Broadcasts
<1>5. \A i \in DOMAIN rows' : Spent(i, nextId, ins) =>
           /\ i \in DOMAIN rows
           /\ \/ rows'[i].spill = rows[i].spill /\ rows'[i].ver = rows[i].ver
              \/ Patched(rows'[i])
  BY <1>1
<1>6. \A i : Spent(i, nextId, ins) => Spent(i, nextId', ins')
  BY <1>1
<1> QED BY <1>1, <1>2, <1>3, <1>4, <1>5, <1>6, IndexMoves

\* The client asks for nothing more.
LEMMA WalkedKeeps ==
  ASSUME InboxInv, NEW r \in Readers, Walked(r)
  PROVE  InboxInv'
BY Returns DEF Walked

-----------------------------------------------------------------------------
(* Subscribers.                                                            *)

\* A step of the subscriber, its consumer or the push to it.
LEMMA SubMoves ==
  ASSUME InboxInv, UNCHANGED <<rows, disk, epoch, gen, nextId, key, ins, rd>>,
         sub' \in Subs, pend' \in Nat, full' \in BOOLEAN, full' => pend' > 0, NoSendOnClosed'
  PROVE  InboxInv'
<1>1. TypeOK'
  BY DEF InboxInv, TypeOK
<1>2. IdsAreFresh' /\ FilesAreOwned' /\ NoSleepOnMatch'
  BY DEF InboxInv, IdsAreFresh, FilesAreOwned, NoSleepOnMatch, Matches, Live
<1>3. \A q \in Readers : Read(rd'[q], rows', nextId', ins') /\ Walk(rd'[q], DOMAIN rows', gen')
  <2>1. rows' = rows /\ nextId' = nextId /\ ins' = ins /\ gen' = gen /\ rd' = rd
    OBVIOUS
  <2> QED BY <2>1 DEF InboxInv
<1> QED BY <1>1, <1>2, <1>3 DEF InboxInv

\* pushEvent runs only for a subscriber that is on the list.
LEMMA PushKeeps ==
  ASSUME InboxInv, Push
  PROVE  InboxInv'
<1>1. /\ sub \in Subs /\ pend \in Nat /\ full \in BOOLEAN /\ (full => pend > 0)
      /\ (pend > 0 => sub.pc \in {"live", "cancelling"})
  BY DEF InboxInv, TypeOK, NoSendOnClosed
<1>2. CASE PushSend
  <2>1. sub.ring + 1 \in Nat
    BY <1>1 DEF Subs
  <2>2. sub' \in Subs /\ sub'.pc = sub.pc
    BY <1>1, <1>2, <2>1 DEF PushSend, Subs
  <2> QED BY <1>1, <1>2, <2>2, SubMoves DEF PushSend, NoSendOnClosed
<1>3. CASE PushFull
  BY <1>1, <1>3, SubMoves DEF PushFull, NoSendOnClosed
<1>4. CASE PushMakesRoom
  <2>1. sub.ring - 1 \in Nat
    BY <1>1, <1>4 DEF PushMakesRoom, Subs
  <2>2. sub' \in Subs /\ sub'.pc = sub.pc
    BY <1>1, <1>4, <2>1 DEF PushMakesRoom, Subs
  <2> QED BY <1>1, <1>4, <2>2, SubMoves DEF PushMakesRoom, NoSendOnClosed
<1>5. CASE PushGivesUp
  <2>1. sub' \in Subs /\ sub'.pc = sub.pc
    BY <1>1, <1>5 DEF PushGivesUp, Subs
  <2>2. full' = FALSE /\ pend > 0 /\ pend' = pend - 1 /\ pend' \in Nat
    BY <1>1, <1>5 DEF PushGivesUp
  <2>3. NoSendOnClosed'
    BY <1>1, <2>1, <2>2 DEF NoSendOnClosed
  <2> QED BY <1>5, <2>1, <2>2, <2>3, SubMoves DEF PushGivesUp
<1> QED BY <1>2, <1>3, <1>4, <1>5 DEF Push

LEMMA SubscriberKeeps ==
  ASSUME InboxInv, Subscribe \/ Forward \/ Consume \/ Cancel \/ CancelSrc
  PROVE  InboxInv'
<1>1. /\ sub \in Subs /\ pend \in Nat /\ full \in BOOLEAN /\ (full => pend > 0)
      /\ (pend > 0 => sub.pc \in {"live", "cancelling"})
  BY DEF InboxInv, TypeOK, NoSendOnClosed
<1>2. UNCHANGED <<rows, disk, epoch, gen, nextId, key, ins, rd, pend, full>>
  BY DEF Subscribe, Forward, Consume, Cancel, CancelSrc
<1>3. CASE Subscribe
  <2>1. sub.calls + 1 \in Nat
    BY <1>1 DEF Subs
  <2>2. sub' \in Subs /\ pend = 0
    BY <1>1, <1>3, <2>1 DEF Subscribe, Subs, NoSub, Unlocked
  <2> QED BY <1>1, <1>2, <2>2, SubMoves DEF NoSendOnClosed
<1>4. CASE Forward
  <2>1. sub.ring - 1 \in Nat
    BY <1>1, <1>4 DEF Forward, Subs
  <2>2. sub' \in Subs /\ sub'.pc = sub.pc
    BY <1>1, <1>4, <2>1 DEF Forward, Subs
  <2> QED BY <1>1, <1>2, <2>2, SubMoves DEF NoSendOnClosed
<1>5. CASE Consume
  <2>1. sub' \in Subs /\ sub'.pc = sub.pc
    BY <1>1, <1>5 DEF Consume, Subs
  <2> QED BY <1>1, <1>2, <2>1, SubMoves DEF NoSendOnClosed
<1>6. CASE Cancel
  <2>1. sub' \in Subs /\ sub'.pc = "cancelling"
    BY <1>1, <1>6 DEF Cancel, Subs
  <2> QED BY <1>1, <1>2, <2>1, SubMoves DEF NoSendOnClosed
<1>7. CASE CancelSrc
  <2>1. sub' \in Subs /\ pend = 0
    BY <1>1, <1>7 DEF CancelSrc, Subs, NoSub, Unlocked
  <2> QED BY <1>1, <1>2, <2>1, SubMoves DEF NoSendOnClosed
<1> QED BY <1>3, <1>4, <1>5, <1>6, <1>7

-----------------------------------------------------------------------------
(* Insert up to its second critical section.                               *)

LEMMA RotateCursorsKeeps ==
  ASSUME InboxInv, RotateCursors
  PROVE  InboxInv'
<1>1. TypeOK' /\ IdsAreFresh' /\ FilesAreOwned'
  BY DEF RotateCursors, InboxInv, TypeOK, IdsAreFresh, FilesAreOwned, Live
<1>2. /\ \A i : Spent(i, nextId, ins) => Spent(i, nextId', ins')
      /\ UNCHANGED <<rows, gen, rd, sub, pend>>
  BY DEF RotateCursors
<1> QED BY <1>1, <1>2, IndexStays

LEMMA InsertBeginKeeps ==
  ASSUME InboxInv, NEW w \in Writers, InsertBegin(w)
  PROVE  InboxInv'
<1>1. PICK k \in Kinds :
        ins' = [ins EXCEPT ![w] =
                 [pc |-> "write", id |-> nextId, epoch |-> epoch, big |-> k.big,
                  paused |-> k.paused, left |-> k.big]]
  BY DEF InsertBegin
<1>2. /\ nextId' = nextId + 1 /\ nextId \in Nat \ {0} /\ ins \in [Writers -> Inserts]
      /\ epoch \in Nat
      /\ UNCHANGED <<rows, disk, epoch, gen, key, rd, sub, pend, full>>
  BY DEF InsertBegin, InboxInv, TypeOK
<1> DEFINE n == [pc |-> "write", id |-> nextId, epoch |-> epoch, big |-> k.big,
                 paused |-> k.paused, left |-> k.big]
<1>3. n \in Inserts /\ n.pc = "write" /\ n.id = nextId
  <2>1. k.big \in SUBSET Sides /\ k.paused \in Sides \cup {"no"}
    BY InboxConstants
  <2> QED BY <1>2, <2>1 DEF Inserts
<1>4. ins' = [ins EXCEPT ![w] = n]
  BY <1>1
<1> HIDE DEF n
<1>5. \A v \in Writers : ins'[v] = IF v = w THEN n ELSE ins[v]
  BY <1>2, <1>4
<1>6. TypeOK'
  <2>1. DOMAIN rows' \subseteq 1 .. nextId' - 1
    BY <1>2 DEF InboxInv, TypeOK
  <2> QED BY <1>2, <1>3, <1>4, <2>1 DEF InboxInv, TypeOK
<1>7. \A v \in Writers : ins[v].id # nextId
  <2>1. \A v \in Writers : ins[v].pc \in {"idle", "write"}
    BY <1>2 DEF Inserts
  <2> QED BY <1>2, <2>1 DEF InboxInv, IdsAreFresh
<1>8. IdsAreFresh'
  <2>1. nextId \notin DOMAIN rows
    BY <1>2 DEF InboxInv, TypeOK
  <2> QED BY <1>2, <1>3, <1>5, <1>7, <2>1 DEF InboxInv, IdsAreFresh
<1>9. FilesAreOwned'
  <2>1. ins[w].id = 0
    BY DEF InsertBegin, InboxInv, IdsAreFresh
  <2>2. \A f \in DOMAIN disk : f[1] # 0
    BY DEF InboxInv, TypeOK, Names
  <2> QED BY <1>2, <1>5, <2>1, <2>2 DEF InboxInv, FilesAreOwned, Live
<1>10. \A i : Spent(i, nextId, ins) => Spent(i, nextId', ins')
  BY <1>2, <1>3, <1>5 DEF Spent
<1> QED BY <1>2, <1>6, <1>8, <1>9, <1>10, IndexStays

\* Files of different rows, and of different kinds, have different names.
LEMMA NamesDiffer ==
  ASSUME NEW i \in Nat
  PROVE  /\ \A f \in Temps(i) : f[1] = i /\ f[3] = "tmp"
         /\ \A f \in Names : f[3] # "final" /\ f[1] = i => f \in Temps(i)
         /\ \A S : \A f \in FilesOf(S) : f[1] \in S /\ f[3] = "final"
         /\ \A S : \A f \in Names : f[3] = "final" /\ f[1] \in S => f \in FilesOf(S)
BY DEF Temps, FilesOf, Names

\* InsertWrite, whose ids stay.
LEMMA InsertWriteKeeps ==
  ASSUME InboxInv, NEW w \in Writers, InsertWrite(w)
  PROVE  InboxInv'
<1> DEFINE s == NextSide(ins[w].left)
           f0 == <<ins[w].id, s, "tmp">>
           n == [ins[w] EXCEPT !.left = @ \ {s}]
<1>1. /\ ins \in [Writers -> Inserts] /\ ins[w] \in Inserts /\ ins[w].pc = "write"
      /\ UNCHANGED <<rows, epoch, gen, nextId, key, rd, sub, pend, full>>
      /\ disk' = With(disk, {f0}, 1)
      /\ ins' = [ins EXCEPT ![w] = n]
  BY DEF InsertWrite, InboxInv, TypeOK
<1>2. ins[w].id \in Nat \ {0}
  BY <1>1 DEF InboxInv, IdsAreFresh, TypeOK
<1>3. f0 \in Names /\ f0[1] = ins[w].id /\ f0[3] = "tmp"
  <2>1. s \in Sides
    BY DEF NextSide, Sides
  <2> QED BY <1>2, <2>1 DEF Names
<1>4. n \in Inserts /\ n.id = ins[w].id /\ n.pc = ins[w].pc
  BY <1>1 DEF Inserts
<1> HIDE DEF f0, n
<1>5. /\ DOMAIN disk' = DOMAIN disk \cup {f0}
      /\ \A f \in DOMAIN disk \ {f0} : disk'[f] = disk[f]
  BY <1>1 DEF With
<1>6. \A v \in Writers : ins'[v].id = ins[v].id /\ ins'[v].pc = ins[v].pc
  BY <1>1, <1>4
<1>7. TypeOK'
  BY <1>1, <1>3, <1>4, <1>5 DEF InboxInv, TypeOK
<1>8. IdsAreFresh'
  BY <1>1, <1>6 DEF InboxInv, IdsAreFresh
<1>9. FilesAreOwned'
  <2>1. \A i, t : <<i, t, "final">> # f0
    BY <1>3
  <2>2. ASSUME NEW i \in Live', NEW t \in rows'[i].spill
        PROVE  /\ <<i, t, "final">> \in DOMAIN disk'
               /\ disk'[<<i, t, "final">>] = rows'[i].ver[t]
    <3>1. <<i, t, "final">> \in DOMAIN disk /\ disk[<<i, t, "final">>] = rows[i].ver[t]
      BY <1>1, <2>2 DEF InboxInv, FilesAreOwned, Live
    <3> QED BY <1>1, <1>5, <2>1, <3>1
  <2>3. ASSUME NEW f \in DOMAIN disk'
        PROVE  IF f[3] = "final" THEN f[1] \in Live' /\ f[2] \in rows'[f[1]].spill
               ELSE disk'[f] = 0 \/ \E v \in Writers : ins'[v].id = f[1]
    <3>1. CASE f = f0
      BY <1>3, <1>6, <3>1
    <3>2. CASE f \in DOMAIN disk \ {f0}
      <4>1. IF f[3] = "final" THEN f[1] \in Live /\ f[2] \in rows[f[1]].spill
            ELSE disk[f] = 0 \/ \E v \in Writers : ins[v].id = f[1]
        BY <3>2 DEF InboxInv, FilesAreOwned
      <4>2. disk'[f] = disk[f] /\ Live' = Live /\ rows' = rows
        BY <1>1, <1>5, <3>2 DEF Live
      <4> QED BY <1>6, <4>1, <4>2
    <3> QED BY <1>5, <3>1, <3>2
  <2> QED BY <2>2, <2>3 DEF FilesAreOwned
<1>10. \A i : Spent(i, nextId, ins) => Spent(i, nextId', ins')
  BY <1>1, <1>6 DEF Spent
<1> QED BY <1>1, <1>7, <1>8, <1>9, <1>10, IndexStays

\* An Insert that is over leaves its id to the row it made, or to none.
LEMMA InsertEnds ==
  ASSUME InboxInv, NEW w \in Writers, ins[w].pc = "write", nextId' = nextId,
         ins' = [ins EXCEPT ![w] = NoInsert],
         DOMAIN rows' \subseteq DOMAIN rows \cup {ins[w].id}
  PROVE  /\ ins' \in [Writers -> Inserts]
         /\ ins[w].id \in 1 .. nextId - 1 /\ ins[w].id \notin DOMAIN rows
         /\ IdsAreFresh'
         /\ \A i : Spent(i, nextId, ins) => Spent(i, nextId', ins')
         /\ \A f \in DOMAIN disk \ Temps(ins[w].id) :
              f[3] # "final" => disk[f] = 0 \/ \E v \in Writers : ins'[v].id = f[1]
<1>1. ins \in [Writers -> Inserts] /\ ins[w].id \in Nat /\ nextId \in Nat
  BY DEF InboxInv, TypeOK, Inserts
<1>2. NoInsert \in Inserts /\ NoInsert.id = 0 /\ NoInsert.pc = "idle"
  BY DEF NoInsert, Inserts
<1>3. ins' \in [Writers -> Inserts] /\ \A v \in Writers : ins'[v] = IF v = w THEN NoInsert ELSE ins[v]
  BY <1>1, <1>2
<1>4. ins[w].id \in 1 .. nextId - 1 /\ ins[w].id \notin DOMAIN rows
  BY DEF InboxInv, IdsAreFresh
<1>5. IdsAreFresh'
  BY <1>2, <1>3, <1>4 DEF InboxInv, IdsAreFresh
<1>6. \A i : Spent(i, nextId, ins) => Spent(i, nextId', ins')
  BY <1>1, <1>2, <1>3 DEF Spent
<1>7. ASSUME NEW f \in DOMAIN disk \ Temps(ins[w].id), f[3] # "final", disk[f] # 0
      PROVE  \E v \in Writers : ins'[v].id = f[1]
  <2>1. f \in Names
    BY DEF InboxInv, TypeOK
  <2>2. PICK v \in Writers : ins[v].id = f[1]
    BY <1>7 DEF InboxInv, FilesAreOwned
  <2>3. v # w
    BY <1>1, <1>7, <2>1, <2>2, NamesDiffer
  <2> QED BY <1>3, <2>2, <2>3
<1> QED BY <1>3, <1>4, <1>5, <1>6, <1>7

LEMMA InsertWriteFailsKeeps ==
  ASSUME InboxInv, NEW w \in Writers, InsertWriteFails(w)
  PROVE  InboxInv'
<1> DEFINE f0 == <<ins[w].id, NextSide(ins[w].left), "tmp">>
<1>1. PICK partial \in {{}, {f0}} :
        disk' = With(Without(disk, Temps(ins[w].id)), partial, 0)
  BY DEF InsertWriteFails
<1>2. /\ ins[w].pc = "write" /\ ins' = [ins EXCEPT ![w] = NoInsert]
      /\ UNCHANGED <<rows, epoch, gen, nextId, key, rd, sub, pend, full>>
  BY DEF InsertWriteFails
<1>3. /\ ins' \in [Writers -> Inserts]
      /\ ins[w].id \in 1 .. nextId - 1
      /\ IdsAreFresh'
      /\ \A i : Spent(i, nextId, ins) => Spent(i, nextId', ins')
      /\ \A f \in DOMAIN disk \ Temps(ins[w].id) :
           f[3] # "final" => disk[f] = 0 \/ \E v \in Writers : ins'[v].id = f[1]
  BY <1>2, InsertEnds
<1>4. ins[w].id \in Nat \ {0}
  BY <1>3 DEF InboxInv, TypeOK
<1>5. f0 \in Names /\ f0[3] = "tmp"
  <2>1. NextSide(ins[w].left) \in Sides
    BY DEF NextSide, Sides
  <2> QED BY <1>4, <2>1 DEF Names
<1> HIDE DEF f0
<1>6. /\ DOMAIN disk' = (DOMAIN disk \ Temps(ins[w].id)) \cup partial
      /\ \A f \in partial : disk'[f] = 0
      /\ \A f \in DOMAIN disk \ (Temps(ins[w].id) \cup partial) : disk'[f] = disk[f]
  <2> DEFINE d == Without(disk, Temps(ins[w].id))
  <2>1. DOMAIN d = DOMAIN disk \ Temps(ins[w].id) /\ \A f \in DOMAIN d : d[f] = disk[f]
    BY DEF Without
  <2>2. disk' = With(d, partial, 0)
    BY <1>1
  <2> HIDE DEF d
  <2> QED BY <2>1, <2>2 DEF With
<1>7. TypeOK'
  BY <1>2, <1>3, <1>5, <1>6 DEF InboxInv, TypeOK
<1>8. FilesAreOwned'
  <2>1. \A i, t : <<i, t, "final">> \notin Temps(ins[w].id) \cup partial
    BY <1>4, <1>5, NamesDiffer
  <2>2. \A i \in Live' : \A t \in rows'[i].spill :
          /\ <<i, t, "final">> \in DOMAIN disk'
          /\ disk'[<<i, t, "final">>] = rows'[i].ver[t]
    BY <1>2, <1>6, <2>1 DEF InboxInv, FilesAreOwned, Live
  <2>3. ASSUME NEW f \in DOMAIN disk'
        PROVE  IF f[3] = "final" THEN f[1] \in Live' /\ f[2] \in rows'[f[1]].spill
               ELSE disk'[f] = 0 \/ \E v \in Writers : ins'[v].id = f[1]
    <3>1. CASE f \in partial
      BY <1>5, <1>6, <3>1
    <3>2. CASE f \in DOMAIN disk \ (Temps(ins[w].id) \cup partial)
      <4>1. CASE f[3] = "final"
        BY <1>2, <3>2, <4>1 DEF InboxInv, FilesAreOwned, Live
      <4>2. CASE f[3] # "final"
        BY <1>3, <1>6, <3>2, <4>2
      <4> QED BY <4>1, <4>2
    <3> QED BY <1>6, <3>1, <3>2
  <2> QED BY <2>2, <2>3 DEF FilesAreOwned
<1> QED BY <1>2, <1>3, <1>7, <1>8, IndexStays

LEMMA InsertRefusedKeeps ==
  ASSUME InboxInv, NEW w \in Writers, InsertRefused(w)
  PROVE  InboxInv'
<1> DEFINE gone == Temps(ins[w].id) \cup FilesOf({ins[w].id})
<1>1. /\ ins[w].pc = "write" /\ ins' = [ins EXCEPT ![w] = NoInsert]
      /\ disk' = Without(disk, gone)
      /\ UNCHANGED <<rows, epoch, gen, nextId, key, rd, sub, pend, full>>
  BY DEF InsertRefused
<1>2. /\ ins' \in [Writers -> Inserts]
      /\ ins[w].id \in 1 .. nextId - 1 /\ ins[w].id \notin DOMAIN rows
      /\ IdsAreFresh'
      /\ \A i : Spent(i, nextId, ins) => Spent(i, nextId', ins')
      /\ \A f \in DOMAIN disk \ Temps(ins[w].id) :
           f[3] # "final" => disk[f] = 0 \/ \E v \in Writers : ins'[v].id = f[1]
  BY <1>1, InsertEnds
<1>3. ins[w].id \in Nat
  BY <1>2 DEF InboxInv, TypeOK
<1>4. DOMAIN disk' = DOMAIN disk \ gone /\ \A f \in DOMAIN disk \ gone : disk'[f] = disk[f]
  BY <1>1 DEF Without
<1>5. TypeOK'
  BY <1>1, <1>2, <1>4 DEF InboxInv, TypeOK
<1>6. FilesAreOwned'
  <2>1. \A i \in DOMAIN rows : \A t : <<i, t, "final">> \notin gone
    BY <1>2, <1>3, NamesDiffer
  <2> HIDE DEF gone
  <2>2. \A i \in Live' : \A t \in rows'[i].spill :
          /\ <<i, t, "final">> \in DOMAIN disk'
          /\ disk'[<<i, t, "final">>] = rows'[i].ver[t]
    BY <1>1, <1>4, <2>1 DEF InboxInv, FilesAreOwned, Live
  <2>3. ASSUME NEW f \in DOMAIN disk'
        PROVE  IF f[3] = "final" THEN f[1] \in Live' /\ f[2] \in rows'[f[1]].spill
               ELSE disk'[f] = 0 \/ \E v \in Writers : ins'[v].id = f[1]
    <3>1. CASE f[3] = "final"
      BY <1>1, <1>4, <3>1 DEF InboxInv, FilesAreOwned, Live
    <3>2. CASE f[3] # "final"
      BY <1>2, <1>4, <3>2 DEF gone
    <3> QED BY <3>1, <3>2
  <2> QED BY <2>2, <2>3 DEF FilesAreOwned
<1> QED BY <1>1, <1>2, <1>5, <1>6, IndexStays

-----------------------------------------------------------------------------
(* The changes of the index.                                               *)

LEMMA RowsAreFinite ==
  ASSUME InboxInv, NEW S \in SUBSET DOMAIN rows
  PROVE  IsFiniteSet(S) /\ Cardinality(S) \in Nat /\ (Cardinality(S) = 0 => S = {})
<1>1. IsFiniteSet(1 .. nextId - 1)
  BY FS_Interval DEF InboxInv, TypeOK
<1>2. S \subseteq 1 .. nextId - 1
  BY DEF InboxInv, TypeOK
<1>3. IsFiniteSet(S)
  BY <1>1, <1>2, FS_Subset
<1> QED BY <1>3, FS_CardinalityType, FS_EmptySet

\* Events are pushed to a subscriber that is on the list.
LEMMA EmitKeeps ==
  ASSUME InboxInv, Unlocked, NEW n \in Nat, Emit(n), sub' = sub
  PROVE  /\ gen' = gen + n /\ gen \in Nat /\ gen' \in Nat /\ gen' >= gen /\ (gen' = gen => n = 0)
         /\ sub' \in Subs /\ pend' \in Nat /\ full' \in BOOLEAN /\ (full' => pend' > 0)
         /\ NoSendOnClosed'
<1>1. /\ sub \in Subs /\ full \in BOOLEAN /\ ~full /\ gen \in Nat
  BY DEF InboxInv, TypeOK, Unlocked
<1>2. gen' = gen + n /\ full' = full /\ pend' = IF sub.pc \in {"live", "cancelling"} THEN n ELSE 0
  BY DEF Emit
<1>3. pend' \in Nat
  BY <1>2
<1> QED BY <1>1, <1>2, <1>3 DEF NoSendOnClosed

\* Delete, Clear and whatever else takes rows out takes their files.
LEMMA DeleteOrClearKeeps ==
  ASSUME InboxInv, NEW r \in Readers, DeleteOrClear(r)
  PROVE  InboxInv'
<1>1. PICK S \in SUBSET DOMAIN rows : RemoveRows(S)
  <2>1. PICK S \in {{i} : i \in Live} \cup {Live} : RemoveRows(S)
    BY DEF DeleteOrClear
  <2>2. S \in SUBSET DOMAIN rows
    BY DEF Live
  <2> QED BY <2>1, <2>2
<1>2. /\ Unlocked /\ rd' = [Broadcast EXCEPT ![r] = NoCall]
      /\ UNCHANGED <<epoch, nextId, key, ins, sub>>
  BY DEF DeleteOrClear
<1>3. Cardinality(S) \in Nat /\ (Cardinality(S) = 0 => S = {})
  BY RowsAreFinite
<1>4. /\ gen' \in Nat /\ gen' >= gen /\ (gen' = gen => Cardinality(S) = 0)
      /\ sub' \in Subs /\ pend' \in Nat /\ full' \in BOOLEAN /\ (full' => pend' > 0)
      /\ NoSendOnClosed'
  BY <1>1, <1>2, <1>3, EmitKeeps DEF RemoveRows
<1>5. DOMAIN rows' = DOMAIN rows \ S /\ \A i \in DOMAIN rows \ S : rows'[i] = rows[i]
  BY <1>1 DEF RemoveRows, Without
<1>6. /\ DOMAIN disk' = DOMAIN disk \ FilesOf(S)
      /\ \A f \in DOMAIN disk \ FilesOf(S) : disk'[f] = disk[f]
  BY <1>1 DEF RemoveRows, UnlinkRecords, Without
<1>7. rd' \in [Readers -> Calls]
      /\ \A q \in Readers : rd'[q] \in {rd[q], Broadcast[q], NoCall} /\ rd'[q].pc # "asleep"
  <2>1. \A q \in Readers : rd'[q] = IF q = r THEN NoCall ELSE Broadcast[q]
    BY <1>2, Broadcasts
  <2> QED BY <1>2, <2>1, Broadcasts, NoCallIs
<1>8. TypeOK'
  BY <1>2, <1>4, <1>5, <1>6, <1>7 DEF InboxInv, TypeOK
<1>9. IdsAreFresh'
  BY <1>2, <1>5 DEF InboxInv, IdsAreFresh
<1>10. FilesAreOwned'
  <2>1. ASSUME NEW i \in Live', NEW t \in rows'[i].spill
        PROVE  /\ <<i, t, "final">> \in DOMAIN disk'
               /\ disk'[<<i, t, "final">>] = rows'[i].ver[t]
    <3>1. i \in DOMAIN rows \ S /\ rows'[i] = rows[i]
      BY <1>5 DEF Live
    <3>2. <<i, t, "final">> \in DOMAIN disk /\ disk[<<i, t, "final">>] = rows[i].ver[t]
      BY <2>1, <3>1 DEF InboxInv, FilesAreOwned, Live
    <3>3. <<i, t, "final">> \notin FilesOf(S)
      BY <3>1 DEF FilesOf
    <3> QED BY <1>6, <3>1, <3>2, <3>3
  <2>2. ASSUME NEW f \in DOMAIN disk'
        PROVE  IF f[3] = "final" THEN f[1] \in Live' /\ f[2] \in rows'[f[1]].spill
               ELSE disk'[f] = 0 \/ \E v \in Writers : ins'[v].id = f[1]
    <3>1. f \in DOMAIN disk /\ f \notin FilesOf(S) /\ disk'[f] = disk[f] /\ f \in Names
      BY <1>6 DEF InboxInv, TypeOK
    <3>2. CASE f[3] = "final"
      <4>1. f[1] \in DOMAIN rows /\ f[2] \in rows[f[1]].spill
        BY <3>1, <3>2 DEF InboxInv, FilesAreOwned, Live
      <4>2. f[1] \notin S
        BY <3>1, <3>2, NamesDiffer
      <4> QED BY <1>5, <3>2, <4>1, <4>2 DEF Live
    <3>3. CASE f[3] # "final"
      BY <1>2, <3>1, <3>3 DEF InboxInv, FilesAreOwned
    <3> QED BY <3>2, <3>3
  <2> QED BY <2>1, <2>2 DEF FilesAreOwned
<1>11. /\ \A i : Spent(i, nextId, ins) => Spent(i, nextId', ins')
       /\ gen' = gen => DOMAIN rows' = DOMAIN rows
       /\ sub' = sub
  BY <1>2, <1>3, <1>4, <1>5
<1>12. \A i \in DOMAIN rows' :
         i \in DOMAIN rows /\ rows'[i].spill = rows[i].spill /\ rows'[i].ver = rows[i].ver
  BY <1>5
<1> QED BY <1>4, <1>7, <1>8, <1>9, <1>10, <1>11, <1>12, IndexMoves

LEMMA WipeKeeps ==
  ASSUME InboxInv, Wipe
  PROVE  InboxInv'
<1>1. /\ Unlocked /\ epoch' = epoch + 1 /\ rows' = Empty /\ disk' = Empty /\ Emit(1)
      /\ rd' = Broadcast /\ UNCHANGED <<nextId, key, ins, sub>>
  BY DEF Wipe
<1>2. DOMAIN rows' = {} /\ DOMAIN disk' = {}
  BY <1>1 DEF Empty
<1>3. /\ gen' \in Nat /\ gen' >= gen /\ gen' # gen
      /\ sub' \in Subs /\ pend' \in Nat /\ full' \in BOOLEAN /\ (full' => pend' > 0)
      /\ NoSendOnClosed'
  BY <1>1, EmitKeeps
<1>4. TypeOK'
  BY <1>1, <1>2, <1>3, Broadcasts DEF InboxInv, TypeOK
<1>5. IdsAreFresh'
  BY <1>1, <1>2 DEF InboxInv, IdsAreFresh
<1>6. FilesAreOwned'
  BY <1>2 DEF FilesAreOwned, Live
<1>7. \A q \in Readers : rd'[q] \in {rd[q], Broadcast[q], NoCall} /\ rd'[q].pc # "asleep"
  BY <1>1, Broadcasts
<1>8. (\A i : Spent(i, nextId, ins) => Spent(i, nextId', ins')) /\ sub' = sub
  BY <1>1
<1> QED BY <1>2, <1>3, <1>4, <1>5, <1>6, <1>7, <1>8, IndexMoves

\* The new row has an id that no row had, and takes the files its Insert wrote.
LEMMA InsertCommitKeeps ==
  ASSUME InboxInv, NEW w \in Writers, InsertCommit(w)
  PROVE  InboxInv'
<1> DEFINE i == ins[w].id
           F == {<<i, s, "final">> : s \in ins[w].big}
           d == Without(Without(disk, FilesOf(Evicted)), Temps(i))
<1>1. /\ ins[w].pc = "write" /\ Unlocked /\ ins' = [ins EXCEPT ![w] = NoInsert]
      /\ disk' = With(d, F, 1) /\ rows' = With(Without(rows, Evicted), {i}, NewRow(w))
      /\ Emit(Cardinality(Evicted) + 1) /\ rd' = Broadcast
      /\ UNCHANGED <<epoch, nextId, key, sub>>
  BY DEF InsertCommit, UnlinkRecords
<1>2. ins[w] \in Inserts /\ ins[w].big \in SUBSET Sides
  BY DEF InboxInv, TypeOK, Inserts
<1>3. NewRow(w) \in RowRecords /\ NewRow(w).spill = ins[w].big /\ \A s \in Sides : NewRow(w).ver[s] = 1
  BY <1>2 DEF NewRow, RowRecords, Inserts
<1>4. Evicted \in SUBSET DOMAIN rows
  BY DEF Evicted, Live
<1>5. Cardinality(Evicted) \in Nat
  BY <1>4, RowsAreFinite
<1>6. /\ gen' \in Nat /\ gen' >= gen /\ gen' # gen
      /\ sub' \in Subs /\ pend' \in Nat /\ full' \in BOOLEAN /\ (full' => pend' > 0)
      /\ NoSendOnClosed'
  BY <1>1, <1>5, EmitKeeps
<1> HIDE DEF i
<1>7. /\ DOMAIN rows' = (DOMAIN rows \ Evicted) \cup {i} /\ rows'[i] = NewRow(w)
      /\ \A j \in DOMAIN rows \ (Evicted \cup {i}) : rows'[j] = rows[j]
  BY <1>1 DEF With, Without
<1>8. /\ DOMAIN d = DOMAIN disk \ (FilesOf(Evicted) \cup Temps(i))
      /\ \A f \in DOMAIN d : d[f] = disk[f]
  BY DEF Without
<1> HIDE DEF d, F
<1>9. /\ DOMAIN disk' = DOMAIN d \cup F
      /\ \A f \in F : disk'[f] = 1
      /\ \A f \in DOMAIN d \ F : disk'[f] = disk[f]
  BY <1>1, <1>8 DEF With
<1>10. /\ ins' \in [Writers -> Inserts]
       /\ i \in 1 .. nextId - 1 /\ i \notin DOMAIN rows
       /\ IdsAreFresh'
       /\ \A j : Spent(j, nextId, ins) => Spent(j, nextId', ins')
       /\ \A f \in DOMAIN disk \ Temps(i) :
            f[3] # "final" => disk[f] = 0 \/ \E v \in Writers : ins'[v].id = f[1]
  BY <1>1, <1>7, InsertEnds DEF i
<1>11. i \in Nat \ {0}
  BY <1>10 DEF InboxInv, TypeOK
<1>12. F \subseteq Names /\ \A f \in F : f[1] = i /\ f[3] = "final" /\ f[2] \in ins[w].big
  BY <1>2, <1>11 DEF F, Names
<1>13. TypeOK'
  <2>1. DOMAIN rows' \subseteq 1 .. nextId' - 1 /\ \A j \in DOMAIN rows' : rows'[j] \in RowRecords
    BY <1>1, <1>3, <1>7, <1>10 DEF InboxInv, TypeOK
  <2>2. DOMAIN disk' \subseteq Names
    BY <1>8, <1>9, <1>12 DEF InboxInv, TypeOK
  <2> QED BY <1>1, <1>6, <1>10, <2>1, <2>2, Broadcasts DEF InboxInv, TypeOK
<1>14. FilesAreOwned'
  <2>1. ASSUME NEW j \in Live', NEW t \in rows'[j].spill
        PROVE  /\ <<j, t, "final">> \in DOMAIN disk'
               /\ disk'[<<j, t, "final">>] = rows'[j].ver[t]
    <3>1. CASE j = i
      <4>1. t \in ins[w].big /\ t \in Sides
        BY <1>2, <1>3, <1>7, <2>1, <3>1
      <4>2. <<j, t, "final">> \in F
        BY <3>1, <4>1 DEF F
      <4> QED BY <1>3, <1>7, <1>9, <3>1, <4>1, <4>2
    <3>2. CASE j # i
      <4>1. j \in DOMAIN rows \ (Evicted \cup {i}) /\ rows'[j] = rows[j]
        BY <1>7, <3>2 DEF Live
      <4>2. <<j, t, "final">> \in DOMAIN disk /\ disk[<<j, t, "final">>] = rows[j].ver[t]
        BY <2>1, <4>1 DEF InboxInv, FilesAreOwned, Live
      <4>3. <<j, t, "final">> \notin FilesOf(Evicted) /\ <<j, t, "final">> \notin Temps(i)
        BY <4>1, <1>11 DEF FilesOf, Temps
      <4>4. <<j, t, "final">> \notin F
        BY <3>2 DEF F
      <4> QED BY <1>8, <1>9, <4>1, <4>2, <4>3, <4>4
    <3> QED BY <3>1, <3>2
  <2>2. ASSUME NEW f \in DOMAIN disk'
        PROVE  IF f[3] = "final" THEN f[1] \in Live' /\ f[2] \in rows'[f[1]].spill
               ELSE disk'[f] = 0 \/ \E v \in Writers : ins'[v].id = f[1]
    <3>1. CASE f \in F
      BY <1>3, <1>7, <1>12, <3>1 DEF Live
    <3>2. CASE f \notin F
      <4>1. /\ f \in DOMAIN disk /\ f \notin FilesOf(Evicted) /\ f \notin Temps(i)
            /\ disk'[f] = disk[f] /\ f \in Names
        BY <1>8, <1>9, <3>2 DEF InboxInv, TypeOK
      <4>2. CASE f[3] = "final"
        <5>1. f[1] \in DOMAIN rows /\ f[2] \in rows[f[1]].spill
          BY <4>1, <4>2 DEF InboxInv, FilesAreOwned, Live
        <5>2. f[1] \notin Evicted
          BY <4>1, <4>2, NamesDiffer
        <5>3. f[1] \in DOMAIN rows' /\ rows'[f[1]] = rows[f[1]]
          BY <1>7, <1>10, <5>1, <5>2
        <5> QED BY <4>2, <5>1, <5>3 DEF Live
      <4>3. CASE f[3] # "final"
        BY <1>10, <4>1, <4>3
      <4> QED BY <4>2, <4>3
    <3> QED BY <3>1, <3>2
  <2> QED BY <2>1, <2>2 DEF FilesAreOwned
<1>15. \A j \in DOMAIN rows' : Spent(j, nextId, ins) =>
         j \in DOMAIN rows /\ rows'[j].spill = rows[j].spill /\ rows'[j].ver = rows[j].ver
  BY <1>7 DEF Spent, i
<1>16. \A q \in Readers : rd'[q] \in {rd[q], Broadcast[q], NoCall} /\ rd'[q].pc # "asleep"
  BY <1>1, Broadcasts
<1> QED BY <1>1, <1>6, <1>10, <1>13, <1>14, <1>15, <1>16, IndexMoves

\* What a verdict p makes of the row and of the file of its paused side s.
LEMMA PatchedRowIs ==
  ASSUME InboxInv, NEW i \in DOMAIN rows, NEW s \in Sides,
         NEW p \in {"spilled", "small", "kept", "expired"}
  PROVE  LET q == PatchedRow(i, s, p) IN
         /\ q \in RowRecords
         /\ p \in {"kept", "expired"} => q.spill = rows[i].spill /\ q.ver = rows[i].ver
         /\ p \in {"spilled", "small"} => q.ver[s] = 2 /\ Patched(q)
         /\ p = "spilled" => q.spill = rows[i].spill \cup {s}
         /\ p = "small" => q.spill = rows[i].spill \ {s}
         /\ \A t \in Sides \ {s} : q.ver[t] = rows[i].ver[t]
<1> DEFINE row == rows[i]
           nv == IF p \in {"spilled", "small"} THEN 2 ELSE row.ver[s]
           vs == [row.ver EXCEPT ![s] = nv]
           sp == CASE p = "spilled" -> row.spill \cup {s}
                   [] p = "small" -> row.spill \ {s}
                   [] OTHER -> row.spill
           q == [row EXCEPT !.paused = "no", !.ver = vs, !.spill = sp]
<1>1. row \in RowRecords
  BY DEF InboxInv, TypeOK
<1>2. PatchedRow(i, s, p) = q
  BY <1>1 DEF PatchedRow, RowRecords
<1>3. row.ver \in [Sides -> {1, 2}] /\ row.spill \in SUBSET Sides
  BY <1>1 DEF RowRecords
<1>4. nv \in {1, 2}
  BY <1>3
<1>5. /\ vs \in [Sides -> {1, 2}] /\ vs[s] = nv /\ \A t \in Sides \ {s} : vs[t] = row.ver[t]
  BY <1>3, <1>4
<1>6. p \in {"kept", "expired"} => vs = row.ver
  BY <1>3
<1>7. /\ sp \in SUBSET Sides
      /\ p \in {"kept", "expired"} => sp = row.spill
      /\ p = "spilled" => sp = row.spill \cup {s}
      /\ p = "small" => sp = row.spill \ {s}
  BY <1>3
<1>8. p \in {"spilled", "small"} => vs[s] = 2
  BY <1>5
<1> HIDE DEF row, vs, sp
<1>9. q \in RowRecords /\ q.ver = vs /\ q.spill = sp
  BY <1>1, <1>5, <1>7 DEF RowRecords
<1> HIDE DEF q
<1>10. p \in {"spilled", "small"} => Patched(q)
  BY <1>5, <1>8, <1>9 DEF Patched, Range
<1> QED BY <1>2, <1>5, <1>6, <1>7, <1>8, <1>9, <1>10 DEF row

LEMMA VerdictKeeps ==
  ASSUME InboxInv, NEW i \in DOMAIN rows, Verdict(i)
  PROVE  InboxInv'
<1> DEFINE s == rows[i].paused
           f0 == <<i, s, "final">>
<1>1. PICK p \in {"spilled", "small", "kept", "expired"} :
        /\ disk' = Replaced(i, s, p)
        /\ rows' = [rows EXCEPT ![i] = PatchedRow(i, s, p)]
        /\ IF p = "expired" THEN gen' = gen + 1 /\ UNCHANGED <<pend, full>> ELSE Emit(1)
  BY DEF Verdict
<1>2. /\ Unlocked /\ s # "no" /\ rd' = Broadcast /\ UNCHANGED <<epoch, nextId, key, ins, sub>>
  BY DEF Verdict
<1>3. s \in Sides
  BY <1>2 DEF InboxInv, TypeOK, RowRecords
<1>4. i \in Nat \ {0}
  BY DEF InboxInv, TypeOK
<1>5. f0 \in Names
  BY <1>3, <1>4 DEF Names
<1>6. /\ gen' \in Nat /\ gen' >= gen /\ gen' # gen
      /\ sub' \in Subs /\ pend' \in Nat /\ full' \in BOOLEAN /\ (full' => pend' > 0)
      /\ NoSendOnClosed'
  <2>1. CASE p = "expired"
    BY <1>1, <1>2, <2>1 DEF InboxInv, TypeOK, NoSendOnClosed
  <2>2. CASE p # "expired"
    BY <1>1, <1>2, <2>2, EmitKeeps
  <2> QED BY <2>1, <2>2
<1> DEFINE q == PatchedRow(i, s, p)
<1>7. /\ q \in RowRecords
      /\ p \in {"kept", "expired"} => q.spill = rows[i].spill /\ q.ver = rows[i].ver
      /\ p \in {"spilled", "small"} => q.ver[s] = 2 /\ Patched(q)
      /\ p = "spilled" => q.spill = rows[i].spill \cup {s}
      /\ p = "small" => q.spill = rows[i].spill \ {s}
      /\ \A t \in Sides \ {s} : q.ver[t] = rows[i].ver[t]
  BY <1>3, PatchedRowIs
<1>8. rows' = [rows EXCEPT ![i] = q]
  BY <1>1
<1> HIDE DEF q
<1>9. DOMAIN rows' = DOMAIN rows /\ \A j \in DOMAIN rows : rows'[j] = IF j = i THEN q ELSE rows[j]
  BY <1>8
<1>10. /\ DOMAIN disk' = CASE p = "spilled" -> DOMAIN disk \cup {f0}
                           [] p = "small" -> DOMAIN disk \ {f0}
                           [] OTHER -> DOMAIN disk
       /\ \A f \in DOMAIN disk' : f # f0 => disk'[f] = disk[f]
       /\ p = "spilled" => disk'[f0] = 2
       /\ p \in {"kept", "expired"} => disk' = disk
  <2> HIDE DEF f0
  <2>1. /\ p = "spilled" => disk' = With(disk, {f0}, 2)
        /\ p = "small" => disk' = Without(disk, {f0})
        /\ p \in {"kept", "expired"} => disk' = disk
    BY <1>1 DEF Replaced, f0
  <2>2. CASE p = "spilled"
    BY <2>1, <2>2 DEF With
  <2>3. CASE p = "small"
    BY <2>1, <2>3 DEF Without
  <2>4. CASE p \in {"kept", "expired"}
    BY <2>1, <2>4
  <2> QED BY <2>2, <2>3, <2>4
<1>11. TypeOK'
  BY <1>2, <1>5, <1>6, <1>7, <1>9, <1>10, Broadcasts DEF InboxInv, TypeOK
<1>12. IdsAreFresh'
  BY <1>2, <1>9 DEF InboxInv, IdsAreFresh
<1>13. FilesAreOwned'
  <2>1. ASSUME NEW j \in Live', NEW t \in rows'[j].spill
        PROVE  /\ <<j, t, "final">> \in DOMAIN disk'
               /\ disk'[<<j, t, "final">>] = rows'[j].ver[t]
    <3>1. j \in DOMAIN rows
      BY <1>9 DEF Live
    <3>2. t \in rows[j].spill => /\ <<j, t, "final">> \in DOMAIN disk
                                 /\ disk[<<j, t, "final">>] = rows[j].ver[t]
      BY <3>1 DEF InboxInv, FilesAreOwned, Live
    <3>3. CASE j # i
      <4>1. <<j, t, "final">> # f0
        BY <3>3
      <4> HIDE DEF f0
      <4>2. rows'[j] = rows[j]
        BY <1>9, <3>1, <3>3
      <4> QED BY <1>10, <2>1, <3>2, <4>1, <4>2
    <3>4. CASE j = i /\ t # s
      <4>1. <<j, t, "final">> # f0
        BY <3>4
      <4>2. rows'[j] = q /\ t \in Sides
        BY <1>7, <1>9, <2>1, <3>1, <3>4 DEF RowRecords
      <4>3. t \in rows[j].spill /\ q.ver[t] = rows[j].ver[t]
        BY <1>7, <2>1, <3>4, <4>2
      <4> HIDE DEF f0
      <4> QED BY <1>10, <3>2, <4>1, <4>2, <4>3
    <3>5. CASE j = i /\ t = s
      <4>1. rows'[j] = q /\ <<j, t, "final">> = f0
        BY <1>9, <3>1, <3>5
      <4>2. p # "small"
        BY <1>7, <2>1, <3>5, <4>1
      <4> HIDE DEF f0
      <4>3. CASE p = "spilled"
        BY <1>7, <1>10, <3>5, <4>1, <4>3
      <4>4. CASE p \in {"kept", "expired"}
        BY <1>7, <1>10, <2>1, <3>2, <3>5, <4>1, <4>4
      <4> QED BY <4>2, <4>3, <4>4
    <3> QED BY <3>3, <3>4, <3>5
  <2>2. ASSUME NEW f \in DOMAIN disk'
        PROVE  IF f[3] = "final" THEN f[1] \in Live' /\ f[2] \in rows'[f[1]].spill
               ELSE disk'[f] = 0 \/ \E v \in Writers : ins'[v].id = f[1]
    <3>1. f0[1] = i /\ f0[2] = s /\ f0[3] = "final"
      OBVIOUS
    <3>2. \A g \in Names : g[1] = i /\ g[2] = s /\ g[3] = "final" => g = f0
      BY DEF Names
    <3> HIDE DEF f0
    <3>3. CASE f = f0
      <4>1. p # "small"
        BY <1>10, <3>3
      <4>2. CASE p = "spilled"
        BY <1>7, <1>9, <3>1, <3>3, <4>2 DEF Live
      <4>3. CASE p \in {"kept", "expired"}
        <5>1. f \in DOMAIN disk
          BY <1>10, <4>3
        <5>2. f[2] \in rows[i].spill
          BY <3>1, <3>3, <5>1 DEF InboxInv, FilesAreOwned
        <5> QED BY <1>7, <1>9, <3>1, <3>3, <4>3, <5>2 DEF Live
      <4> QED BY <4>1, <4>2, <4>3
    <3>4. CASE f # f0
      <4>1. f \in DOMAIN disk /\ disk'[f] = disk[f] /\ f \in Names
        BY <1>10, <3>4 DEF InboxInv, TypeOK
      <4>2. CASE f[3] = "final"
        <5>1. f[1] \in DOMAIN rows /\ f[2] \in rows[f[1]].spill
          BY <4>1, <4>2 DEF InboxInv, FilesAreOwned, Live
        <5>2. f[1] = i => f[2] # s
          BY <3>2, <3>4, <4>1, <4>2
        <5>3. f[2] \in rows'[f[1]].spill
          BY <1>7, <1>9, <5>1, <5>2
        <5> QED BY <1>9, <4>2, <5>1, <5>3 DEF Live
      <4>3. CASE f[3] # "final"
        BY <1>2, <4>1, <4>3 DEF InboxInv, FilesAreOwned
      <4> QED BY <4>2, <4>3
    <3> QED BY <3>3, <3>4
  <2> QED BY <2>1, <2>2 DEF FilesAreOwned
<1>14. \A j \in DOMAIN rows' :
         /\ j \in DOMAIN rows
         /\ \/ rows'[j].spill = rows[j].spill /\ rows'[j].ver = rows[j].ver
            \/ Patched(rows'[j])
  BY <1>7, <1>9
<1>15. \A r \in Readers : rd'[r] \in {rd[r], Broadcast[r], NoCall} /\ rd'[r].pc # "asleep"
  BY <1>2, Broadcasts
<1>16. (\A j : Spent(j, nextId, ins) => Spent(j, nextId', ins')) /\ sub' = sub
  BY <1>2
<1> QED BY <1>6, <1>11, <1>12, <1>13, <1>14, <1>15, <1>16, IndexMoves

-----------------------------------------------------------------------------
(* List.                                                                   *)

\* A page is the upper part of what it is cut from, and all of it when that is no
\* larger than the limit.
LEMMA PageIs ==
  ASSUME NEW n \in Nat, NEW S \in SUBSET (1 .. n)
  PROVE  LET P == PageOf(S)
             next == IF Cardinality(S) > Limit THEN Min(P) ELSE None
         IN  P \subseteq S /\ P = DownTo(S, next) /\ (next = None \/ next \in P)
<1> DEFINE P == PageOf(S)
           Above(i) == {j \in S : j > i}
           next == IF Cardinality(S) > Limit THEN Min(P) ELSE None
<1>0. S \in SUBSET Nat /\ \A i \in S : i <= n
  OBVIOUS
<1>1. IsFiniteSet(S) /\ Cardinality(S) \in Nat
  <2>1. IsFiniteSet(1 .. n)
    BY FS_Interval
  <2> QED BY <2>1, FS_Subset, FS_CardinalityType
<1>2. \A T \in SUBSET S : IsFiniteSet(T) /\ Cardinality(T) \in Nat /\ Cardinality(T) <= Cardinality(S)
  BY <1>1, FS_Subset, FS_CardinalityType
<1>3. P = {i \in S : Cardinality(Above(i)) < Limit}
  BY DEF PageOf
<1>4. Limit \in Nat \ {0}
  BY InboxConstants
<1> HIDE DEF P
<1>5. P \subseteq S
  BY <1>3
<1>6. ASSUME NEW i \in P, NEW j \in S, j >= i PROVE j \in P
  <2>1. Above(j) \subseteq Above(i) /\ Above(i) \in SUBSET S
    <3>1. i \in Nat /\ j \in Nat /\ \A k \in S : k \in Nat
      BY <1>0, <1>5
    <3>2. \A k \in S : k > j => k > i
      BY <1>6, <3>1
    <3> QED BY <3>2
  <2>2. IsFiniteSet(Above(i)) /\ Cardinality(Above(i)) \in Nat
    BY <1>2, <2>1
  <2>3. Cardinality(Above(j)) \in Nat /\ Cardinality(Above(j)) <= Cardinality(Above(i))
    BY <2>1, <2>2, FS_Subset, FS_CardinalityType
  <2> QED BY <1>3, <1>4, <2>2, <2>3
<1>7. CASE Cardinality(S) <= Limit
  <2>1. ASSUME NEW i \in S PROVE Cardinality(Above(i)) < Limit
    <3>1. Above(i) \in SUBSET S /\ Above(i) # S
      OBVIOUS
    <3>2. Cardinality(Above(i)) \in Nat /\ Cardinality(Above(i)) < Cardinality(S)
      BY <1>1, <1>2, <3>1, FS_Subset
    <3> QED BY <1>1, <1>4, <1>7, <3>2
  <2>2. P = S
    BY <1>3, <2>1
  <2>3. next = None
    BY <1>1, <1>4, <1>7
  <2> QED BY <2>2, <2>3 DEF DownTo, P
<1>8. CASE Cardinality(S) > Limit
  <2>1. S # {}
    BY <1>4, <1>8, FS_EmptySet
  <2>2. PICK m \in S : \A i \in S : i <= m
    BY <1>0, <2>1, GreatestOf
  <2>3. Above(m) = {}
    <3>1. \A i \in S : ~(i > m)
      BY <1>0, <2>2
    <3> QED BY <3>1
  <2>4. m \in P
    BY <1>3, <1>4, <2>3, FS_EmptySet
  <2>5. Min(P) \in P /\ \A k \in P : Min(P) <= k
    BY <1>0, <1>5, <2>4, MinOfNat
  <2>6. next = Min(P) /\ Min(P) \in Nat /\ Min(P) # None
    <3>1. next = Min(P)
      BY <1>8
    <3> QED BY <1>0, <1>5, <2>5, <3>1, InboxConstants
  <2>7. P = DownTo(S, next)
    BY <1>0, <1>5, <1>6, <2>5, <2>6 DEF DownTo
  <2> QED BY <1>5, <2>5, <2>6, <2>7 DEF P
<1> QED BY <1>1, <1>4, <1>7, <1>8

\* The first page is cut from the whole list, the next one from what lies below
\* the cursor, and what the walk has then reaches down to the new cursor.
LEMMA ListPageKeeps ==
  ASSUME InboxInv, NEW r \in Readers, ListPage(r)
  PROVE  InboxInv'
<1> DEFINE c == rd[r]
           left == AfterCursor(c.cur)
           page == PageOf(left)
           next == IF Cardinality(left) > Limit THEN Min(page) ELSE None
           all == IF c.cur = None THEN Live ELSE c.all
           snap == {Snap(i) : i \in page}
           d == [c EXCEPT !.pc = "load", !.gen = gen, !.page = {}, !.all = all,
                          !.snap = snap, !.next = next]
<1>1. /\ c \in Calls /\ Read(c, rows, nextId, ins) /\ Walk(c, DOMAIN rows, gen) /\ gen \in Nat
      /\ rd \in [Readers -> Calls]
  BY CallAt
<1>2. c.pc = "page" /\ UNCHANGED <<rows, disk, epoch, gen, nextId, key, ins, sub, pend, full>>
  BY DEF ListPage
<1>3. CASE ~CursorDecodes(c.cur)
  BY <1>2, <1>3, Returns DEF ListPage
<1>4. CASE CursorDecodes(c.cur)
  <2>1. rd' = [rd EXCEPT ![r] = d]
    BY <1>1, <1>4 DEF ListPage
  <2>2. left \subseteq DOMAIN rows /\ DOMAIN rows \subseteq 1 .. nextId - 1 /\ nextId - 1 \in Nat
    BY DEF InboxInv, TypeOK, AfterCursor, Live
  <2>3. page \subseteq left /\ page = DownTo(left, next) /\ (next = None \/ next \in page)
    BY <2>2, PageIs
  <2>4. left = IF c.cur = None THEN DOMAIN rows ELSE {i \in DOMAIN rows : i < c.cur.id}
    BY DEF AfterCursor, Live
  <2>5. /\ all \in SUBSET Nat /\ next \in Nat \cup {None}
        /\ all = IF c.cur = None THEN DOMAIN rows ELSE c.all
    BY <1>1, <2>2, <2>3 DEF Calls, Live
  <2>6. /\ snap \in SUBSET Snaps /\ {sn.id : sn \in snap} = page
    BY <2>2, <2>3, SnapIs
  <2> HIDE DEF left, page, next, all
  <2>7. d \in Calls
    <3> HIDE DEF snap, c
    <3> QED BY <1>1, <2>5, <2>6, Literals DEF Calls
  <2>8. /\ d.pc = "load" /\ d.op = c.op /\ d.gen = gen /\ d.page = {} /\ d.all = all /\ d.snap = snap
        /\ d.next = next /\ d.cur = c.cur /\ d.seen = c.seen /\ d.skipped = c.skipped
    <3> HIDE DEF snap, c
    <3> QED BY <1>1 DEF Calls
  <2> HIDE DEF d
  <2>9. Read(d, rows, nextId, ins)
    BY <1>1, <2>2, <2>3, <2>8, SnapsAreRead
  <2> HIDE DEF snap, c
  <2>10. InHand(d) = page /\ Listed(d) = Listed(c)
    BY <2>6, <2>8 DEF InHand, Listed
  <2>11. c.cur # None => c.cur \in Cursors /\ c.cur.id \in Nat /\ c.cur.gen \in Nat
    BY <1>1 DEF Calls, Cursors
  <2>12. c.op = "list" /\ (c.cur = None => c.seen = << >>)
    BY <1>1, <1>2 DEF Walk
  <2>13. ASSUME Current(d)
         PROVE  /\ Listed(d) \cup d.skipped \cup InHand(d) = DownTo(d.all, d.next)
                /\ Listed(d) \cap InHand(d) = {}
                /\ d.gen = gen => DOMAIN rows = d.all
    <3>1. CASE c.cur = None
      <4>1. c.skipped = {} /\ Listed(c) = {}
        BY <1>1, <1>2, <2>12, <3>1 DEF Walk, Listed, ToSet
      <4> QED BY <2>3, <2>4, <2>5, <2>8, <2>10, <3>1, <4>1
    <3>2. CASE c.cur # None
      <4>1. c.cur.gen = gen
        BY <2>8, <2>13, <3>2 DEF Current
      <4>2. Listed(c) \cup c.skipped = DownTo(c.all, c.cur.id) /\ DOMAIN rows = c.all
        BY <1>1, <1>2, <3>2, <4>1 DEF Walk
      <4>3. c.cur.id # None /\ all = DOMAIN rows /\ left = {i \in all : i < c.cur.id}
        BY <2>4, <2>5, <2>11, <3>2, <4>2, InboxConstants
      <4>4. next = None \/ (next \in Nat /\ next < c.cur.id)
        BY <2>3, <2>5, <4>3
      <4>5. DownTo(all, c.cur.id) = {i \in all : i >= c.cur.id}
        BY <4>3 DEF DownTo
      <4>6. DownTo(all, c.cur.id) \cup page = DownTo(all, next)
        BY <2>3, <2>5, <2>11, <3>2, <4>3, <4>4, <4>5 DEF DownTo
      <4>7. DownTo(all, c.cur.id) \cap page = {}
        BY <2>3, <2>5, <2>11, <3>2, <4>3, <4>5
      <4> QED BY <2>5, <2>8, <2>10, <3>2, <4>2, <4>3, <4>6, <4>7
    <3> QED BY <3>1, <3>2
  <2>14. Walk(d, DOMAIN rows, gen)
    <3>1. /\ c.cur # None => c.cur.gen <= gen
          /\ \A j, k \in 1 .. Len(c.seen) : j # k => c.seen[j] \cap c.seen[k] = {}
      BY <1>1, <2>12 DEF Walk
    <3> QED BY <1>1, <2>8, <2>12, <2>13, <3>1 DEF Walk
  <2> QED BY <1>2, <2>1, <2>7, <2>8, <2>9, <2>14, ReaderMoves
<1> QED BY <1>3, <1>4

LEMMA NewestIs ==
  ASSUME InboxInv, NEW r \in Readers, rd[r].snap # {}
  PROVE  Newest(rd[r].snap) \in rd[r].snap
<1> DEFINE S == rd[r].snap
           ids == {o.id : o \in S}
<1>1. \A o \in S : o.id \in Nat /\ o.id <= nextId
  BY CallAt DEF Read, Spent, InboxInv, TypeOK
<1>2. ids \in SUBSET Nat /\ ids # {} /\ (\A i \in ids : i <= nextId) /\ nextId \in Nat
  BY <1>1 DEF InboxInv, TypeOK
<1>3. PICK m \in ids : \A i \in ids : i <= m
  <2> HIDE DEF ids
  <2> QED BY <1>2, GreatestOf
<1>4. \E sn \in S : \A o \in S : o.id <= sn.id
  BY <1>3
<1> QED BY <1>4 DEF Newest

\* A row is passed over only when a patch, or its removal, has taken its file.
LEMMA LoadNextKeeps ==
  ASSUME InboxInv, NEW r \in Readers, LoadNext(r)
  PROVE  InboxInv'
<1> DEFINE c == rd[r]
           sn == Newest(c.snap)
           rest == c.snap \ {sn}
           skipped == IF Missing(sn) THEN c.skipped \cup {sn.id} ELSE c.skipped
           page == IF Missing(sn) THEN c.page ELSE c.page \cup {sn.id}
           d == [c EXCEPT !.snap = rest, !.skipped = skipped, !.page = page]
<1>1. /\ c \in Calls /\ Read(c, rows, nextId, ins) /\ Walk(c, DOMAIN rows, gen) /\ gen \in Nat
      /\ rd \in [Readers -> Calls]
  BY CallAt
<1>2. /\ c.pc = "load" /\ c.op = "list" /\ c.snap # {}
      /\ UNCHANGED <<rows, disk, epoch, gen, nextId, key, ins, sub, pend, full>>
  BY DEF LoadNext
<1>3. sn \in c.snap /\ sn \in Snaps /\ sn.id \in Nat
  <2>1. sn \in c.snap
    BY <1>2, NewestIs
  <2>2. sn \in Snaps
    BY <1>1, <2>1 DEF Calls
  <2> QED BY <2>1, <2>2 DEF Snaps
<1>4. rd' = [rd EXCEPT ![r] = d]
  <2>1. CASE Missing(sn)
    BY <1>1, <2>1 DEF LoadNext, Calls
  <2>2. CASE ~Missing(sn)
    BY <1>1, <2>2 DEF LoadNext, Calls
  <2> QED BY <2>1, <2>2
<1>5. /\ rest \in SUBSET Snaps /\ rest \subseteq c.snap
      /\ skipped \in SUBSET Nat /\ page \in SUBSET Nat
  BY <1>1, <1>3 DEF Calls
<1>6. /\ c.skipped \subseteq skipped /\ c.page \subseteq page
      /\ skipped \subseteq c.skipped \cup {sn.id} /\ page \subseteq c.page \cup {sn.id}
      /\ sn.id \in skipped \cup page
      /\ sn.id \in skipped => sn.id \in c.skipped \/ Missing(sn)
  OBVIOUS
<1>7. c.snap = rest \cup {sn}
  BY <1>3
<1> HIDE DEF sn, rest, skipped, page, c
<1>8. d \in Calls
  BY <1>1, <1>5 DEF Calls
<1>9. /\ d.pc = c.pc /\ d.op = c.op /\ d.gen = c.gen /\ d.page = page /\ d.all = c.all
      /\ d.snap = rest /\ d.next = c.next /\ d.cur = c.cur /\ d.seen = c.seen
      /\ d.skipped = skipped
  BY <1>1 DEF Calls
<1> HIDE DEF d
<1>10. Read(d, rows, nextId, ins)
  <2>1. /\ Spent(sn.id, nextId, ins)
        /\ sn.id \in DOMAIN rows => rows[sn.id].spill = sn.row.spill \/ Patched(rows[sn.id])
    BY <1>1, <1>3 DEF Read
  <2>2. Missing(sn) /\ sn.id \in DOMAIN rows => rows[sn.id].spill # sn.row.spill
    BY DEF Missing, InboxInv, FilesAreOwned, Live
  <2>3. ASSUME NEW i \in skipped
        PROVE  Spent(i, nextId, ins) /\ (i \in DOMAIN rows => Patched(rows[i]))
    <3>1. CASE i \in c.skipped
      BY <1>1, <3>1 DEF Read
    <3>2. CASE i = sn.id /\ Missing(sn)
      BY <2>1, <2>2, <3>2
    <3> QED BY <1>6, <3>1, <3>2
  <2> QED BY <1>1, <1>5, <1>9, <2>3 DEF Read
<1>11. Walk(d, DOMAIN rows, gen)
  <2>1. Listed(d) = Listed(c) /\ (Current(d) <=> Current(c))
    BY <1>9 DEF Listed, Current
  <2>2. InHand(c) = c.page \cup {sn.id} \cup {o.id : o \in rest}
    BY <1>7 DEF InHand
  <2>3. InHand(d) = page \cup {o.id : o \in rest}
    BY <1>9 DEF InHand
  <2>4. skipped \cup InHand(d) = c.skipped \cup InHand(c) /\ InHand(d) \subseteq InHand(c)
    BY <1>6, <2>2, <2>3
  <2>5. ASSUME Current(d)
        PROVE  /\ Listed(d) \cup d.skipped \cup InHand(d) = DownTo(d.all, d.next)
               /\ Listed(d) \cap InHand(d) = {}
               /\ d.gen = gen => DOMAIN rows = d.all
    <3>1. /\ Listed(c) \cup c.skipped \cup InHand(c) = DownTo(c.all, c.next)
          /\ Listed(c) \cap InHand(c) = {}
          /\ c.gen = gen => DOMAIN rows = c.all
      BY <1>1, <1>2, <2>1, <2>5 DEF Walk
    <3>2. Listed(d) \cup d.skipped \cup InHand(d) = Listed(c) \cup c.skipped \cup InHand(c)
      BY <1>9, <2>1, <2>4
    <3> QED BY <1>9, <2>1, <2>4, <3>1, <3>2
  <2>6. /\ c.gen <= gen
        /\ c.cur = None => c.seen = << >>
        /\ c.cur # None => c.cur.gen <= gen
        /\ \A j, k \in 1 .. Len(c.seen) : j # k => c.seen[j] \cap c.seen[k] = {}
    BY <1>1, <1>2 DEF Walk
  <2> QED BY <1>2, <1>9, <2>5, <2>6 DEF Walk
<1> QED BY <1>2, <1>4, <1>8, <1>9, <1>10, <1>11, ReaderMoves

\* A page that shares nothing with those before it is put after them.
LEMMA PagesGrow ==
  ASSUME NEW s \in Seq(SUBSET Nat), NEW p \in SUBSET Nat, p \cap UNION ToSet(s) = {},
         \A j, k \in 1 .. Len(s) : j # k => s[j] \cap s[k] = {}
  PROVE  LET t == Append(s, p) IN
         /\ t \in Seq(SUBSET Nat) /\ UNION ToSet(t) = (UNION ToSet(s)) \cup p
         /\ \A j, k \in 1 .. Len(t) : j # k => t[j] \cap t[k] = {}
<1> DEFINE t == Append(s, p)
<1>1. Len(s) \in Nat /\ DOMAIN s = 1 .. Len(s)
  BY LenProperties
<1>2. /\ t \in Seq(SUBSET Nat) /\ Len(t) = Len(s) + 1 /\ DOMAIN t = 1 .. Len(t)
      /\ t[Len(s) + 1] = p /\ \A i \in 1 .. Len(s) : t[i] = s[i]
  BY <1>1, AppendProperties, LenProperties
<1> HIDE DEF t
<1>3. ToSet(t) = ToSet(s) \cup {p}
  BY <1>1, <1>2 DEF ToSet
<1>4. \A j \in 1 .. Len(s) : s[j] \cap p = {}
  BY <1>1 DEF ToSet
<1>5. \A j, k \in 1 .. Len(t) : j # k => t[j] \cap t[k] = {}
  <2> SUFFICES ASSUME NEW j \in 1 .. Len(t), NEW k \in 1 .. Len(t), j # k
               PROVE  t[j] \cap t[k] = {}
    OBVIOUS
  <2>1. (j \in 1 .. Len(s) \/ j = Len(s) + 1) /\ (k \in 1 .. Len(s) \/ k = Len(s) + 1)
    BY <1>1, <1>2
  <2> QED BY <1>2, <1>4, <2>1
<1> QED BY <1>2, <1>3, <1>5 DEF t

LEMMA PageAnswerKeeps ==
  ASSUME InboxInv, NEW r \in Readers, PageAnswer(r)
  PROVE  InboxInv'
<1> DEFINE c == rd[r]
           seen == Append(c.seen, c.page)
           cursor == [id |-> c.next, gen |-> c.gen, key |-> key]
<1>1. /\ c \in Calls /\ Read(c, rows, nextId, ins) /\ Walk(c, DOMAIN rows, gen) /\ gen \in Nat
      /\ rd \in [Readers -> Calls]
  BY CallAt
<1>2. /\ c.pc = "load" /\ c.op = "list" /\ c.snap = {}
      /\ UNCHANGED <<rows, disk, epoch, gen, nextId, key, ins, sub, pend, full>>
  BY DEF PageAnswer
<1>3. CASE CursorStale(r)
  BY <1>2, <1>3, Returns DEF PageAnswer
<1>4. CASE ~CursorStale(r)
  <2>1. Current(c)
    BY <1>4 DEF CursorStale, Current
  <2>2. InHand(c) = c.page
    BY <1>2 DEF InHand
  <2>3. /\ Listed(c) \cup c.skipped \cup c.page = DownTo(c.all, c.next)
        /\ Listed(c) \cap c.page = {}
        /\ c.gen = gen => DOMAIN rows = c.all
    BY <1>1, <1>2, <2>1, <2>2 DEF Walk
  <2>4. /\ c.gen <= gen
        /\ \A j, k \in 1 .. Len(c.seen) : j # k => c.seen[j] \cap c.seen[k] = {}
    BY <1>1, <1>2 DEF Walk
  <2>5. c.seen \in Seq(SUBSET Nat) /\ c.page \in SUBSET Nat /\ c.gen \in Nat
    BY <1>1 DEF Calls
  <2>6. /\ seen \in Seq(SUBSET Nat) /\ UNION ToSet(seen) = Listed(c) \cup c.page
        /\ \A j, k \in 1 .. Len(seen) : j # k => seen[j] \cap seen[k] = {}
    <3> DEFINE s == c.seen
               p == c.page
    <3>1. s \in Seq(SUBSET Nat) /\ p \in SUBSET Nat /\ p \cap UNION ToSet(s) = {}
      BY <2>3, <2>5 DEF Listed
    <3>2. \A j, k \in 1 .. Len(s) : j # k => s[j] \cap s[k] = {}
      BY <2>4
    <3> HIDE DEF s, p
    <3>3. LET t == Append(s, p) IN
          /\ t \in Seq(SUBSET Nat) /\ UNION ToSet(t) = (UNION ToSet(s)) \cup p
          /\ \A j, k \in 1 .. Len(t) : j # k => t[j] \cap t[k] = {}
      BY <3>1, <3>2, PagesGrow
    <3> QED BY <3>3 DEF s, p, Listed
  <2>7. CASE c.next = None
    <3> DEFINE d == [c EXCEPT !.pc = "walked", !.seen = seen]
    <3>1. rd' = [rd EXCEPT ![r] = d]
      BY <1>4, <2>7 DEF PageAnswer
    <3> HIDE DEF seen, c
    <3>2. d \in Calls
      BY <1>1, <2>6, Literals DEF Calls
    <3>3. /\ d.pc = "walked" /\ d.op = c.op /\ d.seen = seen /\ d.gen = c.gen /\ d.cur = c.cur
          /\ d.all = c.all /\ d.skipped = c.skipped /\ d.snap = c.snap
      BY <1>1 DEF Calls
    <3> HIDE DEF d
    <3>4. Read(d, rows, nextId, ins)
      BY <1>1, <3>3 DEF Read
    <3>5. Listed(d) \cup d.skipped = d.all
      <4>1. DownTo(c.all, c.next) = c.all
        BY <2>7 DEF DownTo
      <4>2. Listed(d) = Listed(c) \cup c.page
        BY <2>6, <3>3 DEF Listed
      <4> QED BY <2>3, <3>3, <4>1, <4>2
    <3>6. c.cur # None => c.cur.gen <= gen
      BY <1>1, <1>2 DEF Walk
    <3>7. Walk(d, DOMAIN rows, gen)
      BY <1>2, <2>4, <2>6, <3>3, <3>5, <3>6 DEF Walk
    <3> QED BY <1>2, <3>1, <3>2, <3>3, <3>4, <3>7, ReaderMoves
  <2>8. CASE c.next # None
    <3> DEFINE d == [c EXCEPT !.pc = "page", !.seen = seen, !.next = None, !.cur = cursor]
    <3>1. rd' = [rd EXCEPT ![r] = d]
      BY <1>4, <2>8 DEF PageAnswer, EncodeCursor
    <3> HIDE DEF seen, c
    <3>2. cursor \in Cursors /\ cursor # None /\ cursor.id = c.next /\ cursor.gen = c.gen
      <4>1. c.next \in Nat /\ key \in Nat
        BY <1>1, <2>8 DEF Calls, InboxInv, TypeOK
      <4>2. cursor \in Cursors
        BY <2>5, <4>1 DEF Cursors
      <4> QED BY <4>2, InboxConstants
    <3> HIDE DEF cursor
    <3>3. d \in Calls
      BY <1>1, <2>6, <3>2, Literals DEF Calls
    <3>4. /\ d.pc = "page" /\ d.op = c.op /\ d.seen = seen /\ d.gen = c.gen /\ d.cur = cursor
          /\ d.all = c.all /\ d.skipped = c.skipped /\ d.snap = c.snap
      BY <1>1 DEF Calls
    <3> HIDE DEF d
    <3>5. Read(d, rows, nextId, ins)
      BY <1>1, <3>4 DEF Read
    <3>6. Listed(d) \cup d.skipped = DownTo(d.all, d.cur.id)
      BY <2>3, <2>6, <3>2, <3>4 DEF Listed
    <3>7. Walk(d, DOMAIN rows, gen)
      BY <1>2, <2>3, <2>4, <2>6, <3>2, <3>4, <3>6 DEF Walk
    <3> QED BY <1>2, <3>1, <3>3, <3>4, <3>5, <3>7, ReaderMoves
  <2> QED BY <2>7, <2>8
<1> QED BY <1>3, <1>4

-----------------------------------------------------------------------------
(* The specification.                                                      *)

LEMMA InitKeeps ==
  ASSUME Init
  PROVE  InboxInv
<1>1. /\ DOMAIN rows = {} /\ DOMAIN disk = {} /\ epoch = 1 /\ gen = 0 /\ nextId = 1 /\ key = 1
      /\ ins = [w \in Writers |-> NoInsert] /\ rd = [r \in Readers |-> NoCall]
      /\ sub = NoSub /\ pend = 0 /\ full = FALSE
  BY DEF Init, Empty
<1>2. NoInsert \in Inserts /\ NoInsert.pc = "idle" /\ NoInsert.id = 0
  BY DEF NoInsert, Inserts
<1>3. NoSub \in Subs
  BY DEF NoSub, Subs
<1>4. TypeOK
  <2>1. ins \in [Writers -> Inserts] /\ rd \in [Readers -> Calls]
    BY <1>1, <1>2, NoCallIs
  <2>2. sub \in Subs /\ pend \in Nat /\ full \in BOOLEAN /\ ~full
    BY <1>1, <1>3
  <2> QED BY <1>1, <2>1, <2>2 DEF TypeOK
<1>5. IdsAreFresh
  BY <1>1, <1>2 DEF IdsAreFresh
<1>6. FilesAreOwned
  BY <1>1 DEF FilesAreOwned, Live
<1>7. \A r \in Readers : rd[r] = NoCall
  BY <1>1
<1>8. \A r \in Readers : Read(rd[r], rows, nextId, ins) /\ Walk(rd[r], DOMAIN rows, gen)
  BY <1>7, NoCallIs, NothingRead, NoWalk
<1>9. NoSleepOnMatch /\ NoSendOnClosed
  BY <1>1, <1>7, NoCallIs DEF NoSleepOnMatch, NoSendOnClosed
<1> QED BY <1>4, <1>5, <1>6, <1>8, <1>9 DEF InboxInv

LEMMA NextKeeps ==
  ASSUME InboxInv, [Next]_vars
  PROVE  InboxInv'
<1>1. CASE \E w \in Writers : Insert(w)
  BY <1>1, InsertBeginKeeps, InsertWriteKeeps, InsertWriteFailsKeeps, InsertCommitKeeps,
     InsertRefusedKeeps DEF Insert
<1>2. CASE \E i \in Live : Verdict(i)
  BY <1>2, VerdictKeeps DEF Live
<1>3. CASE Wipe \/ RotateCursors
  BY <1>3, WipeKeeps, RotateCursorsKeeps
<1>4. ASSUME NEW r \in Readers,
             \/ \E i \in Live : GetFlow(r, i)
             \/ FirstPage(r) \/ WaitBegin(r) \/ MatchStoreGeneration(r)
             \/ CtxDone(r) \/ Watcher(r) \/ Walked(r)
      PROVE  InboxInv'
  BY <1>4, GetFlowKeeps, BeginsKeep, CtxDoneKeeps, WatcherKeeps, WalkedKeeps DEF Live
<1>5. ASSUME NEW r \in Readers, Proceed(r)
      PROVE  InboxInv'
  BY <1>5, LoadKeeps, RecheckKeeps, ListPageKeeps, LoadNextKeeps, PageAnswerKeeps,
     WaitLoopKeeps, DeleteOrClearKeeps DEF Proceed
<1>6. CASE Subscribe \/ Push \/ Forward \/ Consume \/ Cancel \/ CancelSrc
  BY <1>6, SubscriberKeeps, PushKeeps
<1>7. CASE UNCHANGED vars
  <2>1. /\ UNCHANGED <<rows, disk, epoch, gen, nextId, key, ins, rd>>
        /\ UNCHANGED <<sub, pend, full>>
    BY <1>7 DEF vars
  <2>2. /\ sub \in Subs /\ pend \in Nat /\ full \in BOOLEAN /\ (full => pend > 0) /\ NoSendOnClosed
    BY DEF InboxInv, TypeOK
  <2> QED BY <2>1, <2>2, SubMoves DEF NoSendOnClosed
<1> QED BY <1>1, <1>2, <1>3, <1>4, <1>5, <1>6, <1>7 DEF Next

\* However Insert's writes, evictions, verdicts, resets, deletes, waits, walks and
\* the subscribers' pushes interleave, the inbox keeps its invariant.
THEOREM InboxInvariant == Spec => []InboxInv
<1>1. Init => InboxInv
  BY InitKeeps
<1>2. InboxInv /\ [Next]_vars => InboxInv'
  BY NextKeeps
<1> QED BY <1>1, <1>2, PTL DEF Spec

\* No body is lost and no file is left behind: the spill directory and the index
\* agree in every state, also between the writes of an Insert that a reset or an
\* eviction overtakes (writeSpillTemps, commitSpill, unlinkRecord, applyPatchLocked).
THEOREM FilesStayOwned == Spec => []FilesAreOwned
<1>1. InboxInv => FilesAreOwned
  BY DEF InboxInv
<1> QED BY <1>1, InboxInvariant, PTL

\* A walk whose pages were all accepted has shown each row of its generation once,
\* except those whose file went while it read, whatever the page size and however
\* many pages (List, handleListFlows, encodeCursor).
THEOREM WalksAreExact == Spec => []WalkIsExact
<1>1. InboxInv => WalkIsExact
  <2> SUFFICES ASSUME InboxInv, NEW r \in Readers, rd[r].pc = "walked"
               PROVE  /\ (UNION ToSet(rd[r].seen)) \cup rd[r].skipped = rd[r].all
                      /\ \A j, k \in 1 .. Len(rd[r].seen) :
                           j # k => rd[r].seen[j] \cap rd[r].seen[k] = {}
                      /\ \A i \in rd[r].skipped : i \notin Live \/ 2 \in Range(rows[i].ver)
    BY DEF WalkIsExact
  <2>1. Read(rd[r], rows, nextId, ins) /\ Walk(rd[r], DOMAIN rows, gen)
    BY CallAt
  <2>2. \A i \in rd[r].skipped : i \notin Live \/ 2 \in Range(rows[i].ver)
    BY <2>1 DEF Read, Live, Patched
  <2> QED BY <2>1, <2>2 DEF Walk, Listed
<1> QED BY <1>1, InboxInvariant, PTL

\* Wait never sleeps through a flow it asked for: every change of the index wakes
\* it, and it looks once more before it sleeps, under the same mutex (Wait,
\* cond.Broadcast).
THEOREM NobodySleepsOnMatch == Spec => []NoSleepOnMatch
<1>1. InboxInv => NoSleepOnMatch
  BY DEF InboxInv
<1> QED BY <1>1, InboxInvariant, PTL

\* pushEvent never sends on a channel that cancel has closed: the subscriber leaves
\* the list under the mutex that the push holds (Subscribe, cancel, pushEvent).
THEOREM NoPushAfterClose == Spec => []NoSendOnClosed
<1>1. InboxInv => NoSendOnClosed
  BY DEF InboxInv
<1> QED BY <1>1, InboxInvariant, PTL

=============================================================================
