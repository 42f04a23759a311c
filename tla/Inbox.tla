-------------------------------- MODULE Inbox --------------------------------
(***************************************************************************)
(* The read side of the flow inbox and what it shares with the write side: *)
(* the spill files of large bodies (internal/store/spill.go), the calls    *)
(* that read them after they let go of the index mutex (Get, List, Wait),  *)
(* the condition variable Wait sleeps on, the cursors the management       *)
(* surfaces hand out, and the subscribers' event rings                     *)
(* (internal/store/events.go, internal/app/flows.go).                      *)
(*                                                                         *)
(* FlowStore models the index itself (caps, order, breakpoint waiters);    *)
(* here a row keeps only its bodies' versions, which sides are on disk,    *)
(* and whether it is paused.  Rows leave in the order they came: an id is  *)
(* an age.  A critical section of the store's mutex is one action, except  *)
(* that it stays locked while it pushes its events (pend), because a       *)
(* subscriber's consumer runs against that push without the mutex.         *)
(***************************************************************************)
EXTENDS Integers, SequencesExt

CONSTANTS
  Writers,     \* goroutines that call Insert
  Readers,     \* management calls: Get, List walks, Wait, Delete, Clear
  None,        \* no value
  Kinds,       \* flows to insert: the sides that reach spillThreshold (big) and
               \* the side it is paused on, or "no" (paused)
  Wanted,      \* the ids that match the filter of Wait
  MaxFlows,    \* store.maxFlows, with fullPolicy evict_oldest
  Limit,       \* page size of a list
  RingCap,     \* buffer of a subscriber
  MaxId,       \* bound: Insert calls
  MaxEpoch,    \* bound: resets
  MaxSubs      \* bound: Subscribe calls

Sides == {"req", "resp", "ws"}

\* A list cursor: the last id of its page, the page's generation, the key.
Cursors == [id : Nat, gen : Nat, key : Nat]

ASSUME InboxConstants ==
  /\ MaxFlows \in Nat \ {0} /\ Limit \in Nat \ {0} /\ RingCap \in Nat \ {0}
  /\ MaxId \in Nat /\ MaxEpoch \in Nat \ {0} /\ MaxSubs \in Nat
  /\ Kinds \subseteq [big : SUBSET Sides, paused : Sides \cup {"no"}]
  /\ None \notin Nat /\ None \notin Cursors

VARIABLES
  rows,        \* byID
  disk,        \* the spill directory: a function from <<id, side, name>> to a version
  epoch, gen, nextId,
  key,         \* the HMAC key of the list cursors, numbered
  ins,         \* each writer's Insert
  rd,          \* each reader's call
  sub,         \* a subscriber: events in its ring, the one its forwarder holds,
               \* whether the last event pushed to it went nowhere
  pend,        \* how many events the holder of the mutex has still to push
  full         \* pushEvent found the ring full and is about to make room

vars == <<rows, disk, epoch, gen, nextId, key, ins, rd, sub, pend, full>>

NoInsert == [pc |-> "idle", id |-> 0, epoch |-> 0, big |-> {}, paused |-> "no",
             left |-> {}]
NoCall == [pc |-> "idle", op |-> "none", snap |-> {}, cur |-> None, next |-> None,
           gen |-> 0, all |-> {}, page |-> {}, seen |-> << >>, skipped |-> {}, ctx |-> FALSE]
NoSub == [pc |-> "none", ring |-> 0, held |-> FALSE, missed |-> FALSE, calls |-> 0]

Empty == [x \in {} |-> x]

Init ==
  /\ rows = Empty /\ disk = Empty
  /\ epoch = 1 /\ gen = 0 /\ nextId = 1 /\ key = 1
  /\ ins = [w \in Writers |-> NoInsert]
  /\ rd = [r \in Readers |-> NoCall]
  /\ sub = NoSub /\ pend = 0 /\ full = FALSE

-----------------------------------------------------------------------------
(* Under the mutex.                                                        *)

Unlocked == pend = 0
Live == DOMAIN rows

\* The files of the rows in S.
FilesOf(S) == {<<i, s, "final">> : i \in S, s \in Sides}
Temps(i) == {<<i, s, "tmp">> : s \in Sides}
Without(d, F) == [f \in DOMAIN d \ F |-> d[f]]
With(d, F, v) == [f \in DOMAIN d \cup F |-> IF f \in F THEN v ELSE d[f]]

KeepFiles(S) == disk

\* unlinkRecord, for the rows in S.
UnlinkRecords(S) == Without(disk, FilesOf(S))

ForgetSleepers == rd

\* cond.Broadcast: whoever sleeps in Wait will run again.
Broadcast ==
  [r \in Readers |-> IF rd[r].pc = "asleep" THEN [rd[r] EXCEPT !.pc = "loop"] ELSE rd[r]]

\* generation grows by n and, when there is a subscriber, n events follow.
Emit(n) ==
  /\ gen' = gen + n
  /\ pend' = IF sub.pc \in {"live", "cancelling"} THEN n ELSE 0
  /\ UNCHANGED full

\* How many of the oldest rows go so that one more fits.
Evicted == {i \in Live : Cardinality({j \in Live : j < i}) <= Cardinality(Live) - MaxFlows}

-----------------------------------------------------------------------------
(* Insert.                                                                 *)

\* beginSession pinned the epoch; Insert has prepared the flow and read the
\* spill options, and now writes its large sides to temporary files.
InsertBegin(w) ==
  /\ ins[w].pc = "idle" /\ nextId <= MaxId
  /\ \E k \in Kinds :
       ins' = [ins EXCEPT ![w] =
                 [pc |-> "write", id |-> nextId, epoch |-> epoch, big |-> k.big,
                  paused |-> k.paused, left |-> k.big]]
  /\ nextId' = nextId + 1
  /\ UNCHANGED <<rows, disk, epoch, gen, key, rd, sub, pend, full>>

\* writeSpillTemps has one side after the other.
NextSide(L) == IF "req" \in L THEN "req" ELSE IF "resp" \in L THEN "resp" ELSE "ws"

\* os.WriteFile of the next large side.
InsertWrite(w) ==
  LET s == NextSide(ins[w].left) IN
  /\ ins[w].pc = "write" /\ ins[w].left # {}
  /\ disk' = With(disk, {<<ins[w].id, s, "tmp">>}, 1)
  /\ ins' = [ins EXCEPT ![w].left = @ \ {s}]
  /\ UNCHANGED <<rows, epoch, gen, nextId, key, rd, sub, pend, full>>

\* The write fails, and may leave part of a file: the sides already written are
\* unlinked, the failed one is not.
InsertWriteFails(w) ==
  /\ ins[w].pc = "write" /\ ins[w].left # {}
  /\ \E partial \in {{}, {<<ins[w].id, NextSide(ins[w].left), "tmp">>}} :
       disk' = With(Without(disk, Temps(ins[w].id)), partial, 0)
  /\ ins' = [ins EXCEPT ![w] = NoInsert]
  /\ UNCHANGED <<rows, epoch, gen, nextId, key, rd, sub, pend, full>>

NewRow(w) ==
  [paused |-> ins[w].paused, spill |-> ins[w].big, ver |-> [s \in Sides |-> 1]]

TempsThere(w) == \A s \in ins[w].big : <<ins[w].id, s, "tmp">> \in DOMAIN disk

EpochCurrent(w) == ins[w].epoch = epoch

\* The second critical section: commitSpill, evictUntilFitsLocked, the index.
InsertCommit(w) ==
  /\ ins[w].pc = "write" /\ ins[w].left = {} /\ Unlocked
  /\ EpochCurrent(w) /\ TempsThere(w)
  /\ LET i == ins[w].id IN
     /\ disk' = With(Without(UnlinkRecords(Evicted), Temps(i)),
                     {<<i, s, "final">> : s \in ins[w].big}, 1)
     /\ rows' = With(Without(rows, Evicted), {i}, NewRow(w))
  /\ Emit(Cardinality(Evicted) + 1)
  /\ rd' = Broadcast
  /\ ins' = [ins EXCEPT ![w] = NoInsert]
  /\ UNCHANGED <<epoch, nextId, key, sub>>

\* A stale epoch, or a rename that fails (a file that is gone, an I/O error):
\* the files that were renamed and the ones that were not are unlinked.
InsertRefused(w) ==
  /\ ins[w].pc = "write" /\ ins[w].left = {} /\ Unlocked
  /\ ins[w].big # {} \/ ~EpochCurrent(w)
  /\ disk' = Without(disk, Temps(ins[w].id) \cup FilesOf({ins[w].id}))
  /\ ins' = [ins EXCEPT ![w] = NoInsert]
  /\ UNCHANGED <<rows, epoch, gen, nextId, key, rd, sub, pend, full>>

-----------------------------------------------------------------------------
(* The other changes of the index.                                         *)

\* Resume replaces the paused side's body (p = "spilled" or "small"), only its
\* headers, or nothing; Drop and ExpireBreakpoint leave the body.  The new body
\* is staged, renamed over the old file, and the old name is unlinked only when
\* the row no longer uses it.  (A patch whose file cannot be written changes
\* nothing; the eviction a larger body may cause is FlowStore's.)
Replaced(i, s, p) ==
  CASE p = "spilled" -> With(disk, {<<i, s, "final">>}, 2)
    [] p = "small" -> Without(disk, {<<i, s, "final">>})
    [] OTHER -> disk

PatchedRow(i, s, p) ==
  [rows[i] EXCEPT !.paused = "no",
     !.ver[s] = IF p \in {"spilled", "small"} THEN 2 ELSE @,
     !.spill = CASE p = "spilled" -> @ \cup {s}
                 [] p = "small" -> @ \ {s}
                 [] OTHER -> @]

Verdict(i) ==
  /\ Unlocked /\ i \in Live /\ rows[i].paused # "no"
  /\ \E p \in {"spilled", "small", "kept", "expired"} :
       LET s == rows[i].paused IN
       /\ disk' = Replaced(i, s, p)
       /\ rows' = [rows EXCEPT ![i] = PatchedRow(i, s, p)]
       /\ IF p = "expired"      \* ExpireBreakpoint sends no event
          THEN gen' = gen + 1 /\ UNCHANGED <<pend, full>>
          ELSE Emit(1)
  /\ rd' = Broadcast
  /\ UNCHANGED <<epoch, nextId, key, ins, sub>>

\* Delete of one flow, DeleteAll of every one: each row is an event.
RemoveRows(S) ==
  /\ disk' = UnlinkRecords(S)
  /\ rows' = Without(rows, S)
  /\ Emit(Cardinality(S))

\* Wipe and ResetTo: unlinkAllSpill takes every name of the directory that looks
\* like a spill file, the temporary ones of an Insert under way too.
Wipe ==
  /\ Unlocked /\ epoch < MaxEpoch
  /\ epoch' = epoch + 1
  /\ rows' = Empty /\ disk' = Empty
  /\ Emit(1)
  /\ rd' = Broadcast
  /\ UNCHANGED <<nextId, key, ins, sub>>

\* RotateCursors, the hook that runs some time after a reset.
RotateCursors ==
  /\ key < epoch
  /\ key' = epoch
  /\ UNCHANGED <<rows, disk, epoch, gen, nextId, ins, rd, sub, pend, full>>

-----------------------------------------------------------------------------
(* Reading: a snapshot under the mutex, its spill files after it.          *)

Snap(i) == [id |-> i, row |-> rows[i]]

\* The snapshots of a call are read in the order of a list, newest first.
Newest(S) == CHOOSE sn \in S : \A o \in S : o.id <= sn.id

\* loadSpill of a snapshot: os.IsNotExist when one of its files is gone.
Missing(sn) == \E s \in sn.row.spill : <<sn.id, s, "final">> \notin DOMAIN disk

GetFlow(r, i) ==
  /\ rd[r].pc = "idle" /\ Unlocked /\ i \in Live
  /\ rd' = [rd EXCEPT ![r] = [NoCall EXCEPT !.pc = "load", !.op = "get", !.snap = {Snap(i)}]]
  /\ UNCHANGED <<rows, disk, epoch, gen, nextId, key, ins, sub, pend, full>>

\* Get and Wait have read the file, or found it gone and lock again to see
\* whether the row is gone too.
Load(r) ==
  /\ rd[r].pc = "load" /\ rd[r].op \in {"get", "wait"}
  /\ IF Missing(Newest(rd[r].snap))
     THEN rd' = [rd EXCEPT ![r].pc = "recheck"]
     ELSE rd' = [rd EXCEPT ![r] = NoCall]
  /\ UNCHANGED <<rows, disk, epoch, gen, nextId, key, ins, sub, pend, full>>

\* The call ends with ErrSpill when the row is still there, ErrNotFound when it is not; Wait looks
\* for another match instead.
Recheck(r) ==
  /\ rd[r].pc = "recheck" /\ Unlocked
  /\ rd' = [rd EXCEPT ![r] =
              IF rd[r].op = "wait" /\ Newest(rd[r].snap).id \notin Live
              THEN [@ EXCEPT !.pc = "loop", !.snap = {}]
              ELSE NoCall]
  /\ UNCHANGED <<rows, disk, epoch, gen, nextId, key, ins, sub, pend, full>>

-----------------------------------------------------------------------------
(* A client that walks the list from the first page to the last.           *)

FirstPage(r) ==
  /\ rd[r].pc = "idle"
  /\ rd' = [rd EXCEPT ![r] = [NoCall EXCEPT !.pc = "page", !.op = "list"]]
  /\ UNCHANGED <<rows, disk, epoch, gen, nextId, key, ins, sub, pend, full>>

\* Newest first, the rows after the cursor.  A cursor whose row is gone stands
\* where its time puts it.
AfterCursor(c) == IF c = None THEN Live ELSE {i \in Live : i < c.id}

\* encodeCursor signs the last id and the page's generation; decodeCursor refuses
\* a cursor signed with an older key.
EncodeCursor(r) == [id |-> rd[r].next, gen |-> rd[r].gen, key |-> key]
CursorDecodes(c) == c = None \/ c.key = key

\* The Limit newest of S.
PageOf(S) == {i \in S : Cardinality({j \in S : j > i}) < Limit}

\* List snapshots a page and its generation in one critical section.
ListPage(r) ==
  LET c == rd[r].cur
      left == AfterCursor(c)
      page == PageOf(left)
  IN
  /\ rd[r].pc = "page" /\ Unlocked
  /\ IF ~CursorDecodes(c)
     THEN rd' = [rd EXCEPT ![r] = NoCall]
     ELSE rd' = [rd EXCEPT ![r] =
            [rd[r] EXCEPT !.pc = "load", !.gen = gen, !.page = {},
               !.all = IF c = None THEN Live ELSE rd[r].all,
               !.snap = {Snap(i) : i \in page},
               !.next = IF Cardinality(left) > Limit THEN Min(page) ELSE None]]
  /\ UNCHANGED <<rows, disk, epoch, gen, nextId, key, ins, sub, pend, full>>

\* The bodies of the page, one by one; a row whose file is gone is passed over.
LoadNext(r) ==
  LET c == rd[r]
      sn == Newest(c.snap)
  IN
  /\ c.pc = "load" /\ c.op = "list" /\ c.snap # {}
  /\ rd' = [rd EXCEPT ![r] =
              IF Missing(sn)
              THEN [c EXCEPT !.snap = c.snap \ {sn}, !.skipped = c.skipped \cup {sn.id}]
              ELSE [c EXCEPT !.snap = c.snap \ {sn}, !.page = c.page \cup {sn.id}]]
  /\ UNCHANGED <<rows, disk, epoch, gen, nextId, key, ins, sub, pend, full>>

UncheckedCursor(r) == FALSE

CursorStale(r) == rd[r].cur # None /\ rd[r].cur.gen # rd[r].gen

\* handleListFlows, once List has returned: a page of another generation is
\* refused; otherwise the client has it, and a cursor when there is more.
PageAnswer(r) ==
  LET c == rd[r]
      seen == Append(c.seen, c.page)
  IN
  /\ c.pc = "load" /\ c.op = "list" /\ c.snap = {}
  /\ rd' = [rd EXCEPT ![r] =
       IF CursorStale(r) THEN NoCall
       ELSE IF c.next = None
            THEN [c EXCEPT !.pc = "walked", !.seen = seen]
            ELSE [c EXCEPT !.pc = "page", !.seen = seen, !.next = None, !.cur = EncodeCursor(r)]]
  /\ UNCHANGED <<rows, disk, epoch, gen, nextId, key, ins, sub, pend, full>>

-----------------------------------------------------------------------------
(* Wait.                                                                   *)

WaitBegin(r) ==
  /\ rd[r].pc = "idle"
  /\ rd' = [rd EXCEPT ![r] = [NoCall EXCEPT !.pc = "loop", !.op = "wait"]]
  /\ UNCHANGED <<rows, disk, epoch, gen, nextId, key, ins, sub, pend, full>>

\* newestMatchLocked looks among these.
Matches == Live \cap Wanted

\* One turn of the loop: the newest match, the end of the context, or sleep.
WaitLoop(r) ==
  /\ rd[r].pc = "loop" /\ Unlocked
  /\ rd' = [rd EXCEPT ![r] =
       IF Matches # {} THEN [@ EXCEPT !.pc = "load", !.snap = {Snap(Max(Matches))}]
       ELSE IF @.ctx THEN NoCall      \* context.DeadlineExceeded
       ELSE [@ EXCEPT !.pc = "asleep"]]
  /\ UNCHANGED <<rows, disk, epoch, gen, nextId, key, ins, sub, pend, full>>

\* The context ends: the client leaves, or maxWait is over.
CtxDone(r) ==
  /\ rd[r].op = "wait" /\ ~rd[r].ctx
  /\ rd' = [rd EXCEPT ![r].ctx = TRUE]
  /\ UNCHANGED <<rows, disk, epoch, gen, nextId, key, ins, sub, pend, full>>

\* The goroutine that Wait starts to wake itself when the context ends.
Watcher(r) ==
  /\ rd[r].ctx /\ rd[r].pc = "asleep" /\ Unlocked
  /\ rd' = Broadcast
  /\ UNCHANGED <<rows, disk, epoch, gen, nextId, key, ins, sub, pend, full>>

-----------------------------------------------------------------------------
(* Delete and Clear, with or without expectedStoreGeneration.              *)

\* matchStoreGeneration reads the generation in a critical section of its own.
MatchStoreGeneration(r) ==
  /\ rd[r].pc = "idle" /\ Unlocked /\ Live # {}
  /\ rd' = [rd EXCEPT ![r] = [NoCall EXCEPT !.pc = "remove"]]
  /\ UNCHANGED <<rows, disk, epoch, gen, nextId, key, ins, sub, pend, full>>

DeleteOrClear(r) ==
  /\ rd[r].pc = "remove" /\ Unlocked
  /\ \E S \in {{i} : i \in Live} \cup {Live} : RemoveRows(S)
  /\ rd' = [Broadcast EXCEPT ![r] = NoCall]
  /\ UNCHANGED <<epoch, nextId, key, ins, sub>>

\* The client has its list and may call again.
Walked(r) ==
  /\ rd[r].pc = "walked"
  /\ rd' = [rd EXCEPT ![r] = NoCall]
  /\ UNCHANGED <<rows, disk, epoch, gen, nextId, key, ins, sub, pend, full>>

-----------------------------------------------------------------------------
(* Subscribers.  pushEvent runs under the mutex, the consumer does not.    *)
(* A ring hands events on in order, so it is a number of them.            *)

Subscribe ==
  /\ sub.pc = "none" /\ sub.calls < MaxSubs /\ Unlocked
  /\ sub' = [NoSub EXCEPT !.pc = "live", !.calls = sub.calls + 1]
  /\ UNCHANGED <<rows, disk, epoch, gen, nextId, key, ins, rd, pend, full>>

\* case ch <- ev.
PushSend ==
  /\ pend > 0 /\ ~full /\ sub.ring < RingCap
  /\ sub' = [sub EXCEPT !.ring = @ + 1, !.missed = FALSE]
  /\ pend' = pend - 1
  /\ UNCHANGED <<rows, disk, epoch, gen, nextId, key, ins, rd, full>>

\* default: the ring was full.
PushFull ==
  /\ pend > 0 /\ ~full /\ sub.ring = RingCap
  /\ full' = TRUE
  /\ UNCHANGED <<rows, disk, epoch, gen, nextId, key, ins, rd, sub, pend>>

\* case <-ch: the oldest event goes, and the loop tries again.
PushMakesRoom ==
  /\ full /\ sub.ring > 0
  /\ sub' = [sub EXCEPT !.ring = @ - 1]
  /\ full' = FALSE
  /\ UNCHANGED <<rows, disk, epoch, gen, nextId, key, ins, rd, pend>>

\* default: return.  The consumer has emptied the ring meanwhile.
PushGivesUp ==
  /\ full /\ sub.ring = 0
  /\ full' = FALSE
  /\ sub' = [sub EXCEPT !.missed = TRUE]
  /\ pend' = pend - 1
  /\ UNCHANGED <<rows, disk, epoch, gen, nextId, key, ins, rd>>

\* The forwarding goroutine of app.Subscribe takes an event and hands it on; its
\* own buffer only makes the consumer look faster.
Forward ==
  /\ sub.pc # "none" /\ ~sub.held /\ sub.ring > 0
  /\ sub' = [sub EXCEPT !.held = TRUE, !.ring = @ - 1]
  /\ UNCHANGED <<rows, disk, epoch, gen, nextId, key, ins, rd, pend, full>>

Consume ==
  /\ sub.held
  /\ sub' = [sub EXCEPT !.held = FALSE]
  /\ UNCHANGED <<rows, disk, epoch, gen, nextId, key, ins, rd, pend, full>>

\* cancel: done is closed, then the subscriber leaves the list under the mutex,
\* and only then is its channel closed.
Cancel ==
  /\ sub.pc = "live"
  /\ sub' = [sub EXCEPT !.pc = "cancelling"]
  /\ UNCHANGED <<rows, disk, epoch, gen, nextId, key, ins, rd, pend, full>>

CancelUnlocked ==
  /\ sub.pc = "cancelling"
  /\ sub' = [NoSub EXCEPT !.calls = sub.calls]
  /\ UNCHANGED <<rows, disk, epoch, gen, nextId, key, ins, rd, pend, full>>

CancelSrc ==
  /\ sub.pc = "cancelling" /\ Unlocked
  /\ sub' = [NoSub EXCEPT !.calls = sub.calls]
  /\ UNCHANGED <<rows, disk, epoch, gen, nextId, key, ins, rd, pend, full>>

-----------------------------------------------------------------------------
Insert(w) == InsertBegin(w) \/ InsertWrite(w) \/ InsertWriteFails(w)
             \/ InsertCommit(w) \/ InsertRefused(w)

Proceed(r) == Load(r) \/ Recheck(r) \/ ListPage(r) \/ LoadNext(r) \/ PageAnswer(r)
              \/ WaitLoop(r) \/ DeleteOrClear(r)

Push == PushSend \/ PushFull \/ PushMakesRoom \/ PushGivesUp

Next ==
  \/ \E w \in Writers : Insert(w)
  \/ \E i \in Live : Verdict(i)
  \/ Wipe \/ RotateCursors
  \/ \E r \in Readers : \/ \E i \in Live : GetFlow(r, i)
                        \/ FirstPage(r) \/ WaitBegin(r) \/ MatchStoreGeneration(r)
                        \/ Proceed(r) \/ CtxDone(r) \/ Watcher(r) \/ Walked(r)
  \/ Subscribe \/ Push \/ Forward \/ Consume \/ Cancel \/ CancelSrc

Spec == Init /\ [][Next]_vars

-----------------------------------------------------------------------------
\* Every spilled side of a live row is on disk in the version the row has, a file
\* under a final name belongs to a live row that uses it, and a complete temporary
\* file to an Insert under way: however inserts, evictions, patches, failed writes
\* and resets interleave, no body is lost and none is left behind
\* (writeSpillTemps, commitSpill, unlinkRecord, applyPatchLocked).
FilesAreOwned ==
  /\ \A i \in Live : \A s \in rows[i].spill :
       /\ <<i, s, "final">> \in DOMAIN disk
       /\ disk[<<i, s, "final">>] = rows[i].ver[s]
  /\ \A f \in DOMAIN disk :
       IF f[3] = "final" THEN f[1] \in Live /\ f[2] \in rows[f[1]].spill
       ELSE disk[f] = 0 \/ \E w \in Writers : ins[w].id = f[1]

\* A walk whose pages were all accepted shows every row of its generation once: a
\* row is missing only when its file went while the page was being read
\* (List, handleListFlows, encodeCursor).
WalkIsExact ==
  \A r \in Readers : rd[r].pc = "walked" =>
    LET listed == UNION ToSet(rd[r].seen) IN
    /\ listed \cup rd[r].skipped = rd[r].all
    /\ \A j, k \in 1 .. Len(rd[r].seen) : j # k => rd[r].seen[j] \cap rd[r].seen[k] = {}
    /\ \A i \in rd[r].skipped : i \notin Live \/ 2 \in Range(rows[i].ver)

\* Nobody sleeps in Wait while a flow it asked for is in the inbox.
NoSleepOnMatch == \A r \in Readers : rd[r].pc = "asleep" => Matches = {}

\* An event is never pushed to a subscriber whose channel cancel has closed: the
\* push would panic the goroutine that holds the store's mutex.
NoSendOnClosed == pend > 0 => sub.pc \in {"live", "cancelling"}

\* The ring drops the oldest event, never the newest: the last event pushed to a
\* subscriber is in its ring or has been taken from it (pushEvent).
NewestEventKept == ~sub.missed
=============================================================================
