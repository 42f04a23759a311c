------------------------- MODULE Http2OriginProofs -------------------------
(***************************************************************************)
(* Proofs about an HTTP/2 connection to an origin (Http2Origin), for every *)
(* value of the constants: WindowBounds, NothingLeftBehind,                *)
(* FailureHasCause.                                                        *)
(***************************************************************************)
EXTENDS Http2Origin, IndexLemmas

-----------------------------------------------------------------------------
(* Http2Origin.  The inductive invariant relates every table of the        *)
(* connection to the goroutines that still know a stream, and the bytes    *)
(* received and taken to the windows they came from.                       *)

BodyRecord == [buf : Nat, closed : BOOLEAN, released : BOOLEAN]
StreamRecord ==
  [hdr : BOOLEAN, fail : BOOLEAN, body : BodyRecord, ended : BOOLEAN, aborted : BOOLEAN,
   uploadStopped : BOOLEAN, gotResp : BOOLEAN, uploadDone : BOOLEAN, responseDone : BOOLEAN,
   reqOpen : BOOLEAN]
UploadRecord ==
  [at : {"none", "start", "read", "take", "write", "eof", "defer", "done"},
   want : Nat, has : Nat, reads : Nat]
ReaderRecord == [at : {"none", "open", "credit", "done"}, has : Nat]
DataRecord == [id : Ids \cup {0}, n : Nat, pad : Nat, end : BOOLEAN]
Goroutines == {"call", "read", "up", "loop"}
TearRecord == [id : Ids, by : Goroutines, step : {"close", "drop"}, unread : Nat]
StreamWindows == UNION {[D -> Int] : D \in SUBSET (Ids \cup PushIds)}
OutRecord == [conn : Nat, stream : StreamWindows, init : Nat, closed : BOOLEAN]
InRecord == [conn : Nat, stream : StreamWindows]

OriginTypes ==
  /\ closed \in BOOLEAN /\ nextID \in Nat
  /\ streams \in SUBSET Ids /\ blamed \in SUBSET Ids
  /\ st \in [Ids -> StreamRecord] /\ call \in [Ids -> {"idle", "select", "failed", "response"}]
  /\ up \in [Ids -> UploadRecord] /\ rd \in [Ids -> ReaderRecord]
  /\ loop \in DataRecord /\ (loop # NoData => loop.id \in Ids)
  /\ tear \in SUBSET TearRecord /\ IsFiniteSet(tear)
  /\ out \in OutRecord /\ inb \in InRecord
  /\ wire \in Nat /\ sent \in Nat

Torn(T, i) == \E t \in T : t.id = i

\* A stream that is still in the map has an uploader, a reader and windows that go on,
\* or a reason why they do not.
LiveStream(i) ==
  /\ i \notin DOMAIN out.stream => st[i].uploadStopped
  /\ st[i].aborted => st[i].uploadStopped
  /\ up[i].at \notin {"none", "defer", "done"} /\ ~st[i].reqOpen => st[i].uploadStopped
  /\ rd[i].at = "done" => st[i].responseDone /\ ~st[i].uploadDone
  /\ up[i].at \in {"none", "done"} => st[i].uploadDone
  /\ call[i] # "failed"
  /\ ~Torn(tear, i)

Known(i) ==
  \/ i \in streams \/ Torn(tear, i) \/ loop.id = i
  \/ call[i] # "idle" \/ up[i].at # "none" \/ rd[i].at # "none"

StreamInv(i) ==
  /\ call[i] = "failed" \/ st[i].fail => i \in blamed
  /\ call[i] \in {"idle", "select"} => rd[i].at = "none"
  /\ i \in streams => LiveStream(i)
  /\ i \in DOMAIN inb.stream \cup DOMAIN out.stream => i \in streams \/ Torn(tear, i)
  /\ Known(i) => i < nextID

ConnInv ==
  /\ out.closed => closed
  /\ closed => streams = {}
  /\ PushIds \cap (DOMAIN inb.stream \cup DOMAIN out.stream) \subseteq DOMAIN pushes

\* What the connection has received and not given back, and what uploads have taken.
Held(s, r) == [i \in Ids |-> unreleased(s[i].body) + r[i].has]
Kept(T) == [t \in T |-> t.unread]
Taken(x) == [i \in Ids |-> x[i].has]

\* The bytes of the advertised window that are out, in a body, a reader, the loop or
\* a teardown.
Account(c, s, r, l, T) ==
  c + (SumFunctionOnSet(Held(s, r), Ids) + l.n + l.pad + SumFunctionOnSet(Kept(T), T))

ReceiveInv == Account(inb.conn, st, rd, loop, tear) <= RecvWin

SendInv == out.conn + wire + SumFunctionOnSet(Taken(up), Ids) <= SendWin

OriginInv ==
  /\ OriginConstants /\ OriginTypes /\ ConnInv /\ ReceiveInv /\ SendInv
  /\ \A i \in Ids : StreamInv(i)

-----------------------------------------------------------------------------
(* The windows.                                                            *)

Windowed == Ids \cup PushIds

LEMMA WindowsShape ==
  ASSUME NEW g \in StreamWindows
  PROVE  DOMAIN g \in SUBSET Windowed /\ g \in [DOMAIN g -> Int]
BY DEF StreamWindows, Windowed

LEMMA WindowsMember ==
  ASSUME NEW D \in SUBSET Windowed, NEW g \in [D -> Int]
  PROVE  g \in StreamWindows /\ DOMAIN g = D
BY DEF StreamWindows, Windowed

LEMMA NoWindows == << >> \in StreamWindows /\ DOMAIN << >> = {}
<1>1. << >> \in [{} -> Int]
  OBVIOUS
<1> QED BY <1>1, WindowsMember

LEMMA DropWindow ==
  ASSUME NEW g \in StreamWindows, NEW id
  PROVE  Drop(g, id) \in StreamWindows /\ DOMAIN Drop(g, id) = DOMAIN g \ {id}
<1>1. Drop(g, id) \in [DOMAIN g \ {id} -> Int]
  BY WindowsShape DEF Drop
<1>2. DOMAIN g \ {id} \in SUBSET Windowed
  BY WindowsShape
<1> QED BY <1>1, <1>2, WindowsMember

LEMMA OutShape ==
  ASSUME NEW f \in OutRecord
  PROVE  /\ f.conn \in Nat /\ f.init \in Nat /\ f.closed \in BOOLEAN /\ f.stream \in StreamWindows
         /\ DOMAIN f.stream \in SUBSET Windowed /\ f.stream \in [DOMAIN f.stream -> Int]
<1>1. f.conn \in Nat /\ f.init \in Nat /\ f.closed \in BOOLEAN /\ f.stream \in StreamWindows
  BY DEF OutRecord
<1> QED BY <1>1, WindowsShape

LEMMA OutStreams ==
  ASSUME NEW f \in OutRecord, NEW s \in StreamWindows
  PROVE  /\ [f EXCEPT !.stream = s] \in OutRecord /\ [f EXCEPT !.stream = s].conn = f.conn
         /\ [f EXCEPT !.stream = s].closed = f.closed /\ [f EXCEPT !.stream = s].stream = s
<1>1. [f EXCEPT !.stream = s] \in OutRecord
  BY DEF OutRecord
<1> QED BY <1>1 DEF OutRecord

LEMMA OutConn ==
  ASSUME NEW f \in OutRecord, NEW c \in Nat
  PROVE  /\ [f EXCEPT !.conn = c] \in OutRecord /\ [f EXCEPT !.conn = c].conn = c
         /\ [f EXCEPT !.conn = c].closed = f.closed /\ [f EXCEPT !.conn = c].stream = f.stream
<1>1. [f EXCEPT !.conn = c] \in OutRecord
  BY DEF OutRecord
<1> QED BY <1>1 DEF OutRecord

\* What each operation does to the connection's send window, and to which streams have one.
LEMMA OutOpened ==
  ASSUME NEW f \in OutRecord, NEW id \in Windowed
  PROVE  /\ outOpen(f, id) \in OutRecord /\ outOpen(f, id).conn = f.conn
         /\ outOpen(f, id).closed = f.closed
         /\ DOMAIN outOpen(f, id).stream =
              IF f.closed THEN DOMAIN f.stream ELSE DOMAIN f.stream \cup {id}
<1> DEFINE D == DOMAIN f.stream \cup {id}
           s == [i \in D |-> IF i = id THEN f.init ELSE f.stream[i]]
<1>1. D \in SUBSET Windowed /\ s \in [D -> Int]
  BY OutShape
<1>2. outOpen(f, id) = IF id \in DOMAIN f.stream \/ f.closed THEN f ELSE [f EXCEPT !.stream = s]
  BY DEF outOpen
<1> HIDE DEF s
<1>3. s \in StreamWindows /\ DOMAIN s = D
  BY <1>1, WindowsMember
<1>4. /\ [f EXCEPT !.stream = s] \in OutRecord /\ [f EXCEPT !.stream = s].conn = f.conn
      /\ [f EXCEPT !.stream = s].closed = f.closed /\ [f EXCEPT !.stream = s].stream = s
  BY <1>3, OutStreams
<1> QED BY <1>2, <1>3, <1>4

LEMMA OutForgotten ==
  ASSUME NEW f \in OutRecord, NEW id
  PROVE  /\ outForget(f, id) \in OutRecord /\ outForget(f, id).conn = f.conn
         /\ outForget(f, id).closed = f.closed
         /\ DOMAIN outForget(f, id).stream = DOMAIN f.stream \ {id}
<1> DEFINE s == Drop(f.stream, id)
<1>1. s \in StreamWindows /\ DOMAIN s = DOMAIN f.stream \ {id}
  BY OutShape, DropWindow
<1>2. outForget(f, id) = [f EXCEPT !.stream = s]
  BY DEF outForget
<1> HIDE DEF s
<1> QED BY <1>1, <1>2, OutStreams

LEMMA OutClosed ==
  ASSUME NEW f \in OutRecord
  PROVE  /\ [outClose(f) EXCEPT !.stream = << >>] \in OutRecord
         /\ [outClose(f) EXCEPT !.stream = << >>].conn = f.conn
         /\ DOMAIN [outClose(f) EXCEPT !.stream = << >>].stream = {}
<1> DEFINE p == outClose(f)
<1>1. p \in OutRecord
  BY DEF outClose, OutRecord
<1>2. p.conn = f.conn
  BY DEF outClose, OutRecord
<1> HIDE DEF p
<1> QED BY <1>1, <1>2, NoWindows, OutStreams DEF p

LEMMA OutAddedConn ==
  ASSUME NEW f \in OutRecord, NEW n \in Nat
  PROVE  /\ outAddConn(f, n) \in OutRecord /\ outAddConn(f, n).conn = f.conn + n
         /\ outAddConn(f, n).closed = f.closed /\ outAddConn(f, n).stream = f.stream
<1> DEFINE c == f.conn + n
<1>1. c \in Nat /\ outAddConn(f, n) = [f EXCEPT !.conn = c]
  BY OutShape DEF outAddConn
<1> HIDE DEF c
<1> QED BY <1>1, OutConn DEF c

LEMMA OutAdded ==
  ASSUME NEW f \in OutRecord, NEW id, NEW n \in Nat
  PROVE  /\ outAdd(f, id, n) \in OutRecord /\ outAdd(f, id, n).conn = f.conn
         /\ outAdd(f, id, n).closed = f.closed
         /\ DOMAIN outAdd(f, id, n).stream = DOMAIN f.stream
<1> DEFINE s == [f.stream EXCEPT ![id] = f.stream[id] + n]
<1>1. ASSUME id \in DOMAIN f.stream PROVE s \in StreamWindows /\ DOMAIN s = DOMAIN f.stream
  <2>1. s \in [DOMAIN f.stream -> Int] /\ DOMAIN f.stream \in SUBSET Windowed
    BY <1>1, OutShape
  <2> HIDE DEF s
  <2> QED BY <2>1, WindowsMember
<1>2. outAdd(f, id, n) = IF id \in DOMAIN f.stream THEN [f EXCEPT !.stream = s] ELSE f
  BY DEF outAdd
<1> HIDE DEF s
<1> QED BY <1>1, <1>2, OutStreams

LEMMA OutInitial ==
  ASSUME NEW f \in OutRecord, NEW v \in Nat
  PROVE  /\ applyInitialWindow(f, v) \in OutRecord /\ applyInitialWindow(f, v).conn = f.conn
         /\ applyInitialWindow(f, v).closed = f.closed
         /\ DOMAIN applyInitialWindow(f, v).stream = DOMAIN f.stream
<1> DEFINE s == [i \in DOMAIN f.stream |-> f.stream[i] + (v - f.init)]
           p == [f EXCEPT !.init = v]
<1>1. s \in [DOMAIN f.stream -> Int] /\ DOMAIN f.stream \in SUBSET Windowed
  BY OutShape
<1>2. applyInitialWindow(f, v) = [p EXCEPT !.stream = s]
  BY DEF applyInitialWindow
<1> HIDE DEF s
<1>3. s \in StreamWindows /\ DOMAIN s = DOMAIN f.stream
  BY <1>1, WindowsMember
<1>4. p \in OutRecord
  BY DEF OutRecord
<1>5. p.conn = f.conn /\ p.closed = f.closed
  BY DEF OutRecord
<1> HIDE DEF p
<1> QED BY <1>2, <1>3, <1>4, <1>5, OutStreams

LEMMA OutTaken ==
  ASSUME NEW f \in OutRecord, NEW id \in DOMAIN f.stream, NEW n \in Nat, n <= f.conn
  PROVE  /\ outTake(f, id, n) \in OutRecord /\ outTake(f, id, n).conn = f.conn - n
         /\ outTake(f, id, n).closed = f.closed
         /\ DOMAIN outTake(f, id, n).stream = DOMAIN f.stream
<1> DEFINE s == [f.stream EXCEPT ![id] = f.stream[id] - n]
           c == f.conn - n
           p == [f EXCEPT !.conn = c]
<1>1. s \in [DOMAIN f.stream -> Int] /\ DOMAIN f.stream \in SUBSET Windowed /\ c \in Nat
  BY OutShape
<1>2. outTake(f, id, n) = [p EXCEPT !.stream = s]
  BY DEF outTake
<1> HIDE DEF s, c
<1>3. s \in StreamWindows /\ DOMAIN s = DOMAIN f.stream
  BY <1>1, WindowsMember
<1>4. p \in OutRecord /\ p.conn = c /\ p.closed = f.closed
  BY <1>1, OutConn
<1> HIDE DEF p
<1> QED BY <1>2, <1>3, <1>4, OutStreams DEF c

\* The same for the receive windows.
LEMMA InShape ==
  ASSUME NEW f \in InRecord
  PROVE  /\ f.conn \in Nat /\ f.stream \in StreamWindows
         /\ DOMAIN f.stream \in SUBSET Windowed /\ f.stream \in [DOMAIN f.stream -> Int]
<1>1. f.conn \in Nat /\ f.stream \in StreamWindows
  BY DEF InRecord
<1> QED BY <1>1, WindowsShape

LEMMA InStreams ==
  ASSUME NEW f \in InRecord, NEW s \in StreamWindows
  PROVE  /\ [f EXCEPT !.stream = s] \in InRecord /\ [f EXCEPT !.stream = s].conn = f.conn
         /\ [f EXCEPT !.stream = s].stream = s
<1>1. [f EXCEPT !.stream = s] \in InRecord
  BY DEF InRecord
<1> QED BY <1>1 DEF InRecord

LEMMA InOpened ==
  ASSUME OriginConstants, NEW f \in InRecord, NEW id \in Windowed
  PROVE  /\ inOpen(f, id) \in InRecord /\ inOpen(f, id).conn = f.conn
         /\ DOMAIN inOpen(f, id).stream = DOMAIN f.stream \cup {id}
<1> DEFINE D == DOMAIN f.stream \cup {id}
           s == [i \in D |-> IF i = id THEN RecvWin ELSE f.stream[i]]
<1>1. D \in SUBSET Windowed /\ s \in [D -> Int]
  BY InShape DEF OriginConstants, FlowConstants
<1>2. inOpen(f, id) = [f EXCEPT !.stream = s]
  BY DEF inOpen
<1> HIDE DEF s
<1>3. s \in StreamWindows /\ DOMAIN s = D
  BY <1>1, WindowsMember
<1> QED BY <1>2, <1>3, InStreams

LEMMA InForgotten ==
  ASSUME NEW f \in InRecord, NEW id
  PROVE  /\ inForget(f, id) \in InRecord /\ inForget(f, id).conn = f.conn
         /\ DOMAIN inForget(f, id).stream = DOMAIN f.stream \ {id}
<1> DEFINE s == Drop(f.stream, id)
<1>1. s \in StreamWindows /\ DOMAIN s = DOMAIN f.stream \ {id}
  BY InShape, DropWindow
<1>2. inForget(f, id) = [f EXCEPT !.stream = s]
  BY DEF inForget
<1> HIDE DEF s
<1> QED BY <1>1, <1>2, InStreams

LEMMA InEmptied ==
  ASSUME NEW f \in InRecord
  PROVE  /\ [f EXCEPT !.stream = << >>] \in InRecord
         /\ [f EXCEPT !.stream = << >>].conn = f.conn
         /\ DOMAIN [f EXCEPT !.stream = << >>].stream = {}
BY NoWindows, InStreams

LEMMA InCredited ==
  ASSUME NEW f \in InRecord, NEW id, NEW n \in Int, f.conn + n >= 0
  PROVE  /\ inCredit(f, id, n) \in InRecord /\ inCredit(f, id, n).conn = f.conn + n
         /\ DOMAIN inCredit(f, id, n).stream = DOMAIN f.stream
<1> DEFINE s == [i \in DOMAIN f.stream |-> IF i = id THEN f.stream[i] + n ELSE f.stream[i]]
           c == f.conn + n
           p == [f EXCEPT !.conn = c]
<1>1. s \in [DOMAIN f.stream -> Int] /\ DOMAIN f.stream \in SUBSET Windowed /\ c \in Nat
  BY InShape
<1>2. inCredit(f, id, n) = [p EXCEPT !.stream = s]
  BY DEF inCredit
<1> HIDE DEF s, c
<1>3. s \in StreamWindows /\ DOMAIN s = DOMAIN f.stream
  BY <1>1, WindowsMember
<1>4. p \in InRecord
  BY <1>1 DEF InRecord
<1>5. p.conn = c
  BY DEF InRecord
<1> HIDE DEF p
<1> QED BY <1>2, <1>3, <1>4, <1>5, InStreams DEF c

LEMMA InTaken ==
  ASSUME NEW f \in InRecord, NEW id, NEW n \in Nat, ~inTakeConnError(f, n)
  PROVE  /\ inTake(f, id, n) \in InRecord /\ inTake(f, id, n).conn = f.conn - n
         /\ DOMAIN inTake(f, id, n).stream = DOMAIN f.stream
<1>1. CASE inTakeStreamError(f, id, n)
  <2> DEFINE c == f.conn - n
  <2>1. c \in Nat /\ inTake(f, id, n) = [f EXCEPT !.conn = c]
    BY <1>1, InShape DEF inTake, inTakeConnError
  <2> HIDE DEF c
  <2>2. [f EXCEPT !.conn = c] \in InRecord
    BY <2>1 DEF InRecord
  <2>3. [f EXCEPT !.conn = c].conn = c /\ [f EXCEPT !.conn = c].stream = f.stream
    BY DEF InRecord
  <2> QED BY <2>1, <2>2, <2>3 DEF c
<1>2. CASE ~inTakeStreamError(f, id, n)
  <2> DEFINE m == -n
  <2>1. inTake(f, id, n) = inCredit(f, id, m)
    BY <1>2 DEF inTake
  <2>2. m \in Int /\ f.conn + m >= 0 /\ f.conn + m = f.conn - n
    BY InShape DEF inTakeConnError
  <2> HIDE DEF m
  <2> QED BY <2>1, <2>2, InCredited
<1> QED BY <1>1, <1>2

\* A frame that fits is taken, and given back at once.
LEMMA InReturned ==
  ASSUME NEW f \in InRecord, NEW id, NEW m, NEW n \in Nat, ~inTakeConnError(f, n)
  PROVE  /\ inCredit(inTake(f, id, n), m, n) \in InRecord
         /\ inCredit(inTake(f, id, n), m, n).conn = f.conn
         /\ DOMAIN inCredit(inTake(f, id, n), m, n).stream = DOMAIN f.stream
<1> DEFINE g == inTake(f, id, n)
<1>1. g \in InRecord /\ g.conn = f.conn - n /\ DOMAIN g.stream = DOMAIN f.stream
  BY InTaken
<1> HIDE DEF g
<1>2. f.conn \in Nat /\ n \in Int /\ g.conn + n >= 0 /\ g.conn + n = f.conn
  BY <1>1, InShape
<1> QED BY <1>1, <1>2, InCredited DEF g

-----------------------------------------------------------------------------
(* The bodies and the streams.                                             *)

LEMMA BodyShape ==
  ASSUME NEW b \in BodyRecord
  PROVE  /\ b.buf \in Nat /\ b.closed \in BOOLEAN /\ b.released \in BOOLEAN
         /\ unreleased(b) \in Nat /\ unreleased(b) <= b.buf
BY DEF BodyRecord, unreleased

LEMMA BodyOperations ==
  ASSUME NEW b \in BodyRecord
  PROVE  /\ bodyClose(b) \in BodyRecord /\ bodyClose(b).closed
         /\ bodyClose(b).released = b.released /\ unreleased(bodyClose(b)) = unreleased(b)
         /\ released(b) \in BodyRecord /\ released(b).closed = b.closed
         /\ released(b).released /\ unreleased(released(b)) = 0
         /\ \A n \in Nat :
              /\ bodyWrite(b, n) \in BodyRecord /\ bodyWrite(b, n).closed = b.closed
              /\ bodyWrite(b, n).released = b.released
              /\ unreleased(bodyWrite(b, n)) = IF b.released THEN 0 ELSE unreleased(b) + n
         /\ newBodyBuf \in BodyRecord /\ ~newBodyBuf.closed /\ ~newBodyBuf.released
         /\ unreleased(newBodyBuf) = 0
<1>1. /\ bodyClose(b) \in BodyRecord /\ bodyClose(b).closed
      /\ bodyClose(b).released = b.released /\ unreleased(bodyClose(b)) = unreleased(b)
  BY DEF bodyClose, BodyRecord, unreleased
<1>2. /\ released(b) \in BodyRecord /\ released(b).closed = b.closed
      /\ released(b).released /\ unreleased(released(b)) = 0
  BY DEF released, BodyRecord, unreleased
<1>3. ASSUME NEW n \in Nat
      PROVE  /\ bodyWrite(b, n) \in BodyRecord /\ bodyWrite(b, n).closed = b.closed
             /\ bodyWrite(b, n).released = b.released
             /\ unreleased(bodyWrite(b, n)) = IF b.released THEN 0 ELSE unreleased(b) + n
  BY DEF bodyWrite, BodyRecord, unreleased
<1>5. /\ newBodyBuf \in BodyRecord /\ ~newBodyBuf.closed /\ ~newBodyBuf.released
      /\ unreleased(newBodyBuf) = 0
  BY DEF newBodyBuf, BodyRecord, unreleased
<1> QED BY <1>1, <1>2, <1>3, <1>5

LEMMA BodyReads ==
  ASSUME NEW b \in BodyRecord, NEW n \in 1 .. b.buf
  PROVE  /\ bodyRead(b, n) \in BodyRecord /\ bodyRead(b, n).closed = b.closed
         /\ bodyRead(b, n).released = b.released
         /\ unreleased(bodyRead(b, n)) = IF b.released THEN 0 ELSE unreleased(b) - n
<1>1. b.buf \in Nat /\ b.buf - n \in Nat
  BY DEF BodyRecord
<1>2. bodyRead(b, n) \in BodyRecord
  BY <1>1 DEF bodyRead, BodyRecord
<1>3. /\ bodyRead(b, n).closed = b.closed /\ bodyRead(b, n).released = b.released
      /\ bodyRead(b, n).buf = b.buf - n
  BY <1>1 DEF bodyRead, BodyRecord
<1> QED BY <1>2, <1>3 DEF unreleased

\* What the invariants read of a stream, when something else of it changes.
SameStream(s, r) ==
  /\ s.fail = r.fail /\ s.aborted = r.aborted /\ s.uploadStopped = r.uploadStopped
  /\ s.uploadDone = r.uploadDone /\ s.responseDone = r.responseDone /\ s.reqOpen = r.reqOpen

LEMMA BodySets ==
  ASSUME NEW s \in StreamRecord, NEW b \in BodyRecord
  PROVE  /\ [s EXCEPT !.body = b] \in StreamRecord /\ [s EXCEPT !.body = b].body = b
         /\ SameStream([s EXCEPT !.body = b], s)
<1>1. [s EXCEPT !.body = b] \in StreamRecord
  BY DEF StreamRecord
<1>2. [s EXCEPT !.body = b].body = b /\ SameStream([s EXCEPT !.body = b], s)
  BY DEF StreamRecord, SameStream
<1> QED BY <1>1, <1>2

LEMMA FailSets ==
  ASSUME NEW s \in StreamRecord
  PROVE  LET r == [s EXCEPT !.aborted = TRUE, !.fail = TRUE, !.reqOpen = FALSE]
         IN  r \in StreamRecord /\ r.body = s.body
<1> DEFINE r == [s EXCEPT !.aborted = TRUE, !.fail = TRUE, !.reqOpen = FALSE]
<1>1. r \in StreamRecord
  BY DEF StreamRecord
<1>2. r.body = s.body
  BY DEF StreamRecord
<1> QED BY <1>1, <1>2

-----------------------------------------------------------------------------
(* The sums over streams and teardowns.                                    *)

LEMMA HeldShape ==
  ASSUME NEW s \in [Ids -> StreamRecord], NEW r \in [Ids -> ReaderRecord], NEW i \in Ids
  PROVE  /\ Held(s, r)[i] = unreleased(s[i].body) + r[i].has
         /\ Held(s, r)[i] \in Nat /\ unreleased(s[i].body) \in Nat /\ r[i].has \in Nat
<1>1. s[i].body \in BodyRecord /\ r[i].has \in Nat
  BY DEF StreamRecord, ReaderRecord
<1>2. unreleased(s[i].body) \in Nat
  BY <1>1, BodyShape
<1> QED BY <1>1, <1>2 DEF Held

\* What one stream holds changes.
LEMMA HeldChanges ==
  ASSUME OriginConstants, NEW s \in [Ids -> StreamRecord], NEW r \in [Ids -> ReaderRecord],
         NEW c \in [Ids -> StreamRecord], NEW y \in [Ids -> ReaderRecord], NEW id \in Ids,
         \A i \in Ids \ {id} : c[i] = s[i] /\ y[i].has = r[i].has
  PROVE  /\ SumFunctionOnSet(Held(s, r), Ids) \in Nat
         /\ SumFunctionOnSet(Held(c, y), Ids) \in Nat
         /\ SumFunctionOnSet(Held(c, y), Ids) + unreleased(s[id].body) + r[id].has =
              SumFunctionOnSet(Held(s, r), Ids) + unreleased(c[id].body) + y[id].has
<1> DEFINE f == Held(s, r)
           g == Held(c, y)
<1>1. \A i \in Ids : f[i] = unreleased(s[i].body) + r[i].has /\ f[i] \in Nat
  BY HeldShape
<1>2. \A i \in Ids : g[i] = unreleased(c[i].body) + y[i].has /\ g[i] \in Nat
  BY HeldShape
<1>3. \A i \in Ids \ {id} : g[i] = f[i]
  BY <1>1, <1>2
<1>4. IsFiniteSet(Ids)
  BY DEF OriginConstants
<1>5. /\ unreleased(s[id].body) \in Nat /\ r[id].has \in Nat
      /\ unreleased(c[id].body) \in Nat /\ y[id].has \in Nat
  BY HeldShape
<1> HIDE DEF f, g
<1>6. \A i \in Ids : f[i] \in Nat /\ g[i] \in Nat
  BY <1>1, <1>2
<1>7. /\ SumFunctionOnSet(f, Ids) \in Nat /\ SumFunctionOnSet(g, Ids) \in Nat
      /\ SumFunctionOnSet(g, Ids) + f[id] = SumFunctionOnSet(f, Ids) + g[id]
  BY <1>3, <1>4, <1>6, SumUpdate
<1>8. f[id] = unreleased(s[id].body) + r[id].has /\ g[id] = unreleased(c[id].body) + y[id].has
  BY <1>1, <1>2
<1>9. SumFunctionOnSet(g, Ids) + unreleased(s[id].body) + r[id].has =
        SumFunctionOnSet(f, Ids) + unreleased(c[id].body) + y[id].has
  BY <1>5, <1>7, <1>8
<1> QED BY <1>7, <1>9 DEF f, g

LEMMA TakenChanges ==
  ASSUME OriginConstants, NEW x \in [Ids -> UploadRecord], NEW y \in [Ids -> UploadRecord],
         NEW id \in Ids, \A i \in Ids \ {id} : y[i] = x[i]
  PROVE  /\ SumFunctionOnSet(Taken(x), Ids) \in Nat /\ SumFunctionOnSet(Taken(y), Ids) \in Nat
         /\ SumFunctionOnSet(Taken(y), Ids) + x[id].has =
              SumFunctionOnSet(Taken(x), Ids) + y[id].has
<1> DEFINE f == Taken(x)
           g == Taken(y)
<1>1. \A i \in Ids : f[i] = x[i].has /\ g[i] = y[i].has
  BY DEF Taken
<1>2. \A i \in Ids : x[i].has \in Nat /\ y[i].has \in Nat
  BY DEF UploadRecord
<1>3. \A i \in Ids \ {id} : g[i] = f[i]
  BY <1>1
<1>4. IsFiniteSet(Ids)
  BY DEF OriginConstants
<1> HIDE DEF f, g
<1>5. \A i \in Ids : f[i] \in Nat /\ g[i] \in Nat
  BY <1>1, <1>2
<1>6. /\ SumFunctionOnSet(f, Ids) \in Nat /\ SumFunctionOnSet(g, Ids) \in Nat
      /\ SumFunctionOnSet(g, Ids) + f[id] = SumFunctionOnSet(f, Ids) + g[id]
  BY <1>3, <1>4, <1>5, SumUpdate
<1>7. f[id] = x[id].has /\ g[id] = y[id].has
  BY <1>1
<1> QED BY <1>6, <1>7 DEF f, g

\* Teardowns come and go with the unread bytes they carry.
LEMMA KeptSums ==
  ASSUME NEW T \in SUBSET TearRecord, IsFiniteSet(T), NEW t \in TearRecord
  PROVE  /\ SumFunctionOnSet(Kept(T), T) \in Nat /\ t.unread \in Nat
         /\ T \cup {t} \in SUBSET TearRecord /\ IsFiniteSet(T \cup {t})
         /\ SumFunctionOnSet(Kept(T \cup {t}), T \cup {t}) \in Nat
         /\ SumFunctionOnSet(Kept(T \cup {t}), T \cup {t}) <=
              SumFunctionOnSet(Kept(T), T) + t.unread
         /\ T \ {t} \in SUBSET TearRecord /\ IsFiniteSet(T \ {t})
         /\ SumFunctionOnSet(Kept(T \ {t}), T \ {t}) \in Nat
         /\ t \in T => SumFunctionOnSet(Kept(T), T) =
                         SumFunctionOnSet(Kept(T \ {t}), T \ {t}) + t.unread
<1> DEFINE R == T \ {t}
           W == T \cup {t}
           f == Kept(W)
           S == SumFunctionOnSet(f, T)
           Q == SumFunctionOnSet(f, R)
<1>1. \A x \in W : f[x] = x.unread /\ f[x] \in Nat
  BY DEF Kept, TearRecord
<1>2. t \in W /\ T \subseteq W /\ R \subseteq T
  OBVIOUS
<1>3. IsFiniteSet(R) /\ IsFiniteSet(W)
  BY FS_RemoveElement, FS_AddElement
<1>4. (\A x \in T : Kept(T)[x] = f[x]) /\ (\A x \in R : Kept(R)[x] = f[x])
  BY DEF Kept
<1> HIDE DEF f
<1>5. S \in Nat /\ SumFunctionOnSet(Kept(T), T) = S
  BY <1>1, <1>4, SumProps
<1>6. Q \in Nat /\ SumFunctionOnSet(Kept(R), R) = Q
  <2>1. \A x \in R : f[x] \in Nat /\ Kept(R)[x] = f[x]
    BY <1>1, <1>2, <1>4
  <2> HIDE DEF R
  <2> QED BY <1>3, <2>1, SumProps
<1>7. f[t] = t.unread /\ t.unread \in Nat
  BY <1>1
<1>8. t \notin T => SumFunctionOnSet(f, W) = S + f[t]
  BY <1>1, <1>2, SumProps
<1>9. t \in T => W = T
  OBVIOUS
<1>10. t \in T => S = Q + f[t]
  BY <1>1, SumWithout
<1>11. SumFunctionOnSet(f, W) \in Nat /\ SumFunctionOnSet(f, W) <= S + t.unread
  <2>1. CASE t \in T
    <3>1. SumFunctionOnSet(f, W) = S
      BY <1>9, <2>1
    <3> HIDE DEF S
    <3> QED BY <1>5, <1>7, <3>1
  <2>2. CASE t \notin T
    <3> HIDE DEF S
    <3> QED BY <1>5, <1>7, <1>8, <2>2
  <2> QED BY <2>1, <2>2
<1>12. SumFunctionOnSet(Kept(W), W) = SumFunctionOnSet(f, W)
  BY DEF f
<1> HIDE DEF S, Q
<1>13. W \in SUBSET TearRecord /\ R \in SUBSET TearRecord
  OBVIOUS
<1> QED BY <1>3, <1>5, <1>6, <1>7, <1>10, <1>11, <1>12, <1>13

LEMMA OriginShape ==
  ASSUME OriginInv
  PROVE  /\ OriginConstants /\ OriginTypes /\ RecvWin \in Nat /\ SendWin \in Nat
         /\ SumFunctionOnSet(Held(st, rd), Ids) \in Nat
         /\ SumFunctionOnSet(Kept(tear), tear) \in Nat
         /\ SumFunctionOnSet(Taken(up), Ids) \in Nat
         /\ loop.n \in Nat /\ loop.pad \in Nat /\ out.conn \in Nat /\ inb.conn \in Nat
         /\ wire \in Nat /\ nextID \in Nat
<1>1. OriginConstants /\ OriginTypes
  BY DEF OriginInv
<1>2. \A i \in Ids : Held(st, rd)[i] \in Nat
  BY <1>1, HeldShape DEF OriginTypes
<1>3. \A t \in tear : Kept(tear)[t] \in Nat
  BY <1>1 DEF Kept, OriginTypes, TearRecord
<1>4. \A i \in Ids : Taken(up)[i] \in Nat
  BY <1>1 DEF Taken, OriginTypes, UploadRecord
<1>5. IsFiniteSet(Ids) /\ IsFiniteSet(tear)
  BY <1>1 DEF OriginTypes, OriginConstants
<1>6. /\ SumFunctionOnSet(Held(st, rd), Ids) \in Nat
      /\ SumFunctionOnSet(Kept(tear), tear) \in Nat
      /\ SumFunctionOnSet(Taken(up), Ids) \in Nat
  BY <1>2, <1>3, <1>4, <1>5, SumProps
<1>7. /\ loop.n \in Nat /\ loop.pad \in Nat /\ out.conn \in Nat /\ inb.conn \in Nat
      /\ RecvWin \in Nat /\ SendWin \in Nat /\ wire \in Nat /\ nextID \in Nat
  BY <1>1 DEF OriginTypes, DataRecord, OutRecord, InRecord, OriginConstants, FlowConstants
<1> QED BY <1>1, <1>6, <1>7

-----------------------------------------------------------------------------
(* What a step keeps that concerns one stream.                             *)

\* A step in which stream i has no part.
Untouched(i) ==
  /\ st'[i] = st[i] /\ call'[i] = call[i] /\ up'[i] = up[i] /\ rd'[i] = rd[i]
  /\ i \in streams' <=> i \in streams
  /\ Torn(tear', i) <=> Torn(tear, i)
  /\ i \in DOMAIN out'.stream <=> i \in DOMAIN out.stream
  /\ i \in DOMAIN inb'.stream <=> i \in DOMAIN inb.stream
  /\ loop'.id = i => loop.id = i

LEMMA UntouchedKeeps ==
  ASSUME OriginConstants, OriginTypes, nextID' \in Nat, nextID <= nextID', blamed \subseteq blamed',
         NEW i \in Ids, StreamInv(i), Untouched(i)
  PROVE  StreamInv(i)'
<1>1. LiveStream(i) => LiveStream(i)'
  BY DEF LiveStream, Untouched
<1>2. Known(i)' => Known(i)
  BY DEF Known, Untouched
<1>3. i \in Nat /\ nextID \in Nat
  BY DEF OriginConstants, OriginTypes
<1>4. Known(i)' => i < nextID'
  BY <1>2, <1>3 DEF StreamInv
<1> QED BY <1>1, <1>4 DEF StreamInv, Untouched

LEMMA StepKeeps ==
  ASSUME OriginInv, OriginTypes', ConnInv', ReceiveInv', SendInv',
         nextID <= nextID', blamed \subseteq blamed',
         NEW id \in Ids, StreamInv(id)', \A i \in Ids \ {id} : Untouched(i)
  PROVE  OriginInv'
<1>1. OriginConstants /\ OriginTypes /\ nextID' \in Nat
  BY DEF OriginInv, OriginTypes
<1>2. ASSUME NEW i \in Ids PROVE StreamInv(i)'
  <2>1. CASE i = id
    BY <2>1
  <2>2. CASE i # id
    <3>1. StreamInv(i) /\ Untouched(i)
      BY <2>2 DEF OriginInv
    <3> QED BY <1>1, <3>1, UntouchedKeeps
  <2> QED BY <2>1, <2>2
<1> QED BY <1>1, <1>2 DEF OriginInv

\* A step in which no stream has a part.
LEMMA NobodyKeeps ==
  ASSUME OriginInv, OriginTypes', ConnInv', ReceiveInv', SendInv',
         nextID <= nextID', blamed \subseteq blamed', \A i \in Ids : Untouched(i)
  PROVE  OriginInv'
<1>1. OriginConstants /\ OriginTypes /\ nextID' \in Nat /\ \A i \in Ids : StreamInv(i)
  BY DEF OriginInv, OriginTypes
<1>2. \A i \in Ids : StreamInv(i)'
  BY <1>1, UntouchedKeeps
<1> QED BY <1>1, <1>2 DEF OriginInv

LEMMA SendStays ==
  ASSUME OriginInv, UNCHANGED up, out'.conn + wire' = out.conn + wire
  PROVE  SendInv'
<1>1. SumFunctionOnSet(Taken(up'), Ids) = SumFunctionOnSet(Taken(up), Ids)
  BY DEF Taken
<1> QED BY <1>1 DEF OriginInv, SendInv

\* The uploader of one stream becomes v: what it has taken is in the connection's
\* account, with the window and the wire.
LEMMA UploaderSets ==
  ASSUME OriginInv, NEW id \in Ids, NEW v \in UploadRecord, up' = [up EXCEPT ![id] = v],
         out'.conn \in Nat, wire' \in Nat,
         out'.conn + wire' + v.has <= out.conn + wire + up[id].has
  PROVE  /\ up' \in [Ids -> UploadRecord] /\ up'[id] = v /\ \A i \in Ids \ {id} : up'[i] = up[i]
         /\ SendInv'
<1> DEFINE S == SumFunctionOnSet(Taken(up), Ids)
           R == SumFunctionOnSet(Taken(up'), Ids)
<1>1. OriginConstants /\ up \in [Ids -> UploadRecord] /\ up[id] \in UploadRecord
  BY OriginShape DEF OriginTypes
<1>2. up' \in [Ids -> UploadRecord] /\ up'[id] = v /\ \A i \in Ids \ {id} : up'[i] = up[i]
  BY <1>1
<1>3. S \in Nat /\ R \in Nat /\ R + up[id].has = S + up'[id].has
  BY <1>1, <1>2, TakenChanges
<1>4. out.conn + wire + S <= SendWin
  BY DEF OriginInv, SendInv
<1>5. /\ v.has \in Nat /\ up[id].has \in Nat /\ SendWin \in Nat /\ out.conn \in Nat /\ wire \in Nat
  BY <1>1, OriginShape DEF UploadRecord
<1> HIDE DEF S, R
<1>6. out'.conn + wire' + R <= SendWin
  BY <1>2, <1>3, <1>4, <1>5
<1> QED BY <1>2, <1>6 DEF SendInv, R

LEMMA UploaderMoves ==
  ASSUME OriginInv, NEW id \in Ids, UNCHANGED wire, out'.conn = out.conn,
         NEW p \in {"none", "start", "read", "take", "write", "eof", "defer", "done"}, Upload(id, p)
  PROVE  /\ up' \in [Ids -> UploadRecord] /\ up'[id].at = p
         /\ \A i \in Ids \ {id} : up'[i] = up[i]
         /\ SendInv'
<1> DEFINE v == [up[id] EXCEPT !.at = p]
<1>1. up[id] \in UploadRecord /\ up[id].has \in Nat /\ out.conn \in Nat /\ wire \in Nat
  BY OriginShape DEF OriginTypes, UploadRecord
<1>2. v \in UploadRecord /\ v.at = p /\ v.has = up[id].has
  BY <1>1 DEF UploadRecord
<1>3. up' = [up EXCEPT ![id] = v]
  BY DEF Upload
<1> HIDE DEF v
<1>4. /\ out'.conn \in Nat /\ wire' \in Nat
      /\ out'.conn + wire' + v.has <= out.conn + wire + up[id].has
  BY <1>1, <1>2
<1> QED BY <1>2, <1>3, <1>4, UploaderSets

LEMMA ReceiveStays ==
  ASSUME OriginInv, UNCHANGED <<st, rd, loop, tear>>, inb'.conn = inb.conn
  PROVE  ReceiveInv'
BY DEF OriginInv, ReceiveInv, Account, Held, Kept

\* One stream changes, and what it and the loop hold moves between them and the window.
LEMMA ReceiveMoves ==
  ASSUME OriginInv, NEW id \in Ids, UNCHANGED tear,
         st' \in [Ids -> StreamRecord], rd' \in [Ids -> ReaderRecord],
         \A i \in Ids \ {id} : st'[i] = st[i] /\ rd'[i].has = rd[i].has,
         inb'.conn \in Nat, loop'.n \in Nat, loop'.pad \in Nat,
         inb'.conn + unreleased(st'[id].body) + rd'[id].has + loop'.n + loop'.pad <=
           inb.conn + unreleased(st[id].body) + rd[id].has + loop.n + loop.pad
  PROVE  ReceiveInv'
<1> DEFINE S == SumFunctionOnSet(Held(st, rd), Ids)
           R == SumFunctionOnSet(Held(st', rd'), Ids)
           K == SumFunctionOnSet(Kept(tear), tear)
<1>1. OriginConstants /\ st \in [Ids -> StreamRecord] /\ rd \in [Ids -> ReaderRecord]
  BY OriginShape DEF OriginTypes
<1>2. /\ S \in Nat /\ R \in Nat
      /\ R + unreleased(st[id].body) + rd[id].has = S + unreleased(st'[id].body) + rd'[id].has
  BY <1>1, HeldChanges
<1>3. /\ unreleased(st[id].body) \in Nat /\ rd[id].has \in Nat
  BY <1>1, HeldShape
<1>4. unreleased(st'[id].body) \in Nat /\ rd'[id].has \in Nat
  BY HeldShape
<1>5. inb.conn + (S + loop.n + loop.pad + K) <= RecvWin
  BY DEF OriginInv, ReceiveInv, Account
<1>6. K \in Nat /\ loop.n \in Nat /\ loop.pad \in Nat /\ inb.conn \in Nat /\ RecvWin \in Nat
  BY OriginShape
<1> HIDE DEF S, R, K
<1>7. inb'.conn + (R + loop'.n + loop'.pad + K) <= RecvWin
  BY <1>2, <1>3, <1>4, <1>5, <1>6
<1> QED BY <1>7 DEF ReceiveInv, Account, R, K, Kept

-----------------------------------------------------------------------------
(* The steps.                                                              *)

\* The steps that only touch send windows and the wire.
LEMMA WindowKeeps ==
  ASSUME OriginInv, UNCHANGED <<connVars, streams, st, inb, call, up, rd, loop, tear, sent, blamed>>,
         out' \in OutRecord, out'.closed = out.closed, DOMAIN out'.stream = DOMAIN out.stream,
         wire' \in Nat, out'.conn + wire' = out.conn + wire
  PROVE  OriginInv'
<1>1. /\ OriginTypes /\ ConnInv
      /\ UNCHANGED <<closed, nextID, pushes, streams, st, inb, call, up, rd, loop, tear, sent,
                     blamed>>
  BY DEF OriginInv, connVars
<1>2. OriginTypes'
  BY <1>1 DEF OriginTypes
<1>3. ConnInv'
  BY <1>1 DEF ConnInv
<1>4. ReceiveInv' /\ SendInv'
  BY <1>1, ReceiveStays, SendStays
<1>5. nextID <= nextID' /\ blamed \subseteq blamed'
  BY <1>1 DEF OriginTypes
<1>6. \A i \in Ids : Untouched(i)
  BY <1>1 DEF Untouched
<1> QED BY <1>2, <1>3, <1>4, <1>5, <1>6, NobodyKeeps

LEMMA WindowUpdateKeeps ==
  ASSUME OriginInv, NEW id, NEW n \in DataSizes, handleWindowUpdate(id, n)
  PROVE  OriginInv'
<1>1. out \in OutRecord /\ n \in Nat /\ wire \in Nat /\ out.conn \in Nat
  BY OriginShape DEF OriginTypes, OriginConstants
<1>2. UNCHANGED <<connVars, streams, st, inb, call, up, rd, loop, tear, sent, blamed>>
  BY DEF handleWindowUpdate
<1>3. CASE n <= wire /\ wire' = wire - n /\ out' = outAddConn(out, n)
  <2>1. /\ out' \in OutRecord /\ out'.conn = out.conn + n /\ out'.closed = out.closed
        /\ out'.stream = out.stream
    BY <1>1, <1>3, OutAddedConn
  <2>2. wire' \in Nat /\ out'.conn + wire' = out.conn + wire
    BY <1>1, <1>3, <2>1
  <2>3. DOMAIN out'.stream = DOMAIN out.stream
    BY <2>1
  <2> QED BY <1>2, <2>1, <2>2, <2>3, WindowKeeps
<1>4. CASE out' = outAdd(out, id, n) /\ UNCHANGED wire
  <2>1. /\ out' \in OutRecord /\ out'.conn = out.conn /\ out'.closed = out.closed
        /\ DOMAIN out'.stream = DOMAIN out.stream
    BY <1>1, <1>4, OutAdded
  <2>2. wire' \in Nat /\ out'.conn + wire' = out.conn + wire
    BY <1>1, <1>4, <2>1
  <2> QED BY <1>2, <2>1, <2>2, WindowKeeps
<1> QED BY <1>3, <1>4 DEF handleWindowUpdate

LEMMA SettingsKeep ==
  ASSUME OriginInv, NEW v \in Windows, handleSettings(v)
  PROVE  OriginInv'
<1>1. out \in OutRecord /\ v \in Nat /\ wire \in Nat /\ out.conn \in Nat
  BY OriginShape DEF OriginTypes, OriginConstants
<1>2. /\ UNCHANGED <<connVars, streams, st, inb, call, up, rd, loop, tear, sent, blamed>>
      /\ out' = applyInitialWindow(out, v) /\ wire' = wire
  BY DEF handleSettings
<1>3. /\ out' \in OutRecord /\ out'.conn = out.conn /\ out'.closed = out.closed
      /\ DOMAIN out'.stream = DOMAIN out.stream
  BY <1>1, <1>2, OutInitial
<1>4. wire' \in Nat /\ out'.conn + wire' = out.conn + wire
  BY <1>1, <1>2, <1>3
<1> QED BY <1>2, <1>3, <1>4, WindowKeeps

\* A teardown begins: unread bytes pass from the body to it, and the stream leaves the map.
LEMMA Forgets ==
  ASSUME OriginInv, NEW id \in Ids, NEW by \in Goroutines, NEW s \in StreamRecord,
         unreleased(s.body) = unreleased(st[id].body), BeginForget(id, by, s)
  PROVE  /\ st' \in [Ids -> StreamRecord] /\ st'[id].fail = s.fail
         /\ \A j \in Ids \ {id} : st'[j] = st[j]
         /\ streams' = streams \ {id}
         /\ tear' \in SUBSET TearRecord /\ IsFiniteSet(tear')
         /\ Torn(tear', id) /\ \A j \in Ids \ {id} : Torn(tear', j) <=> Torn(tear, j)
         /\ SumFunctionOnSet(Held(st', rd), Ids) \in Nat
         /\ SumFunctionOnSet(Kept(tear'), tear') \in Nat
         /\ SumFunctionOnSet(Held(st', rd), Ids) + SumFunctionOnSet(Kept(tear'), tear') <=
              SumFunctionOnSet(Held(st, rd), Ids) + SumFunctionOnSet(Kept(tear), tear)
<1> DEFINE t == IF id \in streams
                  THEN [id |-> id, by |-> by, step |-> "close", unread |-> unreleased(s.body)]
                  ELSE [id |-> id, by |-> by, step |-> "drop", unread |-> 0]
           c == IF id \in streams THEN [s EXCEPT !.body = released(s.body)] ELSE s
           S == SumFunctionOnSet(Held(st, rd), Ids)
           R == SumFunctionOnSet(Held(st', rd), Ids)
           K == SumFunctionOnSet(Kept(tear), tear)
           Q == SumFunctionOnSet(Kept(tear'), tear')
<1>1. /\ OriginConstants /\ st \in [Ids -> StreamRecord] /\ rd \in [Ids -> ReaderRecord]
      /\ tear \in SUBSET TearRecord /\ IsFiniteSet(tear) /\ S \in Nat /\ K \in Nat
  BY OriginShape DEF OriginTypes
<1>2. /\ s.body \in BodyRecord /\ released(s.body) \in BodyRecord
      /\ unreleased(released(s.body)) = 0 /\ unreleased(s.body) \in Nat
  <2>1. s.body \in BodyRecord
    BY DEF StreamRecord
  <2> QED BY <2>1, BodyShape, BodyOperations
<1>3. t \in TearRecord /\ t.id = id /\ t.unread \in Nat
  BY <1>2 DEF TearRecord
<1>4. c \in StreamRecord /\ c.fail = s.fail
  BY <1>2, BodySets DEF SameStream
<1>5. unreleased(c.body) + t.unread = unreleased(s.body)
  <2>1. CASE id \in streams
    <3>1. c.body = released(s.body)
      BY <1>2, <2>1, BodySets
    <3>2. t.unread = unreleased(s.body)
      BY <2>1
    <3> QED BY <1>2, <3>1, <3>2
  <2>2. CASE id \notin streams
    BY <1>2, <2>2
  <2> QED BY <2>1, <2>2
<1>6. streams' = streams \ {id} /\ tear' = tear \cup {t} /\ st' = [st EXCEPT ![id] = c]
  BY DEF BeginForget, SetStream
<1> HIDE DEF t, c
<1>7. st' \in [Ids -> StreamRecord] /\ st'[id] = c /\ \A j \in Ids \ {id} : st'[j] = st[j]
  BY <1>1, <1>4, <1>6
<1>8. /\ tear' \in SUBSET TearRecord /\ IsFiniteSet(tear') /\ Q \in Nat /\ Q <= K + t.unread
  BY <1>1, <1>3, <1>6, KeptSums
<1>9. Torn(tear', id) /\ \A j \in Ids \ {id} : Torn(tear', j) <=> Torn(tear, j)
  BY <1>3, <1>6 DEF Torn
<1>10. R \in Nat /\ R + unreleased(st[id].body) + rd[id].has = S + unreleased(c.body) + rd[id].has
  <2>1. ASSUME NEW x \in [Ids -> StreamRecord], \A i \in Ids \ {id} : x[i] = st[i]
        PROVE  /\ SumFunctionOnSet(Held(x, rd), Ids) \in Nat
               /\ SumFunctionOnSet(Held(x, rd), Ids) + unreleased(st[id].body) + rd[id].has =
                    SumFunctionOnSet(Held(st, rd), Ids) + unreleased(x[id].body) + rd[id].has
    <3>1. \A i \in Ids \ {id} : x[i] = st[i] /\ rd[i].has = rd[i].has
      BY <2>1
    <3> QED BY <1>1, <3>1, HeldChanges
  <2> QED BY <1>7, <2>1
<1>11. rd[id].has \in Nat /\ unreleased(c.body) \in Nat
  <2>1. c.body \in BodyRecord
    BY <1>4 DEF StreamRecord
  <2> QED BY <1>1, <2>1, HeldShape, BodyShape
<1> HIDE DEF S, R, K, Q
<1>12. R + Q <= S + K
  BY <1>1, <1>2, <1>3, <1>5, <1>8, <1>10, <1>11
<1> QED BY <1>4, <1>6, <1>7, <1>8, <1>9, <1>10, <1>12 DEF S, R, K, Q

\* The step that forgets stream id, whatever else it does to id, the loop or the window.
LEMMA ForgetKeeps ==
  ASSUME OriginInv, NEW id \in Ids, id < nextID, NEW by \in Goroutines, NEW s \in StreamRecord,
         unreleased(s.body) = unreleased(st[id].body), BeginForget(id, by, s),
         UNCHANGED <<closed, nextID, pushes, out, wire>>, SendInv',
         call' \in [Ids -> {"idle", "select", "failed", "response"}],
         up' \in [Ids -> UploadRecord], rd' \in [Ids -> ReaderRecord],
         \A j \in Ids \ {id} : call'[j] = call[j] /\ up'[j] = up[j] /\ rd'[j] = rd[j],
         rd'[id].has = rd[id].has, call'[id] \in {"idle", "select"} => rd'[id].at = "none",
         inb' \in InRecord, DOMAIN inb'.stream = DOMAIN inb.stream,
         loop' = loop \/ loop' = NoData,
         inb'.conn + loop'.n + loop'.pad = inb.conn + loop.n + loop.pad,
         sent' \in Nat, blamed' = blamed \/ blamed' = blamed \cup {id},
         call'[id] = "failed" \/ s.fail => id \in blamed'
  PROVE  OriginInv'
<1> DEFINE S == SumFunctionOnSet(Held(st, rd), Ids)
           R == SumFunctionOnSet(Held(st', rd), Ids)
           K == SumFunctionOnSet(Kept(tear), tear)
           Q == SumFunctionOnSet(Kept(tear'), tear')
<1>1. /\ OriginConstants /\ OriginTypes /\ ConnInv /\ StreamInv(id)
      /\ S \in Nat /\ K \in Nat /\ inb.conn \in Nat /\ loop.n \in Nat /\ loop.pad \in Nat
      /\ RecvWin \in Nat
  BY OriginShape DEF OriginInv
<1>2. /\ st' \in [Ids -> StreamRecord] /\ st'[id].fail = s.fail
      /\ \A j \in Ids \ {id} : st'[j] = st[j]
      /\ streams' = streams \ {id}
      /\ tear' \in SUBSET TearRecord /\ IsFiniteSet(tear')
      /\ Torn(tear', id) /\ \A j \in Ids \ {id} : Torn(tear', j) <=> Torn(tear, j)
      /\ R \in Nat /\ Q \in Nat /\ R + Q <= S + K
  BY Forgets
<1>3. loop' \in DataRecord /\ (loop' # NoData => loop'.id \in Ids)
  <2>1. NoData \in DataRecord
    BY DEF NoData, DataRecord
  <2> QED BY <1>1, <2>1 DEF OriginTypes
<1>4. OriginTypes'
  BY <1>1, <1>2, <1>3 DEF OriginTypes
<1>5. ConnInv'
  BY <1>1, <1>2 DEF ConnInv
<1>6. ReceiveInv'
  <2>1. inb.conn + (S + loop.n + loop.pad + K) <= RecvWin
    BY DEF OriginInv, ReceiveInv, Account
  <2>2. Held(st', rd') = Held(st', rd)
    <3>1. \A i \in Ids : rd'[i].has = rd[i].has
      OBVIOUS
    <3> QED BY <3>1 DEF Held
  <2>3. inb'.conn \in Nat /\ loop'.n \in Nat /\ loop'.pad \in Nat
    BY <1>3, InShape DEF DataRecord
  <2> HIDE DEF S, R, K, Q
  <2>4. inb'.conn + (R + loop'.n + loop'.pad + Q) <= RecvWin
    BY <1>1, <1>2, <2>1, <2>3
  <2> QED BY <2>2, <2>4 DEF ReceiveInv, Account, R, Q
<1>7. StreamInv(id)'
  <2>1. id \notin streams' /\ id < nextID'
    BY <1>2
  <2> QED BY <1>2, <2>1 DEF StreamInv
<1>8. \A i \in Ids \ {id} : Untouched(i)
  <2>1. \A i \in Ids \ {id} : i # 0 /\ (i \in streams' <=> i \in streams)
    BY <1>1, <1>2 DEF OriginConstants
  <2>2. \A i \in Ids \ {id} : loop'.id = i => loop.id = i
    BY <2>1 DEF NoData
  <2> QED BY <1>2, <2>1, <2>2 DEF Untouched
<1>9. nextID <= nextID' /\ blamed \subseteq blamed'
  BY <1>1 DEF OriginTypes
<1> QED BY <1>4, <1>5, <1>6, <1>7, <1>8, <1>9, StepKeeps

\* The same for failStream.
LEMMA FailKeeps ==
  ASSUME OriginInv, NEW id \in Ids, id < nextID, NEW by \in Goroutines, NEW s \in StreamRecord,
         unreleased(s.body) = unreleased(st[id].body), BeginFail(id, by, s),
         UNCHANGED <<closed, nextID, pushes, out, wire>>, SendInv',
         call' \in [Ids -> {"idle", "select", "failed", "response"}],
         up' \in [Ids -> UploadRecord], rd' \in [Ids -> ReaderRecord],
         \A j \in Ids \ {id} : call'[j] = call[j] /\ up'[j] = up[j] /\ rd'[j] = rd[j],
         rd'[id].has = rd[id].has, call'[id] \in {"idle", "select"} => rd'[id].at = "none",
         inb' \in InRecord, DOMAIN inb'.stream = DOMAIN inb.stream,
         loop' = loop \/ loop' = NoData,
         inb'.conn + loop'.n + loop'.pad = inb.conn + loop.n + loop.pad,
         sent' \in Nat, blamed' = blamed \/ blamed' = blamed \cup {id},
         id \in streams \/ call'[id] = "failed" \/ s.fail => id \in blamed'
  PROVE  OriginInv'
<1> DEFINE r == [s EXCEPT !.aborted = TRUE, !.fail = TRUE, !.reqOpen = FALSE]
<1>1. CASE id \in streams
  <2>1. r \in StreamRecord /\ r.body = s.body
    BY FailSets
  <2>2. BeginForget(id, by, r)
    BY <1>1 DEF BeginFail
  <2> HIDE DEF r
  <2>3. unreleased(r.body) = unreleased(st[id].body) /\ (call'[id] = "failed" \/ r.fail => id \in blamed')
    BY <1>1, <2>1
  <2> QED BY <2>1, <2>2, <2>3, ForgetKeeps
<1>2. CASE id \notin streams
  <2>1. BeginForget(id, by, s)
    BY <1>2 DEF BeginFail
  <2> QED BY <2>1, ForgetKeeps
<1> QED BY <1>1, <1>2

LEMMA AbortSets ==
  ASSUME NEW s \in StreamRecord, NEW here
  PROVE  LET r == IF here THEN [s EXCEPT !.aborted = TRUE] ELSE s
         IN  r \in StreamRecord /\ r.body = s.body /\ r.fail = s.fail
<1> DEFINE r == [s EXCEPT !.aborted = TRUE]
<1>1. r \in StreamRecord
  BY DEF StreamRecord
<1>2. r.body = s.body /\ r.fail = s.fail
  BY DEF StreamRecord
<1> QED BY <1>1, <1>2

LEMMA CallCancelKeeps ==
  ASSUME OriginInv, NEW id \in Ids, CallCancel(id)
  PROVE  OriginInv'
<1> DEFINE s == IF id \in streams THEN [st[id] EXCEPT !.aborted = TRUE] ELSE st[id]
<1>1. OriginConstants /\ OriginTypes /\ StreamInv(id) /\ st[id] \in StreamRecord
  BY DEF OriginInv, OriginTypes
<1>2. /\ call[id] = "select" /\ call' = [call EXCEPT ![id] = "failed"]
      /\ BeginForget(id, "call", s) /\ blamed' = blamed \cup {id}
      /\ UNCHANGED <<closed, nextID, pushes, out, inb, up, rd, loop, wire, sent>>
  BY DEF CallCancel, Blame, connVars
<1>3. s \in StreamRecord /\ unreleased(s.body) = unreleased(st[id].body)
  BY <1>1, AbortSets
<1> HIDE DEF s
<1>4. id < nextID /\ id \in blamed'
  BY <1>1, <1>2 DEF StreamInv, Known
<1>5. SendInv'
  BY <1>2, SendStays
<1>6. /\ call' \in [Ids -> {"idle", "select", "failed", "response"}] /\ call'[id] = "failed"
      /\ up' \in [Ids -> UploadRecord] /\ rd' \in [Ids -> ReaderRecord]
      /\ \A j \in Ids \ {id} : call'[j] = call[j] /\ up'[j] = up[j] /\ rd'[j] = rd[j]
      /\ rd'[id].has = rd[id].has /\ inb' \in InRecord /\ sent' \in Nat
      /\ DOMAIN inb'.stream = DOMAIN inb.stream /\ loop' = loop
      /\ inb'.conn + loop'.n + loop'.pad = inb.conn + loop.n + loop.pad
  BY <1>1, <1>2 DEF OriginTypes
<1>7. "call" \in Goroutines
  BY DEF Goroutines
<1> QED BY <1>2, <1>3, <1>4, <1>5, <1>6, <1>7, ForgetKeeps

LEMMA CallFailKeeps ==
  ASSUME OriginInv, NEW id \in Ids, CallFail(id)
  PROVE  OriginInv'
<1> DEFINE s == [st[id] EXCEPT !.fail = FALSE]
<1>1. OriginConstants /\ OriginTypes /\ StreamInv(id) /\ st[id] \in StreamRecord
  BY DEF OriginInv, OriginTypes
<1>2. /\ call[id] = "select" /\ st[id].fail /\ call' = [call EXCEPT ![id] = "failed"]
      /\ BeginForget(id, "call", s)
      /\ UNCHANGED <<closed, nextID, pushes, out, inb, up, rd, loop, wire, sent, blamed>>
  BY DEF CallFail, connVars
<1>3. s \in StreamRecord /\ s.body = st[id].body
  <2>1. s \in StreamRecord
    BY <1>1 DEF StreamRecord
  <2>2. s.body = st[id].body
    BY <1>1 DEF StreamRecord
  <2> QED BY <2>1, <2>2
<1> HIDE DEF s
<1>4. id < nextID /\ id \in blamed'
  BY <1>1, <1>2 DEF StreamInv, Known
<1>5. SendInv'
  BY <1>2, SendStays
<1>6. /\ call' \in [Ids -> {"idle", "select", "failed", "response"}] /\ call'[id] = "failed"
      /\ up' \in [Ids -> UploadRecord] /\ rd' \in [Ids -> ReaderRecord]
      /\ \A j \in Ids \ {id} : call'[j] = call[j] /\ up'[j] = up[j] /\ rd'[j] = rd[j]
      /\ rd'[id].has = rd[id].has /\ inb' \in InRecord /\ sent' \in Nat
      /\ DOMAIN inb'.stream = DOMAIN inb.stream /\ loop' = loop
      /\ inb'.conn + loop'.n + loop'.pad = inb.conn + loop.n + loop.pad
  BY <1>1, <1>2 DEF OriginTypes
<1>7. "call" \in Goroutines /\ unreleased(s.body) = unreleased(st[id].body)
  BY <1>3 DEF Goroutines
<1> QED BY <1>2, <1>3, <1>4, <1>5, <1>6, <1>7, ForgetKeeps

LEMMA InformationalKeeps ==
  ASSUME OriginInv, NEW id \in Ids, handleInformational(id)
  PROVE  OriginInv'
<1> DEFINE s == st[id]
<1>1. OriginConstants /\ OriginTypes /\ StreamInv(id) /\ s \in StreamRecord
  BY DEF OriginInv, OriginTypes
<1>2. /\ id \in streams /\ BeginFail(id, "loop", s) /\ blamed' = blamed \cup {id}
      /\ UNCHANGED <<closed, nextID, pushes, out, inb, call, up, rd, loop, wire, sent>>
  BY DEF handleInformational, Blame, connVars
<1>3. id < nextID /\ id \in blamed'
  BY <1>1, <1>2 DEF StreamInv, Known
<1>5. SendInv'
  BY <1>2, SendStays
<1>6. /\ call' \in [Ids -> {"idle", "select", "failed", "response"}]
      /\ call'[id] \in {"idle", "select"} => rd'[id].at = "none"
      /\ up' \in [Ids -> UploadRecord] /\ rd' \in [Ids -> ReaderRecord]
      /\ \A j \in Ids \ {id} : call'[j] = call[j] /\ up'[j] = up[j] /\ rd'[j] = rd[j]
      /\ rd'[id].has = rd[id].has /\ inb' \in InRecord /\ sent' \in Nat
      /\ DOMAIN inb'.stream = DOMAIN inb.stream /\ loop' = loop
      /\ inb'.conn + loop'.n + loop'.pad = inb.conn + loop.n + loop.pad
  BY <1>1, <1>2 DEF OriginTypes, StreamInv
<1>7. "loop" \in Goroutines /\ unreleased(s.body) = unreleased(st[id].body)
  BY DEF Goroutines
<1> HIDE DEF s
<1> QED BY <1>1, <1>2, <1>3, <1>5, <1>6, <1>7, FailKeeps

\* A step that concerns stream id and neither the map nor a teardown.
LEMMA StreamKeeps ==
  ASSUME OriginInv, NEW id \in Ids, UNCHANGED <<closed, nextID, pushes, streams, tear>>,
         st' \in [Ids -> StreamRecord], call' \in [Ids -> {"idle", "select", "failed", "response"}],
         up' \in [Ids -> UploadRecord], rd' \in [Ids -> ReaderRecord],
         \A j \in Ids \ {id} :
           st'[j] = st[j] /\ call'[j] = call[j] /\ up'[j] = up[j] /\ rd'[j] = rd[j],
         out' \in OutRecord, out'.closed = out.closed,
         DOMAIN out'.stream = DOMAIN out.stream \/ DOMAIN out'.stream = DOMAIN out.stream \ {id},
         inb' \in InRecord, DOMAIN inb'.stream = DOMAIN inb.stream,
         loop' = loop \/ loop' = NoData \/ (loop' \in DataRecord /\ loop'.id = id),
         wire' \in Nat, sent' \in Nat, blamed' = blamed \/ blamed' = blamed \cup {id},
         inb'.conn + unreleased(st'[id].body) + rd'[id].has + loop'.n + loop'.pad <=
           inb.conn + unreleased(st[id].body) + rd[id].has + loop.n + loop.pad,
         SendInv', StreamInv(id)'
  PROVE  OriginInv'
<1>1. OriginConstants /\ OriginTypes /\ ConnInv
  BY DEF OriginInv
<1>2. loop' \in DataRecord /\ (loop' # NoData => loop'.id \in Ids)
  <2>1. NoData \in DataRecord
    BY DEF NoData, DataRecord
  <2> QED BY <1>1, <2>1 DEF OriginTypes
<1>3. OriginTypes'
  BY <1>1, <1>2 DEF OriginTypes
<1>4. ConnInv'
  <2>1. DOMAIN out'.stream \subseteq DOMAIN out.stream /\ closed' = closed /\ streams' = streams
        /\ pushes' = pushes
    OBVIOUS
  <2> QED BY <1>1, <2>1 DEF ConnInv
<1>5. ReceiveInv'
  <2>1. inb'.conn \in Nat /\ loop'.n \in Nat /\ loop'.pad \in Nat
    BY <1>2, InShape DEF DataRecord
  <2>2. \A j \in Ids \ {id} : st'[j] = st[j] /\ rd'[j].has = rd[j].has
    OBVIOUS
  <2> QED BY <2>1, <2>2, ReceiveMoves
<1>6. \A i \in Ids \ {id} : Untouched(i)
  <2>1. \A i \in Ids \ {id} : i # 0 /\ (i \in streams' <=> i \in streams)
    BY <1>1 DEF OriginConstants
  <2>2. \A i \in Ids \ {id} : loop'.id = i => loop.id = i
    BY <2>1 DEF NoData
  <2>3. \A i \in Ids \ {id} : (i \in DOMAIN out'.stream <=> i \in DOMAIN out.stream)
                              /\ (i \in DOMAIN inb'.stream <=> i \in DOMAIN inb.stream)
    OBVIOUS
  <2> QED BY <2>1, <2>2, <2>3 DEF Untouched
<1>7. nextID <= nextID' /\ blamed \subseteq blamed'
  BY <1>1 DEF OriginTypes
<1> QED BY <1>3, <1>4, <1>5, <1>6, <1>7, StepKeeps

LEMMA CallHeadersKeeps ==
  ASSUME OriginInv, NEW id \in Ids, CallHeaders(id)
  PROVE  OriginInv'
<1> DEFINE s == [st[id] EXCEPT !.hdr = FALSE]
           v == [rd[id] EXCEPT !.at = "open"]
<1>1. /\ OriginConstants /\ OriginTypes /\ StreamInv(id) /\ st[id] \in StreamRecord
      /\ rd[id] \in ReaderRecord /\ inb.conn \in Nat /\ loop.n \in Nat /\ loop.pad \in Nat
      /\ unreleased(st[id].body) \in Nat /\ rd[id].has \in Nat
  BY OriginShape, HeldShape DEF OriginInv, OriginTypes
<1>2. /\ call[id] = "select" /\ call' = [call EXCEPT ![id] = "response"]
      /\ st' = [st EXCEPT ![id] = s] /\ rd' = [rd EXCEPT ![id] = v]
      /\ UNCHANGED <<closed, nextID, pushes, streams, out, inb, up, loop, tear, wire, sent, blamed>>
  BY DEF CallHeaders, SetStream, connVars
<1>3. s \in StreamRecord /\ s.body = st[id].body /\ SameStream(s, st[id])
  <2>1. s \in StreamRecord
    BY <1>1 DEF StreamRecord
  <2>2. s.body = st[id].body /\ SameStream(s, st[id])
    BY <1>1 DEF StreamRecord, SameStream
  <2> QED BY <2>1, <2>2
<1>4. v \in ReaderRecord /\ v.at = "open" /\ v.has = rd[id].has
  BY <1>1 DEF ReaderRecord
<1> HIDE DEF s, v
<1>5. SendInv'
  BY <1>2, SendStays
<1>6. /\ st' \in [Ids -> StreamRecord] /\ rd' \in [Ids -> ReaderRecord]
      /\ call' \in [Ids -> {"idle", "select", "failed", "response"}] /\ up' \in [Ids -> UploadRecord]
      /\ st'[id] = s /\ rd'[id] = v /\ call'[id] = "response"
      /\ \A j \in Ids \ {id} :
           st'[j] = st[j] /\ call'[j] = call[j] /\ up'[j] = up[j] /\ rd'[j] = rd[j]
  BY <1>1, <1>2, <1>3, <1>4 DEF OriginTypes
<1>7. /\ out' \in OutRecord /\ inb' \in InRecord /\ wire' \in Nat /\ sent' \in Nat
      /\ inb'.conn + unreleased(st'[id].body) + rd'[id].has + loop'.n + loop'.pad <=
           inb.conn + unreleased(st[id].body) + rd[id].has + loop.n + loop.pad
  BY <1>1, <1>2, <1>3, <1>4, <1>6 DEF OriginTypes
<1>8. StreamInv(id)'
  <2>1. LiveStream(id) => LiveStream(id)'
    BY <1>1, <1>2, <1>3, <1>4, <1>6 DEF LiveStream, StreamInv, SameStream
  <2>2. id < nextID
    BY <1>1, <1>2 DEF StreamInv, Known
  <2>3. st'[id].fail = st[id].fail
    BY <1>3, <1>6 DEF SameStream
  <2> QED BY <1>1, <1>2, <1>6, <2>1, <2>2, <2>3 DEF StreamInv
<1> QED BY <1>2, <1>6, <1>7, <1>5, <1>8, StreamKeeps

LEMMA ReadBodyKeeps ==
  ASSUME OriginInv, NEW id \in Ids, ReadBody(id)
  PROVE  OriginInv'
<1>1. /\ OriginConstants /\ OriginTypes /\ StreamInv(id) /\ st[id] \in StreamRecord
      /\ rd[id] \in ReaderRecord /\ inb.conn \in Nat /\ loop.n \in Nat /\ loop.pad \in Nat
      /\ unreleased(st[id].body) \in Nat /\ rd[id].has \in Nat /\ st[id].body \in BodyRecord
  BY OriginShape, HeldShape DEF OriginInv, OriginTypes, StreamRecord
<1>2. PICK n \in 1 .. st[id].body.buf :
        /\ SetStream(id, [st[id] EXCEPT !.body = bodyRead(st[id].body, n)])
        /\ rd' = [rd EXCEPT ![id] = IF st[id].body.released THEN rd[id]
                                    ELSE [at |-> "credit", has |-> n]]
  BY DEF ReadBody
<1> DEFINE b == bodyRead(st[id].body, n)
           s == [st[id] EXCEPT !.body = b]
           v == IF st[id].body.released THEN rd[id] ELSE [at |-> "credit", has |-> n]
<1>3. /\ rd[id].at = "open" /\ st' = [st EXCEPT ![id] = s] /\ rd' = [rd EXCEPT ![id] = v]
      /\ UNCHANGED <<closed, nextID, pushes, streams, out, inb, call, up, loop, tear, wire, sent,
                     blamed>>
  BY <1>2 DEF ReadBody, SetStream, connVars
<1>4. n \in Nat
  <2>1. st[id].body.buf \in Nat
    BY <1>1, BodyShape
  <2> QED BY <2>1
<1>5. v \in ReaderRecord /\ v.at \in {"open", "credit"}
      /\ v.has = IF st[id].body.released THEN rd[id].has ELSE n
  BY <1>1, <1>3, <1>4 DEF ReaderRecord
<1>6. /\ b \in BodyRecord
      /\ unreleased(b) = IF st[id].body.released THEN 0 ELSE unreleased(st[id].body) - n
  BY <1>1, BodyReads
<1>7. st[id].body.released => unreleased(st[id].body) = 0
  BY DEF unreleased
<1> HIDE DEF b, v
<1>8. s \in StreamRecord /\ s.body = b /\ SameStream(s, st[id])
  BY <1>1, <1>6, BodySets
<1> HIDE DEF s
<1>9. SendInv'
  BY <1>3, SendStays
<1>10. /\ st' \in [Ids -> StreamRecord] /\ rd' \in [Ids -> ReaderRecord]
       /\ call' \in [Ids -> {"idle", "select", "failed", "response"}] /\ up' \in [Ids -> UploadRecord]
       /\ st'[id] = s /\ rd'[id] = v
       /\ \A j \in Ids \ {id} :
            st'[j] = st[j] /\ call'[j] = call[j] /\ up'[j] = up[j] /\ rd'[j] = rd[j]
  BY <1>1, <1>3, <1>5, <1>8 DEF OriginTypes
<1>11. unreleased(s.body) + v.has <= unreleased(st[id].body) + rd[id].has
  BY <1>1, <1>4, <1>5, <1>6, <1>7, <1>8, BodyShape
<1>12. unreleased(s.body) \in Nat /\ v.has \in Nat
  BY <1>5, <1>6, <1>8, BodyShape DEF ReaderRecord
<1>13. /\ out' \in OutRecord /\ inb' \in InRecord /\ wire' \in Nat /\ sent' \in Nat
       /\ inb'.conn + unreleased(st'[id].body) + rd'[id].has + loop'.n + loop'.pad <=
            inb.conn + unreleased(st[id].body) + rd[id].has + loop.n + loop.pad
  BY <1>1, <1>3, <1>10, <1>11, <1>12 DEF OriginTypes
<1>14. StreamInv(id)'
  <2>1. LiveStream(id) => LiveStream(id)'
    BY <1>3, <1>5, <1>8, <1>10 DEF LiveStream, SameStream
  <2>2. id < nextID /\ call[id] \notin {"idle", "select"}
    BY <1>1, <1>3 DEF StreamInv, Known
  <2>3. st'[id].fail = st[id].fail
    BY <1>8, <1>10 DEF SameStream
  <2> QED BY <1>1, <1>3, <1>10, <2>1, <2>2, <2>3 DEF StreamInv
<1> QED BY <1>3, <1>9, <1>10, <1>13, <1>14, StreamKeeps

LEMMA ReadCreditKeeps ==
  ASSUME OriginInv, NEW id \in Ids, ReadCredit(id)
  PROVE  OriginInv'
<1> DEFINE n == rd[id].has
           v == [at |-> "open", has |-> 0]
<1>1. /\ OriginConstants /\ OriginTypes /\ StreamInv(id) /\ inb \in InRecord
      /\ inb.conn \in Nat /\ loop.n \in Nat /\ loop.pad \in Nat
      /\ unreleased(st[id].body) \in Nat /\ n \in Nat
  BY OriginShape, HeldShape DEF OriginInv, OriginTypes
<1>2. /\ rd[id].at = "credit" /\ inb' = inCredit(inb, id, n) /\ rd' = [rd EXCEPT ![id] = v]
      /\ UNCHANGED <<closed, nextID, pushes, streams, st, out, call, up, loop, tear, wire, sent,
                     blamed>>
  BY DEF ReadCredit, connVars
<1>3. v \in ReaderRecord /\ v.at = "open" /\ v.has = 0
  BY DEF ReaderRecord
<1> HIDE DEF v
<1>4. inb' \in InRecord /\ inb'.conn = inb.conn + n /\ DOMAIN inb'.stream = DOMAIN inb.stream
  <2>1. n \in Int /\ inb.conn + n >= 0
    BY <1>1
  <2> HIDE DEF n
  <2> QED BY <1>1, <1>2, <2>1, InCredited
<1>5. SendInv'
  BY <1>2, SendStays
<1>6. /\ st' \in [Ids -> StreamRecord] /\ rd' \in [Ids -> ReaderRecord]
      /\ call' \in [Ids -> {"idle", "select", "failed", "response"}] /\ up' \in [Ids -> UploadRecord]
      /\ rd'[id] = v
      /\ \A j \in Ids \ {id} :
           st'[j] = st[j] /\ call'[j] = call[j] /\ up'[j] = up[j] /\ rd'[j] = rd[j]
  BY <1>1, <1>2, <1>3 DEF OriginTypes
<1>7. /\ out' \in OutRecord /\ wire' \in Nat /\ sent' \in Nat
      /\ inb'.conn + unreleased(st'[id].body) + rd'[id].has + loop'.n + loop'.pad <=
           inb.conn + unreleased(st[id].body) + rd[id].has + loop.n + loop.pad
  BY <1>1, <1>2, <1>3, <1>4, <1>6 DEF OriginTypes
<1>8. StreamInv(id)'
  <2>1. LiveStream(id) => LiveStream(id)'
    BY <1>2, <1>3, <1>6 DEF LiveStream
  <2>2. id < nextID /\ call[id] \notin {"idle", "select"}
    BY <1>1, <1>2 DEF StreamInv, Known
  <2> QED BY <1>1, <1>2, <1>4, <2>1, <2>2 DEF StreamInv
<1> QED BY <1>2, <1>4, <1>5, <1>6, <1>7, <1>8, StreamKeeps

LEMMA ReadDoneKeeps ==
  ASSUME OriginInv, NEW id \in Ids, ReadDone(id)
  PROVE  OriginInv'
<1> DEFINE b == bodyClose(st[id].body)
           s == [st[id] EXCEPT !.responseDone = TRUE, !.body = b]
           a == IF id \in streams THEN [s EXCEPT !.aborted = TRUE] ELSE s
           v == [rd[id] EXCEPT !.at = "done"]
<1>1. /\ OriginConstants /\ OriginTypes /\ StreamInv(id) /\ st[id] \in StreamRecord
      /\ rd[id] \in ReaderRecord /\ inb.conn \in Nat /\ loop.n \in Nat /\ loop.pad \in Nat
      /\ unreleased(st[id].body) \in Nat /\ rd[id].has \in Nat /\ st[id].body \in BodyRecord
  BY OriginShape, HeldShape DEF OriginInv, OriginTypes, StreamRecord
<1>2. /\ rd[id].at = "open" /\ rd' = [rd EXCEPT ![id] = v]
      /\ UNCHANGED <<closed, nextID, pushes, out, inb, call, up, loop, wire, sent>>
  BY DEF ReadDone, connVars
<1>3. IF s.ended THEN retire(id, "read", s) /\ blamed' = blamed
      ELSE BeginFail(id, "read", a) /\ blamed' = blamed \cup {id}
  BY DEF ReadDone, Blame
<1>4. b \in BodyRecord /\ unreleased(b) = unreleased(st[id].body)
  BY <1>1, BodyOperations
<1> HIDE DEF b
<1>5. s \in StreamRecord /\ s.body = b /\ SameStream([s EXCEPT !.responseDone = st[id].responseDone], st[id])
      /\ s.responseDone
  <2>1. s \in StreamRecord
    BY <1>1, <1>4 DEF StreamRecord
  <2>2. s.body = b /\ SameStream([s EXCEPT !.responseDone = st[id].responseDone], st[id])
        /\ s.responseDone
    BY <1>1 DEF StreamRecord, SameStream
  <2> QED BY <2>1, <2>2
<1>6. /\ s.fail = st[id].fail /\ s.aborted = st[id].aborted /\ s.reqOpen = st[id].reqOpen
      /\ s.uploadStopped = st[id].uploadStopped /\ s.uploadDone = st[id].uploadDone
  BY <1>1 DEF StreamRecord
<1>7. v \in ReaderRecord /\ v.at = "done" /\ v.has = rd[id].has
  BY <1>1 DEF ReaderRecord
<1> HIDE DEF s, v
<1>8. a \in StreamRecord /\ a.body = b /\ a.fail = s.fail
  BY <1>5, AbortSets
<1> HIDE DEF a
<1>9. id < nextID /\ call[id] \notin {"idle", "select"} /\ id \in Ids
      /\ (call[id] = "failed" \/ st[id].fail => id \in blamed)
  BY <1>1, <1>2 DEF StreamInv, Known
<1>10. SendInv'
  BY <1>2, SendStays
<1>11. /\ call' \in [Ids -> {"idle", "select", "failed", "response"}]
       /\ call'[id] \in {"idle", "select"} => rd'[id].at = "none"
       /\ up' \in [Ids -> UploadRecord] /\ rd' \in [Ids -> ReaderRecord]
       /\ rd'[id] = v
       /\ \A j \in Ids \ {id} : call'[j] = call[j] /\ up'[j] = up[j] /\ rd'[j] = rd[j]
       /\ rd'[id].has = rd[id].has /\ inb' \in InRecord /\ sent' \in Nat /\ wire' \in Nat
       /\ out' \in OutRecord
       /\ DOMAIN inb'.stream = DOMAIN inb.stream /\ loop' = loop
       /\ inb'.conn + loop'.n + loop'.pad = inb.conn + loop.n + loop.pad
  BY <1>1, <1>2, <1>7, <1>9 DEF OriginTypes
<1>12. "read" \in Goroutines /\ unreleased(s.body) = unreleased(st[id].body)
       /\ unreleased(a.body) = unreleased(st[id].body)
  BY <1>4, <1>5, <1>8 DEF Goroutines
<1>13. CASE s.ended /\ s.uploadDone
  <2>1. BeginForget(id, "read", s) /\ blamed' = blamed
    BY <1>3, <1>5, <1>13 DEF retire
  <2>2. call'[id] = "failed" \/ s.fail => id \in blamed'
    BY <1>2, <1>6, <1>9, <2>1
  <2> QED BY <1>2, <1>5, <1>9, <1>10, <1>11, <1>12, <2>1, <2>2, ForgetKeeps
<1>14. CASE s.ended /\ ~s.uploadDone
  <2>1. st' = [st EXCEPT ![id] = s] /\ streams' = streams /\ tear' = tear /\ blamed' = blamed
    BY <1>3, <1>5, <1>14 DEF retire, SetStream
  <2>2. st' \in [Ids -> StreamRecord] /\ st'[id] = s /\ \A j \in Ids \ {id} : st'[j] = st[j]
    BY <1>1, <1>5, <2>1 DEF OriginTypes
  <2>3. inb'.conn + unreleased(st'[id].body) + rd'[id].has + loop'.n + loop'.pad <=
          inb.conn + unreleased(st[id].body) + rd[id].has + loop.n + loop.pad
    BY <1>1, <1>2, <1>12, <1>11, <2>2
  <2>4. StreamInv(id)'
    <3>1. LiveStream(id) => LiveStream(id)'
      BY <1>2, <1>5, <1>6, <1>7, <1>11, <1>14, <2>1, <2>2 DEF LiveStream
    <3> QED BY <1>1, <1>2, <1>6, <1>9, <1>11, <2>1, <2>2, <3>1 DEF StreamInv
  <2> QED BY <1>2, <1>10, <1>11, <2>1, <2>2, <2>3, <2>4, StreamKeeps
<1>15. CASE ~s.ended
  <2>1. BeginFail(id, "read", a) /\ blamed' = blamed \cup {id}
    BY <1>3, <1>15
  <2>2. id \in blamed'
    BY <2>1
  <2> QED BY <1>2, <1>8, <1>9, <1>10, <1>11, <1>12, <2>1, <2>2, FailKeeps
<1> QED BY <1>13, <1>14, <1>15

\* Closing the request body, and marking the upload done with it.
LEMMA RequestCloses ==
  ASSUME NEW s \in StreamRecord
  PROVE  LET c == [s EXCEPT !.reqOpen = FALSE]
             d == [c EXCEPT !.uploadDone = TRUE]
         IN  /\ c \in StreamRecord /\ c.body = s.body /\ c.fail = s.fail
             /\ d \in StreamRecord /\ d.body = s.body /\ d.fail = s.fail
             /\ d.aborted = s.aborted /\ d.uploadStopped = s.uploadStopped
             /\ d.responseDone = s.responseDone /\ d.uploadDone /\ ~d.reqOpen
<1> DEFINE c == [s EXCEPT !.reqOpen = FALSE]
           d == [c EXCEPT !.uploadDone = TRUE]
<1>1. c \in StreamRecord
  BY DEF StreamRecord
<1>2. /\ c.body = s.body /\ c.fail = s.fail /\ c.aborted = s.aborted /\ ~c.reqOpen
      /\ c.uploadStopped = s.uploadStopped /\ c.responseDone = s.responseDone
  BY DEF StreamRecord
<1> HIDE DEF c
<1>3. d \in StreamRecord
  BY <1>1 DEF StreamRecord
<1>4. /\ d.body = c.body /\ d.fail = c.fail /\ d.aborted = c.aborted /\ d.reqOpen = c.reqOpen
      /\ d.uploadStopped = c.uploadStopped /\ d.responseDone = c.responseDone /\ d.uploadDone
  BY <1>1 DEF StreamRecord
<1> HIDE DEF d
<1> QED BY <1>1, <1>2, <1>3, <1>4 DEF c, d

LEMMA UploadStartKeeps ==
  ASSUME OriginInv, NEW id \in Ids, UploadStart(id)
  PROVE  OriginInv'
<1> DEFINE p == IF id \in streams THEN "read" ELSE "done"
           s == [st[id] EXCEPT !.reqOpen = FALSE]
<1>1. /\ OriginConstants /\ OriginTypes /\ StreamInv(id) /\ st[id] \in StreamRecord
      /\ inb.conn \in Nat /\ loop.n \in Nat /\ loop.pad \in Nat
      /\ unreleased(st[id].body) \in Nat /\ rd[id].has \in Nat
  BY OriginShape, HeldShape DEF OriginInv, OriginTypes
<1>2. /\ up[id].at = "start" /\ Upload(id, p)
      /\ IF id \in streams THEN st' = st ELSE st' = [st EXCEPT ![id] = s]
      /\ UNCHANGED <<closed, nextID, pushes, streams, out, inb, call, rd, loop, tear, wire, sent,
                     blamed>>
  BY DEF UploadStart, SetStream, connVars
<1>3. s \in StreamRecord /\ s.body = st[id].body /\ s.fail = st[id].fail
  BY <1>1, RequestCloses
<1> HIDE DEF s
<1>4. /\ up' \in [Ids -> UploadRecord] /\ up'[id].at = p /\ \A i \in Ids \ {id} : up'[i] = up[i]
      /\ SendInv'
  <2>1. p \in {"none", "start", "read", "take", "write", "eof", "defer", "done"}
    OBVIOUS
  <2> HIDE DEF p
  <2> QED BY <1>2, <2>1, UploaderMoves
<1>5. /\ st' \in [Ids -> StreamRecord] /\ st'[id] = IF id \in streams THEN st[id] ELSE s
      /\ \A j \in Ids \ {id} : st'[j] = st[j]
  BY <1>1, <1>2, <1>3 DEF OriginTypes
<1>6. /\ call' \in [Ids -> {"idle", "select", "failed", "response"}] /\ rd' \in [Ids -> ReaderRecord]
      /\ \A j \in Ids \ {id} :
           st'[j] = st[j] /\ call'[j] = call[j] /\ up'[j] = up[j] /\ rd'[j] = rd[j]
      /\ out' \in OutRecord /\ inb' \in InRecord /\ wire' \in Nat /\ sent' \in Nat
  BY <1>1, <1>2, <1>4, <1>5 DEF OriginTypes
<1>7. inb'.conn + unreleased(st'[id].body) + rd'[id].has + loop'.n + loop'.pad <=
        inb.conn + unreleased(st[id].body) + rd[id].has + loop.n + loop.pad
  <2>1. st'[id].body = st[id].body
    BY <1>3, <1>5
  <2> QED BY <1>1, <1>2, <2>1
<1>8. StreamInv(id)'
  <2>1. id \in streams => (LiveStream(id) => LiveStream(id)')
    BY <1>2, <1>4, <1>5 DEF LiveStream
  <2>2. id < nextID
    BY <1>1, <1>2 DEF StreamInv, Known
  <2>3. st'[id].fail = st[id].fail
    BY <1>3, <1>5
  <2> QED BY <1>1, <1>2, <2>1, <2>2, <2>3 DEF StreamInv
<1> QED BY <1>2, <1>4, <1>5, <1>6, <1>7, <1>8, StreamKeeps

\* A step of the uploader that leaves streams, windows of receipt and the map alone.
LEMMA UploadingKeeps ==
  ASSUME OriginInv, NEW id \in Ids,
         UNCHANGED <<closed, nextID, pushes, streams, st, inb, call, rd, loop, tear, sent>>,
         up' \in [Ids -> UploadRecord], \A i \in Ids \ {id} : up'[i] = up[i],
         up[id].at \notin {"none", "defer", "done"},
         up'[id].at \notin {"none", "done"},
         out' \in OutRecord, out'.closed = out.closed, DOMAIN out'.stream = DOMAIN out.stream,
         wire' \in Nat, blamed' = blamed \/ blamed' = blamed \cup {id}, SendInv'
  PROVE  OriginInv'
<1>1. /\ OriginConstants /\ OriginTypes /\ StreamInv(id) /\ st[id] \in StreamRecord
      /\ inb.conn \in Nat /\ loop.n \in Nat /\ loop.pad \in Nat
      /\ unreleased(st[id].body) \in Nat /\ rd[id].has \in Nat
  BY OriginShape, HeldShape DEF OriginInv, OriginTypes
<1>2. /\ st' \in [Ids -> StreamRecord] /\ rd' \in [Ids -> ReaderRecord]
      /\ call' \in [Ids -> {"idle", "select", "failed", "response"}]
      /\ \A j \in Ids \ {id} :
           st'[j] = st[j] /\ call'[j] = call[j] /\ up'[j] = up[j] /\ rd'[j] = rd[j]
      /\ inb' \in InRecord /\ sent' \in Nat /\ DOMAIN inb'.stream = DOMAIN inb.stream
  BY <1>1 DEF OriginTypes
<1>3. inb'.conn + unreleased(st'[id].body) + rd'[id].has + loop'.n + loop'.pad <=
        inb.conn + unreleased(st[id].body) + rd[id].has + loop.n + loop.pad
  BY <1>1
<1>4. StreamInv(id)'
  <2>1. LiveStream(id) => LiveStream(id)'
    BY DEF LiveStream
  <2>2. id < nextID
    BY <1>1 DEF StreamInv, Known
  <2> QED BY <1>1, <2>1, <2>2 DEF StreamInv
<1> QED BY <1>2, <1>3, <1>4, StreamKeeps

LEMMA UploadReadKeeps ==
  ASSUME OriginInv, NEW id \in Ids, UploadRead(id)
  PROVE  OriginInv'
<1>1. /\ OriginConstants /\ OriginTypes /\ up[id] \in UploadRecord
      /\ out.conn \in Nat /\ wire \in Nat /\ up[id].has \in Nat /\ up[id].reads \in Nat
      /\ DataSizes \subseteq Nat
  BY OriginShape DEF OriginInv, OriginTypes, UploadRecord, OriginConstants
<1>2. /\ up[id].at = "read"
      /\ UNCHANGED <<closed, nextID, pushes, streams, st, out, inb, call, rd, loop, tear, wire, sent,
                     blamed>>
  BY DEF UploadRead, connVars
<1>3. ASSUME NEW n \in DataSizes,
             up' = [up EXCEPT ![id] = [at |-> "take", want |-> n, has |-> 0,
                                       reads |-> up[id].reads + 1]]
      PROVE  OriginInv'
  <2> DEFINE v == [at |-> "take", want |-> n, has |-> 0, reads |-> up[id].reads + 1]
  <2>1. v \in UploadRecord /\ v.at = "take" /\ v.has = 0
    BY <1>1 DEF UploadRecord
  <2>2. up' = [up EXCEPT ![id] = v]
    BY <1>3
  <2> HIDE DEF v
  <2>3. /\ out'.conn \in Nat /\ wire' \in Nat
        /\ out'.conn + wire' + v.has <= out.conn + wire + up[id].has
    BY <1>1, <1>2, <2>1
  <2>4. /\ up' \in [Ids -> UploadRecord] /\ up'[id] = v /\ \A i \in Ids \ {id} : up'[i] = up[i]
        /\ SendInv'
    BY <2>1, <2>2, <2>3, UploaderSets
  <2>5. out' \in OutRecord /\ wire' \in Nat
    BY <1>1, <1>2 DEF OriginTypes
  <2> QED BY <1>2, <2>1, <2>4, <2>5, UploadingKeeps
<1>4. ASSUME Upload(id, "eof") PROVE OriginInv'
  <2>1. /\ up' \in [Ids -> UploadRecord] /\ up'[id].at = "eof"
        /\ \A i \in Ids \ {id} : up'[i] = up[i]
    BY <1>2, <1>4, UploaderMoves
  <2>2. out' \in OutRecord /\ wire' \in Nat
    BY <1>1, <1>2 DEF OriginTypes
  <2>3. SendInv'
    BY <1>2, <1>4, UploaderMoves
  <2> QED BY <1>2, <2>1, <2>2, <2>3, UploadingKeeps
<1> QED BY <1>3, <1>4 DEF UploadRead

LEMMA UploadEndKeeps ==
  ASSUME OriginInv, NEW id \in Ids, UploadEnd(id)
  PROVE  OriginInv'
<1>1. /\ up[id].at = "eof" /\ Upload(id, "defer")
      /\ UNCHANGED <<closed, nextID, pushes, streams, st, out, inb, call, rd, loop, tear, wire, sent,
                     blamed>>
  BY DEF UploadEnd, connVars
<1>2. /\ up' \in [Ids -> UploadRecord] /\ up'[id].at = "defer"
      /\ \A i \in Ids \ {id} : up'[i] = up[i]
      /\ SendInv'
  BY <1>1, UploaderMoves
<1>3. out' \in OutRecord /\ wire' \in Nat
  BY <1>1 DEF OriginInv, OriginTypes
<1> QED BY <1>1, <1>2, <1>3, UploadingKeeps

\* The uploader stops before the end of the request body.
LEMMA GivesUpKeeps ==
  ASSUME OriginInv, NEW id \in Ids, up[id].at \in {"read", "take", "write"}, UploadGivesUp(id),
         UNCHANGED <<closed, nextID, pushes, out, inb, call, rd, loop, wire, sent>>,
         blamed' = blamed \/ blamed' = blamed \cup {id},
         id \in streams /\ ~st[id].uploadStopped => id \in blamed'
  PROVE  OriginInv'
<1>1. /\ OriginConstants /\ OriginTypes /\ StreamInv(id) /\ st[id] \in StreamRecord
  BY DEF OriginInv, OriginTypes
<1>2. Upload(id, "defer") /\ IF st[id].uploadStopped THEN UNCHANGED <<streams, st, tear>>
                             ELSE BeginFail(id, "up", st[id])
  BY DEF UploadGivesUp
<1>3. /\ up' \in [Ids -> UploadRecord] /\ up'[id].at = "defer"
      /\ \A i \in Ids \ {id} : up'[i] = up[i]
      /\ SendInv'
  BY <1>2, UploaderMoves
<1>4. out' \in OutRecord /\ wire' \in Nat
  BY <1>1 DEF OriginTypes
<1>5. CASE st[id].uploadStopped
  <2>1. UNCHANGED <<streams, st, tear>>
    BY <1>2, <1>5
  <2> QED BY <1>3, <1>4, <2>1, UploadingKeeps
<1>6. CASE ~st[id].uploadStopped
  <2> DEFINE s == st[id]
  <2>1. BeginFail(id, "up", s) /\ s \in StreamRecord /\ unreleased(s.body) = unreleased(st[id].body)
    BY <1>1, <1>2, <1>6
  <2>2. id < nextID /\ (id \in streams \/ call'[id] = "failed" \/ s.fail => id \in blamed')
    BY <1>1, <1>6 DEF StreamInv, Known
  <2>3. /\ call' \in [Ids -> {"idle", "select", "failed", "response"}]
        /\ call'[id] \in {"idle", "select"} => rd'[id].at = "none"
        /\ rd' \in [Ids -> ReaderRecord]
        /\ \A j \in Ids \ {id} : call'[j] = call[j] /\ up'[j] = up[j] /\ rd'[j] = rd[j]
        /\ rd'[id].has = rd[id].has /\ inb' \in InRecord /\ sent' \in Nat
        /\ DOMAIN inb'.stream = DOMAIN inb.stream /\ loop' = loop
        /\ inb'.conn + loop'.n + loop'.pad = inb.conn + loop.n + loop.pad
    BY <1>1, <1>3 DEF OriginTypes, StreamInv
  <2>4. "up" \in Goroutines
    BY DEF Goroutines
  <2> HIDE DEF s
  <2> QED BY <1>3, <2>1, <2>2, <2>3, <2>4, FailKeeps
<1> QED BY <1>5, <1>6

LEMMA UploadReadErrorKeeps ==
  ASSUME OriginInv, NEW id \in Ids, UploadReadError(id)
  PROVE  OriginInv'
<1>1. StreamInv(id) /\ up[id].at = "read" /\ UploadGivesUp(id)
      /\ UNCHANGED <<closed, nextID, pushes, out, inb, call, rd, loop, wire, sent>>
      /\ blamed' = IF st[id].reqOpen THEN blamed \cup {id} ELSE blamed
  BY DEF OriginInv, UploadReadError, connVars
<1>2. id \in streams /\ ~st[id].uploadStopped => id \in blamed'
  BY <1>1 DEF StreamInv, LiveStream
<1> QED BY <1>1, <1>2, GivesUpKeeps

\* What an uploader takes fits the connection's window and the bytes it has in hand.
LEMMA TakeFits ==
  ASSUME NEW f \in OutRecord, NEW id \in DOMAIN f.stream, MaxFrame \in Nat, NEW k \in Nat,
         outAvail(f, id) > 0
  PROVE  LET n == Least(outAvail(f, id), k) IN n \in Nat /\ n <= f.conn /\ n <= k
<1>1. f.conn \in Nat /\ f.stream[id] \in Int
  BY OutShape
<1>2. outAvail(f, id) \in Nat /\ outAvail(f, id) <= f.conn
  BY <1>1 DEF outAvail, Least
<1> QED BY <1>1, <1>2 DEF Least

LEMMA UploadTakeKeeps ==
  ASSUME OriginInv, NEW id \in Ids, UploadTake(id)
  PROVE  OriginInv'
<1>1. /\ OriginConstants /\ OriginTypes /\ StreamInv(id) /\ ConnInv /\ up[id] \in UploadRecord
      /\ out.conn \in Nat /\ wire \in Nat /\ up[id].has \in Nat /\ up[id].want \in Nat
      /\ out \in OutRecord /\ MaxFrame \in Nat
  BY OriginShape DEF OriginInv, OriginTypes, UploadRecord, OriginConstants, FlowConstants
<1>2. /\ up[id].at = "take"
      /\ UNCHANGED <<closed, nextID, pushes, inb, call, rd, loop, wire, sent, blamed>>
  BY DEF UploadTake, connVars
<1>3. CASE takeFails(out, id)
  <2>1. UploadGivesUp(id) /\ out' = out
    BY <1>3 DEF UploadTake
  <2>2. ~(id \in streams /\ ~st[id].uploadStopped)
    BY <1>1, <1>3 DEF takeFails, ConnInv, StreamInv, LiveStream
  <2> QED BY <1>2, <2>1, <2>2, GivesUpKeeps
<1>4. CASE ~takeFails(out, id)
  <2> DEFINE n == Least(outAvail(out, id), up[id].want)
             left == up[id].want - n
             v == [up[id] EXCEPT !.at = "write", !.has = n, !.want = left]
  <2>1. /\ outAvail(out, id) > 0 /\ out' = outTake(out, id, n) /\ up' = [up EXCEPT ![id] = v]
        /\ UNCHANGED <<streams, st, tear>>
    BY <1>4 DEF UploadTake
  <2>2. id \in DOMAIN out.stream
    BY <1>4 DEF takeFails
  <2>3. n \in Nat /\ n <= out.conn /\ n <= up[id].want
    BY <1>1, <2>1, <2>2, TakeFits
  <2>4. left \in Nat
    BY <1>1, <2>3
  <2> HIDE DEF n, left
  <2>5. v \in UploadRecord /\ v.at = "write" /\ v.has = n
    BY <1>1, <2>3, <2>4 DEF UploadRecord
  <2> HIDE DEF v
  <2>6. /\ out' \in OutRecord /\ out'.conn = out.conn - n /\ out'.closed = out.closed
        /\ DOMAIN out'.stream = DOMAIN out.stream
    BY <1>1, <2>1, <2>2, <2>3, OutTaken
  <2>7. /\ out'.conn \in Nat /\ wire' \in Nat
        /\ out'.conn + wire' + v.has <= out.conn + wire + up[id].has
    BY <1>1, <1>2, <2>3, <2>5, <2>6
  <2>8. /\ up' \in [Ids -> UploadRecord] /\ up'[id] = v /\ \A i \in Ids \ {id} : up'[i] = up[i]
        /\ SendInv'
    BY <2>1, <2>5, <2>7, UploaderSets
  <2> QED BY <1>2, <2>1, <2>5, <2>6, <2>7, <2>8, UploadingKeeps
<1> QED BY <1>3, <1>4

LEMMA UploadWriteKeeps ==
  ASSUME OriginInv, NEW id \in Ids, UploadWrite(id)
  PROVE  OriginInv'
<1>1. /\ OriginConstants /\ OriginTypes /\ StreamInv(id) /\ up[id] \in UploadRecord
      /\ out.conn \in Nat /\ wire \in Nat /\ up[id].has \in Nat /\ out \in OutRecord
  BY OriginShape DEF OriginInv, OriginTypes, UploadRecord
<1>2. /\ up[id].at = "write"
      /\ UNCHANGED <<closed, nextID, pushes, out, inb, call, rd, loop, sent, blamed>>
  BY DEF UploadWrite, connVars
<1>3. CASE st[id].aborted
  <2>1. UploadGivesUp(id) /\ wire' = wire
    BY <1>3 DEF UploadWrite
  <2>2. ~(id \in streams /\ ~st[id].uploadStopped)
    BY <1>1, <1>3 DEF StreamInv, LiveStream
  <2> QED BY <1>2, <2>1, <2>2, GivesUpKeeps
<1>4. CASE ~st[id].aborted
  <2> DEFINE p == IF up[id].want > 0 THEN "take" ELSE "read"
             v == [up[id] EXCEPT !.has = 0, !.at = p]
  <2>1. wire' = wire + up[id].has /\ up' = [up EXCEPT ![id] = v] /\ UNCHANGED <<streams, st, tear>>
    BY <1>4 DEF UploadWrite
  <2>2. p \in {"take", "read"}
    OBVIOUS
  <2> HIDE DEF p
  <2>3. v \in UploadRecord /\ v.at = p /\ v.has = 0
    BY <1>1, <2>2 DEF UploadRecord
  <2> HIDE DEF v
  <2>4. /\ out'.conn \in Nat /\ wire' \in Nat
        /\ out'.conn + wire' + v.has <= out.conn + wire + up[id].has
    BY <1>1, <1>2, <2>1, <2>3
  <2>5. /\ up' \in [Ids -> UploadRecord] /\ up'[id] = v /\ \A i \in Ids \ {id} : up'[i] = up[i]
        /\ SendInv'
    BY <2>1, <2>3, <2>4, UploaderSets
  <2>6. up'[id].at \notin {"none", "done"} /\ up[id].at \notin {"none", "defer", "done"}
    BY <1>2, <2>2, <2>3, <2>5
  <2> QED BY <1>1, <1>2, <2>1, <2>4, <2>5, <2>6, UploadingKeeps
<1> QED BY <1>3, <1>4

LEMMA UploadDeferKeeps ==
  ASSUME OriginInv, NEW id \in Ids, UploadDefer(id)
  PROVE  OriginInv'
<1> DEFINE s == [st[id] EXCEPT !.reqOpen = FALSE]
           d == [s EXCEPT !.uploadDone = TRUE]
           v == [up[id] EXCEPT !.at = "done", !.has = 0]
<1>1. /\ OriginConstants /\ OriginTypes /\ StreamInv(id) /\ st[id] \in StreamRecord
      /\ up[id] \in UploadRecord /\ up[id].has \in Nat /\ out.conn \in Nat /\ wire \in Nat
      /\ inb.conn \in Nat /\ loop.n \in Nat /\ loop.pad \in Nat
      /\ unreleased(st[id].body) \in Nat /\ rd[id].has \in Nat
  BY OriginShape, HeldShape DEF OriginInv, OriginTypes, UploadRecord
<1>2. /\ up[id].at = "defer" /\ up' = [up EXCEPT ![id] = v]
      /\ IF id \in streams THEN retire(id, "up", d)
         ELSE st' = [st EXCEPT ![id] = s] /\ UNCHANGED <<streams, tear>>
      /\ UNCHANGED <<closed, nextID, pushes, out, inb, call, rd, loop, wire, sent, blamed>>
  BY DEF UploadDefer, SetStream, connVars
<1>3. /\ s \in StreamRecord /\ s.body = st[id].body /\ s.fail = st[id].fail
      /\ d \in StreamRecord /\ d.body = st[id].body /\ d.fail = st[id].fail
      /\ d.aborted = st[id].aborted /\ d.uploadStopped = st[id].uploadStopped
      /\ d.responseDone = st[id].responseDone /\ d.uploadDone /\ ~d.reqOpen
  BY <1>1, RequestCloses
<1>4. v \in UploadRecord /\ v.at = "done" /\ v.has = 0
  BY <1>1 DEF UploadRecord
<1> HIDE DEF s, d, v
<1>5. /\ out'.conn \in Nat /\ wire' \in Nat
      /\ out'.conn + wire' + v.has <= out.conn + wire + up[id].has
  BY <1>1, <1>2, <1>4
<1>6. /\ up' \in [Ids -> UploadRecord] /\ up'[id] = v /\ \A i \in Ids \ {id} : up'[i] = up[i]
      /\ SendInv'
  BY <1>2, <1>4, <1>5, UploaderSets
<1>7. /\ call' \in [Ids -> {"idle", "select", "failed", "response"}]
      /\ call'[id] \in {"idle", "select"} => rd'[id].at = "none"
      /\ rd' \in [Ids -> ReaderRecord] /\ out' \in OutRecord
      /\ \A j \in Ids \ {id} : call'[j] = call[j] /\ up'[j] = up[j] /\ rd'[j] = rd[j]
      /\ rd'[id].has = rd[id].has /\ inb' \in InRecord /\ sent' \in Nat
      /\ DOMAIN inb'.stream = DOMAIN inb.stream /\ loop' = loop
      /\ inb'.conn + loop'.n + loop'.pad = inb.conn + loop.n + loop.pad
  BY <1>1, <1>2, <1>6 DEF OriginTypes, StreamInv
<1>8. id < nextID /\ (call[id] = "failed" \/ st[id].fail => id \in blamed)
  BY <1>1, <1>2 DEF StreamInv, Known
<1>9. CASE id \in streams /\ d.responseDone
  <2>1. BeginForget(id, "up", d)
    BY <1>2, <1>3, <1>9 DEF retire
  <2>2. call'[id] = "failed" \/ d.fail => id \in blamed'
    BY <1>2, <1>3, <1>8
  <2>3. "up" \in Goroutines /\ unreleased(d.body) = unreleased(st[id].body)
    BY <1>3 DEF Goroutines
  <2> QED BY <1>2, <1>3, <1>6, <1>7, <1>8, <2>1, <2>2, <2>3, ForgetKeeps
<1>10. CASE ~(id \in streams /\ d.responseDone)
  <2> DEFINE c == IF id \in streams THEN d ELSE s
  <2>1. st' = [st EXCEPT ![id] = c] /\ UNCHANGED <<streams, tear>>
    BY <1>2, <1>10 DEF retire, SetStream
  <2>2. /\ c \in StreamRecord /\ c.body = st[id].body /\ c.fail = st[id].fail
        /\ (id \in streams => c = d)
    BY <1>3
  <2> HIDE DEF c
  <2>3. st' \in [Ids -> StreamRecord] /\ st'[id] = c /\ \A j \in Ids \ {id} : st'[j] = st[j]
    BY <1>1, <2>1, <2>2 DEF OriginTypes
  <2>4. inb'.conn + unreleased(st'[id].body) + rd'[id].has + loop'.n + loop'.pad <=
          inb.conn + unreleased(st[id].body) + rd[id].has + loop.n + loop.pad
    <3>1. st'[id].body = st[id].body
      BY <2>2, <2>3
    <3> QED BY <1>1, <1>2, <1>7, <3>1
  <2>5. StreamInv(id)'
    <3>1. id \in streams /\ LiveStream(id) => LiveStream(id)'
      BY <1>2, <1>3, <1>4, <1>6, <1>10, <2>1, <2>2, <2>3 DEF LiveStream
    <3>2. st'[id].fail = st[id].fail
      BY <2>2, <2>3
    <3> QED BY <1>1, <1>2, <1>8, <2>1, <3>1, <3>2 DEF StreamInv
  <2>6. wire' \in Nat
    BY <1>1, <1>2
  <2> QED BY <1>2, <1>6, <1>7, <2>1, <2>3, <2>4, <2>5, <2>6, StreamKeeps
<1> QED BY <1>9, <1>10

-----------------------------------------------------------------------------
(* A new stream.                                                           *)

LEMMA NewStreams ==
  ASSUME NEW b \in BOOLEAN
  PROVE  LET s == newStream(b)
             c == bodyClose(released(newBodyBuf))
             f == [s EXCEPT !.body = c, !.reqOpen = FALSE]
         IN  /\ s \in StreamRecord /\ s.body = newBodyBuf /\ unreleased(s.body) = 0
             /\ ~s.fail /\ ~s.aborted /\ s.reqOpen = b /\ s.uploadDone = ~b
             /\ f \in StreamRecord /\ unreleased(f.body) = 0
<1> DEFINE s == newStream(b)
           c == bodyClose(released(newBodyBuf))
           f == [s EXCEPT !.body = c, !.reqOpen = FALSE]
<1>1. newBodyBuf \in BodyRecord /\ unreleased(newBodyBuf) = 0
  BY DEF newBodyBuf, BodyRecord, unreleased
<1>2. c \in BodyRecord /\ unreleased(c) = 0
  BY <1>1, BodyOperations
<1> HIDE DEF c
<1>3. s \in StreamRecord /\ s.body = newBodyBuf
  BY <1>1 DEF newStream, StreamRecord
<1>4. ~s.fail /\ ~s.aborted /\ s.reqOpen = b /\ s.uploadDone = ~b
  BY DEF newStream
<1> HIDE DEF s
<1>5. f \in StreamRecord
  BY <1>2, <1>3 DEF StreamRecord
<1>6. f.body = c
  BY <1>3 DEF StreamRecord
<1> QED BY <1>1, <1>2, <1>3, <1>4, <1>5, <1>6 DEF s, c

LEMMA OpenKeeps ==
  ASSUME OriginInv, NEW id \in Ids, NEW hasBody \in BOOLEAN, Open(id, hasBody)
  PROVE  OriginInv'
<1> DEFINE s == newStream(hasBody)
           p == IF hasBody THEN "start" ELSE "none"
<1>1. /\ OriginConstants /\ OriginTypes /\ StreamInv(id) /\ ConnInv /\ nextID \in Nat
      /\ out \in OutRecord /\ inb \in InRecord
      /\ inb.conn \in Nat /\ loop.n \in Nat /\ loop.pad \in Nat
      /\ unreleased(st[id].body) \in Nat /\ rd[id].has \in Nat
  BY OriginShape, HeldShape DEF OriginInv, OriginTypes
<1>2. /\ id = nextID /\ ~closed /\ nextID' = nextID + 1 /\ streams' = streams \cup {id}
      /\ st' = [st EXCEPT ![id] = s] /\ inb' = inOpen(inb, id) /\ out' = outOpen(out, id)
      /\ call' = [call EXCEPT ![id] = "select"] /\ Upload(id, p)
      /\ UNCHANGED <<closed, pushes, rd, loop, tear, wire, sent, blamed>>
  BY DEF Open, SetStream
<1>3. /\ s \in StreamRecord /\ unreleased(s.body) = 0 /\ ~s.fail /\ ~s.aborted
      /\ s.reqOpen = hasBody /\ s.uploadDone = ~hasBody
  BY NewStreams
<1> HIDE DEF s
<1>4. ~Torn(tear, id) /\ rd[id].at = "none" /\ id \notin streams
  BY <1>1, <1>2 DEF StreamInv, Known
<1>5. id \in Windowed /\ ~out.closed
  BY <1>1, <1>2 DEF Windowed, ConnInv
<1>6. /\ out' \in OutRecord /\ out'.conn = out.conn /\ out'.closed = out.closed
      /\ DOMAIN out'.stream = DOMAIN out.stream \cup {id}
  BY <1>1, <1>2, <1>5, OutOpened
<1>7. /\ inb' \in InRecord /\ inb'.conn = inb.conn
      /\ DOMAIN inb'.stream = DOMAIN inb.stream \cup {id}
  BY <1>1, <1>2, <1>5, InOpened
<1>8. /\ up' \in [Ids -> UploadRecord] /\ up'[id].at = p /\ \A i \in Ids \ {id} : up'[i] = up[i]
      /\ SendInv'
  <2>1. p \in {"none", "start", "read", "take", "write", "eof", "defer", "done"}
    OBVIOUS
  <2> HIDE DEF p
  <2> QED BY <1>2, <1>6, <2>1, UploaderMoves
<1>9. /\ st' \in [Ids -> StreamRecord] /\ st'[id] = s
      /\ call' \in [Ids -> {"idle", "select", "failed", "response"}] /\ call'[id] = "select"
      /\ \A j \in Ids \ {id} : st'[j] = st[j] /\ call'[j] = call[j]
  BY <1>1, <1>2, <1>3 DEF OriginTypes
<1>10. OriginTypes'
  <2>1. /\ nextID' \in Nat /\ blamed' \in SUBSET Ids /\ streams' \in SUBSET Ids
        /\ IsFiniteSet(tear')
    BY <1>1, <1>2, <1>6, <1>7, <1>8 DEF OriginTypes
  <2>2. /\ closed' \in BOOLEAN /\ up' \in [Ids -> UploadRecord] /\ rd' \in [Ids -> ReaderRecord]
        /\ loop' \in DataRecord /\ (loop' # NoData => loop'.id \in Ids)
        /\ tear' \in SUBSET TearRecord
        /\ out' \in OutRecord /\ inb' \in InRecord /\ wire' \in Nat /\ sent' \in Nat
    BY <1>1, <1>2, <1>6, <1>7, <1>8 DEF OriginTypes
  <2> QED BY <1>9, <2>1, <2>2 DEF OriginTypes
<1>11. ConnInv'
  <2>1. id \notin PushIds
    BY <1>1 DEF OriginConstants
  <2> QED BY <1>1, <1>2, <1>6, <1>7, <2>1 DEF ConnInv
<1>12. ReceiveInv'
  <2>1. /\ inb'.conn + unreleased(st'[id].body) + rd'[id].has + loop'.n + loop'.pad <=
             inb.conn + unreleased(st[id].body) + rd[id].has + loop.n + loop.pad
        /\ inb'.conn \in Nat /\ loop'.n \in Nat /\ loop'.pad \in Nat
    BY <1>1, <1>2, <1>3, <1>7, <1>9
  <2>2. /\ rd' \in [Ids -> ReaderRecord]
        /\ \A i \in Ids \ {id} : st'[i] = st[i] /\ rd'[i].has = rd[i].has
    BY <1>1, <1>2, <1>9 DEF OriginTypes
  <2> QED BY <1>2, <1>9, <2>1, <2>2, ReceiveMoves
<1>13. StreamInv(id)'
  <2>1. LiveStream(id)'
    BY <1>2, <1>3, <1>4, <1>6, <1>8, <1>9 DEF LiveStream
  <2>2. id < nextID'
    BY <1>1, <1>2
  <2> QED BY <1>2, <1>3, <1>4, <1>9, <2>1, <2>2 DEF StreamInv
<1>14. \A i \in Ids \ {id} : Untouched(i)
  BY <1>2, <1>6, <1>7, <1>8, <1>9 DEF Untouched
<1>15. nextID <= nextID' /\ blamed \subseteq blamed'
  BY <1>1, <1>2
<1> QED BY <1>8, <1>10, <1>11, <1>12, <1>13, <1>14, <1>15, StepKeeps

\* An id is used up without a stream: the HEADERS could not be written, or the
\* connection is closed.
LEMMA NoStreamKeeps ==
  ASSUME OriginInv, NEW id \in Ids, id = nextID, nextID' = nextID + 1,
         UNCHANGED <<closed, pushes, streams, out, inb, up, rd, loop, tear, wire, sent>>,
         call' = [call EXCEPT ![id] = "failed"], blamed' = blamed \cup {id},
         NEW s \in StreamRecord, unreleased(s.body) <= unreleased(st[id].body),
         st' = [st EXCEPT ![id] = s]
  PROVE  OriginInv'
<1>1. /\ OriginConstants /\ OriginTypes /\ StreamInv(id) /\ ConnInv /\ nextID \in Nat
      /\ inb.conn \in Nat /\ loop.n \in Nat /\ loop.pad \in Nat
      /\ unreleased(st[id].body) \in Nat /\ rd[id].has \in Nat
  BY OriginShape, HeldShape DEF OriginInv, OriginTypes
<1>2. id \notin streams
  BY <1>1 DEF StreamInv, Known
<1>3. /\ st' \in [Ids -> StreamRecord] /\ st'[id] = s
      /\ call' \in [Ids -> {"idle", "select", "failed", "response"}] /\ call'[id] = "failed"
      /\ \A j \in Ids \ {id} : st'[j] = st[j] /\ call'[j] = call[j]
  BY <1>1 DEF OriginTypes
<1>4. OriginTypes'
  BY <1>1, <1>3 DEF OriginTypes
<1>5. ConnInv'
  BY <1>1 DEF ConnInv
<1>6. ReceiveInv'
  <2>1. unreleased(s.body) \in Nat
    BY BodyShape DEF StreamRecord
  <2>2. /\ inb'.conn + unreleased(st'[id].body) + rd'[id].has + loop'.n + loop'.pad <=
             inb.conn + unreleased(st[id].body) + rd[id].has + loop.n + loop.pad
        /\ inb'.conn \in Nat /\ loop'.n \in Nat /\ loop'.pad \in Nat
    BY <1>1, <1>3, <2>1
  <2>3. /\ rd' \in [Ids -> ReaderRecord]
        /\ \A i \in Ids \ {id} : st'[i] = st[i] /\ rd'[i].has = rd[i].has
    BY <1>1, <1>3 DEF OriginTypes
  <2> QED BY <1>3, <2>2, <2>3, ReceiveMoves
<1>7. SendInv'
  BY SendStays
<1>8. StreamInv(id)'
  BY <1>1, <1>2, <1>3 DEF StreamInv
<1>9. \A i \in Ids \ {id} : Untouched(i)
  BY <1>3 DEF Untouched
<1>10. nextID <= nextID' /\ blamed \subseteq blamed'
  BY <1>1
<1> QED BY <1>4, <1>5, <1>6, <1>7, <1>8, <1>9, <1>10, StepKeeps

LEMMA OpenFailsKeeps ==
  ASSUME OriginInv, NEW id \in Ids, NEW hasBody \in BOOLEAN, OpenFails(id, hasBody)
  PROVE  OriginInv'
<1> DEFINE s == [newStream(hasBody) EXCEPT !.body = bodyClose(released(newBodyBuf)),
                                            !.reqOpen = FALSE]
<1>1. /\ id = nextID /\ nextID' = nextID + 1
      /\ UNCHANGED <<closed, pushes, streams, out, inb, up, rd, loop, tear, wire, sent>>
      /\ call' = [call EXCEPT ![id] = "failed"] /\ blamed' = blamed \cup {id}
      /\ st' = [st EXCEPT ![id] = s]
  BY DEF OpenFails, SetStream, Blame
<1>2. s \in StreamRecord /\ unreleased(s.body) = 0
  BY NewStreams
<1> HIDE DEF s
<1>3. unreleased(s.body) <= unreleased(st[id].body)
  <2>1. unreleased(st[id].body) \in Nat
    BY OriginShape, HeldShape DEF OriginTypes
  <2> QED BY <1>2, <2>1
<1> QED BY <1>1, <1>2, <1>3, NoStreamKeeps

LEMMA RefusedKeeps ==
  ASSUME OriginInv, NEW id \in Ids, Refused(id)
  PROVE  OriginInv'
<1> DEFINE s == st[id]
<1>1. st \in [Ids -> StreamRecord] /\ unreleased(st[id].body) \in Nat
  BY OriginShape, HeldShape DEF OriginTypes
<1>2. /\ id = nextID /\ nextID' = nextID + 1
      /\ UNCHANGED <<closed, pushes, streams, out, inb, up, rd, loop, tear, wire, sent>>
      /\ call' = [call EXCEPT ![id] = "failed"] /\ blamed' = blamed \cup {id}
      /\ st' = [st EXCEPT ![id] = s]
  BY <1>1 DEF Refused, Blame
<1>3. s \in StreamRecord /\ unreleased(s.body) <= unreleased(st[id].body)
  BY <1>1
<1> HIDE DEF s
<1> QED BY <1>2, <1>3, NoStreamKeeps

-----------------------------------------------------------------------------
(* The loop that reads frames.                                             *)

LEMMA ReadingHolds ==
  ASSUME Reading
  PROVE  ~closed /\ loop = NoData /\ loop.n = 0 /\ loop.pad = 0
BY DEF Reading, NoData

LEMMA HeadersKeep ==
  ASSUME OriginInv, NEW id \in Ids, id < nextID, NEW end \in BOOLEAN, handleHeaders(id, end)
  PROVE  OriginInv'
<1> DEFINE b == IF end THEN bodyClose(st[id].body) ELSE st[id].body
           x == st[id].hdr \/ ~st[id].gotResp
           y == st[id].ended \/ end
           s == [st[id] EXCEPT !.gotResp = TRUE, !.hdr = x, !.ended = y, !.body = b]
<1>1. /\ OriginConstants /\ OriginTypes /\ StreamInv(id) /\ st[id] \in StreamRecord
      /\ inb.conn \in Nat /\ loop.n \in Nat /\ loop.pad \in Nat
      /\ unreleased(st[id].body) \in Nat /\ rd[id].has \in Nat /\ st[id].body \in BodyRecord
  BY OriginShape, HeldShape DEF OriginInv, OriginTypes, StreamRecord
<1>2. /\ st' = [st EXCEPT ![id] = s]
      /\ UNCHANGED <<closed, nextID, pushes, streams, out, inb, call, up, rd, loop, tear, wire, sent,
                     blamed>>
  BY DEF handleHeaders, SetStream, connVars
<1>3. b \in BodyRecord /\ unreleased(b) = unreleased(st[id].body) /\ x \in BOOLEAN /\ y \in BOOLEAN
  BY <1>1, BodyOperations
<1> HIDE DEF b, x, y
<1>4. s \in StreamRecord /\ s.body = b /\ SameStream(s, st[id])
  <2>1. st[id] \in StreamRecord /\ b \in BodyRecord /\ x \in BOOLEAN /\ y \in BOOLEAN
    BY <1>1, <1>3
  <2>2. s \in StreamRecord
    BY <2>1 DEF StreamRecord
  <2>3. s.body = b /\ SameStream(s, st[id])
    BY <2>1 DEF StreamRecord, SameStream
  <2> QED BY <2>2, <2>3
<1> HIDE DEF s
<1>5. SendInv'
  BY <1>2, SendStays
<1>6. /\ st' \in [Ids -> StreamRecord] /\ rd' \in [Ids -> ReaderRecord]
      /\ call' \in [Ids -> {"idle", "select", "failed", "response"}] /\ up' \in [Ids -> UploadRecord]
      /\ st'[id] = s
      /\ \A j \in Ids \ {id} :
           st'[j] = st[j] /\ call'[j] = call[j] /\ up'[j] = up[j] /\ rd'[j] = rd[j]
      /\ out' \in OutRecord /\ inb' \in InRecord /\ wire' \in Nat /\ sent' \in Nat
  BY <1>1, <1>2, <1>4 DEF OriginTypes
<1>7. inb'.conn + unreleased(st'[id].body) + rd'[id].has + loop'.n + loop'.pad <=
        inb.conn + unreleased(st[id].body) + rd[id].has + loop.n + loop.pad
  BY <1>1, <1>2, <1>3, <1>4, <1>6
<1>8. StreamInv(id)'
  <2>1. LiveStream(id) => LiveStream(id)'
    BY <1>2, <1>4, <1>6 DEF LiveStream, SameStream
  <2>2. st'[id].fail = st[id].fail
    BY <1>4, <1>6 DEF SameStream
  <2> QED BY <1>1, <1>2, <2>1, <2>2 DEF StreamInv
<1> QED BY <1>2, <1>5, <1>6, <1>7, <1>8, StreamKeeps

LEMMA StopSets ==
  ASSUME NEW s \in StreamRecord
  PROVE  LET r == [s EXCEPT !.uploadStopped = TRUE, !.aborted = TRUE, !.reqOpen = FALSE]
         IN  /\ r \in StreamRecord /\ r.body = s.body /\ r.fail = s.fail /\ r.uploadStopped
             /\ r.uploadDone = s.uploadDone /\ r.responseDone = s.responseDone
<1> DEFINE r == [s EXCEPT !.uploadStopped = TRUE, !.aborted = TRUE, !.reqOpen = FALSE]
<1>1. r \in StreamRecord
  BY DEF StreamRecord
<1>2. /\ r.body = s.body /\ r.fail = s.fail /\ r.uploadStopped
      /\ r.uploadDone = s.uploadDone /\ r.responseDone = s.responseDone
  BY DEF StreamRecord
<1> QED BY <1>1, <1>2

LEMMA RSTKeeps ==
  ASSUME OriginInv, NEW id \in Ids, id < nextID, NEW noError \in BOOLEAN, handleRST(id, noError)
  PROVE  OriginInv'
<1>1. /\ OriginConstants /\ OriginTypes /\ StreamInv(id) /\ st[id] \in StreamRecord
      /\ inb.conn \in Nat /\ loop.n \in Nat /\ loop.pad \in Nat /\ out \in OutRecord
      /\ unreleased(st[id].body) \in Nat /\ rd[id].has \in Nat
  BY OriginShape, HeldShape DEF OriginInv, OriginTypes
<1>2. UNCHANGED <<closed, nextID, pushes, inb, call, up, rd, loop, wire, sent>>
  BY DEF handleRST, connVars
<1>3. /\ rd' \in [Ids -> ReaderRecord] /\ up' \in [Ids -> UploadRecord]
      /\ call' \in [Ids -> {"idle", "select", "failed", "response"}]
      /\ \A j \in Ids \ {id} : call'[j] = call[j] /\ up'[j] = up[j] /\ rd'[j] = rd[j]
      /\ inb' \in InRecord /\ wire' \in Nat /\ sent' \in Nat
      /\ call'[id] \in {"idle", "select"} => rd'[id].at = "none"
  BY <1>1, <1>2 DEF OriginTypes, StreamInv
<1>4. CASE noError /\ stopCompletedUpload(id)
  <2> DEFINE s == [st[id] EXCEPT !.uploadStopped = TRUE, !.aborted = TRUE, !.reqOpen = FALSE]
  <2>1. /\ st' = [st EXCEPT ![id] = s] /\ out' = outForget(out, id)
        /\ UNCHANGED <<streams, tear, blamed>>
    BY <1>4 DEF handleRST, SetStream
  <2>2. /\ s \in StreamRecord /\ s.body = st[id].body /\ s.fail = st[id].fail /\ s.uploadStopped
        /\ s.uploadDone = st[id].uploadDone /\ s.responseDone = st[id].responseDone
    BY <1>1, StopSets
  <2> HIDE DEF s
  <2>3. /\ out' \in OutRecord /\ out'.conn = out.conn /\ out'.closed = out.closed
        /\ DOMAIN out'.stream = DOMAIN out.stream \ {id}
    BY <1>1, <2>1, OutForgotten
  <2>4. SendInv'
    BY <1>2, <2>3, SendStays
  <2>5. st' \in [Ids -> StreamRecord] /\ st'[id] = s /\ \A j \in Ids \ {id} : st'[j] = st[j]
    BY <1>1, <2>1, <2>2 DEF OriginTypes
  <2>6. inb'.conn + unreleased(st'[id].body) + rd'[id].has + loop'.n + loop'.pad <=
          inb.conn + unreleased(st[id].body) + rd[id].has + loop.n + loop.pad
    BY <1>1, <1>2, <2>2, <2>5
  <2>7. StreamInv(id)'
    <3>1. LiveStream(id) => LiveStream(id)'
      BY <1>2, <2>1, <2>2, <2>5 DEF LiveStream
    <3>2. st'[id].fail = st[id].fail
      BY <2>2, <2>5
    <3> QED BY <1>1, <1>2, <2>1, <2>3, <3>1, <3>2 DEF StreamInv
  <2> QED BY <1>2, <1>3, <2>1, <2>3, <2>4, <2>5, <2>6, <2>7, StreamKeeps
<1>5. CASE ~(noError /\ stopCompletedUpload(id))
  <2> DEFINE s == st[id]
  <2>1. /\ BeginFail(id, "loop", s) /\ out' = out
        /\ blamed' = IF noError /\ st[id].gotResp /\ st[id].ended THEN blamed ELSE blamed \cup {id}
    BY <1>5 DEF handleRST
  <2>2. id \in streams \/ call'[id] = "failed" \/ s.fail => id \in blamed'
    BY <1>1, <1>2, <1>5, <2>1 DEF stopCompletedUpload, StreamInv
  <2>3. "loop" \in Goroutines /\ s \in StreamRecord /\ unreleased(s.body) = unreleased(st[id].body)
    BY <1>1 DEF Goroutines
  <2>4. SendInv'
    BY <1>2, <2>1, SendStays
  <2>5. /\ rd'[id].has = rd[id].has /\ DOMAIN inb'.stream = DOMAIN inb.stream /\ loop' = loop
        /\ inb'.conn + loop'.n + loop'.pad = inb.conn + loop.n + loop.pad
        /\ (blamed' = blamed \/ blamed' = blamed \cup {id})
    BY <1>2, <2>1
  <2> HIDE DEF s
  <2> QED BY <1>2, <1>3, <2>1, <2>2, <2>3, <2>4, <2>5, FailKeeps
<1> QED BY <1>4, <1>5

\* The connection is over for every stream.
LEMMA FailAllKeeps ==
  ASSUME OriginInv, failAll, UNCHANGED <<nextID, call, up, rd, loop, tear, wire>>, sent' \in Nat
  PROVE  OriginInv'
<1>1. OriginConstants /\ OriginTypes /\ ConnInv /\ out \in OutRecord /\ inb \in InRecord
  BY DEF OriginInv, OriginTypes
<1>2. /\ closed' = TRUE /\ out' = [outClose(out) EXCEPT !.stream = << >>]
      /\ streams' = {} /\ pushes' = << >> /\ blamed' = blamed \cup streams
      /\ inb' = [inb EXCEPT !.stream = << >>]
      /\ st' = [i \in Ids |-> IF i \notin streams THEN st[i]
                  ELSE [st[i] EXCEPT !.aborted = TRUE, !.fail = TRUE, !.reqOpen = FALSE,
                                     !.body = bodyClose(st[i].body)]]
  BY DEF failAll
<1>3. ASSUME NEW i \in Ids
      PROVE  /\ st'[i] \in StreamRecord /\ unreleased(st'[i].body) = unreleased(st[i].body)
             /\ i \notin streams => st'[i] = st[i]
  <2> DEFINE b == bodyClose(st[i].body)
             s == [st[i] EXCEPT !.aborted = TRUE, !.fail = TRUE, !.reqOpen = FALSE, !.body = b]
  <2>1. st[i] \in StreamRecord /\ st[i].body \in BodyRecord
    BY <1>1 DEF OriginTypes, StreamRecord
  <2>2. b \in BodyRecord /\ unreleased(b) = unreleased(st[i].body)
    BY <2>1, BodyOperations
  <2>3. st'[i] = IF i \notin streams THEN st[i] ELSE s
    BY <1>2
  <2> HIDE DEF b
  <2>4. s \in StreamRecord
    BY <2>1, <2>2 DEF StreamRecord
  <2>5. s.body = b
    BY <2>1 DEF StreamRecord
  <2> HIDE DEF s
  <2> QED BY <2>1, <2>2, <2>3, <2>4, <2>5
<1>4. st' \in [Ids -> StreamRecord]
  <2>1. st' = [i \in Ids |-> st'[i]]
    BY <1>2
  <2> QED BY <1>3, <2>1
<1>5. /\ out' \in OutRecord /\ out'.conn = out.conn /\ DOMAIN out'.stream = {}
  BY <1>1, <1>2, OutClosed
<1>6. inb' \in InRecord /\ inb'.conn = inb.conn /\ DOMAIN inb'.stream = {}
  BY <1>1, <1>2, InEmptied
<1>7. OriginTypes'
  <2>1. nextID' \in Nat /\ blamed' \in SUBSET Ids /\ streams' \in SUBSET Ids /\ IsFiniteSet(tear')
    BY <1>1, <1>2 DEF OriginTypes
  <2>2. /\ closed' \in BOOLEAN /\ up' \in [Ids -> UploadRecord] /\ rd' \in [Ids -> ReaderRecord]
        /\ call' \in [Ids -> {"idle", "select", "failed", "response"}]
        /\ loop' \in DataRecord /\ (loop' # NoData => loop'.id \in Ids)
        /\ tear' \in SUBSET TearRecord /\ wire' \in Nat
    BY <1>1, <1>2 DEF OriginTypes
  <2> QED BY <1>4, <1>5, <1>6, <2>1, <2>2 DEF OriginTypes
<1>8. ConnInv'
  BY <1>2, <1>5, <1>6 DEF ConnInv
<1>9. ReceiveInv'
  <2>1. Held(st', rd') = Held(st, rd)
    BY <1>3 DEF Held
  <2>2. Kept(tear') = Kept(tear)
    BY DEF Kept
  <2> QED BY <1>6, <2>1, <2>2 DEF OriginInv, ReceiveInv, Account
<1>10. SendInv'
  BY <1>5, SendStays
<1>11. ASSUME NEW i \in Ids PROVE StreamInv(i)'
  <2>1. StreamInv(i) /\ nextID' = nextID
    BY DEF OriginInv
  <2>2. call'[i] = "failed" \/ st'[i].fail => i \in blamed'
    BY <1>2, <1>3, <2>1 DEF StreamInv
  <2>3. call'[i] \in {"idle", "select"} => rd'[i].at = "none"
    BY <2>1 DEF StreamInv
  <2>4. Known(i)' => i < nextID'
    BY <1>2, <2>1 DEF StreamInv, Known
  <2> QED BY <1>2, <1>5, <1>6, <2>2, <2>3, <2>4 DEF StreamInv
<1> QED BY <1>1, <1>7, <1>8, <1>9, <1>10, <1>11 DEF OriginInv

LEMMA DataKeeps ==
  ASSUME OriginInv, NEW id \in Ids, id < nextID, NEW n \in DataSizes, NEW pad \in Pads,
         NEW end \in BOOLEAN, handleData(id, n, pad, end)
  PROVE  OriginInv'
<1> DEFINE k == n + pad
<1>1. /\ OriginConstants /\ OriginTypes /\ StreamInv(id) /\ st[id] \in StreamRecord
      /\ inb.conn \in Nat /\ loop.n \in Nat /\ loop.pad \in Nat /\ inb \in InRecord
      /\ unreleased(st[id].body) \in Nat /\ rd[id].has \in Nat /\ sent \in Nat
      /\ n \in Nat /\ pad \in Nat
  BY OriginShape, HeldShape DEF OriginInv, OriginTypes, OriginConstants
<1>2. ~closed /\ loop = NoData /\ loop.n = 0 /\ loop.pad = 0
  BY ReadingHolds DEF handleData
<1>3. UNCHANGED <<call, up, rd, wire>> /\ k \in Nat /\ sent' \in Nat
  BY <1>1 DEF handleData
<1>4. /\ call' \in [Ids -> {"idle", "select", "failed", "response"}]
      /\ call'[id] \in {"idle", "select"} => rd'[id].at = "none"
      /\ up' \in [Ids -> UploadRecord] /\ rd' \in [Ids -> ReaderRecord]
      /\ \A j \in Ids \ {id} : call'[j] = call[j] /\ up'[j] = up[j] /\ rd'[j] = rd[j]
      /\ rd'[id].has = rd[id].has /\ wire' \in Nat /\ out \in OutRecord
  BY <1>1, <1>3 DEF OriginTypes, StreamInv
<1>5. CASE inTakeConnError(inb, k) /\ failAll /\ UNCHANGED <<nextID, loop, tear>>
  BY <1>3, <1>5, FailAllKeeps
<1>6. CASE /\ ~inTakeConnError(inb, k) /\ inb' = inCredit(inTake(inb, id, k), 0, k)
           /\ BeginFail(id, "loop",
                        IF id \in streams THEN [st[id] EXCEPT !.aborted = TRUE] ELSE st[id])
           /\ Blame(id) /\ UNCHANGED <<connVars, out, loop>>
  <2> DEFINE s == IF id \in streams THEN [st[id] EXCEPT !.aborted = TRUE] ELSE st[id]
  <2>1. /\ BeginFail(id, "loop", s) /\ blamed' = blamed \cup {id} /\ loop' = loop
        /\ UNCHANGED <<closed, nextID, pushes, out, wire>>
    BY <1>3, <1>6 DEF Blame, connVars
  <2>2. s \in StreamRecord /\ unreleased(s.body) = unreleased(st[id].body)
    BY <1>1, AbortSets
  <2> HIDE DEF s
  <2>3. /\ inb' \in InRecord /\ inb'.conn = inb.conn /\ DOMAIN inb'.stream = DOMAIN inb.stream
    <3> HIDE DEF k
    <3> QED BY <1>1, <1>3, <1>6, InReturned
  <2>4. inb'.conn + loop'.n + loop'.pad = inb.conn + loop.n + loop.pad /\ id \in blamed'
    BY <2>1, <2>3
  <2>5. SendInv'
    BY <1>3, <2>1, SendStays
  <2>6. "loop" \in Goroutines
    BY DEF Goroutines
  <2> QED BY <1>3, <1>4, <2>1, <2>2, <2>3, <2>4, <2>5, <2>6, FailKeeps
<1>7. CASE /\ ~inTakeConnError(inb, k) /\ id \in streams /\ inb' = inTake(inb, id, k)
           /\ loop' = [id |-> id, n |-> n, pad |-> pad, end |-> end]
           /\ UNCHANGED <<connVars, streams, st, out, tear, blamed>>
  <2>1. inb' \in InRecord /\ inb'.conn = inb.conn - k /\ DOMAIN inb'.stream = DOMAIN inb.stream
    <3> HIDE DEF k
    <3> QED BY <1>1, <1>3, <1>7, InTaken
  <2>2. /\ loop' \in DataRecord /\ loop'.id = id /\ loop'.n = n /\ loop'.pad = pad
    BY <1>1, <1>7 DEF DataRecord
  <2>3. UNCHANGED <<closed, nextID, pushes, streams, st, out, tear, blamed>>
    BY <1>7 DEF connVars
  <2>4. inb'.conn + unreleased(st'[id].body) + rd'[id].has + loop'.n + loop'.pad <=
          inb.conn + unreleased(st[id].body) + rd[id].has + loop.n + loop.pad
    BY <1>1, <1>2, <1>3, <2>1, <2>2, <2>3
  <2>5. SendInv'
    BY <1>3, <2>3, SendStays
  <2>6. StreamInv(id)'
    <3>1. LiveStream(id) => LiveStream(id)'
      BY <1>3, <2>3 DEF LiveStream
    <3> QED BY <1>1, <1>3, <2>1, <2>3, <3>1 DEF StreamInv
  <2>7. st' \in [Ids -> StreamRecord] /\ \A j \in Ids \ {id} : st'[j] = st[j]
    BY <1>1, <2>3 DEF OriginTypes
  <2> QED BY <1>3, <1>4, <2>1, <2>2, <2>3, <2>4, <2>5, <2>6, <2>7, StreamKeeps
<1>8. CASE /\ ~inTakeConnError(inb, k) /\ inb' = inCredit(inTake(inb, id, k), 0, k)
           /\ loop' = loop /\ UNCHANGED <<connVars, streams, st, out, tear, blamed>>
  <2>1. /\ inb' \in InRecord /\ inb'.conn = inb.conn /\ DOMAIN inb'.stream = DOMAIN inb.stream
    <3> HIDE DEF k
    <3> QED BY <1>1, <1>3, <1>8, InReturned
  <2>2. UNCHANGED <<closed, nextID, pushes, streams, st, out, tear, blamed>>
    BY <1>8 DEF connVars
  <2>3. inb'.conn + unreleased(st'[id].body) + rd'[id].has + loop'.n + loop'.pad <=
          inb.conn + unreleased(st[id].body) + rd[id].has + loop.n + loop.pad
    BY <1>1, <1>3, <1>8, <2>1, <2>2
  <2>4. SendInv'
    BY <1>3, <2>2, SendStays
  <2>5. StreamInv(id)'
    <3>1. LiveStream(id) => LiveStream(id)'
      BY <1>3, <2>2 DEF LiveStream
    <3> QED BY <1>1, <1>3, <2>1, <2>2, <3>1 DEF StreamInv
  <2>6. st' \in [Ids -> StreamRecord] /\ \A j \in Ids \ {id} : st'[j] = st[j]
    BY <1>1, <2>2 DEF OriginTypes
  <2> QED BY <1>3, <1>4, <1>8, <2>1, <2>2, <2>3, <2>4, <2>5, <2>6, StreamKeeps
<1> HIDE DEF k
<1> QED BY <1>5, <1>6, <1>7, <1>8 DEF handleData, k

LEMMA DataWriteKeeps ==
  ASSUME OriginInv, NEW id \in Ids, id = loop.id, dataWrite
  PROVE  OriginInv'
<1> DEFINE k == loop.n + loop.pad
<1>1. loop # NoData /\ loop' = NoData /\ UNCHANGED <<closed, nextID, pushes, out, call, up, rd, wire, sent>>
  BY DEF dataWrite, connVars
<1>3. /\ OriginConstants /\ OriginTypes /\ StreamInv(id) /\ st[id] \in StreamRecord
      /\ inb.conn \in Nat /\ loop.n \in Nat /\ loop.pad \in Nat /\ inb \in InRecord
      /\ unreleased(st[id].body) \in Nat /\ rd[id].has \in Nat /\ st[id].body \in BodyRecord
      /\ loop.end \in BOOLEAN
  BY OriginShape, HeldShape DEF OriginInv, OriginTypes, StreamRecord, DataRecord
<1>4. id < nextID
  BY <1>3 DEF StreamInv, Known
<1>5. loop'.n = 0 /\ loop'.pad = 0
  BY <1>1 DEF NoData
<1>6. /\ call' \in [Ids -> {"idle", "select", "failed", "response"}]
      /\ call'[id] \in {"idle", "select"} => rd'[id].at = "none"
      /\ up' \in [Ids -> UploadRecord] /\ rd' \in [Ids -> ReaderRecord]
      /\ \A j \in Ids \ {id} : call'[j] = call[j] /\ up'[j] = up[j] /\ rd'[j] = rd[j]
      /\ rd'[id].has = rd[id].has /\ wire' \in Nat /\ sent' \in Nat /\ out' \in OutRecord
  BY <1>1, <1>3 DEF OriginTypes, StreamInv
<1>7. SendInv'
  BY <1>1, SendStays
<1>8. CASE st[id].body.closed
  <2> DEFINE s == IF id \in streams THEN [st[id] EXCEPT !.aborted = TRUE] ELSE st[id]
  <2>1. /\ inb' = inCredit(inb, 0, k) /\ BeginFail(id, "loop", s) /\ blamed' = blamed \cup {id}
    BY <1>8 DEF dataWrite, Blame
  <2>2. s \in StreamRecord /\ unreleased(s.body) = unreleased(st[id].body)
    BY <1>3, AbortSets
  <2> HIDE DEF s
  <2>3. inb' \in InRecord /\ inb'.conn = inb.conn + k /\ DOMAIN inb'.stream = DOMAIN inb.stream
    <3>1. k \in Int /\ inb.conn + k >= 0
      BY <1>3
    <3> HIDE DEF k
    <3> QED BY <1>3, <2>1, <3>1, InCredited
  <2>4. inb'.conn + loop'.n + loop'.pad = inb.conn + loop.n + loop.pad /\ id \in blamed'
    BY <1>3, <1>5, <2>1, <2>3
  <2>5. "loop" \in Goroutines
    BY DEF Goroutines
  <2> QED BY <1>1, <1>4, <1>6, <1>7, <2>1, <2>2, <2>3, <2>4, <2>5, FailKeeps
<1>9. CASE ~st[id].body.closed
  <2> DEFINE x == bodyWrite(st[id].body, loop.n)
             b == IF loop.end THEN bodyClose(x) ELSE x
             y == st[id].ended \/ loop.end
             s == [st[id] EXCEPT !.ended = y, !.body = b]
  <2>1. /\ inb' = inCredit(inb, id, loop.pad) /\ st' = [st EXCEPT ![id] = s]
        /\ UNCHANGED <<streams, tear, blamed>>
    BY <1>9 DEF dataWrite, SetStream
  <2>2. x \in BodyRecord /\ unreleased(x) <= unreleased(st[id].body) + loop.n /\ unreleased(x) \in Nat
    <3>1. \A c \in BodyRecord, n \in Nat :
            /\ bodyWrite(c, n) \in BodyRecord
            /\ unreleased(bodyWrite(c, n)) = IF c.released THEN 0 ELSE unreleased(c) + n
      BY BodyOperations
    <3>2. st[id].body \in BodyRecord /\ loop.n \in Nat
      BY <1>3
    <3>3. /\ x \in BodyRecord
          /\ unreleased(x) = IF st[id].body.released THEN 0
                             ELSE unreleased(st[id].body) + loop.n
      BY <3>1, <3>2
    <3> HIDE DEF x
    <3> QED BY <1>3, <3>3
  <2>3. b \in BodyRecord /\ unreleased(b) = unreleased(x)
    <3> HIDE DEF x
    <3> QED BY <2>2, BodyOperations
  <2>4. y \in BOOLEAN
    BY <1>3 DEF StreamRecord
  <2> HIDE DEF x, b, y
  <2>5. s \in StreamRecord
    BY <1>3, <2>3, <2>4 DEF StreamRecord
  <2>6. s.body = b /\ SameStream(s, st[id])
    BY <1>3 DEF StreamRecord, SameStream
  <2> HIDE DEF s
  <2>7. inb' \in InRecord /\ inb'.conn = inb.conn + loop.pad /\ DOMAIN inb'.stream = DOMAIN inb.stream
    <3>1. loop.pad \in Int /\ inb.conn + loop.pad >= 0
      BY <1>3
    <3> QED BY <1>3, <2>1, <3>1, InCredited
  <2>8. st' \in [Ids -> StreamRecord] /\ st'[id] = s /\ \A j \in Ids \ {id} : st'[j] = st[j]
    BY <1>3, <2>1, <2>5 DEF OriginTypes
  <2>9. inb'.conn + unreleased(st'[id].body) + rd'[id].has + loop'.n + loop'.pad <=
          inb.conn + unreleased(st[id].body) + rd[id].has + loop.n + loop.pad
    BY <1>3, <1>5, <1>6, <2>2, <2>3, <2>6, <2>7, <2>8
  <2>10. StreamInv(id)'
    <3>1. LiveStream(id) => LiveStream(id)'
      BY <1>1, <2>1, <2>6, <2>8 DEF LiveStream, SameStream
    <3>2. st'[id].fail = st[id].fail
      BY <2>6, <2>8 DEF SameStream
    <3> QED BY <1>1, <1>3, <1>4, <2>1, <2>7, <3>1, <3>2 DEF StreamInv
  <2> QED BY <1>1, <1>6, <1>7, <2>1, <2>7, <2>8, <2>9, <2>10, StreamKeeps
<1> QED BY <1>8, <1>9

LEMMA LoopEndsKeeps ==
  ASSUME OriginInv, loopEnds
  PROVE  OriginInv'
<1>1. failAll /\ UNCHANGED <<nextID, call, up, rd, loop, tear, wire>> /\ sent' \in Nat
  BY DEF loopEnds, OriginInv, OriginTypes
<1> QED BY <1>1, FailAllKeeps

-----------------------------------------------------------------------------
(* The two halves of a teardown.                                           *)

LEMMA TearCloseKeeps ==
  ASSUME OriginInv, NEW t \in tear, TearClose(t)
  PROVE  OriginInv'
<1> DEFINE id == t.id
           x == [t EXCEPT !.step = "drop", !.unread = 0]
           b == bodyClose(st[id].body)
           s == [st[id] EXCEPT !.body = b, !.reqOpen = FALSE]
           T == tear \ {t}
           S == SumFunctionOnSet(Held(st, rd), Ids)
           R == SumFunctionOnSet(Held(st', rd), Ids)
           K == SumFunctionOnSet(Kept(tear), tear)
           Q == SumFunctionOnSet(Kept(tear'), tear')
           L == SumFunctionOnSet(Kept(T), T)
<1>1. t \in TearRecord /\ id \in Ids /\ t.unread \in Nat
  BY DEF OriginInv, OriginTypes, TearRecord
<1>2. /\ OriginConstants /\ OriginTypes /\ StreamInv(id) /\ st[id] \in StreamRecord /\ ConnInv
      /\ inb.conn \in Nat /\ loop.n \in Nat /\ loop.pad \in Nat /\ inb \in InRecord
      /\ st[id].body \in BodyRecord /\ S \in Nat /\ K \in Nat /\ RecvWin \in Nat
      /\ tear \in SUBSET TearRecord /\ IsFiniteSet(tear)
  BY <1>1, OriginShape DEF OriginInv, OriginTypes, StreamRecord
<1>3. /\ tear' = T \cup {x} /\ st' = [st EXCEPT ![id] = s] /\ inb' = inCredit(inb, 0, t.unread)
      /\ UNCHANGED <<closed, nextID, pushes, streams, out, call, up, rd, loop, wire, sent, blamed>>
  BY DEF TearClose, SetStream, connVars
<1>4. x \in TearRecord /\ x.unread = 0 /\ x.id = id
  <2>1. x \in TearRecord
    BY <1>1 DEF TearRecord
  <2>2. x.unread = 0 /\ x.id = id
    BY <1>1 DEF TearRecord
  <2> QED BY <2>1, <2>2
<1>5. b \in BodyRecord /\ unreleased(b) = unreleased(st[id].body)
  BY <1>2, BodyOperations
<1> HIDE DEF x, b
<1>6. s \in StreamRecord /\ s.body = b /\ s.fail = st[id].fail
  <2>1. s \in StreamRecord
    BY <1>2, <1>5 DEF StreamRecord
  <2>2. s.body = b /\ s.fail = st[id].fail
    BY <1>2 DEF StreamRecord
  <2> QED BY <2>1, <2>2
<1> HIDE DEF s
<1>7. st' \in [Ids -> StreamRecord] /\ st'[id] = s /\ \A j \in Ids \ {id} : st'[j] = st[j]
  BY <1>1, <1>2, <1>3, <1>6 DEF OriginTypes
<1>8. /\ T \in SUBSET TearRecord /\ IsFiniteSet(T) /\ L \in Nat /\ K = L + t.unread
  <2>1. ASSUME NEW y \in TearRecord
        PROVE  /\ tear \ {y} \in SUBSET TearRecord /\ IsFiniteSet(tear \ {y})
               /\ SumFunctionOnSet(Kept(tear \ {y}), tear \ {y}) \in Nat
               /\ y \in tear => SumFunctionOnSet(Kept(tear), tear) =
                                  SumFunctionOnSet(Kept(tear \ {y}), tear \ {y}) + y.unread
    BY <1>2, KeptSums
  <2> QED BY <1>1, <2>1
<1>9. tear' \in SUBSET TearRecord /\ IsFiniteSet(tear') /\ Q \in Nat /\ Q <= L
  <2> HIDE DEF T
  <2>1. tear' \in SUBSET TearRecord /\ IsFiniteSet(tear') /\ Q \in Nat
    BY <1>3, <1>4, <1>8, KeptSums
  <2>2. Q <= L + x.unread
    BY <1>3, <1>4, <1>8, KeptSums
  <2> HIDE DEF Q, L
  <2> QED BY <1>4, <1>8, <2>1, <2>2
<1>10. Torn(tear', id) /\ \A j \in Ids \ {id} : Torn(tear', j) <=> Torn(tear, j)
  BY <1>3, <1>4 DEF Torn
<1>11. R = S
  <2>1. \A i \in Ids : unreleased(st'[i].body) = unreleased(st[i].body)
    BY <1>5, <1>6, <1>7
  <2>2. Held(st', rd) = Held(st, rd)
    BY <2>1 DEF Held
  <2> QED BY <2>2
<1>12. inb' \in InRecord /\ inb'.conn = inb.conn + t.unread
       /\ DOMAIN inb'.stream = DOMAIN inb.stream
  <2>1. t.unread \in Int /\ inb.conn + t.unread >= 0
    BY <1>1, <1>2
  <2> QED BY <1>2, <1>3, <2>1, InCredited
<1>13. OriginTypes'
  BY <1>2, <1>3, <1>7, <1>9, <1>12 DEF OriginTypes
<1>14. ConnInv'
  BY <1>2, <1>3, <1>12 DEF ConnInv
<1>15. ReceiveInv'
  <2>1. inb.conn + (S + loop.n + loop.pad + K) <= RecvWin
    BY DEF OriginInv, ReceiveInv, Account
  <2>2. Held(st', rd') = Held(st', rd) /\ loop' = loop
    BY <1>3
  <2> HIDE DEF S, R, K, Q, L
  <2>3. inb'.conn + (R + loop'.n + loop'.pad + Q) <= RecvWin
    BY <1>1, <1>2, <1>8, <1>9, <1>11, <1>12, <2>1, <2>2
  <2> QED BY <2>2, <2>3 DEF ReceiveInv, Account, R, Q
<1>16. SendInv'
  BY <1>3, SendStays
<1>17. Torn(tear, id)
  BY <1>1 DEF Torn
<1>18. ASSUME NEW i \in Ids PROVE StreamInv(i)'
  <2>1. CASE i = id
    <3>1. i \notin streams /\ i < nextID /\ StreamInv(i)
      BY <1>2, <1>17, <2>1 DEF StreamInv, LiveStream, Known
    <3>2. st'[i].fail = st[i].fail /\ Torn(tear', i)
      BY <1>6, <1>7, <1>10, <2>1
    <3> QED BY <1>3, <1>12, <3>1, <3>2 DEF StreamInv
  <2>2. CASE i # id
    <3>1. Untouched(i)
      BY <1>3, <1>7, <1>10, <1>12, <2>2 DEF Untouched
    <3>2. StreamInv(i) /\ nextID' \in Nat /\ nextID <= nextID' /\ blamed \subseteq blamed'
      BY <1>2, <1>3 DEF OriginInv, OriginTypes
    <3> QED BY <1>2, <3>1, <3>2, UntouchedKeeps
  <2> QED BY <2>1, <2>2
<1> QED BY <1>2, <1>13, <1>14, <1>15, <1>16, <1>18 DEF OriginInv

LEMMA TearDropKeeps ==
  ASSUME OriginInv, NEW t \in tear, TearDrop(t)
  PROVE  OriginInv'
<1> DEFINE id == t.id
           K == SumFunctionOnSet(Kept(tear), tear)
           L == SumFunctionOnSet(Kept(tear'), tear')
           S == SumFunctionOnSet(Held(st, rd), Ids)
<1>1. t \in TearRecord /\ id \in Ids /\ t.unread \in Nat
  BY DEF OriginInv, OriginTypes, TearRecord
<1>2. /\ OriginConstants /\ OriginTypes /\ StreamInv(id) /\ ConnInv
      /\ inb.conn \in Nat /\ loop.n \in Nat /\ loop.pad \in Nat /\ inb \in InRecord
      /\ out \in OutRecord /\ S \in Nat /\ K \in Nat /\ RecvWin \in Nat
      /\ tear \in SUBSET TearRecord /\ IsFiniteSet(tear)
  BY <1>1, OriginShape DEF OriginInv, OriginTypes
<1>3. /\ tear' = tear \ {t} /\ inb' = inForget(inb, id) /\ out' = outForget(out, id)
      /\ UNCHANGED <<closed, nextID, pushes, streams, st, call, up, rd, loop, wire, sent, blamed>>
  BY DEF TearDrop, connVars
<1>4. tear' \in SUBSET TearRecord /\ IsFiniteSet(tear') /\ L \in Nat /\ L <= K
  <2>1. ASSUME NEW y \in TearRecord
        PROVE  /\ tear \ {y} \in SUBSET TearRecord /\ IsFiniteSet(tear \ {y})
               /\ SumFunctionOnSet(Kept(tear \ {y}), tear \ {y}) \in Nat
               /\ y \in tear => SumFunctionOnSet(Kept(tear), tear) =
                                  SumFunctionOnSet(Kept(tear \ {y}), tear \ {y}) + y.unread
    BY <1>2, KeptSums
  <2>2. tear' \in SUBSET TearRecord /\ IsFiniteSet(tear') /\ L \in Nat /\ K = L + t.unread
    BY <1>1, <1>3, <2>1
  <2> HIDE DEF K, L
  <2> QED BY <1>1, <2>2
<1>5. /\ out' \in OutRecord /\ out'.conn = out.conn /\ out'.closed = out.closed
      /\ DOMAIN out'.stream = DOMAIN out.stream \ {id}
  BY <1>2, <1>3, OutForgotten
<1>6. inb' \in InRecord /\ inb'.conn = inb.conn /\ DOMAIN inb'.stream = DOMAIN inb.stream \ {id}
  BY <1>2, <1>3, InForgotten
<1>7. \A j \in Ids \ {id} : Torn(tear', j) <=> Torn(tear, j)
  BY <1>3 DEF Torn
<1>8. OriginTypes'
  BY <1>2, <1>3, <1>4, <1>5, <1>6 DEF OriginTypes
<1>9. ConnInv'
  BY <1>2, <1>3, <1>5, <1>6 DEF ConnInv
<1>10. ReceiveInv'
  <2>1. inb.conn + (S + loop.n + loop.pad + K) <= RecvWin
    BY DEF OriginInv, ReceiveInv, Account
  <2>2. Held(st', rd') = Held(st, rd) /\ loop' = loop
    BY <1>3
  <2> HIDE DEF S, K, L
  <2>3. inb'.conn + (S + loop'.n + loop'.pad + L) <= RecvWin
    BY <1>2, <1>4, <1>6, <2>1, <2>2
  <2> QED BY <2>2, <2>3 DEF ReceiveInv, Account, S, L
<1>11. SendInv'
  BY <1>3, <1>5, SendStays
<1>12. Torn(tear, id)
  BY <1>1 DEF Torn
<1>13. ASSUME NEW i \in Ids PROVE StreamInv(i)'
  <2>1. CASE i = id
    <3>1. i \notin streams /\ i < nextID /\ StreamInv(i)
      BY <1>2, <1>12, <2>1 DEF StreamInv, LiveStream, Known
    <3> QED BY <1>3, <1>5, <1>6, <2>1, <3>1 DEF StreamInv
  <2>2. CASE i # id
    <3>1. Untouched(i)
      BY <1>3, <1>5, <1>6, <1>7, <2>2 DEF Untouched
    <3>2. StreamInv(i) /\ nextID' \in Nat /\ nextID <= nextID' /\ blamed \subseteq blamed'
      BY <1>2, <1>3 DEF OriginInv, OriginTypes
    <3> QED BY <1>2, <3>1, <3>2, UntouchedKeeps
  <2> QED BY <2>1, <2>2
<1> QED BY <1>2, <1>8, <1>9, <1>10, <1>11, <1>13 DEF OriginInv

-----------------------------------------------------------------------------
(* Promised streams.                                                       *)

\* A step between frames that changes the windows of p and what is kept of its bytes.
LEMMA PushKeeps ==
  ASSUME OriginInv, NEW p \in PushIds,
         UNCHANGED <<closed, nextID, streams, st, call, up, rd, loop, tear, wire, blamed>>,
         out' \in OutRecord, out'.conn = out.conn, out'.closed = out.closed,
         inb' \in InRecord, inb'.conn = inb.conn, sent' \in Nat,
         \A i \in Windowed \ {p} :
           /\ i \in DOMAIN out'.stream <=> i \in DOMAIN out.stream
           /\ i \in DOMAIN inb'.stream <=> i \in DOMAIN inb.stream
           /\ i \in DOMAIN pushes => i \in DOMAIN pushes',
         p \in DOMAIN inb'.stream \cup DOMAIN out'.stream => p \in DOMAIN pushes'
  PROVE  OriginInv'
<1>1. OriginConstants /\ OriginTypes /\ ConnInv /\ p \notin Ids
  BY DEF OriginInv, OriginConstants
<1>2. OriginTypes'
  BY <1>1 DEF OriginTypes
<1>3. ConnInv'
  BY <1>1 DEF ConnInv, Windowed
<1>4. ReceiveInv' /\ SendInv'
  BY ReceiveStays, SendStays
<1>5. \A i \in Ids : Untouched(i)
  BY <1>1 DEF Untouched, Windowed
<1>6. nextID <= nextID' /\ blamed \subseteq blamed'
  BY <1>1 DEF OriginTypes
<1> QED BY <1>2, <1>3, <1>4, <1>5, <1>6, NobodyKeeps

LEMMA PushPromiseKeeps ==
  ASSUME OriginInv, NEW p \in PushIds, handlePushPromise(p)
  PROVE  OriginInv'
<1>1. /\ OriginConstants /\ OriginTypes /\ ConnInv /\ out \in OutRecord /\ inb \in InRecord
      /\ p \in Windowed /\ sent \in Nat
  BY DEF OriginInv, OriginTypes, Windowed
<1>2. /\ UNCHANGED <<closed, nextID, streams, st, call, up, rd, loop, tear, wire, sent, blamed>>
      /\ inb' = inOpen(inb, p) /\ out' = outOpen(out, p) /\ DOMAIN pushes' = DOMAIN pushes \cup {p}
  BY DEF handlePushPromise
<1>3. /\ out' \in OutRecord /\ out'.conn = out.conn /\ out'.closed = out.closed
      /\ DOMAIN out'.stream = IF out.closed THEN DOMAIN out.stream ELSE DOMAIN out.stream \cup {p}
  BY <1>1, <1>2, OutOpened
<1>4. /\ inb' \in InRecord /\ inb'.conn = inb.conn
      /\ DOMAIN inb'.stream = DOMAIN inb.stream \cup {p}
  BY <1>1, <1>2, InOpened
<1> QED BY <1>1, <1>2, <1>3, <1>4, PushKeeps

\* A promise that is over: p has no window left.
LEMMA PushEndKeeps ==
  ASSUME OriginInv, NEW p \in PushIds, finishPush(p),
         UNCHANGED <<closed, nextID, streams, st, call, up, rd, loop, tear, wire, blamed>>,
         NEW f \in InRecord, f.conn = inb.conn, DOMAIN f.stream = DOMAIN inb.stream,
         inb' = inForget(f, p), sent' \in Nat
  PROVE  OriginInv'
<1>1. out \in OutRecord /\ out' = outForget(out, p) /\ DOMAIN pushes' = DOMAIN pushes \ {p}
  BY DEF OriginInv, OriginTypes, finishPush, Drop
<1>2. /\ out' \in OutRecord /\ out'.conn = out.conn /\ out'.closed = out.closed
      /\ DOMAIN out'.stream = DOMAIN out.stream \ {p}
  BY <1>1, OutForgotten
<1>3. inb' \in InRecord /\ inb'.conn = inb.conn /\ DOMAIN inb'.stream = DOMAIN inb.stream \ {p}
  BY InForgotten
<1> QED BY <1>1, <1>2, <1>3, PushKeeps

LEMMA PushDataKeeps ==
  ASSUME OriginInv, NEW p \in PushIds, NEW n \in DataSizes \cup {0}, NEW end \in BOOLEAN,
         handlePushData(p, n, end)
  PROVE  OriginInv'
<1>1. /\ OriginConstants /\ OriginTypes /\ out \in OutRecord /\ inb \in InRecord
      /\ n \in Nat /\ sent \in Nat
  BY DEF OriginInv, OriginTypes, OriginConstants
<1>2. UNCHANGED <<nextID, call, up, rd, loop, tear, wire>> /\ sent' \in Nat
  BY <1>1 DEF handlePushData
<1>3. CASE failAll
  BY <1>2, <1>3, FailAllKeeps
<1>4. CASE /\ ~inTakeConnError(inb, n) /\ inb' = inForget(inCredit(inTake(inb, p, n), 0, n), p)
           /\ finishPush(p) /\ UNCHANGED <<closed, streams, st, blamed>>
  <2> DEFINE f == inCredit(inTake(inb, p, n), 0, n)
  <2>1. f \in InRecord /\ f.conn = inb.conn /\ DOMAIN f.stream = DOMAIN inb.stream
    BY <1>1, <1>4, InReturned
  <2>2. inb' = inForget(f, p)
    BY <1>4
  <2> HIDE DEF f
  <2> QED BY <1>2, <1>4, <2>1, <2>2, PushEndKeeps
<1>5. CASE /\ ~inTakeConnError(inb, n) /\ inb' = inCredit(inTake(inb, p, n), p, n)
           /\ pushes' = [pushes EXCEPT ![p] = pushes[p] + n]
           /\ out' = out /\ UNCHANGED <<closed, streams, st, blamed>>
  <2>1. inb' \in InRecord /\ inb'.conn = inb.conn /\ DOMAIN inb'.stream = DOMAIN inb.stream
    BY <1>1, <1>5, InReturned
  <2>2. DOMAIN pushes' = DOMAIN pushes /\ p \in DOMAIN pushes
    BY <1>5 DEF handlePushData
  <2> QED BY <1>1, <1>2, <1>5, <2>1, <2>2, PushKeeps
<1> QED BY <1>3, <1>4, <1>5 DEF handlePushData

LEMMA PushRSTKeeps ==
  ASSUME OriginInv, NEW p \in PushIds, handlePushRST(p)
  PROVE  OriginInv'
<1>1. inb \in InRecord /\ sent' \in Nat /\ inb' = inForget(inb, p) /\ finishPush(p)
      /\ UNCHANGED <<closed, nextID, streams, st, call, up, rd, loop, tear, wire, blamed>>
  BY DEF OriginInv, OriginTypes, handlePushRST
<1>2. ASSUME NEW f \in InRecord, f.conn = inb.conn, DOMAIN f.stream = DOMAIN inb.stream,
             inb' = inForget(f, p)
      PROVE  OriginInv'
  BY <1>1, <1>2, PushEndKeeps
<1> QED BY <1>1, <1>2

-----------------------------------------------------------------------------
(* The theorems.                                                           *)

LEMMA OriginInitHolds == OriginConstants /\ Init => OriginInv
<1> SUFFICES ASSUME OriginConstants, Init PROVE OriginInv
  OBVIOUS
<1>1. RecvWin \in Nat /\ SendWin \in Nat /\ IsFiniteSet(Ids)
  BY DEF OriginConstants, FlowConstants
<1>2. out \in OutRecord /\ out.conn = SendWin /\ DOMAIN out.stream = {} /\ ~out.closed
  BY <1>1, NoWindows DEF Init, newOutFlow, OutRecord
<1>3. inb \in InRecord /\ inb.conn = RecvWin /\ DOMAIN inb.stream = {}
  BY <1>1, NoWindows DEF Init, newInFlow, InRecord
<1>4. /\ st \in [Ids -> StreamRecord]
      /\ \A i \in Ids : unreleased(st[i].body) = 0 /\ ~st[i].fail
  BY NewStreams DEF Init
<1>5. /\ up \in [Ids -> UploadRecord] /\ rd \in [Ids -> ReaderRecord]
      /\ call \in [Ids -> {"idle", "select", "failed", "response"}]
      /\ \A i \in Ids : /\ up[i].at = "none" /\ up[i].has = 0
                        /\ rd[i].at = "none" /\ rd[i].has = 0 /\ call[i] = "idle"
  BY DEF Init, UploadRecord, ReaderRecord
<1>6. loop \in DataRecord /\ loop = NoData /\ loop.n = 0 /\ loop.pad = 0 /\ loop.id = 0
  BY DEF Init, NoData, DataRecord
<1>7. tear \in SUBSET TearRecord /\ tear = {} /\ IsFiniteSet(tear)
  BY FS_EmptySet DEF Init
<1>8. OriginTypes
  BY <1>2, <1>3, <1>4, <1>5, <1>6, <1>7 DEF Init, OriginTypes
<1>9. ConnInv
  BY <1>2, <1>3 DEF Init, ConnInv
<1>10. ReceiveInv
  <2>1. SumFunctionOnSet(Held(st, rd), Ids) = 0
    <3>1. \A i \in Ids : Held(st, rd)[i] = 0
      BY <1>4, <1>5 DEF Held
    <3> QED BY <1>1, <3>1, SumZero
  <2>2. SumFunctionOnSet(Kept(tear), tear) = 0
    <3>1. \A t \in tear : Kept(tear)[t] = 0
      BY <1>7
    <3> QED BY <1>7, <3>1, SumZero
  <2> QED BY <1>1, <1>3, <1>6, <2>1, <2>2 DEF ReceiveInv, Account
<1>11. SendInv
  <2>1. \A i \in Ids : Taken(up)[i] = 0
    BY <1>5 DEF Taken
  <2>2. SumFunctionOnSet(Taken(up), Ids) = 0
    BY <1>1, <2>1, SumZero
  <2> QED BY <1>1, <1>2, <2>2 DEF Init, SendInv
<1>12. ASSUME NEW i \in Ids PROVE StreamInv(i)
  <2>1. i # 0 /\ ~Torn(tear, i) /\ i \notin streams
    BY <1>7 DEF OriginConstants, Torn, Init
  <2> QED BY <1>2, <1>3, <1>4, <1>5, <1>6, <2>1 DEF StreamInv, Known
<1> QED BY <1>8, <1>9, <1>10, <1>11, <1>12 DEF OriginInv

LEMMA OriginStutterKeeps ==
  ASSUME OriginInv, UNCHANGED vars
  PROVE  OriginInv'
<1>1. UNCHANGED <<closed, nextID, pushes, streams, st, inb, call, up, rd, loop, tear, sent, blamed>>
      /\ out' = out /\ wire' = wire
  BY DEF vars
<1>2. out' \in OutRecord /\ wire' \in Nat /\ UNCHANGED connVars
  BY <1>1 DEF OriginInv, OriginTypes, connVars
<1> QED BY <1>1, <1>2, WindowKeeps

LEMMA CallerKeeps ==
  ASSUME OriginInv, NEW id \in Ids, Caller(id)
  PROVE  OriginInv'
BY OpenKeeps, OpenFailsKeeps, RefusedKeeps, CallCancelKeeps, CallFailKeeps, CallHeadersKeeps
   DEF Caller

LEMMA UploaderKeeps ==
  ASSUME OriginInv, NEW id \in Ids, Uploader(id)
  PROVE  OriginInv'
BY UploadStartKeeps, UploadReadKeeps, UploadReadErrorKeeps, UploadTakeKeeps, UploadWriteKeeps,
   UploadEndKeeps, UploadDeferKeeps DEF Uploader

LEMMA OriginFrameKeeps ==
  ASSUME OriginInv, Frame
  PROVE  OriginInv'
<1>1. ASSUME NEW id \in Ids, id < nextID, NEW end \in BOOLEAN, handleHeaders(id, end)
      PROVE  OriginInv'
  BY <1>1, HeadersKeep
<1>2. ASSUME NEW id \in Ids, handleInformational(id) PROVE OriginInv'
  BY <1>2, InformationalKeeps
<1>3. ASSUME NEW id \in Ids, id < nextID, NEW n \in DataSizes, NEW pad \in Pads,
             NEW end \in BOOLEAN, handleData(id, n, pad, end)
      PROVE  OriginInv'
  BY <1>3, DataKeeps
<1>4. ASSUME NEW id \in Ids, id < nextID, NEW noError \in BOOLEAN, handleRST(id, noError)
      PROVE  OriginInv'
  BY <1>4, RSTKeeps
<1>5. ASSUME NEW id \in Ids, NEW n \in DataSizes, handleWindowUpdate(id, n) PROVE OriginInv'
  BY <1>5, WindowUpdateKeeps
<1>6. ASSUME NEW v \in Windows, handleSettings(v) PROVE OriginInv'
  BY <1>6, SettingsKeep
<1>7. ASSUME NEW p \in PushIds, handlePushPromise(p) \/ handlePushRST(p) PROVE OriginInv'
  BY <1>7, PushPromiseKeeps, PushRSTKeeps
<1>8. ASSUME NEW p \in PushIds, NEW n \in DataSizes \cup {0}, NEW end \in BOOLEAN,
             handlePushData(p, n, end)
      PROVE  OriginInv'
  BY <1>8, PushDataKeeps
<1>9. CASE loopEnds
  BY <1>9, LoopEndsKeeps
<1> QED BY <1>1, <1>2, <1>3, <1>4, <1>5, <1>6, <1>7, <1>8, <1>9 DEF Frame, OpenedIds

LEMMA OriginNextKeeps == OriginInv /\ [Next]_vars => OriginInv'
<1> SUFFICES ASSUME OriginInv, [Next]_vars PROVE OriginInv'
  OBVIOUS
<1>1. ASSUME NEW id \in Ids, Caller(id) \/ Reader(id) \/ Uploader(id) PROVE OriginInv'
  <2>1. CASE Caller(id)
    BY <2>1, CallerKeeps
  <2>2. CASE Reader(id)
    BY <2>2, ReadBodyKeeps, ReadCreditKeeps, ReadDoneKeeps DEF Reader
  <2>3. CASE Uploader(id)
    BY <2>3, UploaderKeeps
  <2> QED BY <1>1, <2>1, <2>2, <2>3
<1>2. CASE Frame
  BY <1>2, OriginFrameKeeps
<1>3. CASE dataWrite
  <2>1. loop.id \in Ids
    BY <1>3 DEF dataWrite, OriginInv, OriginTypes
  <2>2. ASSUME NEW id \in Ids, id = loop.id PROVE OriginInv'
    BY <1>3, <2>2, DataWriteKeeps
  <2> QED BY <2>1, <2>2
<1>4. CASE EndTear
  BY <1>4, TearCloseKeeps, TearDropKeeps DEF EndTear, EndTearBy
<1>5. CASE UNCHANGED vars
  BY <1>5, OriginStutterKeeps
<1> QED BY <1>1, <1>2, <1>3, <1>4, <1>5 DEF Next

\* The streams, windows and tables of a connection to an origin keep their accounts
\* through every interleaving of callers, uploaders, readers, the read loop and the
\* two halves of every teardown.
THEOREM OriginInvariant == OriginConstants => (Spec => []OriginInv)
<1>1. OriginConstants /\ Init => OriginInv
  BY OriginInitHolds
<1>2. OriginInv /\ [Next]_vars => OriginInv'
  BY OriginNextKeeps
<1> QED BY <1>1, <1>2, PTL DEF Spec

LEMMA WindowsFollow == OriginInv => WindowBounds
<1> SUFFICES ASSUME OriginInv PROVE WindowBounds
  OBVIOUS
<1> DEFINE S == SumFunctionOnSet(Held(st, rd), Ids)
           K == SumFunctionOnSet(Kept(tear), tear)
<1>1. /\ S \in Nat /\ K \in Nat /\ loop.n \in Nat /\ loop.pad \in Nat
      /\ out.conn \in Nat /\ inb.conn \in Nat /\ RecvWin \in Nat
  BY OriginShape
<1>2. Unread = S + loop.n + loop.pad + K
  BY DEF Unread, Held, Kept, SumFunction
<1>3. inb.conn + (S + loop.n + loop.pad + K) <= RecvWin
  BY DEF OriginInv, ReceiveInv, Account
<1>4. out.conn + wire + SumFunction([i \in Ids |-> up[i].has]) <= SendWin
  BY DEF OriginInv, SendInv, Taken, SumFunction
<1> HIDE DEF S, K
<1>5. inb.conn >= 0 /\ inb.conn + Unread <= RecvWin /\ out.conn >= 0
  BY <1>1, <1>2, <1>3
<1> QED BY <1>4, <1>5 DEF WindowBounds

\* Unread response bytes are never credited twice, so what is buffered stays within
\* the window the connection advertised; and concurrent uploads together never send
\* more than the origin granted.
THEOREM WindowsHold == OriginConstants => (Spec => []WindowBounds)
BY OriginInvariant, WindowsFollow, PTL

\* When caller, uploader, reader and teardown of a stream are through, no table
\* knows it any more; nor has a promise that is over left a window.
THEOREM NothingLeftHolds == OriginConstants => (Spec => []NothingLeftBehind)
<1>1. OriginInv => NothingLeftBehind
  <2> SUFFICES ASSUME OriginInv PROVE NothingLeftBehind
    OBVIOUS
  <2>1. ConnInv /\ \A i \in Ids : StreamInv(i)
    BY DEF OriginInv
  <2>2. ASSUME NEW id \in Ids, Finished(id)
        PROVE  id \notin streams \cup DOMAIN inb.stream \cup DOMAIN out.stream
    BY <2>1, <2>2 DEF Finished, StreamInv, LiveStream, Torn
  <2> QED BY <2>1, <2>2 DEF NothingLeftBehind, ConnInv
<1> QED BY <1>1, OriginInvariant, PTL

\* RoundTrip fails only for a reason of its own.
THEOREM FailureCauseHolds == OriginConstants => (Spec => []FailureHasCause)
<1>1. OriginInv => FailureHasCause
  BY DEF OriginInv, StreamInv, FailureHasCause
<1> QED BY <1>1, OriginInvariant, PTL

=============================================================================
