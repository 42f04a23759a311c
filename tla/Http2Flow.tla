----------------------------- MODULE Http2Flow -----------------------------
(***************************************************************************)
(* The windows and buffers an HTTP/2 connection is made of, as values:     *)
(* outFlow and inFlow of internal/http2x/flow.go and bodyBuf of body.go.   *)
(* Bytes are counted, not represented.  A peer keeps the send windows below *)
(* 2^31, as RFC 9113 6.9.1 demands, so that int32 additions do not wrap.    *)
(***************************************************************************)
EXTENDS Integers, FiniteSets

CONSTANTS
  RecvWin,  \* initialWindow: the receive window of the connection and of each stream
  SendWin,  \* defaultHTTP2Window: the send windows before any SETTINGS
  MaxFrame  \* maxFramePayload

FlowConstants == {RecvWin, SendWin, MaxFrame} \subseteq Nat \ {0}

ASSUME FlowAssumption == FlowConstants

Least(a, b) == IF a < b THEN a ELSE b

Drop(f, id) == [i \in DOMAIN f \ {id} |-> f[i]]

-----------------------------------------------------------------------------
(* outFlow: what may be sent.                                              *)

newOutFlow == [conn |-> SendWin, stream |-> << >>, init |-> SendWin, closed |-> FALSE]

outOpen(f, id) ==
  IF id \in DOMAIN f.stream \/ f.closed THEN f
  ELSE [f EXCEPT !.stream = [i \in DOMAIN f.stream \cup {id} |->
                               IF i = id THEN f.init ELSE f.stream[i]]]

outForget(f, id) == [f EXCEPT !.stream = Drop(f.stream, id)]

outClose(f) == [f EXCEPT !.closed = TRUE]

outAddConn(f, n) == [f EXCEPT !.conn = f.conn + n]

\* A WINDOW_UPDATE for an idle or forgotten stream is ignored.
outAdd(f, id, n) ==
  IF id \in DOMAIN f.stream THEN [f EXCEPT !.stream = [f.stream EXCEPT ![id] = f.stream[id] + n]] ELSE f

applyInitialWindow(f, v) ==
  [f EXCEPT !.init = v,
            !.stream = [i \in DOMAIN f.stream |-> f.stream[i] + (v - f.init)]]

\* takeDeadline: fails, blocks or takes.
takeFails(f, id) == f.closed \/ id \notin DOMAIN f.stream

outAvail(f, id) == Least(Least(f.conn, f.stream[id]), MaxFrame)

outTake(f, id, n) ==
  [f EXCEPT !.conn = f.conn - n, !.stream = [f.stream EXCEPT ![id] = f.stream[id] - n]]

-----------------------------------------------------------------------------
(* inFlow: what the peer may still send.                                   *)

newInFlow == [conn |-> RecvWin, stream |-> << >>]

inOpen(f, id) ==
  [f EXCEPT !.stream = [i \in DOMAIN f.stream \cup {id} |->
                          IF i = id THEN RecvWin ELSE f.stream[i]]]

inForget(f, id) == [f EXCEPT !.stream = Drop(f.stream, id)]

inTakeConnError(f, n) == n > f.conn

inTakeStreamError(f, id, n) == id \in DOMAIN f.stream /\ n > f.stream[id]

inCredit(f, id, n) ==
  [f EXCEPT !.conn = f.conn + n,
            !.stream = [i \in DOMAIN f.stream |->
                          IF i = id THEN f.stream[i] + n ELSE f.stream[i]]]

\* take: the connection is charged before the stream is looked at.
inTake(f, id, n) ==
  IF inTakeStreamError(f, id, n) THEN [f EXCEPT !.conn = f.conn - n] ELSE inCredit(f, id, -n)

-----------------------------------------------------------------------------
(* bodyBuf: bytes received and not yet read.                               *)

newBodyBuf == [buf |-> 0, closed |-> FALSE, released |-> FALSE]

bodyWrite(b, n) == [b EXCEPT !.buf = b.buf + n]

bodyRead(b, n) == [b EXCEPT !.buf = b.buf - n]

bodyClose(b) == [b EXCEPT !.closed = TRUE]

\* releaseConnWindow: the unread bytes nobody has credited yet ...
unreleased(b) == IF b.released THEN 0 ELSE b.buf

releasedTwice(b) == b

\* ... and the mark that keeps a later Read from crediting them again.
released(b) == [b EXCEPT !.released = TRUE]

=============================================================================
