---------------------------- MODULE Http2Origin ----------------------------
(***************************************************************************)
(* OriginConn of internal/http2x/origin_conn.go: one HTTP/2 connection to  *)
(* an origin, on which several exchanges run at once.  For every stream    *)
(* there are three goroutines: the caller in RoundTrip, the uploader       *)
(* (writeRequestBody) and whoever reads the response body; all share one   *)
(* readLoop.  The origin is external: it sends any frame it may, and       *)
(* frames already on their way when a stream is reset still arrive.        *)
(***************************************************************************)
EXTENDS Http2Flow, FiniteSetsExt

CONSTANTS
  Ids,         \* client streams, opened in this order: 1 .. N stands for 1, 3, 5, ...
  PushIds,     \* streams the origin may promise
  DataSizes,   \* sizes of DATA payloads and of request body reads
  Pads,        \* padding of a DATA frame
  Windows,     \* values of SETTINGS_INITIAL_WINDOW_SIZE
  CapturePush, \* OriginOpts.CapturePush
  MaxBody,     \* OriginOpts.MaxBody
  MaxUpload,   \* bound: reads of one request body
  MaxSent      \* bound: DATA bytes the origin sends

OriginConstants ==
  /\ FlowConstants
  /\ Ids \subseteq Nat \ {0} /\ IsFiniteSet(Ids) /\ PushIds \cap Ids = {}
  /\ DataSizes \subseteq Nat \ {0} /\ Pads \subseteq Nat /\ Windows \subseteq Nat
  /\ CapturePush \in BOOLEAN
  /\ MaxBody \in Nat /\ MaxUpload \in Nat /\ MaxSent \in Nat

ASSUME OriginAssumption == OriginConstants

VARIABLES
  closed,   \* o.closed
  nextID,   \* o.nextID
  streams,  \* domain of o.streams
  st,       \* the originStream of each id; callers keep it after it is forgotten
  pushes,   \* o.pushes: promised stream -> bytes kept
  out, inb, \* o.out, o.inbound
  call,     \* RoundTrip of each stream
  up,       \* its uploader: place, bytes read, bytes taken, reads so far
  rd,       \* its response reader: place and bytes read but not credited
  loop,     \* readLoop: a DATA frame in hand
  tear,     \* teardowns between releasing the body's window and closing it
  wire,     \* DATA bytes written and not yet credited by the origin
  sent,     \* DATA bytes the origin has sent
  blamed    \* history: streams somebody had a reason to fail

vars == <<closed, nextID, streams, st, pushes, out, inb, call, up, rd, loop, tear,
          wire, sent, blamed>>

connVars == <<closed, nextID, pushes>>

NoData == [id |-> 0, n |-> 0, pad |-> 0, end |-> FALSE]

newStream(hasBody) ==
  [hdr |-> FALSE, fail |-> FALSE, body |-> newBodyBuf, ended |-> FALSE, aborted |-> FALSE,
   uploadStopped |-> FALSE, gotResp |-> FALSE, uploadDone |-> ~hasBody,
   responseDone |-> FALSE, reqOpen |-> hasBody]

Init ==
  /\ closed = FALSE /\ nextID = 1 /\ streams = {} /\ pushes = << >>
  /\ st = [i \in Ids |-> newStream(FALSE)]
  /\ out = newOutFlow /\ inb = newInFlow
  /\ call = [i \in Ids |-> "idle"]
  /\ up = [i \in Ids |-> [at |-> "none", want |-> 0, has |-> 0, reads |-> 0]]
  /\ rd = [i \in Ids |-> [at |-> "none", has |-> 0]]
  /\ loop = NoData /\ tear = {} /\ wire = 0 /\ sent = 0
  /\ blamed = {}

-----------------------------------------------------------------------------
(* Teardown of a stream.  The release of the body's window and its Close   *)
(* are two critical sections of the body's mutex; a goroutine that writes  *)
(* to the body in between is not kept out by o.mu.                         *)

Blame(id) == blamed' = blamed \cup {id}

SetStream(id, s) == st' = [st EXCEPT ![id] = s]

\* A stream that is already forgotten only has its windows dropped again.
BeginForget(id, by, s) ==
  /\ streams' = streams \ {id}
  /\ tear' = tear \cup
       {IF id \in streams
          THEN [id |-> id, by |-> by, step |-> "close", unread |-> unreleased(s.body)]
          ELSE [id |-> id, by |-> by, step |-> "drop", unread |-> 0]}
  /\ SetStream(id, IF id \in streams THEN [s EXCEPT !.body = released(s.body)] ELSE s)

\* failStream: like forget, and everybody who waits is told.
BeginFail(id, by, s) ==
  IF id \in streams
    THEN BeginForget(id, by, [s EXCEPT !.aborted = TRUE, !.fail = TRUE, !.reqOpen = FALSE])
    ELSE BeginForget(id, by, s)

TearCloseResponse(t) ==
  /\ t.step = "close"
  /\ tear' = (tear \ {t}) \cup {[t EXCEPT !.step = "drop", !.unread = 0]}
  /\ SetStream(t.id, [st[t.id] EXCEPT !.body = bodyClose(st[t.id].body)])
  /\ inb' = inCredit(inb, 0, t.unread)
  /\ UNCHANGED <<connVars, streams, out, call, up, rd, loop, wire, sent, blamed>>

\* The body is closed and its unread bytes given back to the connection ...
TearClose(t) ==
  /\ t.step = "close"
  /\ tear' = (tear \ {t}) \cup {[t EXCEPT !.step = "drop", !.unread = 0]}
  /\ SetStream(t.id, [st[t.id] EXCEPT !.body = bodyClose(st[t.id].body), !.reqOpen = FALSE])
  /\ inb' = inCredit(inb, 0, t.unread)
  /\ UNCHANGED <<connVars, streams, out, call, up, rd, loop, wire, sent, blamed>>

\* ... and then its windows are dropped.
TearDrop(t) ==
  /\ t.step = "drop"
  /\ tear' = tear \ {t}
  /\ inb' = inForget(inb, t.id)
  /\ out' = outForget(out, t.id)
  /\ UNCHANGED <<connVars, streams, st, call, up, rd, loop, wire, sent, blamed>>

EndTearBy(id, by) ==
  \E t \in tear : t.id = id /\ t.by = by /\ (TearClose(t) \/ TearDrop(t))

EndTear == \E id \in Ids, by \in {"call", "read", "up", "loop"} : EndTearBy(id, by)

\* failAll: the connection is over for every stream.
failAll ==
  /\ closed' = TRUE
  /\ out' = [outClose(out) EXCEPT !.stream = << >>]
  /\ streams' = {} /\ pushes' = << >>
  /\ st' = [i \in Ids |-> IF i \notin streams THEN st[i]
              ELSE [st[i] EXCEPT !.aborted = TRUE, !.fail = TRUE, !.reqOpen = FALSE,
                                 !.body = bodyClose(st[i].body)]]
  /\ blamed' = blamed \cup streams
  /\ inb' = [inb EXCEPT !.stream = << >>]

-----------------------------------------------------------------------------
(* RoundTrip.                                                              *)

\* The uploader of id goes to p.
Upload(id, p) == up' = [up EXCEPT ![id] = [up[id] EXCEPT !.at = p]]

\* Allocation of the id and the opening HEADERS share the writer lock.
Open(id, hasBody) ==
  /\ call[id] = "idle" /\ id = nextID
  /\ ~closed
  /\ nextID' = nextID + 1
  /\ streams' = streams \cup {id}
  /\ SetStream(id, newStream(hasBody))
  /\ inb' = inOpen(inb, id)
  /\ out' = outOpen(out, id)
  /\ call' = [call EXCEPT ![id] = "select"]
  /\ Upload(id, IF hasBody THEN "start" ELSE "none")
  /\ UNCHANGED <<closed, pushes, rd, loop, tear, wire, sent, blamed>>

\* The HEADERS could not be written.
OpenFails(id, hasBody) ==
  /\ call[id] = "idle" /\ id = nextID /\ ~closed
  /\ nextID' = nextID + 1
  /\ SetStream(id, [newStream(hasBody) EXCEPT !.body = bodyClose(released(newBodyBuf)),
                                              !.reqOpen = FALSE])
  /\ call' = [call EXCEPT ![id] = "failed"]
  /\ Blame(id)
  /\ UNCHANGED <<closed, pushes, streams, out, inb, up, rd, loop, tear, wire, sent>>

Refused(id) ==
  /\ call[id] = "idle" /\ id = nextID /\ closed
  /\ nextID' = nextID + 1
  /\ call' = [call EXCEPT ![id] = "failed"]
  /\ Blame(id)
  /\ UNCHANGED <<closed, pushes, streams, st, out, inb, up, rd, loop, tear, wire, sent>>

\* The three arms of the select; Go takes any that is ready.
CallCancel(id) ==
  /\ call[id] = "select"
  /\ call' = [call EXCEPT ![id] = "failed"]
  /\ BeginForget(id, "call", IF id \in streams THEN [st[id] EXCEPT !.aborted = TRUE] ELSE st[id])
  /\ Blame(id)
  /\ UNCHANGED <<connVars, out, inb, up, rd, loop, wire, sent>>

CallFail(id) ==
  /\ call[id] = "select" /\ st[id].fail
  /\ call' = [call EXCEPT ![id] = "failed"]
  /\ BeginForget(id, "call", [st[id] EXCEPT !.fail = FALSE])
  /\ UNCHANGED <<connVars, out, inb, up, rd, loop, wire, sent, blamed>>

CallHeaders(id) ==
  /\ call[id] = "select" /\ st[id].hdr
  /\ call' = [call EXCEPT ![id] = "response"]
  /\ SetStream(id, [st[id] EXCEPT !.hdr = FALSE])
  /\ rd' = [rd EXCEPT ![id] = [rd[id] EXCEPT !.at = "open"]]
  /\ UNCHANGED <<connVars, streams, out, inb, up, loop, tear, wire, sent, blamed>>

-----------------------------------------------------------------------------
(* The reader of the response body (trailerBody over bodyBuf).             *)

ReadBody(id) ==
  /\ rd[id].at = "open" /\ st[id].body.buf > 0
  /\ \E n \in 1 .. st[id].body.buf :
       /\ SetStream(id, [st[id] EXCEPT !.body = bodyRead(st[id].body, n)])
       /\ rd' = [rd EXCEPT ![id] = IF st[id].body.released THEN rd[id]
                                   ELSE [at |-> "credit", has |-> n]]
  /\ UNCHANGED <<connVars, streams, out, inb, call, up, loop, tear, wire, sent, blamed>>

\* onRead: o.credit(id, n).
ReadCredit(id) ==
  /\ rd[id].at = "credit"
  /\ inb' = inCredit(inb, id, rd[id].has)
  /\ rd' = [rd EXCEPT ![id] = [at |-> "open", has |-> 0]]
  /\ UNCHANGED <<connVars, streams, st, out, call, up, loop, tear, wire, sent, blamed>>

retireByReader(id, by, s) ==
  IF by = "read" /\ s.uploadDone /\ s.responseDone
    THEN BeginForget(id, by, s)
    ELSE SetStream(id, s) /\ UNCHANGED <<streams, tear>>

\* retire: whichever of upload and response ends last forgets the stream.
retire(id, by, s) ==
  IF s.uploadDone /\ s.responseDone
    THEN BeginForget(id, by, s)
    ELSE SetStream(id, s) /\ UNCHANGED <<streams, tear>>

\* EOF, or Close at any time: promote runs once.
ReadDone(id) ==
  /\ rd[id].at = "open"
  /\ rd' = [rd EXCEPT ![id] = [rd[id] EXCEPT !.at = "done"]]
  /\ LET s == [st[id] EXCEPT !.responseDone = TRUE, !.body = bodyClose(st[id].body)]
     IN  IF s.ended THEN retire(id, "read", s) /\ UNCHANGED blamed
         ELSE /\ BeginFail(id, "read", IF id \in streams THEN [s EXCEPT !.aborted = TRUE] ELSE s)
              /\ Blame(id)
  /\ UNCHANGED <<connVars, out, inb, call, up, loop, wire, sent>>

-----------------------------------------------------------------------------
(* The uploader: writeRequestBody.                                         *)

UploadStart(id) ==
  /\ up[id].at = "start"
  /\ Upload(id, IF id \in streams THEN "read" ELSE "done")
  /\ IF id \in streams THEN UNCHANGED st ELSE SetStream(id, [st[id] EXCEPT !.reqOpen = FALSE])
  /\ UNCHANGED <<connVars, streams, out, inb, call, rd, loop, tear, wire, sent, blamed>>

\* A Read of the request body: bytes, the end, or (closed under it) an error.
UploadRead(id) ==
  /\ up[id].at = "read"
  /\ \/ /\ up[id].reads < MaxUpload /\ st[id].reqOpen
        /\ \E n \in DataSizes :
             up' = [up EXCEPT ![id] = [at |-> "take", want |-> n, has |-> 0,
                                       reads |-> up[id].reads + 1]]
     \/ Upload(id, "eof")
  /\ UNCHANGED <<connVars, streams, st, out, inb, call, rd, loop, tear, wire, sent, blamed>>

UploadGivesUpLoudly(id) ==
  /\ Upload(id, "defer")
  /\ BeginFail(id, "up", st[id])

\* (reset and) failStream, unless the upload was stopped on purpose.
UploadGivesUp(id) ==
  /\ Upload(id, "defer")
  /\ IF st[id].uploadStopped THEN UNCHANGED <<streams, st, tear>>
     ELSE BeginFail(id, "up", st[id])

UploadReadError(id) ==
  /\ up[id].at = "read"
  /\ UploadGivesUp(id)
  /\ blamed' = IF st[id].reqOpen THEN blamed \cup {id} ELSE blamed
  /\ UNCHANGED <<connVars, out, inb, call, rd, loop, wire, sent>>

UploadTake(id) ==
  /\ up[id].at = "take"
  /\ IF takeFails(out, id)
       THEN UploadGivesUp(id) /\ UNCHANGED out
       ELSE LET n == Least(outAvail(out, id), up[id].want)
            IN  /\ outAvail(out, id) > 0
                /\ out' = outTake(out, id, n)
                /\ up' = [up EXCEPT ![id] = [up[id] EXCEPT !.at = "write", !.has = n,
                                                           !.want = up[id].want - n]]
                /\ UNCHANGED <<streams, st, tear>>
  /\ UNCHANGED <<connVars, inb, call, rd, loop, wire, sent, blamed>>

\* The DATA frame is written under the writer lock unless the stream was aborted.
UploadWrite(id) ==
  /\ up[id].at = "write"
  /\ IF st[id].aborted
       THEN UploadGivesUp(id) /\ UNCHANGED wire
       ELSE /\ wire' = wire + up[id].has
            /\ up' = [up EXCEPT ![id] =
                  [up[id] EXCEPT !.has = 0, !.at = IF up[id].want > 0 THEN "take" ELSE "read"]]
            /\ UNCHANGED <<streams, st, tear>>
  /\ UNCHANGED <<connVars, out, inb, call, rd, loop, sent, blamed>>

\* END_STREAM (skipped when aborted), then the deferred function.
UploadEnd(id) ==
  /\ up[id].at = "eof"
  /\ Upload(id, "defer")
  /\ UNCHANGED <<connVars, streams, st, out, inb, call, rd, loop, tear, wire, sent, blamed>>

UploadDefer(id) ==
  /\ up[id].at = "defer"
  /\ up' = [up EXCEPT ![id] = [up[id] EXCEPT !.at = "done", !.has = 0]]
  /\ LET s == [st[id] EXCEPT !.reqOpen = FALSE]
     IN  IF id \in streams THEN retire(id, "up", [s EXCEPT !.uploadDone = TRUE])
         ELSE SetStream(id, s) /\ UNCHANGED <<streams, tear>>
  /\ UNCHANGED <<connVars, out, inb, call, rd, loop, wire, sent, blamed>>

-----------------------------------------------------------------------------
(* readLoop.  It handles one frame at a time and is busy while a DATA      *)
(* frame is in hand or a teardown of its own is under way.                 *)

Reading == ~closed /\ loop = NoData /\ ~\E t \in tear : t.by = "loop"

OpenedIds == {i \in Ids : i < nextID}

\* Final response HEADERS or trailers.
handleHeaders(id, end) ==
  /\ Reading
  /\ id \in streams
  /\ LET s == st[id]
     IN  SetStream(id, [s EXCEPT !.gotResp = TRUE, !.hdr = s.hdr \/ ~s.gotResp,
                                 !.ended = s.ended \/ end,
                                 !.body = IF end THEN bodyClose(s.body) ELSE s.body])
  /\ UNCHANGED <<connVars, streams, out, inb, call, up, rd, loop, tear, wire, sent, blamed>>

\* 1xx HEADERS must not end the stream.
handleInformational(id) ==
  /\ Reading /\ id \in streams
  /\ BeginFail(id, "loop", st[id])
  /\ Blame(id)
  /\ UNCHANGED <<connVars, out, inb, call, up, rd, loop, wire, sent>>

\* DATA is charged to the windows, then looked up.
handleData(id, n, pad, end) ==
  /\ Reading
  /\ sent + n + pad <= MaxSent
  /\ sent' = sent + n + pad
  /\ \/ /\ inTakeConnError(inb, n + pad)
        /\ failAll
        /\ UNCHANGED <<nextID, loop, tear>>
     \/ /\ ~inTakeConnError(inb, n + pad) /\ inTakeStreamError(inb, id, n + pad)
        /\ inb' = inCredit(inTake(inb, id, n + pad), 0, n + pad)
        /\ BeginFail(id, "loop", IF id \in streams THEN [st[id] EXCEPT !.aborted = TRUE] ELSE st[id])
        /\ Blame(id)
        /\ UNCHANGED <<connVars, out, loop>>
     \/ /\ ~inTakeConnError(inb, n + pad) /\ ~inTakeStreamError(inb, id, n + pad)
        /\ IF id \in streams
             THEN /\ inb' = inTake(inb, id, n + pad)
                  /\ loop' = [id |-> id, n |-> n, pad |-> pad, end |-> end]
             ELSE /\ inb' = inCredit(inTake(inb, id, n + pad), 0, n + pad)
                  /\ UNCHANGED loop
        /\ UNCHANGED <<connVars, streams, st, out, tear, blamed>>
  /\ UNCHANGED <<call, up, rd, wire>>

\* ... and written to the body it was found to belong to.
dataWrite ==
  /\ loop # NoData
  /\ LET id == loop.id
         s == st[id]
     IN  IF s.body.closed
           THEN /\ inb' = inCredit(inb, 0, loop.n + loop.pad)
                /\ BeginFail(id, "loop", IF id \in streams THEN [s EXCEPT !.aborted = TRUE] ELSE s)
                /\ Blame(id)
           ELSE /\ inb' = inCredit(inb, id, loop.pad)
                /\ SetStream(id, [s EXCEPT
                     !.ended = s.ended \/ loop.end,
                     !.body = IF loop.end THEN bodyClose(bodyWrite(s.body, loop.n))
                                          ELSE bodyWrite(s.body, loop.n)])
                /\ UNCHANGED <<streams, tear, blamed>>
  /\ loop' = NoData
  /\ UNCHANGED <<connVars, out, call, up, rd, wire, sent>>

\* NO_ERROR after a complete response only stops the upload.
stopCompletedUpload(id) == id \in streams /\ st[id].gotResp /\ st[id].ended

handleRST(id, noError) ==
  /\ Reading
  /\ IF noError /\ stopCompletedUpload(id)
       THEN /\ SetStream(id, [st[id] EXCEPT !.uploadStopped = TRUE, !.aborted = TRUE,
                                            !.reqOpen = FALSE])
            /\ out' = outForget(out, id)
            /\ UNCHANGED <<streams, tear, blamed>>
       ELSE /\ BeginFail(id, "loop", st[id])
            /\ blamed' = IF noError /\ st[id].gotResp /\ st[id].ended THEN blamed
                         ELSE blamed \cup {id}
            /\ UNCHANGED out
  /\ UNCHANGED <<connVars, inb, call, up, rd, loop, wire, sent>>

handleWindowUpdate(id, n) ==
  /\ Reading
  /\ \/ n <= wire /\ wire' = wire - n /\ out' = outAddConn(out, n)
     \/ /\ id \in DOMAIN out.stream => out.stream[id] + n <= SendWin \* bound
        /\ out' = outAdd(out, id, n)
        /\ UNCHANGED wire
  /\ UNCHANGED <<connVars, streams, st, inb, call, up, rd, loop, tear, sent, blamed>>

handleSettings(v) ==
  /\ Reading
  /\ out' = applyInitialWindow(out, v)
  /\ UNCHANGED <<connVars, streams, st, inb, call, up, rd, loop, tear, wire, sent, blamed>>

\* GOAWAY, a failed read, or a promise whose header block cannot be read.  Frames
\* read after the last find no stream.
loopEnds ==
  /\ Reading
  /\ failAll
  /\ UNCHANGED <<nextID, call, up, rd, loop, tear, wire, sent>>

-----------------------------------------------------------------------------
(* Promised streams are captured or reset, never forwarded.                *)

handlePushPromise(p) ==
  /\ Reading /\ CapturePush /\ p \notin DOMAIN pushes
  /\ pushes' = [i \in DOMAIN pushes \cup {p} |-> IF i = p THEN 0 ELSE pushes[i]]
  /\ inb' = inOpen(inb, p)
  /\ out' = outOpen(out, p)
  /\ UNCHANGED <<closed, nextID, streams, st, call, up, rd, loop, tear, wire, sent, blamed>>

finishPush(p) ==
  /\ pushes' = Drop(pushes, p)
  /\ out' = outForget(out, p)

\* DATA of a promised stream; without bytes, the HEADERS that end it.
handlePushData(p, n, end) ==
  /\ Reading /\ p \in DOMAIN pushes
  /\ sent + n <= MaxSent
  /\ sent' = sent + n
  /\ \/ /\ inTakeConnError(inb, n)
        /\ failAll
     \/ /\ ~inTakeConnError(inb, n)
        /\ IF (MaxBody > 0 /\ pushes[p] + n > MaxBody) \/ end
             THEN /\ inb' = inForget(inCredit(inTake(inb, p, n), 0, n), p)
                  /\ finishPush(p)
             ELSE /\ inb' = inCredit(inTake(inb, p, n), p, n)
                  /\ pushes' = [pushes EXCEPT ![p] = pushes[p] + n]
                  /\ UNCHANGED out
        /\ UNCHANGED <<closed, streams, st, blamed>>
  /\ UNCHANGED <<nextID, call, up, rd, loop, tear, wire>>

\* RST_STREAM of a promised stream: failStream without a stream.
handlePushRST(p) ==
  /\ Reading /\ p \in DOMAIN pushes
  /\ inb' = inForget(inb, p)
  /\ finishPush(p)
  /\ UNCHANGED <<closed, nextID, streams, st, call, up, rd, loop, tear, wire, sent, blamed>>

-----------------------------------------------------------------------------
Caller(id) ==
  \/ \E hasBody \in BOOLEAN : Open(id, hasBody) \/ OpenFails(id, hasBody)
  \/ Refused(id)
  \/ CallCancel(id) \/ CallFail(id) \/ CallHeaders(id)

Reader(id) == ReadBody(id) \/ ReadCredit(id) \/ ReadDone(id)

Uploader(id) ==
  \/ UploadStart(id) \/ UploadRead(id) \/ UploadReadError(id) \/ UploadTake(id)
  \/ UploadWrite(id) \/ UploadEnd(id) \/ UploadDefer(id)

\* Frames of the origin.
Frame ==
  \/ \E id \in OpenedIds :
       \/ \E end \in BOOLEAN : handleHeaders(id, end)
       \/ handleInformational(id)
       \/ \E n \in DataSizes, pad \in Pads, end \in BOOLEAN : handleData(id, n, pad, end)
       \/ \E noError \in BOOLEAN : handleRST(id, noError)
       \/ \E n \in DataSizes : handleWindowUpdate(id, n)
  \/ \E v \in Windows : handleSettings(v)
  \/ \E p \in PushIds :
       \/ handlePushPromise(p) \/ handlePushRST(p)
       \/ \E n \in DataSizes \cup {0}, end \in BOOLEAN : handlePushData(p, n, end)
  \/ loopEnds

Next ==
  \/ \E id \in Ids : Caller(id) \/ Reader(id) \/ Uploader(id)
  \/ Frame
  \/ dataWrite
  \/ EndTear

Spec == Init /\ [][Next]_vars

\* Runnable goroutines run.  The origin, the client that feeds an upload and the
\* reader of a response need not do anything.
UploaderRuns(id) ==
  \/ UploadStart(id) \/ UploadTake(id) \/ UploadWrite(id) \/ UploadEnd(id) \/ UploadDefer(id)
  \/ ~st[id].reqOpen /\ UploadRead(id)

FairSpec ==
  /\ Spec
  /\ \A id \in Ids :
       /\ WF_vars(UploaderRuns(id))
       /\ \A by \in {"call", "read", "up", "loop"} : WF_vars(EndTearBy(id, by))

-----------------------------------------------------------------------------
(* Properties.                                                             *)

\* Bytes charged to the connection's receive window that somebody still answers for.
Unread ==
  SumFunction([i \in Ids |-> unreleased(st[i].body) + rd[i].has])
    + loop.n + loop.pad + SumFunction([t \in tear |-> t.unread])

\* Unread response bytes are never credited twice (by the reader and by a
\* teardown), so what the connection buffers stays within the one window it
\* advertised: releaseConnWindow against Read, credit against creditConn.  And
\* the uploads of all streams together never send more than the origin granted
\* the connection: outFlow.take under concurrent uploads and WINDOW_UPDATEs.
WindowBounds ==
  /\ ~closed => inb.conn >= 0 /\ inb.conn + Unread <= RecvWin
  /\ out.conn >= 0 /\ out.conn + wire + SumFunction([i \in Ids |-> up[i].has]) <= SendWin

Finished(id) ==
  /\ call[id] = "failed" \/ (call[id] = "response" /\ rd[id].at = "done")
  /\ up[id].at \in {"none", "done"}
  /\ loop.id # id /\ ~\E t \in tear : t.id = id

\* When caller, uploader and reader of a stream are through, whoever was last has
\* removed it from every table (retire, forget, failStream, failAll); a promised
\* stream that is over has left no window behind either (finishPush).
NothingLeftBehind ==
  /\ \A id \in Ids : Finished(id) =>
       id \notin streams \cup DOMAIN inb.stream \cup DOMAIN out.stream
  /\ \A p \in PushIds : p \in (DOMAIN inb.stream \cup DOMAIN out.stream) => p \in DOMAIN pushes

\* RoundTrip fails only for a reason of its own: the caller gave up, the connection
\* or the origin failed it, the upload or the reader broke off.  A NO_ERROR reset
\* after the complete response is no such reason (stopCompletedUpload).
FailureHasCause == \A id \in Ids : call[id] = "failed" => id \in blamed

\* An uploader whose stream is gone gets to its end: it is never left in
\* outFlow.take or in a Read of the request body.
UploadEnds ==
  \A id \in Ids : (id \notin streams) ~> (id \in streams \/ up[id].at \in {"none", "done"})

=============================================================================
