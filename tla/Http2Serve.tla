----------------------------- MODULE Http2Serve -----------------------------
(***************************************************************************)
(* ServeConn of internal/http2x/serve.go: the client's end of an HTTP/2    *)
(* connection.  One goroutine reads frames; every stream has a goroutine   *)
(* that runs its handler (or tunnel) and writes the response, and its      *)
(* request body may be read by another one, the upload to the origin,      *)
(* after the handler has returned.  The client is external.                *)
(***************************************************************************)
EXTENDS Http2Flow, FiniteSetsExt

CONSTANTS
  Ids,        \* client streams, 1 .. N for 1, 3, 5, ...
  MaxStreams, \* opts.MaxConcurrentStreams
  DataSizes,  \* sizes of DATA frames
  MaxSent,    \* bound: DATA bytes the client sends
  MaxWrites   \* bound: chunks of one response

ServeConstants ==
  /\ FlowConstants
  /\ Ids \subseteq Nat \ {0} /\ IsFiniteSet(Ids)
  /\ MaxStreams \in Nat \ {0} /\ DataSizes \subseteq Nat \ {0}
  /\ MaxSent \in Nat /\ MaxWrites \in Nat

ASSUME ServeAssumption == ServeConstants

VARIABLES
  over,      \* closed: the read loop has returned
  lastID, open,
  streams,   \* domain of the streams map
  body,      \* body[id], the bodyBuf of a stream
  done,      \* streams whose handlerDone is set
  out, inb,
  h,         \* handler goroutine: place, bytes to write, bytes taken, chunks so far
  rd,        \* reader of the request body: bytes read but not credited
  loop,      \* read loop: what it has in hand between two locks
  tear,      \* finish calls under way
  wire, sent,
  ended      \* history: streams the client ended or something has failed

serveVars == <<over, lastID, open, streams, body, done, out, inb, h, rd, loop, tear, wire, sent, ended>>

Idle == [at |-> "frame", id |-> 0, n |-> 0, end |-> FALSE]

ServeInit ==
  /\ over = FALSE /\ lastID = 0 /\ open = 0 /\ streams = {} /\ done = {}
  /\ body = [i \in Ids |-> newBodyBuf]
  /\ out = newOutFlow /\ inb = newInFlow
  /\ h = [i \in Ids |-> [at |-> "none", want |-> 0, has |-> 0, writes |-> 0]]
  /\ rd = [i \in Ids |-> 0]
  /\ loop = Idle /\ tear = {} /\ wire = 0 /\ sent = 0 /\ ended = {}

\* The handler goroutine of id goes to p.
At(id, p) == h' = [h EXCEPT ![id] = [h[id] EXCEPT !.at = p]]

-----------------------------------------------------------------------------
(* finish.  mu is held from the release of the body's window to the        *)
(* removal from the map; the body has a mutex of its own.                  *)

MuFree == \A t \in tear : t.step # "remove"

finishAlways(id, force, by) ==
  IF id \notin streams THEN UNCHANGED <<done, tear, body>>
  ELSE /\ tear' = tear \cup {[id |-> id, by |-> by, step |-> "remove", unread |-> unreleased(body[id])]}
       /\ body' = [body EXCEPT ![id] = released(body[id])]
       /\ UNCHANGED done

\* An unforced finish keeps a stream whose client is still uploading.
finish(id, force, by) ==
  IF id \notin streams THEN UNCHANGED <<done, tear, body>>
  ELSE IF ~force /\ ~body[id].closed THEN done' = done \cup {id} /\ UNCHANGED <<tear, body>>
  ELSE /\ tear' = tear \cup {[id |-> id, by |-> by, step |-> "remove", unread |-> unreleased(body[id])]}
       /\ body' = [body EXCEPT ![id] = released(body[id])]
       /\ UNCHANGED done

FinishRemoveOnly(t) ==
  /\ t.step = "remove"
  /\ body' = [body EXCEPT ![t.id] = bodyClose(body[t.id])]
  /\ streams' = streams \ {t.id}
  /\ inb' = inForget(inb, t.id)
  /\ tear' = (tear \ {t}) \cup {[t EXCEPT !.step = "credit"]}
  /\ UNCHANGED <<over, lastID, open, done, out, h, rd, loop, wire, sent, ended>>

FinishRemove(t) ==
  /\ t.step = "remove"
  /\ body' = [body EXCEPT ![t.id] = bodyClose(body[t.id])]
  /\ streams' = streams \ {t.id}
  /\ open' = IF open > 0 THEN open - 1 ELSE open
  /\ inb' = inForget(inb, t.id)
  /\ tear' = (tear \ {t}) \cup {[t EXCEPT !.step = "credit"]}
  /\ UNCHANGED <<over, lastID, done, out, h, rd, loop, wire, sent, ended>>

FinishCredit(t) ==
  /\ t.step = "credit"
  /\ inb' = inCredit(inb, 0, t.unread)
  /\ out' = outForget(out, t.id)
  /\ tear' = tear \ {t}
  /\ UNCHANGED <<over, lastID, open, streams, body, done, h, rd, loop, wire, sent, ended>>

FinishStep == \E t \in tear : FinishRemove(t) \/ FinishCredit(t)

-----------------------------------------------------------------------------
(* The read loop.                                                          *)

Reading == ~over /\ loop = Idle /\ MuFree /\ ~\E t \in tear : t.by = "loop"

NewStream(id, end) ==
  /\ lastID' = id
  /\ open' = open + 1
  /\ body' = [body EXCEPT ![id] = IF end THEN bodyClose(newBodyBuf) ELSE newBodyBuf]
  /\ inb' = inOpen(inb, id)
  /\ streams' = streams \cup {id}
  /\ out' = outOpen(out, id)
  /\ At(id, "run")
  /\ ended' = IF end THEN ended \cup {id} ELSE ended
  /\ UNCHANGED loop

\* HEADERS: a new stream, or trailers that end the request body.  A stream with an
\* old id, or one stream too many, is answered with RST_STREAM and forgotten.
RecvHeaders(id, end) ==
  /\ Reading
  /\ \/ /\ id \in streams
        /\ body' = [body EXCEPT ![id] = bodyClose(body[id])]
        /\ loop' = [Idle EXCEPT !.at = "ended", !.id = id]
        /\ ended' = ended \cup {id}
        /\ UNCHANGED <<lastID, open, streams, out, inb, h>>
     \/ /\ id \notin streams /\ id > lastID /\ open < MaxStreams
        /\ NewStream(id, end)
  /\ UNCHANGED <<over, done, rd, tear, wire, sent>>

RecvRefused(id) ==
  /\ Reading /\ id \notin streams /\ id > lastID /\ open >= MaxStreams
  /\ UNCHANGED serveVars

\* DATA: charged, then looked up.  (A stream's window is never smaller than the
\* connection's, see ReceiveWindowBounds, so only the latter can be overrun.)
RecvData(id, n, end) ==
  /\ Reading /\ id <= lastID
  /\ sent + n <= MaxSent
  /\ sent' = sent + n
  /\ \/ /\ inTakeConnError(inb, n)
        /\ loop' = [Idle EXCEPT !.at = "fatal"]
        /\ UNCHANGED <<body, inb, done, tear, ended>>
     \/ /\ ~inTakeConnError(inb, n) /\ id \in streams
        /\ inb' = inTake(inb, id, n)
        /\ loop' = [at |-> "data", id |-> id, n |-> n, end |-> end]
        /\ UNCHANGED <<body, done, tear, ended>>
     \/ /\ ~inTakeConnError(inb, n) /\ id \notin streams
        /\ inb' = inCredit(inTake(inb, id, n), 0, n)
        /\ UNCHANGED <<body, loop, done, tear, ended>>
  /\ UNCHANGED <<over, lastID, open, streams, out, h, rd, wire>>

\* The body is written without mu.  END_STREAM closes it: endRequestBody.
DataWrite ==
  /\ loop.at = "data"
  /\ LET id == loop.id
     IN  IF body[id].closed
           THEN /\ MuFree
                /\ inb' = inCredit(inb, 0, loop.n)
                /\ finish(id, TRUE, "loop")
                /\ loop' = Idle
                /\ ended' = ended \cup {id}
           ELSE /\ body' = [body EXCEPT ![id] = IF loop.end
                                                      THEN bodyClose(bodyWrite(body[id], loop.n))
                                                      ELSE bodyWrite(body[id], loop.n)]
                /\ loop' = IF loop.end THEN [Idle EXCEPT !.at = "ended", !.id = id] ELSE Idle
                /\ ended' = IF loop.end THEN ended \cup {id} ELSE ended
                /\ UNCHANGED <<done, tear, inb>>
  /\ UNCHANGED <<over, lastID, open, streams, out, h, rd, wire, sent>>

endRequestBodyNoFinish ==
  /\ loop.at = "ended" /\ MuFree
  /\ loop' = Idle
  /\ UNCHANGED <<over, lastID, open, streams, body, done, tear, out, inb, h, rd, wire, sent, ended>>

\* Second half of endRequestBody: the stream goes if its handler is done.
endRequestBody ==
  /\ loop.at = "ended" /\ MuFree
  /\ IF loop.id \in streams /\ loop.id \in done THEN finish(loop.id, TRUE, "loop")
     ELSE UNCHANGED <<done, tear, body>>
  /\ loop' = Idle
  /\ UNCHANGED <<over, lastID, open, streams, out, inb, h, rd, wire, sent, ended>>

\* RST_STREAM, or a frame the framer rejects for one stream.
RecvRST(id) ==
  /\ Reading /\ id <= lastID
  /\ finish(id, TRUE, "loop")
  /\ ended' = ended \cup {id}
  /\ UNCHANGED <<over, lastID, open, streams, out, inb, h, rd, loop, wire, sent>>

RecvWindowUpdate(id, n) ==
  /\ Reading
  /\ \/ n <= wire /\ wire' = wire - n /\ out' = outAddConn(out, n)
     \/ /\ id \in DOMAIN out.stream => out.stream[id] + n <= SendWin \* bound
        /\ out' = outAdd(out, id, n)
        /\ UNCHANGED wire
  /\ UNCHANGED <<over, lastID, open, streams, body, done, tear, inb, h, rd, loop, sent, ended>>

RecvSettings(v) ==
  /\ Reading
  /\ out' = applyInitialWindow(out, v)
  /\ UNCHANGED <<over, lastID, open, streams, body, done, tear, inb, h, rd, loop, wire, sent, ended>>

\* GOAWAY, a read error, a cancelled context or a connection error: the deferred
\* functions cancel, close and forget every stream.
LoopReturns ==
  /\ Reading \/ (loop.at = "fatal" /\ MuFree)
  /\ over' = TRUE
  /\ loop' = Idle
  /\ body' = [i \in Ids |-> IF i \in streams THEN bodyClose(body[i]) ELSE body[i]]
  /\ ended' = ended \cup streams
  /\ streams' = {}
  /\ inb' = [inb EXCEPT !.stream = << >>]
  /\ out' = [outClose(out) EXCEPT !.stream = << >>]
  /\ UNCHANGED <<lastID, open, done, h, rd, tear, wire, sent>>

-----------------------------------------------------------------------------
(* The handler of a stream.                                                *)

\* It returns a response (or a tunnel) to be written, or an error.
HandlerReturns(id) ==
  /\ h[id].at = "run" /\ MuFree
  /\ \/ /\ ~over
        /\ At(id, "write")
        /\ UNCHANGED <<body, done, tear, ended>>
     \/ /\ At(id, "none")
        /\ finish(id, TRUE, "handler")
        /\ ended' = ended \cup {id}
  /\ UNCHANGED <<over, lastID, open, streams, out, inb, rd, loop, wire, sent>>

\* done was called after the connection went away.
HandlerTooLate(id) ==
  /\ h[id].at = "run" /\ over /\ MuFree
  /\ At(id, "none")
  /\ finish(id, FALSE, "handler")
  /\ UNCHANGED <<over, lastID, open, streams, out, inb, rd, loop, wire, sent, ended>>

\* writeResponse reads the response body ...
ResponseRead(id) ==
  /\ h[id].at = "write"
  /\ \/ /\ h[id].writes < MaxWrites
        /\ \E n \in DataSizes :
             h' = [h EXCEPT ![id] = [at |-> "take", want |-> n, has |-> 0,
                                      writes |-> h[id].writes + 1]]
     \/ At(id, "finish")
  /\ UNCHANGED <<over, lastID, open, streams, body, done, tear, out, inb, rd, loop, wire, sent, ended>>

\* A tunnel (CONNECT, WebSocket) writes through the same windows and always ends the
\* stream, whatever its client still has to send.
serveTunnel(id) ==
  /\ h[id].at = "write" /\ MuFree
  /\ At(id, "none")
  /\ finish(id, TRUE, "handler")
  /\ ended' = ended \cup {id}
  /\ UNCHANGED <<over, lastID, open, streams, out, inb, rd, loop, wire, sent>>

\* ... or fails to, and the stream is reset.
ResponseFails(id) ==
  /\ h[id].at = "write" /\ MuFree
  /\ At(id, "finish")
  /\ finish(id, TRUE, "handler")
  /\ ended' = ended \cup {id}
  /\ UNCHANGED <<over, lastID, open, streams, out, inb, rd, loop, wire, sent>>

ResponseTake(id) ==
  /\ h[id].at = "take"
  /\ IF takeFails(out, id)
       THEN /\ MuFree
            /\ At(id, "finish")
            /\ finish(id, TRUE, "handler")
            /\ ended' = ended \cup {id}
            /\ UNCHANGED out
       ELSE LET n == Least(outAvail(out, id), h[id].want)
            IN  /\ outAvail(out, id) > 0
                /\ out' = outTake(out, id, n)
                /\ h' = [h EXCEPT ![id] = [h[id] EXCEPT !.at = "data", !.has = n,
                                                             !.want = h[id].want - n]]
                /\ UNCHANGED <<body, done, tear, ended>>
  /\ UNCHANGED <<over, lastID, open, streams, inb, rd, loop, wire, sent>>

ResponseWrite(id) ==
  /\ h[id].at = "data"
  /\ wire' = wire + h[id].has
  /\ h' = [h EXCEPT ![id] =
              [h[id] EXCEPT !.has = 0, !.at = IF h[id].want > 0 THEN "take" ELSE "write"]]
  /\ UNCHANGED <<over, lastID, open, streams, body, done, tear, out, inb, rd, loop, sent, ended>>

\* The deferred finish(id, false).
HandlerFinish(id) ==
  /\ h[id].at = "finish" /\ MuFree
  /\ At(id, "none")
  /\ finish(id, FALSE, "handler")
  /\ UNCHANGED <<over, lastID, open, streams, out, inb, rd, loop, wire, sent, ended>>

-----------------------------------------------------------------------------
(* Whoever reads the request body: the handler, or an upload it started.   *)

ReadBody(id) ==
  /\ rd[id] = 0 /\ body[id].buf > 0
  /\ \E n \in 1 .. body[id].buf :
       /\ body' = [body EXCEPT ![id] = bodyRead(body[id], n)]
       /\ rd' = [rd EXCEPT ![id] = IF body[id].released THEN 0 ELSE n]
  /\ UNCHANGED <<over, lastID, open, streams, done, tear, out, inb, h, loop, wire, sent, ended>>

ReadCredit(id) ==
  /\ rd[id] > 0
  /\ inb' = inCredit(inb, id, rd[id])
  /\ rd' = [rd EXCEPT ![id] = 0]
  /\ UNCHANGED <<over, lastID, open, streams, body, done, tear, out, h, loop, wire, sent, ended>>

-----------------------------------------------------------------------------
Handler(id) ==
  \/ HandlerReturns(id) \/ HandlerTooLate(id) \/ ResponseRead(id) \/ ResponseFails(id) \/ serveTunnel(id)
  \/ ResponseTake(id) \/ ResponseWrite(id) \/ HandlerFinish(id)

Frame ==
  \/ \E id \in Ids :
       \/ \E end \in BOOLEAN : RecvHeaders(id, end)
       \/ RecvRefused(id)
       \/ \E n \in DataSizes, end \in BOOLEAN : RecvData(id, n, end)
       \/ RecvRST(id)
       \/ \E n \in DataSizes : RecvWindowUpdate(id, n)
  \/ \E v \in {1, SendWin} : RecvSettings(v)

ServeNext ==
  \/ Frame \/ DataWrite \/ endRequestBody \/ LoopReturns \/ FinishStep
  \/ \E id \in Ids : Handler(id) \/ ReadBody(id) \/ ReadCredit(id)

ServeSpec == ServeInit /\ [][ServeNext]_serveVars

\* Goroutines that can run do.  Neither the client nor a handler nor a reader of a
\* body has to do anything.
FairSpec ==
  /\ ServeSpec
  /\ WF_serveVars(FinishStep) /\ WF_serveVars(endRequestBody) /\ WF_serveVars(DataWrite)
  /\ \A id \in Ids : WF_serveVars(ResponseTake(id)) /\ WF_serveVars(HandlerFinish(id))

-----------------------------------------------------------------------------
(* Properties.                                                             *)

Unread ==
  SumFunction([i \in Ids |-> unreleased(body[i]) + rd[i]])
    + loop.n + SumFunction([t \in tear |-> t.unread])

\* The connection's accounts balance.  The stream count that admission compares
\* with MaxConcurrentStreams is the number of streams, whatever finishes first:
\* handler, client or a late frame.  No unread request byte is credited twice, so
\* the client never gets more than the advertised window (releaseConnWindow
\* against Read), and responses of all streams stay within what it granted.
AccountsBalance ==
  /\ ~over => /\ open = Cardinality(streams) /\ open <= MaxStreams
              /\ inb.conn >= 0 /\ inb.conn + Unread <= RecvWin
              /\ Reading => \A i \in DOMAIN inb.stream : inb.stream[i] >= inb.conn
  /\ out.conn >= 0 /\ out.conn + wire + SumFunction([i \in Ids |-> h[i].has]) <= SendWin

\* An early response leaves the upload open: the request body is closed only by the
\* client, an error, or the end of the connection (finish with force = false).
UploadOutlivesResponse == \A i \in Ids : body[i].closed => i \in ended

\* A stream whose handler is done and whose client has ended it leaves the map,
\* although the two find out about each other in either order; and a handler
\* blocked on the send window of a stream that is gone does not stay there.
FinishedStreamGoes ==
  \A i \in Ids :
    /\ (i \in streams /\ body[i].closed /\ h[i].at \in {"none", "finish"}) ~> (i \notin streams)
    /\ (h[i].at = "take" /\ i \notin streams) ~> (h[i].at # "take")

\* What the comment in finish promises: unread bytes of a stream that is torn down
\* are given back to the connection, or a later stream stalls.
ReceiveWindowRestored == ~over => inb.conn + Unread = RecvWin

=============================================================================
