---------------------------- MODULE InnerStreams ----------------------------
(***************************************************************************)
(* The HTTP/2 streams of one intercepted CONNECT and the single origin     *)
(* connection they share (roundTripInnerH2, innerH2Tunnel and              *)
(* response_stream.go).  Against an HTTP/1.1 origin the streams take turns *)
(* under originMu, which a stream keeps until the origin's response body   *)
(* has been read to its end or closed; against an HTTP/2 origin they       *)
(* multiplex.  A response reaches the client through a queue of QueueCap   *)
(* chunks; the one that waits in the pipe behind it counts as queued.      *)
(*                                                                         *)
(* s[i] is the exchange of stream i (RulePipeline) together with           *)
(*   kind     http, or ws for an extended CONNECT                          *)
(*   gone     the stream's context is cancelled                            *)
(*   unsent   response chunks the origin has not handed over yet           *)
(*   queue    chunks, and the final mark, on their way to the client       *)
(*   drained  the request body has been read to the client's end of it     *)
(*   answer   what the client has seen: none, headers, end, reset          *)
(***************************************************************************)
EXTENDS RulePipeline, Sequences

CONSTANTS Streams, ReqActions(_), RespActions(_), MaxChunks, QueueCap

Nobody == "nobody"

ASSUME StreamsAssumption ==
  /\ Nobody \notin Streams
  /\ \A i \in Streams : ReqActions(i) \cup RespActions(i) \subseteq Actions
  /\ MaxChunks \in Nat \ {0} /\ QueueCap \in Nat \ {0}

VARIABLES s, originMu, conn, originH2
vars == <<s, originMu, conn, originH2>>

newStream ==
  [pc |-> "idle", req |-> "none", resp |-> "none", size |-> "none", rsize |-> "none",
   left |-> "none", from |-> "none", rows |-> 0, resumed |-> FALSE, skip |-> FALSE,
   wrote |-> 0, kind |-> "http", gone |-> FALSE, unsent |-> 0, queue |-> << >>,
   drained |-> FALSE, answer |-> "none"]

Init ==
  /\ s = [i \in Streams |-> newStream]
  /\ originMu = Nobody
  /\ conn = "fresh"
  /\ originH2 \in BOOLEAN

Set(i, e) == s' = [s EXCEPT ![i] = e]

\* Of an exchange that is over, only what was recorded and answered matters.
Over(i, e) ==
  Set(i, [e EXCEPT !.pc = "done", !.req = "none", !.resp = "none", !.rsize = "none",
            !.from = "closed", !.unsent = 0, !.drained = FALSE, !.kind = "http"])
Release(i) == originMu' = IF originMu = i THEN Nobody ELSE originMu

-----------------------------------------------------------------------------
(* The stream's handler, up to the origin.                                 *)

\* A stream arrives; a nested CONNECT or an unknown :protocol is reset.
Open(i, kind, req) ==
  /\ s[i].pc = "idle"
  /\ Set(i, [newStream EXCEPT !.pc = "match", !.kind = kind, !.req = req])
  /\ UNCHANGED <<originMu, conn, originH2>>

Forbidden(i) ==
  /\ s[i].pc = "idle"
  /\ Set(i, [newStream EXCEPT !.pc = "done", !.answer = "reset", !.gone = TRUE])
  /\ UNCHANGED <<originMu, conn, originH2>>

RequestRules(i) ==
  /\ \/ /\ s[i].pc = "match"
        /\ \E e \in runRequestRules(s[i]) : Set(i, e)
     \/ /\ s[i].pc = "reqSleep"
        /\ \/ Set(i, requestSlept(s[i]))
           \/ s[i].gone /\ Set(i, requestCancelled(s[i]))
     \/ /\ s[i].pc = "reqPaused"
        /\ \E e \in requestVerdicts(s[i]) : Set(i, e)
  /\ UNCHANGED <<originMu, conn, originH2>>

\* The request phase answered the stream itself: a synthetic response, a
\* reset, or a bare 502 (403 for a tunnel) when the wait was cut short.
AnswerEarly(i) ==
  /\ s[i].from = "none"
  /\ s[i].pc \in {"synthesize", "silentClose", "abort"}
  /\ Over(i, [s[i] EXCEPT
               !.answer = IF @ = "reset" \/ s[i].pc = "silentClose" THEN "reset" ELSE "end"])
  /\ UNCHANGED <<originMu, conn, originH2>>

Lock(i) ==
  /\ s[i].pc = "forward"
  /\ originH2 \/ originMu = Nobody
  /\ originMu' = IF originH2 THEN originMu ELSE i
  /\ Set(i, [s[i] EXCEPT !.pc = "roundTrip"])
  /\ UNCHANGED <<conn, originH2>>

-----------------------------------------------------------------------------
(* The origin.  The transport of an HTTP/1.1 origin has one connection and *)
(* refuses to dial another; it runs one request at a time on it.           *)

Usable == conn \in {"fresh", "idle"} \/ (originH2 /\ conn = "shared")

RoundTripStart(i) ==
  /\ s[i].pc = "roundTrip"
  /\ Usable
  /\ conn' = IF originH2 THEN "shared" ELSE "busy"
  /\ Set(i, [s[i] EXCEPT !.pc = "awaitResponse"])
  /\ UNCHANGED <<originMu, originH2>>

\* The connection is gone.  While another request is on it the transport queues.
RefusesRedial(i) ==
  /\ s[i].pc = "roundTrip"
  /\ conn = "dead"
  /\ Set(i, [s[i] EXCEPT !.pc = "drain"])
  /\ UNCHANGED <<originMu, conn, originH2>>

\* Mutant: the reservation ends with the response headers.
OriginAnswersUnlocks(i, resp, rsize) ==
  /\ s[i].pc = "awaitResponse" /\ s[i].kind = "http"
  /\ Set(i, [s[i] EXCEPT !.pc = "respond", !.resp = resp, !.rsize = rsize,
               !.from = IF rsize = "none" THEN "closed" ELSE "open", !.unsent = MaxChunks])
  /\ Release(i)
  /\ UNCHANGED <<conn, originH2>>

OriginAnswers(i, resp, rsize) ==
  /\ s[i].pc = "awaitResponse" /\ s[i].kind = "http"
  /\ Set(i, [s[i] EXCEPT !.pc = "respond", !.resp = resp, !.rsize = rsize,
               !.from = IF rsize = "none" THEN "closed" ELSE "open",
               !.unsent = IF rsize = "none" THEN 0 ELSE MaxChunks])
  /\ IF rsize = "none"
     THEN Release(i) /\ conn' = IF originH2 THEN conn ELSE "idle"
     ELSE UNCHANGED <<originMu, conn>>
  /\ UNCHANGED originH2

OriginUpgrades(i) ==
  /\ s[i].pc = "awaitResponse" /\ s[i].kind = "ws"
  /\ Set(i, [s[i] EXCEPT !.pc = "upgrade", !.from = "open"])
  /\ UNCHANGED <<originMu, conn, originH2>>

\* The exchange fails at the origin, or because the stream was cancelled.
OriginFails(i) ==
  /\ s[i].pc = "awaitResponse"
  /\ conn' = IF originH2 THEN conn ELSE "dead"
  /\ Set(i, [s[i] EXCEPT !.pc = "drain"])
  /\ UNCHANGED <<originMu, originH2>>

\* Mutant: the error path returns without the deferred unlock.
UpstreamErrorKeeps(i) ==
  /\ s[i].pc = "drain"
  /\ s[i].drained \/ s[i].gone \/ s[i].kind = "ws"
  /\ Over(i, [upstreamFailed(s[i]) EXCEPT !.answer = "end"])
  /\ UNCHANGED <<originMu, conn, originH2>>

\* drainBody before the flow is recorded and the 502 handed to the client; the
\* reservation goes last, with the deferred unlock.  A tunnel has no body.
UpstreamError(i) ==
  /\ s[i].pc = "drain"
  /\ s[i].drained \/ s[i].gone \/ s[i].kind = "ws"
  /\ conn' = IF originH2 THEN conn ELSE "dead"
  /\ Over(i, [upstreamFailed(s[i]) EXCEPT
               !.answer = IF @ = "reset" \/ s[i].kind = "ws" THEN "reset" ELSE "end"])
  /\ Release(i)
  /\ UNCHANGED originH2

-----------------------------------------------------------------------------
(* originResponseBody: reading to the end, or Close, gives the connection  *)
(* back and with it the reservation, exactly once.                         *)

\* What closing the origin's body does to the connection: an HTTP/1.1
\* connection with unread bytes on it cannot be used again.
closeOrigin(i, drained) ==
  /\ Release(i)
  /\ conn' = IF originH2 \/ s[i].from # "open" THEN conn
             ELSE IF drained THEN "idle" ELSE "dead"

keepOrigin == UNCHANGED <<originMu, conn>>

\* After a step of the response phase that produced e: the body was consumed
\* or closed by it, or is still open.
bodyStep(i, e) ==
  /\ Set(i, [e EXCEPT !.unsent = IF e.from = "closed" /\ e.pc \notin {"write", "respPaused"}
                                 THEN 0 ELSE @])
  /\ IF e.from = "closed" /\ s[i].from = "open" THEN closeOrigin(i, TRUE) ELSE keepOrigin

ResponseRules(i) ==
  /\ \/ /\ s[i].pc = "respond"
        /\ \E e \in runResponseRules(s[i]) : bodyStep(i, e)
     \/ /\ s[i].pc = "respSleep"
        /\ \/ bodyStep(i, responseSlept(s[i]))
           \/ s[i].gone /\ bodyStep(i, responseCancelled(s[i]))
     \/ /\ s[i].pc = "respPaused"
        /\ \E e \in responseVerdicts(s[i]) : bodyStep(i, e)
  /\ UNCHANGED originH2

\* The rule's own answer: a synthetic response, a reset, or a 502.  The
\* goroutine's deferred Close ends the origin's body.
AnswerRule(i) ==
  /\ s[i].from # "none"
  /\ s[i].pc \in {"synthesize", "silentClose", "abort"}
  /\ Over(i, [s[i] EXCEPT
               !.answer = IF @ = "reset" \/ s[i].pc = "silentClose" THEN "reset" ELSE "end"])
  /\ closeOrigin(i, FALSE)
  /\ UNCHANGED originH2

-----------------------------------------------------------------------------
(* The response stream.                                                    *)

Publish(i) ==
  /\ s[i].pc = "write"
  /\ Set(i, [s[i] EXCEPT !.pc = "copy", !.answer = IF @ = "none" THEN "headers" ELSE @])
  /\ UNCHANGED <<originMu, conn, originH2>>

\* io.Copy moves one chunk into the queue; the origin's end of file, found
\* after its last chunk, closes the body at once.
CopyChunk(i) ==
  /\ s[i].pc = "copy"
  /\ s[i].unsent > 0 /\ Len(s[i].queue) < QueueCap
  /\ Set(i, [s[i] EXCEPT !.queue = Append(@, "chunk"), !.unsent = @ - 1])
  /\ UNCHANGED <<originMu, conn, originH2>>

CopyEnds(i) ==
  /\ s[i].pc = "copy" /\ s[i].unsent = 0
  /\ Set(i, [s[i] EXCEPT !.pc = "finish", !.from = "closed"])
  /\ closeOrigin(i, TRUE)
  /\ UNCHANGED originH2

\* The client went away: the write fails and pipe.write closes the body.
CopyFails(i) ==
  /\ s[i].pc = "copy" /\ s[i].gone
  /\ Set(i, [s[i] EXCEPT !.pc = "finish", !.from = "closed", !.unsent = 0])
  /\ closeOrigin(i, FALSE)
  /\ UNCHANGED originH2

\* AfterFunc on the stream's context closes the origin's body under a
\* goroutine that is still pausing or copying.
CancelClosesBody(i) ==
  /\ s[i].gone /\ s[i].from = "open"
  /\ s[i].pc \in {"respond", "respSleep", "respPaused", "write", "copy"}
  /\ Set(i, [s[i] EXCEPT !.from = "closed", !.unsent = 0])
  /\ closeOrigin(i, FALSE)
  /\ UNCHANGED originH2

\* The flow is recorded, then the queue gets the final mark unless the stream
\* is gone.
Finish(i) ==
  /\ s[i].pc = "finish"
  /\ s[i].gone \/ Len(s[i].queue) < QueueCap
  /\ Over(i, [finishResponse(s[i]) EXCEPT
               !.queue = IF s[i].gone THEN << >> ELSE Append(@, "eof")])
  /\ UNCHANGED <<originMu, conn, originH2>>

-----------------------------------------------------------------------------
(* An extended CONNECT keeps the reservation while its tunnel runs.        *)

\* The origin refused the upgrade: its body is drained and the client gets
\* the origin's status.
UpgradeRefused(i) ==
  /\ s[i].pc = "upgrade"
  /\ Over(i, [capture(s[i]) EXCEPT
               !.wrote = @ + 1, !.answer = IF @ = "none" THEN "end" ELSE @])
  /\ closeOrigin(i, TRUE)
  /\ UNCHANGED originH2

\* AfterAck: the tunnel runs on the origin; its flow is recorded at once, or
\* with its frames when the tunnel is inspected.
UpgradeAccepted(i, inspect) ==
  /\ s[i].pc = "upgrade"
  /\ LET e == [s[i] EXCEPT !.wrote = @ + 1, !.answer = IF @ = "none" THEN "headers" ELSE @]
     IN  Set(i, IF inspect THEN [e EXCEPT !.pc = "inspect"]
                ELSE [capture(e) EXCEPT !.pc = "tunnel"])
  /\ UNCHANGED <<originMu, conn, originH2>>

TunnelEnds(i) ==
  /\ s[i].pc \in {"tunnel", "inspect"}
  /\ LET e == [s[i] EXCEPT !.answer = IF @ = "headers" THEN "end" ELSE @]
     IN  Over(i, IF s[i].pc = "inspect" THEN capture(e) ELSE e)
  /\ closeOrigin(i, FALSE)
  /\ UNCHANGED originH2

-----------------------------------------------------------------------------
(* The client.                                                             *)

ClientReads(i) ==
  /\ s[i].queue # << >> /\ ~s[i].gone
  /\ Set(i, [s[i] EXCEPT !.queue = Tail(@),
               !.answer = IF Head(s[i].queue) = "eof" THEN "end" ELSE @])
  /\ UNCHANGED <<originMu, conn, originH2>>

ClientEndsUpload(i) ==
  /\ s[i].pc = "drain" /\ ~s[i].drained
  /\ Set(i, [s[i] EXCEPT !.drained = TRUE])
  /\ UNCHANGED <<originMu, conn, originH2>>

ClientResets(i) ==
  /\ s[i].pc # "idle" /\ ~s[i].gone /\ s[i].answer \notin {"end", "reset"}
  /\ Set(i, [s[i] EXCEPT !.gone = TRUE, !.answer = "reset", !.queue = << >>])
  /\ UNCHANGED <<originMu, conn, originH2>>

Worker(i) ==
  \/ RequestRules(i) \/ AnswerEarly(i) \/ Lock(i)
  \/ RoundTripStart(i) \/ RefusesRedial(i) \/ OriginFails(i)
  \/ (\E resp \in RespActions(i), rsize \in Sizes : OriginAnswers(i, resp, rsize))
  \/ OriginUpgrades(i)
  \/ UpstreamError(i) \/ ResponseRules(i) \/ AnswerRule(i)
  \/ Publish(i) \/ CopyChunk(i) \/ CopyEnds(i) \/ CopyFails(i) \/ Finish(i)
  \/ UpgradeRefused(i) \/ (\E inspect \in BOOLEAN : UpgradeAccepted(i, inspect)) \/ TunnelEnds(i)

Client(i) == ClientReads(i) \/ ClientEndsUpload(i)

Next ==
  \E i \in Streams :
    \/ \E kind \in {"http", "ws"}, req \in ReqActions(i) : Open(i, kind, req)
    \/ Forbidden(i) \/ Worker(i) \/ CancelClosesBody(i)
    \/ Client(i) \/ ClientResets(i)

\* Goroutines run, timers fire, the origin answers or fails, and a client
\* reads its streams and ends its uploads.  It need never reset one.  A mutex
\* in Go does not starve the goroutines that wait for it.
Fairness ==
  \A i \in Streams :
    WF_vars(Worker(i)) /\ SF_vars(Lock(i)) /\ WF_vars(ClientReads(i))
      /\ WF_vars(ClientEndsUpload(i)) /\ WF_vars(CancelClosesBody(i))

Spec == Init /\ [][Next]_vars /\ Fairness

-----------------------------------------------------------------------------
\* An HTTP/1.1 origin connection is reserved from the request until the last
\* byte of its response has been read or the body closed, whoever closes it:
\* the copy, a rule, the reset of the stream (D44).  But a paused stream holds
\* up no other one: request pauses, and response pauses whose body fits the
\* capture cap, run outside the reservation (D37, D78).
OriginIsReserved ==
  \A i \in Streams :
    /\ ~originH2 /\ (s[i].pc = "awaitResponse" \/ s[i].from = "open") => originMu = i
    /\ s[i].pc = "reqPaused" \/ (s[i].pc = "respPaused" /\ s[i].rsize # "over")
         => originMu # i

\* A stream that was answered has been recorded, whichever path answered it,
\* and it is recorded twice only past a breakpoint of its request phase.
AnsweredIsRecorded ==
  \A i \in Streams :
    s[i].pc = "done" /\ s[i].wrote > 0 =>
      /\ s[i].rows > 0 /\ s[i].wrote = 1
      /\ s[i].rows > 1 => s[i].resumed \/ s[i].skip

\* Every stream comes to its end, answered or reset, however the others of the
\* connection fare, and so does every reservation of the origin.
EveryStreamEnds ==
  \A i \in Streams :
    s[i].pc = "match" ~> s[i].pc = "done" /\ s[i].answer \in {"end", "reset"}
=============================================================================
