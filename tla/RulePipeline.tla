---------------------------- MODULE RulePipeline ----------------------------
(***************************************************************************)
(* What a rule does to one exchange: the request phase before the origin   *)
(* is contacted and the response phase before the client is answered       *)
(* (internal/proxy/rules.go, with the actions of internal/rules).  The     *)
(* operators work on a record e for the exchange and return the set of its *)
(* next states; the modules that drive exchanges give them processes,      *)
(* connections and time.                                                   *)
(*                                                                         *)
(*   req, resp   the action of the winning rule of each phase              *)
(*   size        the request body against maxBodyBytes: none, fits, over   *)
(*   left        what the proxy has not read of it: none, tail, all        *)
(*   rsize       the response body, likewise                               *)
(*   from        the origin's body: none (no response yet), open, closed   *)
(*   rows        inserts attempted for the exchange                        *)
(*   resumed     an operator let a stored request through                  *)
(*   skip        skipInsert: the paused row already stands for the exchange*)
(*   wrote       complete or synthetic responses handed to the client      *)
(***************************************************************************)
EXTENDS Naturals

Actions == {"none", "delay", "throttle", "header", "body", "drop", "status",
            "redirect", "silent", "hang", "breakpoint"}
Sizes == {"none", "fits", "over"}

\* e begins another exchange with a request of the given rule and size; what else
\* its record holds stays.
Exchange(e, pc, req, size) ==
  [e EXCEPT !.pc = pc, !.req = req, !.resp = "none", !.size = size, !.rsize = "none",
            !.left = IF size = "none" THEN "none" ELSE "all", !.from = "none",
            !.rows = 0, !.resumed = FALSE, !.skip = FALSE, !.wrote = 0]

Mutates(a) == a \in {"body", "status", "drop", "breakpoint", "redirect"}

\* Up to maxBodyBytes of the body are read before the action is applied.
prepareRequestBody(e) ==
  IF ~Mutates(e.req) \/ e.size = "none" THEN e
  ELSE [e EXCEPT !.left = IF e.size = "over" THEN "tail" ELSE "none"]

\* The captured part of the origin's body; the origin's body is closed unless
\* there is more of it than the cap.
bufferResponse(e) ==
  [e EXCEPT !.from = IF e.rsize = "over" THEN @ ELSE "closed"]

drainDiscard(e) == [e EXCEPT !.from = "closed"]

capture(e) == [e EXCEPT !.rows = @ + 1]

-----------------------------------------------------------------------------
synthesize(e) == [capture(e) EXCEPT !.wrote = @ + 1, !.pc = "synthesize"]
captureSilentRequest(e) == [capture(e) EXCEPT !.pc = "silentClose"]

\* waitBreakpoint begins: an inbox that refuses the row counts as a timeout.
pausedOr(e, pc, refused) == {[capture(e) EXCEPT !.pc = pc], refused}

runRequestRules(e) ==
  LET b == prepareRequestBody(e)
      on == [b EXCEPT !.pc = "forward"]
  IN  CASE e.req \in {"none", "throttle", "header", "body"} -> {on}
        [] e.req \in {"delay", "hang"} -> {[b EXCEPT !.pc = "reqSleep"]}
        [] e.req \in {"drop", "status", "redirect"} -> {synthesize(b)}
        [] e.req = "silent" -> {captureSilentRequest(b)}
        [] e.req = "breakpoint" ->
             pausedOr(b, "reqPaused", [capture(on) EXCEPT !.skip = TRUE])

\* sleepDelay in the request phase: the timer fires, or the context ends first.
requestSlept(e) ==
  IF e.req = "hang" THEN captureSilentRequest(e) ELSE [e EXCEPT !.pc = "forward"]
requestCancelled(e) == [e EXCEPT !.pc = "abort"]

\* WaitPaused returns: the operator dropped or resumed the row, or time is up.
requestVerdicts(e) ==
  { [e EXCEPT !.wrote = @ + 1, !.pc = "synthesize"],
    [e EXCEPT !.resumed = TRUE, !.pc = "forward"],
    [e EXCEPT !.skip = TRUE, !.pc = "forward"] }

-----------------------------------------------------------------------------
silentResponse(e) == [capture(drainDiscard(e)) EXCEPT !.pc = "silentClose"]

runResponseRules(e) ==
  LET on == [e EXCEPT !.pc = "write"]
      buffered == bufferResponse(e)
  IN  CASE e.resp \in {"none", "throttle", "header"} -> {on}
        [] e.resp \in {"delay", "hang"} -> {[e EXCEPT !.pc = "respSleep"]}
        [] e.resp \in {"body", "status", "redirect"} -> {[buffered EXCEPT !.pc = "write"]}
        [] e.resp = "silent" -> {silentResponse(e)}
        [] e.resp = "drop" -> {synthesize(buffered)}
        [] e.resp = "breakpoint" ->
             pausedOr(buffered, "respPaused",
                      [capture(buffered) EXCEPT !.skip = TRUE, !.pc = "write"])

\* A delayed response is written even when the wait was cut short; a hang is not.
responseSlept(e) ==
  IF e.resp = "hang" THEN silentResponse(e) ELSE [e EXCEPT !.pc = "write"]
responseCancelled(e) ==
  IF e.resp = "hang" THEN [drainDiscard(e) EXCEPT !.pc = "abort"]
  ELSE [e EXCEPT !.pc = "write"]

responseVerdicts(e) ==
  { [e EXCEPT !.wrote = @ + 1, !.pc = "synthesize"],
    [e EXCEPT !.skip = TRUE, !.pc = "write"] }

\* The end of finishResponseWrite, once write has returned.
finishResponse(e) ==
  LET f == [e EXCEPT !.wrote = @ + 1, !.pc = "continue"]
  IN  IF e.skip THEN f ELSE capture(f)

\* Mutant: a failed exchange is answered and not recorded.
upstreamFailedUnrecorded(e) == [e EXCEPT !.wrote = @ + 1, !.pc = "failed"]

\* Upstream failed: the flow is recorded and a 502 written.
upstreamFailed(e) == [capture(e) EXCEPT !.wrote = @ + 1, !.pc = "failed"]
=============================================================================
