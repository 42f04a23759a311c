------------------------------ MODULE Sessions ------------------------------
(***************************************************************************)
(* The proxy's front doors and the admission gate they share: HTTP with an *)
(* absolute URL, CONNECT, SOCKS, original destination (HTTP and TLS),      *)
(* cleartext HTTP/2 and replay.  Every door leads through the gate         *)
(* (replay does not), the protocol switches and proxy authentication, the  *)
(* target guard and the dial, and then into an exchange (RulePipeline), a  *)
(* raw tunnel, or a TLS interception with its own loop of exchanges.       *)
(*                                                                         *)
(* Which switch, rule, name or credential decides is an input: each        *)
(* outcome the code can have is one disjunct.  s[i] is the exchange of     *)
(* session i with                                                          *)
(*   door, ip    how it came in, and the client's address (NoIP: unparsed) *)
(*   kind        http, connect, ws, h2ws (:protocol on h2c) or udp         *)
(*   admitted    it holds a place in the gate                              *)
(*   up          its upstream connection: none, open, closed               *)
(*   eligible    TLS interception is configured for its target             *)
(*   inner       the exchange runs inside an interception                  *)
(*   reached     a dial, a request to the origin or a rule's answer began; *)
(*               once it is settled, the exchange should have a flow         *)
(*   cut         the client was gone when it should have been answered     *)
(*   synced      the request was read from a request boundary              *)
(*   n           requests read on the intercepted connection               *)
(***************************************************************************)
EXTENDS RulePipeline, FiniteSets

CONSTANTS Sessions, IPs(_), NoIP, Doors(_), Limits, ReqActions(_), RespActions(_),
          ReqSizes, RespSizes, MaxInner

ASSUME SessionsAssumption ==
  /\ \A i \in Sessions : Doors(i) \subseteq
       {"http", "socks", "origTLS", "origHTTP", "h2c", "replay"}
  /\ \A i \in Sessions : ReqActions(i) \cup RespActions(i) \subseteq Actions
  /\ ReqSizes \subseteq Sizes /\ RespSizes \subseteq Sizes
  /\ IsFiniteSet(Sessions) /\ MaxInner \in Nat \ {0}
  /\ Limits \subseteq [sessions : Nat, perIP : Nat, inflight : Nat]

VARIABLES s, gate, limits
vars == <<s, gate, limits>>

newSession ==
  [pc |-> "idle", req |-> "none", resp |-> "none", size |-> "none", rsize |-> "none",
   left |-> "none", from |-> "none", rows |-> 0, resumed |-> FALSE, skip |-> FALSE,
   wrote |-> 0, door |-> "none", ip |-> NoIP, kind |-> "http", admitted |-> FALSE,
   up |-> "none", eligible |-> FALSE, inner |-> FALSE, reached |-> FALSE, cut |-> FALSE,
   synced |-> TRUE, n |-> 0]

newGate == [sessions |-> 0, inflight |-> 0, perIP |-> [a \in {} |-> 0]]

Init ==
  /\ s = [i \in Sessions |-> newSession]
  /\ gate = newGate
  /\ limits \in Limits

-----------------------------------------------------------------------------
(* The admission gate.  A limit of zero is no limit.                       *)

held(a) == IF a \in DOMAIN gate.perIP THEN gate.perIP[a] ELSE 0

full(ip) ==
  \/ limits.sessions > 0 /\ gate.sessions >= limits.sessions
  \/ ip # NoIP /\ limits.perIP > 0 /\ held(ip) >= limits.perIP
  \/ limits.inflight > 0 /\ gate.inflight >= limits.inflight

acquire(ip) ==
  gate' = [sessions |-> gate.sessions + 1, inflight |-> gate.inflight + 1,
           perIP |-> IF ip = NoIP THEN gate.perIP
                     ELSE [a \in DOMAIN gate.perIP \cup {ip} |->
                             IF a = ip THEN held(ip) + 1 ELSE gate.perIP[a]]]

\* Mutant: the address keeps its entry when the last of its sessions ends.
releaseKeepsIP(ip) ==
  [sessions |-> gate.sessions - 1, inflight |-> gate.inflight - 1, perIP |-> gate.perIP]

release(ip) ==
  [sessions |-> IF gate.sessions > 0 THEN gate.sessions - 1 ELSE 0,
   inflight |-> IF gate.inflight > 0 THEN gate.inflight - 1 ELSE 0,
   perIP |-> IF ip = NoIP THEN gate.perIP
             ELSE IF held(ip) <= 1
             THEN [a \in DOMAIN gate.perIP \ {ip} |-> gate.perIP[a]]
             ELSE [gate.perIP EXCEPT ![ip] = @ - 1]]

-----------------------------------------------------------------------------
Set(i, e) == s' = [s EXCEPT ![i] = e]
Stay == UNCHANGED <<gate, limits>>
Goto(i, pc) == Set(i, [s[i] EXCEPT !.pc = pc]) /\ Stay

closed(up) == IF up = "open" THEN "closed" ELSE up

\* What is kept of an exchange that is over: whether it should be recorded,
\* was recorded and answered, and whether a breakpoint stored it before.
settled(e) ==
  [e EXCEPT !.req = "none", !.resp = "none", !.size = "none", !.rsize = "none",
            !.from = "none", !.kind = "http", !.cut = FALSE,
            !.reached = @ /\ ~e.cut /\ e.kind # "h2ws",
            !.resumed = @ \/ e.skip, !.skip = FALSE]

\* The deferred calls of a handler: the upstream connection is closed and the
\* place in the gate returned.
Leave(i, e) ==
  /\ Set(i, [settled(e) EXCEPT !.pc = "over", !.admitted = FALSE, !.up = closed(@),
               !.left = "none", !.inner = FALSE, !.synced = TRUE, !.n = 0, !.eligible = FALSE,
               !.door = "none"])
  /\ gate' = IF s[i].admitted THEN release(s[i].ip) ELSE gate
  /\ UNCHANGED limits

\* The exchange is over.  An h2c connection keeps its place in the gate for
\* its next stream; every other door has one session per exchange or tunnel.
End(i, e) ==
  IF e.door = "h2c"
  THEN Set(i, [settled(e) EXCEPT !.pc = "streams", !.up = closed(@), !.left = "none",
                 !.inner = FALSE, !.synced = TRUE, !.n = 0, !.eligible = FALSE]) /\ Stay
  ELSE Leave(i, e)

\* The door answers by itself, with or without a flow.
Refuse(i) == End(i, [s[i] EXCEPT !.wrote = @ + 1])
RefuseRecorded(i) == End(i, [capture(s[i]) EXCEPT !.wrote = @ + 1])
CloseRecorded(i) == End(i, capture(s[i]))

\* HTTP proxy authentication is on and the credentials do not match: 407.
rejectHTTPAuth(i) == RefuseRecorded(i)

-----------------------------------------------------------------------------
(* Arrival, up to the gate.                                                *)

\* dispatchConn: the first byte decides.  The original destination is looked
\* up, guarded and checked for loops before anything is read.
Arrive(i, door, ip) ==
  /\ s[i].pc \in {"idle", "over"}
  /\ Set(i, [newSession EXCEPT !.door = door, !.ip = IF door = "replay" THEN NoIP ELSE ip,
               !.pc = CASE door = "socks" -> "greeting"
                        [] door = "replay" -> "resolve"
                        [] OTHER -> "admit"])
  /\ Stay

dispatchOrigDest(i) ==
  /\ s[i].pc = "admit" /\ s[i].door \in {"origTLS", "origHTTP"}
  /\ Leave(i, s[i])

\* The method is negotiated with the live configuration; with user names, the
\* credentials are compared in a second round.
socks5NegotiateAuth(i) ==
  /\ s[i].pc = "greeting"
  /\ \/ Refuse(i)
     \/ End(i, [s[i] EXCEPT !.cut = TRUE])
     \/ Goto(i, "userPass") \/ Goto(i, "command")

socks5UserPass(i) ==
  /\ s[i].pc = "userPass"
  /\ \/ Refuse(i)
     \/ End(i, [s[i] EXCEPT !.cut = TRUE])
     \/ Goto(i, "command")

serveSOCKS(i, kind) ==
  /\ s[i].pc = "command"
  /\ \/ Refuse(i)
     \/ End(i, [s[i] EXCEPT !.cut = TRUE])
     \/ Set(i, [s[i] EXCEPT !.pc = "admit", !.kind = kind]) /\ Stay

Admit(i) ==
  /\ s[i].pc = "admit" /\ ~full(s[i].ip)
  /\ acquire(s[i].ip)
  /\ Set(i, [s[i] EXCEPT !.admitted = TRUE,
               !.pc = CASE s[i].door = "h2c" -> "streams"
                        [] s[i].kind = "udp" -> "listen"
                        [] s[i].door = "socks" -> "resolve"
                        [] OTHER -> "route"])
  /\ UNCHANGED limits

\* 503 for CONNECT, 429 for other requests, a SOCKS failure; an original
\* destination TLS or an h2c connection is closed.
Deny(i) ==
  /\ s[i].pc = "admit" /\ full(s[i].ip)
  /\ Leave(i, IF s[i].door \in {"origTLS", "h2c"} THEN s[i]
              ELSE [s[i] EXCEPT !.wrote = @ + 1])

-----------------------------------------------------------------------------
(* The switches and proxy authentication.                                  *)

\* CONNECT: switched off, an authority without a port, no valid credentials.
\* The kind is known from the request line.
serveCONNECT(i) ==
  /\ s[i].pc = "route" /\ s[i].door = "http"
  /\ \/ RefuseRecorded(i) \/ Refuse(i) \/ rejectHTTPAuth(i)
     \/ Set(i, [s[i] EXCEPT !.pc = "resolve", !.kind = "connect"]) /\ Stay

\* An absolute URL: https, another form, no WebSocket, switched off, no
\* credentials.
serveAbsolute(i, kind) ==
  /\ s[i].pc = "route" /\ s[i].door = "http"
  /\ \/ RefuseRecorded(i) \/ Refuse(i) \/ rejectHTTPAuth(i)
     \/ Set(i, [s[i] EXCEPT !.pc = "resolve", !.kind = kind]) /\ Stay

\* CONNECT is refused; WebSocket may be switched off.
serveOrigDestHTTP(i, kind) ==
  /\ s[i].pc = "route" /\ s[i].door = "origHTTP"
  /\ \/ RefuseRecorded(i) \/ Refuse(i)
     \/ Set(i, [s[i] EXCEPT !.pc = "resolve", !.kind = kind]) /\ Stay

\* The client hello decides whether the connection is intercepted; a name that
\* cannot be decided on fails it.
serveOrigDestTLS(i, eligible) ==
  /\ s[i].pc = "route" /\ s[i].door = "origTLS"
  /\ \/ CloseRecorded(i)
     \/ Set(i, [s[i] EXCEPT !.pc = "resolve", !.kind = "connect", !.eligible = eligible]) /\ Stay

\* A stream of an h2c connection, or its end.
serveH2C(i) ==
  /\ s[i].pc = "streams"
  /\ \/ Set(i, [newSession EXCEPT !.door = "h2c", !.ip = s[i].ip, !.admitted = TRUE,
                  !.pc = "route"]) /\ Stay
     \/ Leave(i, s[i])

\* https, another form, or a stream that should have been a tunnel.  The
\* response is written to a stream, which cannot be hijacked.
roundTripH2C(i) ==
  /\ s[i].pc = "route" /\ s[i].door = "h2c"
  /\ \/ RefuseRecorded(i) \/ Refuse(i)
     \/ Set(i, [s[i] EXCEPT !.pc = "resolve"]) /\ Stay

\* The authority has no port, or the credentials are missing.
h2cConnectTunnel(i) ==
  /\ s[i].pc = "route" /\ s[i].door = "h2c"
  /\ \/ RefuseRecorded(i) \/ Refuse(i)
     \/ Set(i, [s[i] EXCEPT !.pc = "resolve", !.kind = "connect"]) /\ Stay

\* A :protocol stream is a WebSocket, or it is reset.
h2cTunnel(i) ==
  /\ s[i].pc = "route" /\ s[i].door = "h2c"
  /\ \/ Refuse(i)
     \/ Set(i, [s[i] EXCEPT !.pc = "resolve", !.kind = "h2ws"]) /\ Stay

\* CONNECT, WebSocket, pushed and truncated flows cannot be replayed.
rejectReplayable(i) ==
  /\ s[i].pc = "resolve" /\ s[i].door = "replay"
  /\ Refuse(i)

-----------------------------------------------------------------------------
(* The target guard and the dial.                                          *)

\* Names that do not resolve, denied addresses, and the proxy itself.  The
\* refusal is recorded, except for a replay and an h2c :protocol stream; an
\* original destination is told nothing.
rejectResolve(i) ==
  /\ s[i].pc = "resolve"
  /\ CASE s[i].door = "origTLS" -> CloseRecorded(i)
       [] s[i].door = "replay" \/ s[i].kind = "h2ws" -> Refuse(i)
       [] OTHER -> RefuseRecorded(i)

\* A tunnel is dialled; an exchange goes to its rules, those of a replay and of
\* an h2c :protocol stream excepted.
resolveThenGuard(i, req, size) ==
  /\ s[i].pc = "resolve"
  /\ CASE s[i].kind = "connect" ->
            Set(i, [s[i] EXCEPT !.pc = "dial", !.door = IF @ = "socks" THEN "http" ELSE @])
       [] s[i].door = "replay" \/ s[i].kind = "h2ws" ->
            Set(i, [s[i] EXCEPT !.pc = "forward", !.reached = TRUE])
       [] OTHER -> Set(i, Exchange([s[i] EXCEPT !.door = IF @ = "h2c" THEN @ ELSE "http"],
                                   "match", req, size))
  /\ Stay

\* Mutant: a failed dial is answered and not recorded.
dialFailsUnrecorded(i) ==
  /\ s[i].pc = "dial"
  /\ End(i, [s[i] EXCEPT !.reached = TRUE, !.wrote = @ + 1])

dialFails(i) ==
  /\ s[i].pc = "dial"
  /\ End(i, [capture(s[i]) EXCEPT !.reached = TRUE,
               !.wrote = IF s[i].door = "origTLS" THEN @ ELSE @ + 1])

dialPinnedTO(i, eligible) ==
  /\ s[i].pc = "dial"
  /\ Set(i, [s[i] EXCEPT !.up = "open", !.reached = TRUE,
               !.eligible = IF s[i].door = "origTLS" THEN @ ELSE eligible,
               !.pc = IF s[i].door = "origTLS" THEN "established" ELSE "reply",
               !.door = IF @ = "origTLS" THEN "http" ELSE @])
  /\ Stay

\* The client is told that the tunnel stands.  When that fails the handler
\* returns without a flow.
writeEstablished(i) ==
  /\ s[i].pc = "reply"
  /\ \/ Set(i, [s[i] EXCEPT !.pc = "established", !.wrote = @ + 1]) /\ Stay
     \/ End(i, [s[i] EXCEPT !.cut = TRUE])

tunnelOrIntercept(i) ==
  /\ s[i].pc = "established"
  /\ IF s[i].eligible THEN Goto(i, "handshake")
     ELSE Set(i, [capture(s[i]) EXCEPT !.pc = "tunnel"]) /\ Stay

\* Mutant: an inspected tunnel has no deadline.
TunnelEndsRaw(i) == s[i].pc = "tunnel" /\ End(i, s[i])

\* Both directions have ended, by their peers or by a deadline.
TunnelEnds(i) ==
  /\ s[i].pc \in {"tunnel", "inspect"}
  /\ End(i, IF s[i].pc = "inspect" THEN capture(s[i]) ELSE s[i])

\* A UDP association: the socket, the answer, the relay, and the flow at its
\* end.  A socket that cannot be opened is recorded; one that is opened while
\* the listener closes is not.
serveSOCKSUDP(i) ==
  \/ /\ s[i].pc = "listen"
     /\ \/ Refuse(i)
        \/ RefuseRecorded(i)
        \/ End(i, [s[i] EXCEPT !.cut = TRUE])
        \/ Set(i, [s[i] EXCEPT !.pc = "relay", !.up = "open", !.wrote = @ + 1,
                     !.reached = TRUE]) /\ Stay
  \/ /\ s[i].pc = "relay"
     /\ CloseRecorded(i)

-----------------------------------------------------------------------------
(* The intercepted connection.                                             *)

\* No certificate, a failed handshake on either side, or a server name that
\* is denied: recorded, never answered, never tunnelled (D20).
failIntercept(i) ==
  /\ s[i].pc = "handshake"
  /\ CloseRecorded(i)

\* Both handshakes succeed.  An HTTP/2 client is served by InnerStreams.
innerHTTP(i) ==
  /\ s[i].pc = "handshake"
  /\ Set(i, [s[i] EXCEPT !.pc = "inner", !.inner = TRUE, !.eligible = FALSE,
               !.reached = FALSE, !.wrote = 0])
  /\ Stay

\* A request is read.  What the previous exchange left of its body is read as
\* if it were the next request.
innerRead(i, req, size, kind) ==
  /\ s[i].pc = "inner" /\ s[i].n < MaxInner
  /\ Set(i, Exchange([s[i] EXCEPT !.n = @ + 1, !.reached = FALSE, !.kind = kind,
                        !.synced = s[i].left = "none"], "match", req, size))
  /\ Stay

\* The read fails or times out; an HTTP/2 preface is recorded.
innerEnds(i) ==
  /\ s[i].pc = "inner"
  /\ Leave(i, s[i]) \/ Leave(i, [capture(s[i]) EXCEPT !.rows = 1])

\* WebSocket is switched off: the stop flag is not set and the body not read.
innerForbidden(i) ==
  /\ s[i].pc = "match" /\ s[i].inner /\ s[i].kind = "ws"
  /\ Set(i, [settled(capture(s[i])) EXCEPT !.wrote = @ + 1, !.pc = "inner"])
  /\ Stay

-----------------------------------------------------------------------------
(* The exchange.                                                           *)

\* The intercepted loop goes on with its next request; any other exchange is
\* the end of its session.
ExchangeOver(i, e) ==
  IF e.inner THEN Set(i, [settled(e) EXCEPT !.pc = "inner"]) /\ Stay ELSE End(i, e)

\* A request that expects 100-continue is served on a hijacked connection,
\* which may already be gone; its steps are the same.
serveExpectAbsolute(i) ==
  /\ s[i].pc = "match" /\ ~s[i].inner /\ s[i].door # "h2c" /\ s[i].kind = "http"
  /\ End(i, [s[i] EXCEPT !.cut = TRUE])

RequestRules(i) ==
  \/ /\ s[i].pc = "match"
     /\ \E e \in runRequestRules(s[i]) : Set(i, e)
     /\ Stay
  \/ /\ s[i].pc = "reqSleep"
     /\ Set(i, requestSlept(s[i])) \/ Set(i, requestCancelled(s[i]))
     /\ Stay
  \/ /\ s[i].pc = "reqPaused"
     /\ \E e \in requestVerdicts(s[i]) : Set(i, e)
     /\ Stay

\* synthesize, abort: return false (the loop goes on); silentClose: close.
RuleAnswered(i) ==
  \/ s[i].pc = "synthesize" /\ ExchangeOver(i, [s[i] EXCEPT !.reached = TRUE])
  \/ s[i].pc = "abort" /\ ExchangeOver(i, [s[i] EXCEPT !.cut = TRUE])
  \/ s[i].pc = "silentClose" /\ End(i, s[i])

\* The intercepted connection is closed after the 502.  An h2c :protocol
\* stream is answered and not recorded.
RoundTripFails(i) ==
  /\ s[i].pc = "forward"
  /\ End(i, [(IF s[i].kind = "h2ws" THEN [s[i] EXCEPT !.wrote = @ + 1]
              ELSE upstreamFailed(s[i])) EXCEPT !.reached = TRUE])

\* The origin answers after it has read the request, or early.
RoundTrip(i, resp, rsize, early) ==
  /\ s[i].pc = "forward" /\ s[i].kind = "http" /\ s[i].door # "replay"
  /\ Set(i, [s[i] EXCEPT !.pc = "respond", !.req = "none", !.synced = TRUE, !.resp = resp, !.rsize = rsize,
               !.reached = TRUE, !.size = "none", !.from = IF rsize = "none" THEN "closed" ELSE "open",
               !.left = IF early THEN @ ELSE "none"])
  /\ Stay

ResponseRules(i) ==
  \/ /\ s[i].pc = "respond"
     /\ \E e \in runResponseRules(s[i]) : Set(i, e)
     /\ Stay
  \/ /\ s[i].pc = "respSleep"
     /\ Set(i, responseSlept(s[i])) \/ Set(i, responseCancelled(s[i]))
     /\ Stay
  \/ /\ s[i].pc = "respPaused"
     /\ \E e \in responseVerdicts(s[i]) : Set(i, e)
     /\ Stay
  \/ s[i].pc = "write" /\ ExchangeOver(i, finishResponse(s[i]))

\* An https replay has a connection of its own, closed with the response body.
roundTripReplay(i) ==
  /\ s[i].pc = "forward" /\ s[i].door = "replay"
  /\ \E up \in {"none", "open"} : Set(i, [s[i] EXCEPT !.pc = "replayed", !.up = up])
  /\ Stay

\* Replay: the response is read into the capture, recorded and returned.
Replay(i) ==
  /\ s[i].pc = "replayed"
  /\ End(i, [capture(s[i]) EXCEPT !.wrote = @ + 1])

\* The origin switches protocols.  A client that is gone by then leaves no
\* flow, except inside an interception.
hijackUpgrade(i) ==
  /\ s[i].pc = "forward" /\ s[i].kind \in {"ws", "h2ws"}
  /\ LET up == [s[i] EXCEPT !.up = "open", !.reached = TRUE, !.wrote = @ + 1]
     IN  \/ Set(i, [up EXCEPT !.pc = "inspect"]) /\ Stay
         \/ Set(i, [capture(up) EXCEPT !.pc = "tunnel"]) /\ Stay
         \/ End(i, [(IF s[i].inner THEN capture(s[i]) ELSE s[i]) EXCEPT !.cut = TRUE])

\* It answers the upgrade with an ordinary response.
UpgradeDeclined(i, resp) ==
  /\ s[i].pc = "forward" /\ s[i].kind \in {"ws", "h2ws"}
  /\ IF s[i].kind = "h2ws" THEN End(i, [s[i] EXCEPT !.reached = TRUE, !.wrote = @ + 1])
     ELSE /\ Set(i, [s[i] EXCEPT !.pc = "respond", !.resp = resp, !.reached = TRUE,
                       !.from = "closed"])
          /\ Stay

-----------------------------------------------------------------------------
\* Another configuration is published; sessions keep the one they began with.
Reconfigure == \E l \in Limits \ {limits} : limits' = l /\ UNCHANGED <<s, gate>>

Work(i) ==
  \/ socks5NegotiateAuth(i) \/ socks5UserPass(i)
  \/ (\E kind \in {"connect", "udp"} : serveSOCKS(i, kind))
  \/ Admit(i) \/ Deny(i) \/ dispatchOrigDest(i)
  \/ serveCONNECT(i)
  \/ (\E kind \in {"http", "ws"} : serveAbsolute(i, kind) \/ serveOrigDestHTTP(i, kind))
  \/ (\E eligible \in BOOLEAN : serveOrigDestTLS(i, eligible) \/ dialPinnedTO(i, eligible))
  \/ serveH2C(i) \/ roundTripH2C(i) \/ h2cConnectTunnel(i) \/ h2cTunnel(i)
  \/ rejectReplayable(i) \/ rejectResolve(i) \/ dialFails(i) \/ writeEstablished(i) \/ tunnelOrIntercept(i)
  \/ (\E req \in ReqActions(i), size \in ReqSizes : resolveThenGuard(i, req, size))
  \/ TunnelEnds(i) \/ serveSOCKSUDP(i)
  \/ failIntercept(i) \/ innerHTTP(i) \/ innerEnds(i) \/ innerForbidden(i)
  \/ (\E req \in ReqActions(i), size \in ReqSizes, kind \in {"http", "ws"} :
        innerRead(i, req, size, kind))
  \/ serveExpectAbsolute(i) \/ RequestRules(i) \/ RuleAnswered(i) \/ RoundTripFails(i)
  \/ (\E resp \in RespActions(i), rsize \in RespSizes, early \in BOOLEAN :
        RoundTrip(i, resp, rsize, early))
  \/ (\E resp \in RespActions(i) : UpgradeDeclined(i, resp))
  \/ ResponseRules(i) \/ roundTripReplay(i) \/ Replay(i) \/ hijackUpgrade(i)

Next ==
  \/ \E i \in Sessions : Work(i) \/ \E door \in Doors(i), ip \in IPs(i) : Arrive(i, door, ip)
  \/ Reconfigure

\* Handlers run and their deadlines end every wait: for a client's bytes, the
\* origin, an operator's verdict, a tunnel.
Fairness == \A i \in Sessions : WF_vars(Work(i))

Spec == Init /\ [][Next]_vars /\ Fairness

-----------------------------------------------------------------------------
admittedFrom(a) == Cardinality({i \in Sessions : s[i].admitted /\ s[i].ip = a})

\* The gate counts exactly the sessions that are running, in total and per
\* address, on every return path of every door and whatever limits were
\* published meanwhile; an address without sessions leaves no entry, and a
\* session that ended has left no upstream connection open.
GateExact ==
  /\ gate.sessions = Cardinality({i \in Sessions : s[i].admitted})
  /\ gate.inflight = gate.sessions
  /\ DOMAIN gate.perIP = {s[i].ip : i \in {j \in Sessions : s[j].admitted}} \ {NoIP}
  /\ \A a \in DOMAIN gate.perIP : gate.perIP[a] = admittedFrom(a)
  /\ \A i \in Sessions : s[i].pc \in {"idle", "over", "streams"} => s[i].up # "open"

\* An exchange that was sent to an origin, dialled or answered by a rule is
\* recorded, once unless a breakpoint kept it, and answered at most once,
\* unless its client was gone.  A :protocol stream of h2c is recorded only
\* when its tunnel stands.
ReachedIsRecorded ==
  \A i \in Sessions :
    s[i].pc \in {"over", "streams", "inner"} =>
      /\ s[i].reached => s[i].rows > 0
      /\ s[i].wrote <= 1
      /\ s[i].rows > 1 => s[i].resumed

\* Every session gives its place in the gate back; an h2c connection, which has
\* no deadline of its own, as long as its client keeps opening streams, need not.
SessionsEnd ==
  \A i \in Sessions : s[i].admitted /\ s[i].door # "h2c" ~> ~s[i].admitted

\* The requests of an intercepted connection are the ones its client sent:
\* each is read from where the previous one ended.
InSync == \A i \in Sessions : s[i].pc = "match" => s[i].synced
=============================================================================
