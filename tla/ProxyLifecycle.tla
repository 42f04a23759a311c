--------------------------- MODULE ProxyLifecycle ---------------------------
(***************************************************************************)
(* The life of the proxy listener and of the connections it accepts        *)
(* (internal/proxy/server.go, peek.go, listeners.go, chanlistener.go,      *)
(* connect.go, socks.go, socks_bind.go) together with the part of          *)
(* cmd/labmitm/serve.go that serialises Reset against Shutdown.            *)
(*                                                                         *)
(* A connection is one client TCP connection.  What its client speaks      *)
(* (HTTP, CONNECT, SOCKS CONNECT, SOCKS BIND) is decided by its first      *)
(* bytes, so the model chooses it when the dispatch goroutine peeks.       *)
(* WaitGroups are the sets of goroutines they count.                       *)
(***************************************************************************)
EXTENDS Naturals, Sequences, FiniteSets

CONSTANTS
    ClientConns,    \* client connections
    MaxListener     \* listeners ever bound: 1 by Start, one more per Reset

ListenerConstants ==
    /\ MaxListener \in Nat \ {0}
    /\ {"off", "run"} \cap ClientConns = {}

ASSUME ListenerAssumption == ListenerConstants

VARIABLES
    accepting,      \* Server.accepting
    ctxDone,        \* Server.ctx cancelled
    rawLn,          \* Server.rawLn, the current listener
    openLns,        \* listeners whose socket is open
    acceptLoop,     \* of each listener: "off", "run", or the
                    \* connection Accept just returned to it
    broken,         \* an accept loop met a permanent accept error
    at,             \* where each connection is
    closedConns,    \* connections whose socket this process has closed
    dispatching,    \* Server.dispatching: connections being peeked
    dispatchWG,     \* running dispatchConn goroutines
    hijacked,       \* Server.hijacked: tracked session sockets
    hijackWG,       \* sessions between beginHijacked and endHijacked
    binds,          \* Server.binds: SOCKS BIND listens registered
    bindClosed,     \* BIND listens whose socket is closed
    queue,          \* chanListener: the connections waiting in it
    chanClosed,     \* and whether it is closed
    serving,        \* connections http.Server still tracks
    sh,             \* where Shutdown is
    late,           \* the shutdown deadline has passed
    shutting,       \* serveRuntime.shutting
    staged          \* the listener a Reset has staged, or 0 (the Reset holds
                    \* serveRuntime.mu until commit or rollback)

lnVars   == <<accepting, ctxDone, rawLn, openLns, acceptLoop, broken>>
connVars == <<at, closedConns, dispatching, dispatchWG, hijacked, hijackWG,
              binds, bindClosed, queue, chanClosed, serving>>
stopVars == <<sh, late, shutting, staged>>
lifecycleVars == <<lnVars, connVars, stopVars>>

Listeners == 1..MaxListener

(* Stages of a connection:                                                 *)
(*   new      the client has not connected                                 *)
(*   accepted Accept returned it                                           *)
(*   peek     its dispatch goroutine waits for the first byte              *)
(*   queued   pushed to chanListener          http   in a handler          *)
(*   gap      handler returned from Hijack(), before beginHijacked()       *)
(*   counted  after beginHijacked(), before track()                        *)
(*   dial     tracked; resolving and dialling                              *)
(*   bind     SOCKS BIND: before trackBind                                 *)
(*   bindreg  SOCKS BIND: registered, before the accepting re-check        *)
(*   bindwait SOCKS BIND: in ln.Accept()                                   *)
(*   tunnel   copying bytes both ways         gone   finished              *)
Stages == {"new", "accepted", "peek", "queued", "http", "gap", "counted",
           "dial", "bind", "bindreg", "bindwait", "tunnel", "gone"}

(* The steps of Server.Shutdown, in order, from the one named on.          *)
ChannelIsClosed == {"chanclosed", "httpdone", "hijackaborted", "returned"}
PeeksAreCut == {"dispatch", "dispatchaborted"} \cup ChannelIsClosed
LoopsAreDone == {"loopsdone"} \cup PeeksAreCut
ShutdownSteps ==
    {"running", "begun", "refusing", "cancelled", "lnclosed"}
        \cup LoopsAreDone

TypeOK ==
    /\ accepting \in BOOLEAN /\ ctxDone \in BOOLEAN /\ broken \in BOOLEAN
    /\ rawLn \in Listeners /\ openLns \subseteq Listeners
    /\ acceptLoop \in [Listeners -> {"off", "run"} \cup ClientConns]
    /\ at \in [ClientConns -> Stages]
    /\ closedConns \subseteq ClientConns
    /\ dispatching \subseteq ClientConns /\ dispatchWG \subseteq ClientConns
    /\ hijacked \subseteq ClientConns /\ hijackWG \subseteq ClientConns
    /\ binds \subseteq ClientConns /\ bindClosed \subseteq ClientConns
    /\ queue \in Seq(ClientConns) /\ chanClosed \in BOOLEAN
    /\ serving \subseteq ClientConns
    /\ sh \in ShutdownSteps
    /\ late \in BOOLEAN /\ shutting \in BOOLEAN
    /\ staged \in 0..MaxListener

(* After Server.Start.                                                     *)
LifecycleInit ==
    /\ accepting = TRUE /\ ctxDone = FALSE /\ broken = FALSE
    /\ rawLn = 1 /\ openLns = {1}
    /\ acceptLoop = [l \in Listeners |-> IF l = 1 THEN "run" ELSE "off"]
    /\ at = [c \in ClientConns |-> "new"]
    /\ closedConns = {} /\ dispatching = {} /\ dispatchWG = {}
    /\ hijacked = {} /\ hijackWG = {} /\ binds = {} /\ bindClosed = {}
    /\ queue = <<>> /\ chanClosed = FALSE /\ serving = {}
    /\ sh = "running" /\ late = FALSE /\ shutting = FALSE /\ staged = 0

-----------------------------------------------------------------------------
(* Accept loop.                                                            *)

(* rawLn.Accept() returns a connection.                                    *)
AcceptConn(l, c) ==
    /\ acceptLoop[l] = "run" /\ l \in openLns
    /\ at[c] = "new"
    /\ at' = [at EXCEPT ![c] = "accepted"]
    /\ acceptLoop' = [acceptLoop EXCEPT ![l] = c]
    /\ UNCHANGED <<accepting, ctxDone, rawLn, openLns, broken, closedConns,
                   dispatching, dispatchWG, hijacked, hijackWG, binds,
                   bindClosed, queue, chanClosed, serving, stopVars>>

(* The rest of the iteration: refuse when no longer accepting, else count, *)
(* track and start the dispatch goroutine.                                 *)
Dispatch(l) ==
    /\ acceptLoop[l] \in ClientConns
    /\ LET c == acceptLoop[l] IN
       IF accepting
         THEN /\ at' = [at EXCEPT ![c] = "peek"]
              /\ dispatchWG' = dispatchWG \cup {c}
              /\ dispatching' = dispatching \cup {c}
              /\ acceptLoop' = [acceptLoop EXCEPT ![l] = "run"]
              /\ UNCHANGED closedConns
         ELSE /\ at' = [at EXCEPT ![c] = "gone"]
              /\ closedConns' = closedConns \cup {c}
              /\ acceptLoop' = [acceptLoop EXCEPT ![l] = "off"]
              /\ UNCHANGED <<dispatchWG, dispatching>>
    /\ UNCHANGED <<accepting, ctxDone, rawLn, openLns, broken, hijacked,
                   hijackWG, binds, bindClosed, queue, chanClosed, serving,
                   stopVars>>

(* Mutant of AcceptClosed: retries as after a temporary error.             *)
AcceptClosedRetry(l) ==
    /\ acceptLoop[l] = "run" /\ l \notin openLns
    /\ accepting' = (accepting /\ rawLn # l)
    /\ UNCHANGED <<ctxDone, rawLn, openLns, acceptLoop, broken, connVars, stopVars>>

(* Accept fails because the listener was closed: the loop of a replaced    *)
(* listener just ends, the loop of the current one reports not accepting.  *)
AcceptClosed(l) ==
    /\ acceptLoop[l] = "run" /\ l \notin openLns
    /\ acceptLoop' = [acceptLoop EXCEPT ![l] = "off"]
    /\ accepting' = (accepting /\ rawLn # l)
    /\ UNCHANGED <<ctxDone, rawLn, openLns, broken, connVars, stopVars>>

(* A permanent accept error stops the listener.  (A temporary one sleeps   *)
(* and retries, which changes nothing.)                                    *)
AcceptBroken(l) ==
    /\ acceptLoop[l] = "run" /\ l \in openLns /\ l = rawLn
    /\ acceptLoop' = [acceptLoop EXCEPT ![l] = "off"]
    /\ accepting' = FALSE
    /\ broken' = TRUE
    /\ UNCHANGED <<ctxDone, rawLn, openLns, connVars, stopVars>>

-----------------------------------------------------------------------------
(* dispatchConn: peek, then SOCKS in this goroutine or HTTP by chanListener *)

(* The dispatch goroutine of c ends and its connection with it.            *)
DispatchGone(c) ==
    /\ at' = [at EXCEPT ![c] = "gone"]
    /\ closedConns' = closedConns \cup {c}
    /\ dispatchWG' = dispatchWG \ {c}

(* Peek fails: header timeout, client close, or the socket was closed by   *)
(* closeDispatching.  (A SOCKS byte the listener does not accept also ends *)
(* here.)                                                                  *)
PeekFail(c) ==
    /\ at[c] = "peek"
    /\ DispatchGone(c)
    /\ dispatching' = dispatching \ {c}
    /\ UNCHANGED <<lnVars, hijacked, hijackWG, binds, bindClosed, queue,
                   chanClosed, serving, stopVars>>

(* First byte is not SOCKS: hand the connection to http.Server, or close it *)
(* when the chanListener is closed.                                        *)
PeekHTTP(c) ==
    /\ at[c] = "peek" /\ c \notin closedConns
    /\ dispatching' = dispatching \ {c}
    /\ IF chanClosed
         THEN DispatchGone(c) /\ UNCHANGED queue
         ELSE /\ at' = [at EXCEPT ![c] = "queued"]
              /\ queue' = Append(queue, c)
              /\ dispatchWG' = dispatchWG \ {c}
              /\ UNCHANGED closedConns
    /\ UNCHANGED <<lnVars, hijacked, hijackWG, binds, bindClosed,
                   chanClosed, serving, stopVars>>

(* First byte is SOCKS: serveSOCKS5 / serveSOCKS4 run in the dispatch      *)
(* goroutine; they count and track themselves before reading the request.  *)
PeekSOCKS(c) ==
    /\ at[c] = "peek" /\ c \notin closedConns
    /\ dispatching' = dispatching \ {c}
    /\ hijackWG' = hijackWG \cup {c}
    /\ hijacked' = hijacked \cup {c}
    /\ \E s \in {"dial", "bind"} : at' = [at EXCEPT ![c] = s]
    /\ UNCHANGED <<lnVars, closedConns, dispatchWG, binds, bindClosed, queue,
                   chanClosed, serving, stopVars>>

-----------------------------------------------------------------------------
(* http.Server and hijacking handlers                                      *)

HTTPAccept ==
    /\ queue # <<>> /\ ~chanClosed
    /\ queue' = Tail(queue)
    /\ serving' = serving \cup {Head(queue)}
    /\ at' = [at EXCEPT ![Head(queue)] = "http"]
    /\ UNCHANGED <<lnVars, closedConns, dispatching, dispatchWG, hijacked,
                   hijackWG, binds, bindClosed, chanClosed, stopVars>>

(* A handler answers and its connection is closed (idle connections are    *)
(* closed by http.Server.Shutdown, busy ones at their timeouts).           *)
HTTPDone(c) ==
    /\ at[c] = "http"
    /\ at' = [at EXCEPT ![c] = "gone"]
    /\ closedConns' = closedConns \cup {c}
    /\ serving' = serving \ {c}
    /\ UNCHANGED <<lnVars, dispatching, dispatchWG, hijacked, hijackWG,
                   binds, bindClosed, queue, chanClosed, stopVars>>

(* hj.Hijack(): from here http.Server no longer knows the connection.      *)
Hijack(c) ==
    /\ at[c] = "http"
    /\ at' = [at EXCEPT ![c] = "gap"]
    /\ serving' = serving \ {c}
    /\ UNCHANGED <<lnVars, closedConns, dispatching, dispatchWG, hijacked,
                   hijackWG, binds, bindClosed, queue, chanClosed, stopVars>>

(* Mutant of BeginHijacked: the session is not counted.                    *)
BeginUncounted(c) ==
    /\ at[c] = "gap"
    /\ at' = [at EXCEPT ![c] = "counted"]
    /\ UNCHANGED <<lnVars, closedConns, dispatching, dispatchWG, hijacked, hijackWG,
                   binds, bindClosed, queue, chanClosed, serving, stopVars>>

(* beginHijacked().                                                        *)
BeginHijacked(c) ==
    /\ at[c] = "gap"
    /\ at' = [at EXCEPT ![c] = "counted"]
    /\ hijackWG' = hijackWG \cup {c}
    /\ UNCHANGED <<lnVars, closedConns, dispatching, dispatchWG, hijacked, binds,
                   bindClosed, queue, chanClosed, serving, stopVars>>

(* track(client).                                                          *)
Track(c) ==
    /\ at[c] = "counted"
    /\ at' = [at EXCEPT ![c] = "dial"]
    /\ hijacked' = hijacked \cup {c}
    /\ UNCHANGED <<lnVars, closedConns, dispatching, dispatchWG, hijackWG, binds,
                   bindClosed, queue, chanClosed, serving, stopVars>>

-----------------------------------------------------------------------------
(* Hijacked and SOCKS sessions                                             *)

(* The deferred endHijacked / untrack / Close of a session; a SOCKS        *)
(* session's dispatch goroutine returns with it.                           *)
EndSession(c) ==
    /\ at' = [at EXCEPT ![c] = "gone"]
    /\ closedConns' = closedConns \cup {c}
    /\ hijacked' = hijacked \ {c}
    /\ hijackWG' = hijackWG \ {c}
    /\ dispatchWG' = dispatchWG \ {c}
    /\ binds' = binds \ {c}
    /\ bindClosed' = bindClosed \cup (binds \cap {c})

(* resolveThenGuard and dialPinnedTO under s.ctx, then the reply to the    *)
(* client: fails once s.ctx is cancelled or the client socket is closed.   *)
DialOK(c) ==
    /\ at[c] = "dial" /\ ~ctxDone /\ c \notin closedConns
    /\ at' = [at EXCEPT ![c] = "tunnel"]
    /\ UNCHANGED <<lnVars, closedConns, dispatching, dispatchWG, hijacked,
                   hijackWG, binds, bindClosed, queue, chanClosed, serving,
                   stopVars>>

DialFail(c) ==
    /\ at[c] = "dial"
    /\ EndSession(c)
    /\ UNCHANGED <<lnVars, dispatching, queue, chanClosed, serving, stopVars>>

(* The request is refused: admission, target guard, or the listen itself.  *)
BindFail(c) ==
    /\ at[c] = "bind"
    /\ EndSession(c)
    /\ UNCHANGED <<lnVars, dispatching, queue, chanClosed, serving, stopVars>>

(* listenBind and trackBind.                                               *)
TrackBind(c) ==
    /\ at[c] = "bind"
    /\ at' = [at EXCEPT ![c] = "bindreg"]
    /\ binds' = binds \cup {c}
    /\ UNCHANGED <<lnVars, closedConns, dispatching, dispatchWG, hijacked,
                   hijackWG, bindClosed, queue, chanClosed, serving, stopVars>>

(* Mutant of BindRecheck: no re-check after the registration.              *)
BindUnchecked(c) ==
    /\ at[c] = "bindreg"
    /\ at' = [at EXCEPT ![c] = "bindwait"]
    /\ UNCHANGED <<lnVars, closedConns, dispatching, dispatchWG, hijacked,
                   hijackWG, binds, bindClosed, queue, chanClosed, serving,
                   stopVars>>

(* if !s.accepting.Load() { deny } -- after the registration, not before.  *)
BindRecheck(c) ==
    /\ at[c] = "bindreg"
    /\ IF accepting
         THEN /\ at' = [at EXCEPT ![c] = "bindwait"]
              /\ UNCHANGED <<closedConns, hijacked, hijackWG, dispatchWG, binds,
                             bindClosed>>
         ELSE EndSession(c)
    /\ UNCHANGED <<lnVars, dispatching, queue, chanClosed, serving, stopVars>>

(* ln.Accept() returns the inbound peer.                                   *)
BindInbound(c) ==
    /\ at[c] = "bindwait" /\ c \notin bindClosed
    /\ at' = [at EXCEPT ![c] = "tunnel"]
    /\ UNCHANGED <<lnVars, closedConns, dispatching, dispatchWG, hijacked,
                   hijackWG, binds, bindClosed, queue, chanClosed, serving,
                   stopVars>>

(* ln.Accept() fails because closeBinds closed the listen.                 *)
BindCut(c) ==
    /\ at[c] = "bindwait" /\ c \in bindClosed
    /\ EndSession(c)
    /\ UNCHANGED <<lnVars, dispatching, queue, chanClosed, serving, stopVars>>

(* The copy loops end because Shutdown closed a socket.                    *)
TunnelCut(c) ==
    /\ at[c] = "tunnel" /\ c \in closedConns
    /\ EndSession(c)
    /\ UNCHANGED <<lnVars, dispatching, queue, chanClosed, serving, stopVars>>

(* ... or because a peer ended it, or at idleTimeout / sessionTimeout      *)
(* (which also bounds the BIND accept).                                    *)
SessionExpire(c) ==
    /\ at[c] \in {"tunnel", "bindwait"}
    /\ EndSession(c)
    /\ UNCHANGED <<lnVars, dispatching, queue, chanClosed, serving, stopVars>>

-----------------------------------------------------------------------------
(* Reset's listener change, under serveRuntime.mu                          *)

(* prepareReset / PrepareListeners: refused while shutting down; binds a   *)
(* listener that nobody accepts on yet.                                    *)
PrepareListeners(l) ==
    /\ staged = 0 /\ ~shutting
    /\ l \notin openLns /\ l > rawLn /\ acceptLoop[l] = "off"
    /\ openLns' = openLns \cup {l}
    /\ staged' = l
    /\ UNCHANGED <<accepting, ctxDone, rawLn, acceptLoop, broken, connVars, sh,
                   late, shutting>>

(* commit: publish the new listener under s.mu, then close the old one.    *)
CommitListener ==
    /\ staged # 0
    /\ rawLn' = staged
    /\ openLns' = openLns \ {rawLn}
    /\ acceptLoop' = [acceptLoop EXCEPT ![staged] = "run"]
    /\ staged' = 0
    /\ UNCHANGED <<accepting, ctxDone, broken, connVars, sh, late, shutting>>

(* rollback: a later step of Reset failed; close the staged listener.      *)
RollbackListener ==
    /\ staged # 0
    /\ openLns' = openLns \ {staged}
    /\ staged' = 0
    /\ UNCHANGED <<accepting, ctxDone, rawLn, acceptLoop, broken, connVars, sh,
                   late, shutting>>

-----------------------------------------------------------------------------
(* Shutdown                                                                *)

Step(from, to) == sh = from /\ sh' = to

(* serveRuntime.shutdown takes serveRuntime.mu, which a Reset holds.       *)
BeginShutdown ==
    /\ Step("running", "begun")
    /\ staged = 0
    /\ shutting' = TRUE
    /\ UNCHANGED <<lnVars, connVars, late, staged>>

StopAccepting ==
    /\ Step("begun", "refusing")
    /\ accepting' = FALSE
    /\ UNCHANGED <<ctxDone, rawLn, openLns, acceptLoop, broken, connVars, late,
                   shutting, staged>>

CancelContext ==
    /\ Step("refusing", "cancelled")
    /\ ctxDone' = TRUE
    /\ UNCHANGED <<accepting, rawLn, openLns, acceptLoop, broken, connVars, late,
                   shutting, staged>>

CloseListener ==
    /\ Step("cancelled", "lnclosed")
    /\ openLns' = openLns \ {rawLn}
    /\ UNCHANGED <<accepting, ctxDone, rawLn, acceptLoop, broken, connVars, late,
                   shutting, staged>>

(* acceptWG.Wait().                                                        *)
AwaitLoops ==
    /\ Step("lnclosed", "loopsdone")
    /\ \A l \in Listeners : acceptLoop[l] = "off"
    /\ UNCHANGED <<lnVars, connVars, late, shutting, staged>>

(* closeDispatching; closeBinds.                                           *)
CloseDispatching == closedConns' = closedConns \cup dispatching
CloseBinds == bindClosed' = bindClosed \cup binds

CutPeeks ==
    /\ Step("loopsdone", "dispatch")
    /\ CloseDispatching /\ CloseBinds
    /\ UNCHANGED <<lnVars, at, dispatching, dispatchWG, hijacked, hijackWG,
                   binds, queue, chanClosed, serving, late, shutting, staged>>

(* waitWG(&s.dispatchWG): at the deadline abort once, then wait on.        *)
AbortDispatch ==
    /\ late /\ dispatchWG # {}
    /\ Step("dispatch", "dispatchaborted")
    /\ CloseDispatching /\ CloseBinds
    /\ UNCHANGED <<lnVars, at, dispatching, dispatchWG, hijacked, hijackWG,
                   binds, queue, chanClosed, serving, late, shutting, staged>>

(* ... and once it is over chanListener.Close, closing what is queued.     *)
CloseChannel ==
    /\ dispatchWG = {}
    /\ sh \in {"dispatch", "dispatchaborted"} /\ sh' = "chanclosed"
    /\ chanClosed' = TRUE
    /\ closedConns' = closedConns \cup {c \in ClientConns : at[c] = "queued"}
    /\ at' = [c \in ClientConns |-> IF at[c] = "queued" THEN "gone" ELSE at[c]]
    /\ queue' = <<>>
    /\ UNCHANGED <<lnVars, dispatching, dispatchWG, hijacked, hijackWG,
                   binds, bindClosed, serving, late, shutting, staged>>

(* http.Server.Shutdown: until no connection is tracked, or the deadline.  *)
HTTPShutdown ==
    /\ Step("chanclosed", "httpdone")
    /\ serving = {} \/ late
    /\ UNCHANGED <<lnVars, connVars, late, shutting, staged>>

(* waitWG(&s.hijackWG): the abort closes binds and every tracked socket.   *)
AbortHijacked ==
    /\ late /\ hijackWG # {}
    /\ Step("httpdone", "hijackaborted")
    /\ CloseBinds
    /\ closedConns' = closedConns \cup hijacked
    /\ UNCHANGED <<lnVars, at, dispatching, dispatchWG, hijacked, hijackWG,
                   binds, queue, chanClosed, serving, late, shutting, staged>>

ShutdownReturn ==
    /\ hijackWG = {}
    /\ sh \in {"httpdone", "hijackaborted"} /\ sh' = "returned"
    /\ UNCHANGED <<lnVars, connVars, late, shutting, staged>>

(* The --shutdown-timeout context expires.                                 *)
Deadline ==
    /\ shutting /\ ~late /\ sh # "returned"
    /\ late' = TRUE
    /\ UNCHANGED <<lnVars, connVars, sh, shutting, staged>>

(* Every connection is over and the process may exit.                      *)
Finished ==
    /\ sh = "returned"
    /\ \A c \in ClientConns : at[c] \in {"new", "gone"}
    /\ UNCHANGED lifecycleVars

-----------------------------------------------------------------------------
ShutdownStep ==
    \/ BeginShutdown \/ StopAccepting \/ CancelContext \/ CloseListener
    \/ AwaitLoops \/ CutPeeks \/ AbortDispatch \/ CloseChannel
    \/ HTTPShutdown \/ AbortHijacked \/ ShutdownReturn \/ Deadline

ResetStep ==
    \/ \E l \in Listeners : PrepareListeners(l)
    \/ CommitListener
    \/ RollbackListener

LoopStep(l) ==
    \/ \E c \in ClientConns : AcceptConn(l, c)
    \/ Dispatch(l)
    \/ AcceptClosed(l)
    \/ AcceptBroken(l)

ConnStep(c) ==
    \/ PeekFail(c) \/ PeekHTTP(c) \/ PeekSOCKS(c)
    \/ HTTPDone(c) \/ Hijack(c) \/ BeginHijacked(c) \/ Track(c)
    \/ DialOK(c) \/ DialFail(c)
    \/ BindFail(c) \/ TrackBind(c) \/ BindRecheck(c)
    \/ BindInbound(c) \/ BindCut(c)
    \/ TunnelCut(c) \/ SessionExpire(c)

LifecycleNext ==
    \/ ShutdownStep
    \/ ResetStep
    \/ \E l \in Listeners : LoopStep(l)
    \/ \E c \in ClientConns : ConnStep(c)
    \/ HTTPAccept
    \/ Finished

LifecycleSpec == LifecycleInit /\ [][LifecycleNext]_lifecycleVars

(* Goroutines that can run do run; deadlines and timeouts fire; and a Reset *)
(* holding the runtime lock ends.  Clients need not do anything.           *)
LifecycleFairness ==
    /\ WF_lifecycleVars(Deadline)
    /\ WF_lifecycleVars(StopAccepting \/ CancelContext \/ CloseListener \/ AwaitLoops
                          \/ CutPeeks \/ AbortDispatch \/ CloseChannel \/ HTTPShutdown
                          \/ AbortHijacked \/ ShutdownReturn)
    /\ WF_lifecycleVars(CommitListener \/ RollbackListener)
    /\ \A l \in Listeners : WF_lifecycleVars(Dispatch(l) \/ AcceptClosed(l))
    /\ \A c \in ClientConns :
         /\ WF_lifecycleVars(PeekFail(c))
         /\ WF_lifecycleVars(HTTPDone(c))
         /\ WF_lifecycleVars(BeginHijacked(c) \/ Track(c) \/ DialFail(c) \/ TrackBind(c)
                               \/ BindRecheck(c) \/ BindCut(c) \/ TunnelCut(c))
         /\ WF_lifecycleVars(SessionExpire(c))

FairSpec == LifecycleSpec /\ LifecycleFairness

-----------------------------------------------------------------------------
(* Properties                                                              *)

(* Listeners follow the life of the process.  It answers ready until it is *)
(* told to stop: a Reset that replaces the listener never makes it look as *)
(* if it had stopped accepting (acceptLoop's retired test, server.go:379). *)
(* When Shutdown has waited for the accept loops no socket is open and no  *)
(* loop runs, however a Reset was interleaved (serveRuntime.mu, shutting); *)
(* and once closeBinds has run every SOCKS BIND listen that is being       *)
(* accepted on is closed, so that none waits out its session timeout       *)
(* (trackBind before the accepting re-check, socks_bind.go:161).           *)
ListenersFollowLifecycle ==
    /\ (sh \in {"running", "begun"} /\ ~broken) => accepting
    /\ sh \in LoopsAreDone =>
          openLns = {} /\ \A l \in Listeners : acceptLoop[l] = "off"
    /\ sh \in PeeksAreCut =>
          \A c \in ClientConns : at[c] = "bindwait" => c \in bindClosed

(* When Shutdown returns before its deadline the only connections that can *)
(* still be alive are those caught between Hijack() and beginHijacked().   *)
DrainedAtReturn ==
    [][sh' = "returned" /\ sh # "returned" /\ ~late =>
         \A c \in ClientConns : at'[c] \in {"new", "gone", "gap"}]_lifecycleVars

(* Shutdown returns, whatever the clients do.                              *)
ShutdownReturns == shutting ~> sh = "returned"

(* What docs/02 and docs/06 say: after http.Server.Shutdown the hijacked   *)
(* sessions are drained, so nothing is alive when Shutdown returns in      *)
(* time.                                                                   *)
HijackDrain ==
    (sh = "returned" /\ ~late) => \A c \in ClientConns : at[c] \in {"new", "gone"}

(* What docs/06 says: in-flight sessions are drained up to the shutdown    *)
(* timeout, so past it Shutdown waits on no session whose socket is open.  *)
DeadlineCutsSessions ==
    sh \in {"dispatchaborted", "hijackaborted"} =>
        \A c \in hijackWG : at[c] = "tunnel" => c \in closedConns
=============================================================================
