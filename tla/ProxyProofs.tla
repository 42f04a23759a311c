---------------------------- MODULE ProxyProofs ----------------------------
(***************************************************************************)
(* Proofs about the proxy, for every value of the constants:               *)
(*   Sessions         the admission gate and the flows sessions record;    *)
(*   Relays           FramesAreExact, FirstMatchWins, RelayIsPinned;       *)
(*   ProxyLifecycle   ListenersFollowLifecycle, DrainedAtReturn.           *)
(* The three do not interact: each has variables and a specification of    *)
(* its own.                                                                *)
(***************************************************************************)
EXTENDS Sessions, Relays, ProxyLifecycle, IndexLemmas

-----------------------------------------------------------------------------
(* Sessions.  The gate is a counter beside the sessions, so GateExact is   *)
(* inductive only together with where each session stands: which program   *)
(* points hold a place in the gate (Placed) and which have no connection   *)
(* upstream (Ended).  ReachedIsRecorded speaks of finished exchanges; what *)
(* it needs of the ones under way is Written: which points come before the *)
(* answer, which before the flow is recorded and which after.              *)

Addresses == {NoIP} \cup UNION {IPs(j) : j \in Sessions}

Pcs ==
  {"idle", "over", "greeting", "userPass", "command", "admit", "route", "streams", "listen",
   "relay", "resolve", "dial", "reply", "established", "handshake", "tunnel", "inspect",
   "inner", "match", "reqSleep", "reqPaused", "forward", "respond", "respSleep",
   "respPaused", "write", "replayed", "synthesize", "silentClose", "abort", "continue",
   "failed"}

DoorNames == {"none", "http", "socks", "origTLS", "origHTTP", "h2c", "replay"}
KindNames == {"http", "connect", "ws", "h2ws", "udp"}
Lefts == {"none", "tail", "all"}
Conns == {"none", "open", "closed"}

SessionRecords ==
  [pc : Pcs, req : Actions, resp : Actions, size : Sizes, rsize : Sizes, left : Lefts,
   from : Conns, rows : Nat, resumed : BOOLEAN, skip : BOOLEAN, wrote : Nat,
   door : DoorNames, ip : Addresses, kind : KindNames, admitted : BOOLEAN, up : Conns,
   eligible : BOOLEAN, inner : BOOLEAN, reached : BOOLEAN, cut : BOOLEAN,
   synced : BOOLEAN, n : Nat]

\* Where a session has no place in the gate yet, or none any more.
Outside == {"idle", "over", "greeting", "userPass", "command", "admit"}

\* Where nothing has been dialled, sent or answered.
Fresh == {"greeting", "userPass", "command", "admit", "route", "resolve", "listen"}

\* Where the client has not been answered.
Unanswered ==
  Fresh \cup {"dial", "reply", "match", "reqSleep", "reqPaused", "forward", "respond",
              "respSleep", "respPaused", "write", "replayed", "silentClose", "abort"}

\* Where the flow of the exchange has still to be recorded, unless a breakpoint
\* stored it, and where it has been.
Unrecorded ==
  Fresh \cup {"dial", "reply", "established", "handshake", "relay", "match", "reqSleep",
              "forward", "respond", "respSleep", "write", "inspect", "replayed"}
Recorded == {"tunnel", "synthesize", "silentClose", "reqPaused", "respPaused"}

\* Where no breakpoint can have stored the exchange.
Unpaused ==
  Fresh \cup {"idle", "over", "streams", "inner", "dial", "reply", "established",
              "handshake", "relay", "match", "reqSleep", "reqPaused"}

Placed(e) ==
  /\ e.pc \in Outside => ~e.admitted
  /\ e.pc = "streams" => e.admitted
  /\ e.door = "h2c" /\ e.pc # "admit" => e.admitted

Ended(e) == e.pc \in Outside \cup {"streams"} => e.up # "open"

Written(e) ==
  /\ e.wrote <= 1
  /\ e.pc \in Unanswered => e.wrote = 0
  /\ e.rows > 1 => e.resumed \/ e.skip
  /\ e.pc \in Unrecorded /\ e.rows > 0 => e.resumed \/ e.skip
  /\ e.pc \in Recorded => e.rows > 0
  /\ e.skip => e.rows > 0
  /\ e.pc \in Unpaused => ~e.skip
  /\ e.pc \in Fresh => ~e.reached
  /\ e.pc \in {"over", "streams", "inner"} /\ e.reached => e.rows > 0

Session(e) == e \in SessionRecords /\ Placed(e) /\ Ended(e) /\ Written(e)

SessionsTypeOK == s \in [Sessions -> SessionRecords] /\ limits \in Limits

\* The counters of the gate g beside the sessions t.
Admitted(t) == {i \in Sessions : t[i].admitted}
From(t, a) == {i \in Sessions : t[i].admitted /\ t[i].ip = a}
Counts(t, g) ==
  /\ g.sessions = Cardinality(Admitted(t))
  /\ g.inflight = g.sessions
  /\ DOMAIN g.perIP = {t[i].ip : i \in Admitted(t)} \ {NoIP}
  /\ \A a \in DOMAIN g.perIP : g.perIP[a] = Cardinality(From(t, a))

SessionsInv ==
  /\ SessionsTypeOK
  /\ \A i \in Sessions : Session(s[i])
  /\ Counts(s, gate)

-----------------------------------------------------------------------------
(* The gate beside a set of sessions of which one changes.                 *)

LEMMA SetsAreFinite ==
  ASSUME NEW t
  PROVE  /\ IsFiniteSet(Admitted(t)) /\ Cardinality(Admitted(t)) \in Nat
         /\ \A a : IsFiniteSet(From(t, a)) /\ Cardinality(From(t, a)) \in Nat
<1>1. Admitted(t) \in SUBSET Sessions /\ \A a : From(t, a) \in SUBSET Sessions
  BY DEF Admitted, From
<1>2. IsFiniteSet(Sessions)
  BY SessionsAssumption
<1>3. IsFiniteSet(Admitted(t)) /\ \A a : IsFiniteSet(From(t, a))
  BY <1>1, <1>2, FS_Subset
<1> QED BY <1>3, FS_CardinalityType

\* A session that keeps its place, or goes on without one.
LEMMA CountsStay ==
  ASSUME NEW t \in [Sessions -> SessionRecords], NEW g, NEW i \in Sessions,
         NEW e \in SessionRecords, Counts(t, g),
         e.admitted = t[i].admitted, e.admitted => e.ip = t[i].ip
  PROVE  Counts([t EXCEPT ![i] = e], g)
<1> DEFINE u == [t EXCEPT ![i] = e]
<1>1. \A j \in Sessions : u[j] = IF j = i THEN e ELSE t[j]
  OBVIOUS
<1>2. /\ \A j \in Sessions : u[j].admitted = t[j].admitted
      /\ \A j \in Sessions : t[j].admitted => u[j].ip = t[j].ip
  BY <1>1
<1> HIDE DEF u
<1>3. Admitted(u) = Admitted(t) /\ \A a : From(u, a) = From(t, a)
  BY <1>2 DEF Admitted, From
<1>4. {u[j].ip : j \in Admitted(u)} = {t[j].ip : j \in Admitted(t)}
  BY <1>2, <1>3 DEF Admitted
<1>5. Counts(u, g)
  BY <1>3, <1>4 DEF Counts
<1> QED BY <1>5 DEF u

\* What the gate holds for an address is the number of its sessions.
LEMMA HeldIsCount ==
  ASSUME NEW a, a # NoIP, Counts(s, gate)
  PROVE  held(a) = Cardinality(From(s, a)) /\ (a \in DOMAIN gate.perIP <=> From(s, a) # {})
<1>1. a \in DOMAIN gate.perIP <=> From(s, a) # {}
  BY DEF Counts, From, Admitted
<1>2. CASE a \in DOMAIN gate.perIP
  BY <1>1, <1>2 DEF Counts, held
<1>3. CASE a \notin DOMAIN gate.perIP
  BY <1>1, <1>3, FS_EmptySet DEF held
<1> QED BY <1>1, <1>2, <1>3

\* acquire: the session i is let in.
LEMMA CountsEnter ==
  ASSUME s \in [Sessions -> SessionRecords], NEW i \in Sessions,
         NEW e \in SessionRecords, Counts(s, gate),
         ~s[i].admitted, e.admitted, e.ip = s[i].ip, acquire(s[i].ip)
  PROVE  Counts([s EXCEPT ![i] = e], gate')
<1> DEFINE u == [s EXCEPT ![i] = e]
           ip == s[i].ip
           h == gate'
<1>1. \A j \in Sessions : u[j] = IF j = i THEN e ELSE s[j]
  OBVIOUS
<1>2. /\ u[i].admitted /\ u[i].ip = ip
      /\ \A j \in Sessions \ {i} : u[j] = s[j]
  BY <1>1
<1> HIDE DEF u
<1>3. Admitted(u) = Admitted(s) \cup {i} /\ i \notin Admitted(s)
  BY <1>2 DEF Admitted
<1>4. From(u, ip) = From(s, ip) \cup {i} /\ i \notin From(s, ip)
  BY <1>2 DEF From
<1>5. \A a : a # ip => From(u, a) = From(s, a)
  BY <1>2 DEF From
<1>6. /\ Cardinality(Admitted(u)) = Cardinality(Admitted(s)) + 1
      /\ Cardinality(From(u, ip)) = Cardinality(From(s, ip)) + 1
  BY <1>3, <1>4, SetsAreFinite, FS_AddElement
<1>7. {u[j].ip : j \in Admitted(u)} = {s[j].ip : j \in Admitted(s)} \cup {ip}
  <2>1. \A j \in Admitted(s) : u[j] = s[j]
    BY <1>2, <1>3 DEF Admitted
  <2> QED BY <1>2, <1>3, <2>1
<1>8. h.sessions = gate.sessions + 1 /\ h.inflight = gate.inflight + 1
  BY DEF acquire
<1>9. CASE ip = NoIP
  <2>1. h.perIP = gate.perIP
    BY <1>9 DEF acquire
  <2>2. DOMAIN h.perIP = {u[j].ip : j \in Admitted(u)} \ {NoIP}
    BY <1>7, <1>9, <2>1 DEF Counts
  <2>3. \A a \in DOMAIN h.perIP : h.perIP[a] = Cardinality(From(u, a))
    BY <1>5, <1>9, <2>1, <2>2 DEF Counts
  <2>4. Counts(u, h)
    BY <1>6, <1>8, <2>2, <2>3 DEF Counts
  <2> QED BY <2>4 DEF u
<1>10. CASE ip # NoIP
  <2>1. h.perIP = [a \in DOMAIN gate.perIP \cup {ip} |->
                     IF a = ip THEN held(ip) + 1 ELSE gate.perIP[a]]
    BY <1>10 DEF acquire
  <2>2. DOMAIN h.perIP = {u[j].ip : j \in Admitted(u)} \ {NoIP}
    BY <1>7, <1>10, <2>1 DEF Counts
  <2>3. held(ip) = Cardinality(From(s, ip))
    BY <1>10, HeldIsCount
  <2>4. \A a \in DOMAIN h.perIP : h.perIP[a] = Cardinality(From(u, a))
    BY <1>5, <1>6, <2>1, <2>3 DEF Counts
  <2>5. Counts(u, h)
    BY <1>6, <1>8, <2>2, <2>4 DEF Counts
  <2> QED BY <2>5 DEF u
<1> QED BY <1>9, <1>10

\* release: the session i gives its place back.
LEMMA CountsLeave ==
  ASSUME s \in [Sessions -> SessionRecords], NEW i \in Sessions,
         NEW e \in SessionRecords, Counts(s, gate),
         s[i].admitted, ~e.admitted
  PROVE  Counts([s EXCEPT ![i] = e], release(s[i].ip))
<1> DEFINE u == [s EXCEPT ![i] = e]
           ip == s[i].ip
           h == release(s[i].ip)
<1>1. \A j \in Sessions : u[j] = IF j = i THEN e ELSE s[j]
  OBVIOUS
<1>2. ~u[i].admitted /\ \A j \in Sessions \ {i} : u[j] = s[j]
  BY <1>1
<1> HIDE DEF u
<1>3. Admitted(u) = Admitted(s) \ {i} /\ i \in Admitted(s)
  BY <1>2 DEF Admitted
<1>4. From(u, ip) = From(s, ip) \ {i} /\ i \in From(s, ip)
  BY <1>2 DEF From
<1>5. \A a : a # ip => From(u, a) = From(s, a)
  BY <1>2 DEF From
<1>6. /\ Cardinality(Admitted(u)) = Cardinality(Admitted(s)) - 1
      /\ Cardinality(From(u, ip)) = Cardinality(From(s, ip)) - 1
      /\ Cardinality(Admitted(u)) \in Nat /\ Cardinality(From(u, ip)) \in Nat
      /\ Cardinality(Admitted(s)) \in Nat /\ Cardinality(From(s, ip)) \in Nat
  <2>1. /\ IsFiniteSet(Admitted(s)) /\ IsFiniteSet(From(s, ip))
        /\ Cardinality(Admitted(s)) \in Nat /\ Cardinality(From(s, ip)) \in Nat
        /\ Cardinality(Admitted(u)) \in Nat /\ Cardinality(From(u, ip)) \in Nat
    BY SetsAreFinite
  <2>2. ASSUME NEW S, IsFiniteSet(S), i \in S
        PROVE  Cardinality(S \ {i}) = Cardinality(S) - 1
    BY <2>2, FS_RemoveElement
  <2>3. Cardinality(Admitted(u)) = Cardinality(Admitted(s)) - 1
    BY <1>3, <2>1, <2>2
  <2>4. Cardinality(From(u, ip)) = Cardinality(From(s, ip)) - 1
    BY <1>4, <2>1, <2>2
  <2> QED BY <2>1, <2>3, <2>4
<1>7. \A a : a \in {u[j].ip : j \in Admitted(u)} <=> From(u, a) # {}
  BY DEF Admitted, From
<1>8. \A a : a \in {s[j].ip : j \in Admitted(s)} <=> From(s, a) # {}
  BY DEF Admitted, From
<1>9. gate.sessions = Cardinality(Admitted(s)) /\ gate.inflight = gate.sessions
  BY DEF Counts
<1>10. h.sessions = Cardinality(Admitted(u)) /\ h.inflight = h.sessions
  BY <1>6, <1>9 DEF release
<1>11. CASE ip = NoIP
  <2>1. h.perIP = gate.perIP
    BY <1>11 DEF release
  <2>2. DOMAIN h.perIP = {u[j].ip : j \in Admitted(u)} \ {NoIP}
    BY <1>5, <1>7, <1>8, <1>11, <2>1 DEF Counts
  <2>3. \A a \in DOMAIN h.perIP : h.perIP[a] = Cardinality(From(u, a))
    BY <1>5, <1>11, <2>1, <2>2 DEF Counts
  <2>4. Counts(u, h)
    BY <1>10, <2>2, <2>3 DEF Counts
  <2> QED BY <2>4 DEF u
<1>12. CASE ip # NoIP
  <2>1. held(ip) = Cardinality(From(s, ip)) /\ ip \in DOMAIN gate.perIP
    BY <1>4, <1>12, HeldIsCount
  <2>2. From(u, ip) = {} <=> held(ip) <= 1
    <3>1. Cardinality(From(u, ip)) = 0 <=> From(u, ip) = {}
      BY SetsAreFinite, FS_EmptySet
    <3> QED BY <1>6, <2>1, <3>1
  <2>3. CASE held(ip) <= 1
    <3>1. h.perIP = [a \in DOMAIN gate.perIP \ {ip} |-> gate.perIP[a]]
      BY <1>12, <2>3 DEF release
    <3>2. DOMAIN h.perIP = {u[j].ip : j \in Admitted(u)} \ {NoIP}
      BY <1>5, <1>7, <1>8, <2>2, <2>3, <3>1 DEF Counts
    <3>3. \A a \in DOMAIN h.perIP : h.perIP[a] = Cardinality(From(u, a))
      BY <1>5, <3>1 DEF Counts
    <3>4. Counts(u, h)
      BY <1>10, <3>2, <3>3 DEF Counts
    <3> QED BY <3>4 DEF u
  <2>4. CASE ~(held(ip) <= 1)
    <3>1. h.perIP = [gate.perIP EXCEPT ![ip] = @ - 1]
      BY <1>12, <2>4 DEF release
    <3>2. DOMAIN h.perIP = {u[j].ip : j \in Admitted(u)} \ {NoIP}
      BY <1>5, <1>7, <1>8, <2>2, <2>4, <3>1, <1>4 DEF Counts
    <3>3. \A a \in DOMAIN h.perIP : h.perIP[a] = Cardinality(From(u, a))
      BY <1>5, <1>6, <3>1 DEF Counts
    <3>4. Counts(u, h)
      BY <1>10, <3>2, <3>3 DEF Counts
    <3> QED BY <3>4 DEF u
  <2> QED BY <2>3, <2>4
<1> QED BY <1>11, <1>12

-----------------------------------------------------------------------------
(* One session moves.                                                      *)

\* The values the actions write are of their fields' types.
LEMMA Literals ==
  /\ Outside \cup Unanswered \cup Unrecorded \cup Recorded \cup Unpaused \subseteq Pcs
  /\ "continue" \in Pcs /\ "failed" \in Pcs
  /\ "none" \in Actions /\ "none" \in Sizes
  /\ "none" \in DoorNames /\ "http" \in DoorNames /\ "socks" \in DoorNames
  /\ "origTLS" \in DoorNames /\ "origHTTP" \in DoorNames /\ "h2c" \in DoorNames
  /\ "replay" \in DoorNames
  /\ "http" \in KindNames /\ "connect" \in KindNames /\ "ws" \in KindNames
  /\ "h2ws" \in KindNames /\ "udp" \in KindNames
  /\ "none" \in Lefts /\ "tail" \in Lefts /\ "all" \in Lefts
  /\ "none" \in Conns /\ "open" \in Conns /\ "closed" \in Conns
BY DEF DoorNames, KindNames, Lefts, Conns, Pcs, Outside, Unanswered, Fresh, Unrecorded,
       Recorded, Unpaused, Actions, Sizes

\* What a session must be like for its exchange to be over.
Ready(e) ==
  /\ e \in SessionRecords
  /\ e.wrote <= 1
  /\ e.rows > 1 => e.resumed \/ e.skip
  /\ e.reached /\ ~e.cut /\ e.kind # "h2ws" => e.rows > 0
  /\ e.skip => e.rows > 0

LEMMA SettledIsReady ==
  ASSUME NEW e, Ready(e)
  PROVE  LET d == settled(e) IN
         /\ d \in SessionRecords /\ d.skip = FALSE /\ d.wrote <= 1
         /\ d.rows > 1 => d.resumed
         /\ d.reached => d.rows > 0
         /\ d.pc = e.pc /\ d.door = e.door /\ d.ip = e.ip /\ d.admitted = e.admitted
         /\ d.up = e.up
<1> DEFINE d == settled(e)
           b == e.reached /\ ~e.cut /\ e.kind # "h2ws"
           c == e.resumed \/ e.skip
<1> USE DEF Ready
<1>1. b \in BOOLEAN /\ c \in BOOLEAN
  BY DEF SessionRecords
<1>2. d = [e EXCEPT !.req = "none", !.resp = "none", !.size = "none", !.rsize = "none",
             !.from = "none", !.kind = "http", !.cut = FALSE, !.reached = b,
             !.resumed = c, !.skip = FALSE]
  BY DEF SessionRecords, settled
<1>3. \A x, y \in BOOLEAN :
        [e EXCEPT !.req = "none", !.resp = "none", !.size = "none", !.rsize = "none",
          !.from = "none", !.kind = "http", !.cut = FALSE, !.reached = x,
          !.resumed = y, !.skip = FALSE] \in SessionRecords
  BY Literals DEF SessionRecords
<1>4. d \in SessionRecords
  <2> HIDE DEF b, c, d
  <2> QED BY <1>1, <1>2, <1>3
<1>5. /\ d.skip = FALSE /\ d.wrote = e.wrote /\ d.rows = e.rows
      /\ d.resumed = c /\ d.reached = b
      /\ d.pc = e.pc /\ d.door = e.door /\ d.ip = e.ip /\ d.admitted = e.admitted
      /\ d.up = e.up
  BY DEF settled, SessionRecords
<1> HIDE DEF d
<1>6. /\ d.wrote <= 1 /\ (d.rows > 1 => d.resumed) /\ (d.reached => d.rows > 0)
  BY <1>5
<1> QED BY <1>4, <1>5, <1>6 DEF d

LEMMA SessionAt ==
  ASSUME SessionsInv, NEW i \in Sessions
  PROVE  /\ s \in [Sessions -> SessionRecords] /\ s[i] \in SessionRecords
         /\ Session(s[i]) /\ Placed(s[i]) /\ Ended(s[i]) /\ Written(s[i]) /\ Counts(s, gate)
BY DEF SessionsInv, SessionsTypeOK, Session

\* A session goes on, with or without its place.
LEMMA Moves ==
  ASSUME SessionsInv, NEW i \in Sessions, NEW e, Session(e), Set(i, e), Stay,
         e.admitted = s[i].admitted, e.admitted => e.ip = s[i].ip
  PROVE  SessionsInv'
<1>1. /\ s \in [Sessions -> SessionRecords] /\ e \in SessionRecords
      /\ s' = [s EXCEPT ![i] = e] /\ gate' = gate /\ limits' = limits
  BY DEF SessionsInv, SessionsTypeOK, Session, Set, Stay
<1>2. SessionsTypeOK'
  BY <1>1 DEF SessionsInv, SessionsTypeOK
<1>3. \A j \in Sessions : Session(s'[j])
  BY <1>1 DEF SessionsInv
<1>4. Counts(s', gate')
  BY <1>1, CountsStay DEF SessionsInv
<1> QED BY <1>2, <1>3, <1>4 DEF SessionsInv

\* The deferred calls of a handler.
LEMMA Leaves ==
  ASSUME SessionsInv, NEW i \in Sessions, NEW e, Ready(e), Leave(i, e),
         e.admitted = s[i].admitted, e.ip = s[i].ip
  PROVE  SessionsInv'
<1> DEFINE c == settled(e)
           d == [c EXCEPT !.pc = "over", !.admitted = FALSE, !.up = closed(@),
                   !.left = "none", !.inner = FALSE, !.synced = TRUE, !.n = 0,
                   !.eligible = FALSE, !.door = "none"]
<1>1. /\ c \in SessionRecords /\ c.skip = FALSE /\ c.wrote <= 1
      /\ (c.rows > 1 => c.resumed) /\ (c.reached => c.rows > 0)
  BY SettledIsReady
<1>2. Set(i, d) /\ gate' = (IF s[i].admitted THEN release(s[i].ip) ELSE gate) /\ limits' = limits
  BY DEF Leave
<1> HIDE DEF c
<1>3. closed(c.up) \in {"none", "closed"}
  BY <1>1 DEF closed, SessionRecords, Conns
<1>4. d \in SessionRecords
  BY <1>1, <1>3, Literals DEF SessionRecords, Outside
<1>5. /\ d.pc = "over" /\ d.admitted = FALSE /\ d.door = "none" /\ d.skip = c.skip
      /\ d.up = closed(c.up) /\ d.wrote = c.wrote /\ d.rows = c.rows
      /\ d.resumed = c.resumed /\ d.reached = c.reached
  BY <1>1 DEF SessionRecords
<1> HIDE DEF d
<1>6. Session(d)
  BY <1>1, <1>3, <1>4, <1>5
     DEF Session, Placed, Ended, Written, Outside, Unanswered, Unrecorded, Recorded, Fresh
<1>7. /\ s \in [Sessions -> SessionRecords] /\ s[i] \in SessionRecords
      /\ s' = [s EXCEPT ![i] = d]
  BY <1>2 DEF SessionsInv, SessionsTypeOK, Set
<1>8. SessionsTypeOK'
  BY <1>2, <1>4, <1>7 DEF SessionsInv, SessionsTypeOK
<1>9. \A j \in Sessions : Session(s'[j])
  BY <1>6, <1>7 DEF SessionsInv
<1>10. Counts(s', gate')
  <2>1. CASE s[i].admitted
    BY <1>2, <1>4, <1>5, <1>7, <2>1, CountsLeave DEF SessionsInv
  <2>2. CASE ~s[i].admitted
    <3>1. s[i].admitted = FALSE
      BY <1>7, <2>2 DEF SessionRecords
    <3> QED BY <1>2, <1>4, <1>5, <1>7, <3>1, CountsStay DEF SessionsInv
  <2> QED BY <2>1, <2>2
<1> QED BY <1>8, <1>9, <1>10 DEF SessionsInv

\* The exchange is over; an h2c connection goes on to its next stream.
LEMMA Ends ==
  ASSUME SessionsInv, NEW i \in Sessions, NEW e, Ready(e), End(i, e),
         e.admitted = s[i].admitted, e.ip = s[i].ip, e.door = "h2c" => e.admitted
  PROVE  SessionsInv'
<1> DEFINE c == settled(e)
           d == [c EXCEPT !.pc = "streams", !.up = closed(@), !.left = "none",
                   !.inner = FALSE, !.synced = TRUE, !.n = 0, !.eligible = FALSE]
<1>1. /\ c \in SessionRecords /\ c.skip = FALSE /\ c.wrote <= 1
      /\ (c.rows > 1 => c.resumed) /\ (c.reached => c.rows > 0)
      /\ c.admitted = e.admitted /\ c.ip = e.ip /\ c.door = e.door
  BY SettledIsReady
<1>2. CASE e.door # "h2c"
  BY <1>2, Leaves DEF End
<1>3. CASE e.door = "h2c"
  <2>1. Set(i, d) /\ Stay
    BY <1>3 DEF End
  <2> HIDE DEF c
  <2>2. closed(c.up) \in {"none", "closed"}
    BY <1>1 DEF closed, SessionRecords, Conns
  <2>3. d \in SessionRecords
    BY <1>1, <2>2, Literals DEF SessionRecords, Unpaused
  <2>4. /\ d.pc = "streams" /\ d.admitted = c.admitted /\ d.door = c.door /\ d.ip = c.ip
        /\ d.up = closed(c.up) /\ d.wrote = c.wrote /\ d.rows = c.rows
        /\ d.resumed = c.resumed /\ d.reached = c.reached /\ d.skip = c.skip
    BY <1>1 DEF SessionRecords
  <2> HIDE DEF d
  <2>5. Session(d)
    BY <1>1, <1>3, <2>2, <2>3, <2>4
       DEF Session, Placed, Ended, Written, Outside, Unanswered, Unrecorded, Recorded, Fresh
  <2> QED BY <1>1, <2>1, <2>4, <2>5, Moves
<1> QED BY <1>2, <1>3

-----------------------------------------------------------------------------
(* The ends a door can choose.                                             *)

LEMMA Refuses ==
  ASSUME SessionsInv, NEW i \in Sessions, s[i].pc \in Fresh \ {"admit"}, Refuse(i)
  PROVE  SessionsInv'
<1> DEFINE e == [s[i] EXCEPT !.wrote = @ + 1]
<1>1. s[i] \in SessionRecords /\ Placed(s[i]) /\ Written(s[i])
  BY SessionAt
<1>2. e \in SessionRecords
  BY <1>1 DEF SessionRecords
<1>3. /\ e.wrote = s[i].wrote + 1 /\ e.rows = s[i].rows /\ e.resumed = s[i].resumed
      /\ e.skip = s[i].skip /\ e.reached = s[i].reached /\ e.admitted = s[i].admitted
      /\ e.ip = s[i].ip /\ e.door = s[i].door
  BY <1>1 DEF SessionRecords
<1>4. End(i, e)
  BY DEF Refuse
<1> HIDE DEF e
<1>5. Ready(e)
  BY <1>1, <1>2, <1>3 DEF Ready, Written, Unanswered, Fresh, SessionRecords
<1>6. e.door = "h2c" => e.admitted
  BY <1>1, <1>3 DEF Placed
<1> QED BY <1>3, <1>4, <1>5, <1>6, Ends

LEMMA RefusesRecorded ==
  ASSUME SessionsInv, NEW i \in Sessions, s[i].pc # "admit",
         s[i].pc \in Unanswered \cap Unrecorded, RefuseRecorded(i)
  PROVE  SessionsInv'
<1> DEFINE c == capture(s[i])
           e == [c EXCEPT !.wrote = @ + 1]
<1>1. s[i] \in SessionRecords /\ Placed(s[i]) /\ Written(s[i])
  BY SessionAt
<1>2. e \in SessionRecords
  <2>1. c \in SessionRecords
    BY <1>1 DEF SessionRecords, capture
  <2> HIDE DEF c
  <2> QED BY <2>1 DEF SessionRecords
<1>3. /\ e.wrote = s[i].wrote + 1 /\ e.rows = s[i].rows + 1 /\ e.resumed = s[i].resumed
      /\ e.skip = s[i].skip /\ e.reached = s[i].reached /\ e.admitted = s[i].admitted
      /\ e.ip = s[i].ip /\ e.door = s[i].door
  BY <1>1 DEF SessionRecords, capture
<1>4. End(i, e)
  BY DEF RefuseRecorded
<1> HIDE DEF e
<1>5. Ready(e)
  BY <1>1, <1>2, <1>3 DEF Ready, Written, Unanswered, Unrecorded, Fresh, SessionRecords
<1>6. e.door = "h2c" => e.admitted
  BY <1>1, <1>3 DEF Placed
<1> QED BY <1>3, <1>4, <1>5, <1>6, Ends

LEMMA ClosesRecorded ==
  ASSUME SessionsInv, NEW i \in Sessions, s[i].pc \in Unrecorded \ {"admit"}, CloseRecorded(i)
  PROVE  SessionsInv'
<1> DEFINE e == capture(s[i])
<1>1. s[i] \in SessionRecords /\ Placed(s[i]) /\ Written(s[i])
  BY SessionAt
<1>2. e \in SessionRecords
  BY <1>1 DEF SessionRecords, capture
<1>3. /\ e.wrote = s[i].wrote /\ e.rows = s[i].rows + 1 /\ e.resumed = s[i].resumed
      /\ e.skip = s[i].skip /\ e.admitted = s[i].admitted
      /\ e.ip = s[i].ip /\ e.door = s[i].door
  BY <1>1 DEF SessionRecords, capture
<1>4. End(i, e)
  BY DEF CloseRecorded
<1> HIDE DEF e
<1>5. Ready(e)
  BY <1>1, <1>2, <1>3 DEF Ready, Written, SessionRecords
<1>6. e.door = "h2c" => e.admitted
  BY <1>1, <1>3 DEF Placed
<1> QED BY <1>3, <1>4, <1>5, <1>6, Ends

\* The client is gone: whatever was reached need not be recorded.
LEMMA CutsShort ==
  ASSUME SessionsInv, NEW i \in Sessions, s[i].pc # "admit",
         End(i, [s[i] EXCEPT !.cut = TRUE])
  PROVE  SessionsInv'
<1> DEFINE e == [s[i] EXCEPT !.cut = TRUE]
<1>1. s[i] \in SessionRecords /\ Placed(s[i]) /\ Written(s[i])
  BY SessionAt
<1>2. e \in SessionRecords
  BY <1>1 DEF SessionRecords
<1>3. /\ e.wrote = s[i].wrote /\ e.rows = s[i].rows /\ e.resumed = s[i].resumed
      /\ e.skip = s[i].skip /\ e.cut = TRUE /\ e.admitted = s[i].admitted
      /\ e.ip = s[i].ip /\ e.door = s[i].door
  BY <1>1 DEF SessionRecords
<1>4. End(i, e)
  OBVIOUS
<1> HIDE DEF e
<1>5. Ready(e)
  BY <1>1, <1>2, <1>3 DEF Ready, Written
<1>6. e.door = "h2c" => e.admitted
  BY <1>1, <1>3 DEF Placed
<1> QED BY <1>3, <1>4, <1>5, <1>6, Ends

\* A session goes on at another point.
LEMMA Goes ==
  ASSUME SessionsInv, NEW i \in Sessions, NEW pc,
         \/ s[i].pc = "greeting" /\ pc \in {"userPass", "command"}
         \/ s[i].pc = "userPass" /\ pc = "command"
         \/ s[i].pc = "established" /\ pc = "handshake",
         Goto(i, pc)
  PROVE  SessionsInv'
<1> DEFINE e == [s[i] EXCEPT !.pc = pc]
<1>1. s[i] \in SessionRecords /\ Placed(s[i]) /\ Ended(s[i]) /\ Written(s[i])
  BY SessionAt
<1>2. pc \in {"userPass", "command", "handshake"}
  OBVIOUS
<1>3. e \in SessionRecords
  BY <1>1, <1>2, Literals DEF SessionRecords, Outside, Unrecorded
<1>4. /\ e.pc = pc /\ e.wrote = s[i].wrote /\ e.rows = s[i].rows /\ e.resumed = s[i].resumed
      /\ e.skip = s[i].skip /\ e.reached = s[i].reached /\ e.admitted = s[i].admitted
      /\ e.ip = s[i].ip /\ e.door = s[i].door /\ e.up = s[i].up
  BY <1>1 DEF SessionRecords
<1>5. Set(i, e) /\ Stay
  BY DEF Goto
<1> HIDE DEF e
<1>6. Session(e)
  BY <1>1, <1>3, <1>4 DEF Session, Placed, Ended, Written, Outside, Unanswered, Unrecorded,
     Recorded, Unpaused, Fresh
<1> QED BY <1>4, <1>5, <1>6, Moves


-----------------------------------------------------------------------------
(* The doors.                                                              *)

\* serveSOCKS goes on to the gate.
LEMMA TakesCommand ==
  ASSUME SessionsInv, NEW i \in Sessions, NEW kind \in {"connect", "udp"}, s[i].pc = "command",
         Set(i, [s[i] EXCEPT !.pc = "admit", !.kind = kind]), Stay
  PROVE  SessionsInv'
<1> DEFINE e == [s[i] EXCEPT !.pc = "admit", !.kind = kind]
<1>1. s[i] \in SessionRecords /\ Placed(s[i]) /\ Ended(s[i]) /\ Written(s[i])
  BY SessionAt
<1>2. e \in SessionRecords
  BY <1>1, Literals DEF SessionRecords, Outside
<1>3. /\ e.pc = "admit" /\ e.wrote = s[i].wrote /\ e.rows = s[i].rows
      /\ e.resumed = s[i].resumed /\ e.skip = s[i].skip /\ e.reached = s[i].reached
      /\ e.cut = s[i].cut /\ e.kind = kind /\ e.admitted = s[i].admitted
      /\ e.ip = s[i].ip /\ e.door = s[i].door /\ e.up = s[i].up
  BY <1>1 DEF SessionRecords
<1>4. Set(i, e) /\ Stay
  OBVIOUS
<1> HIDE DEF e
<1>5. Session(e)
  BY <1>1, <1>2, <1>3 DEF Session, Placed, Ended, Written, Outside, Unanswered, Unrecorded,
     Recorded, Unpaused, Fresh, SessionRecords
<1> QED BY <1>1, <1>3, <1>4, <1>5, Moves DEF Placed, Outside

\* A door has let the request through.
LEMMA Routes ==
  ASSUME SessionsInv, NEW i \in Sessions, NEW kind \in {"connect", "http", "ws", "h2ws"},
         s[i].pc = "route",
         Set(i, [s[i] EXCEPT !.pc = "resolve", !.kind = kind]), Stay
  PROVE  SessionsInv'
<1> DEFINE e == [s[i] EXCEPT !.pc = "resolve", !.kind = kind]
<1>1. s[i] \in SessionRecords /\ Placed(s[i]) /\ Ended(s[i]) /\ Written(s[i])
  BY SessionAt
<1>2. e \in SessionRecords
  BY <1>1, Literals DEF SessionRecords, Unrecorded, Fresh
<1>3. /\ e.pc = "resolve" /\ e.wrote = s[i].wrote /\ e.rows = s[i].rows
      /\ e.resumed = s[i].resumed /\ e.skip = s[i].skip /\ e.reached = s[i].reached
      /\ e.cut = s[i].cut /\ e.kind = kind /\ e.admitted = s[i].admitted
      /\ e.ip = s[i].ip /\ e.door = s[i].door /\ e.up = s[i].up
  BY <1>1 DEF SessionRecords
<1>4. Set(i, e) /\ Stay
  OBVIOUS
<1> HIDE DEF e
<1>5. Session(e)
  BY <1>1, <1>2, <1>3 DEF Session, Placed, Ended, Written, Outside, Unanswered, Unrecorded,
     Recorded, Unpaused, Fresh, SessionRecords
<1> QED BY <1>1, <1>3, <1>4, <1>5, Moves DEF Placed, Outside

LEMMA RoutesStream ==
  ASSUME SessionsInv, NEW i \in Sessions, s[i].pc = "route",
         Set(i, [s[i] EXCEPT !.pc = "resolve"]), Stay
  PROVE  SessionsInv'
<1> DEFINE e == [s[i] EXCEPT !.pc = "resolve"]
<1>1. s[i] \in SessionRecords /\ Placed(s[i]) /\ Ended(s[i]) /\ Written(s[i])
  BY SessionAt
<1>2. e \in SessionRecords
  BY <1>1, Literals DEF SessionRecords, Unrecorded, Fresh
<1>3. /\ e.pc = "resolve" /\ e.wrote = s[i].wrote /\ e.rows = s[i].rows
      /\ e.resumed = s[i].resumed /\ e.skip = s[i].skip /\ e.reached = s[i].reached
      /\ e.cut = s[i].cut /\ e.kind = s[i].kind /\ e.admitted = s[i].admitted
      /\ e.ip = s[i].ip /\ e.door = s[i].door /\ e.up = s[i].up
  BY <1>1 DEF SessionRecords
<1>4. Set(i, e) /\ Stay
  OBVIOUS
<1> HIDE DEF e
<1>5. Session(e)
  BY <1>1, <1>2, <1>3 DEF Session, Placed, Ended, Written, Outside, Unanswered, Unrecorded,
     Recorded, Unpaused, Fresh, SessionRecords
<1> QED BY <1>1, <1>3, <1>4, <1>5, Moves DEF Placed, Outside

LEMMA RoutesTLS ==
  ASSUME SessionsInv, NEW i \in Sessions, NEW b \in BOOLEAN, s[i].pc = "route",
         Set(i, [s[i] EXCEPT !.pc = "resolve", !.kind = "connect", !.eligible = b]), Stay
  PROVE  SessionsInv'
<1> DEFINE e == [s[i] EXCEPT !.pc = "resolve", !.kind = "connect", !.eligible = b]
<1>1. s[i] \in SessionRecords /\ Placed(s[i]) /\ Ended(s[i]) /\ Written(s[i])
  BY SessionAt
<1>2. e \in SessionRecords
  BY <1>1, Literals DEF SessionRecords, Unrecorded, Fresh
<1>3. /\ e.pc = "resolve" /\ e.wrote = s[i].wrote /\ e.rows = s[i].rows
      /\ e.resumed = s[i].resumed /\ e.skip = s[i].skip /\ e.reached = s[i].reached
      /\ e.cut = s[i].cut /\ e.kind = "connect" /\ e.admitted = s[i].admitted
      /\ e.ip = s[i].ip /\ e.door = s[i].door /\ e.up = s[i].up
  BY <1>1 DEF SessionRecords
<1>4. Set(i, e) /\ Stay
  OBVIOUS
<1> HIDE DEF e
<1>5. Session(e)
  BY <1>1, <1>2, <1>3 DEF Session, Placed, Ended, Written, Outside, Unanswered, Unrecorded,
     Recorded, Unpaused, Fresh, SessionRecords
<1> QED BY <1>1, <1>3, <1>4, <1>5, Moves DEF Placed, Outside

\* A handler that returns without an answer.
LEMMA LeavesAsIs ==
  ASSUME SessionsInv, NEW i \in Sessions, s[i].pc \in {"admit", "streams", "inner"},
         Leave(i, s[i])
  PROVE  SessionsInv'
<1> DEFINE e == s[i]
<1>1. s[i] \in SessionRecords /\ Placed(s[i]) /\ Ended(s[i]) /\ Written(s[i])
  BY SessionAt
<1>2. e \in SessionRecords
  BY <1>1, Literals DEF SessionRecords
<1>3. /\ e.pc = s[i].pc /\ e.wrote = s[i].wrote /\ e.rows = s[i].rows
      /\ e.resumed = s[i].resumed /\ e.skip = s[i].skip /\ e.reached = s[i].reached
      /\ e.cut = s[i].cut /\ e.kind = s[i].kind /\ e.admitted = s[i].admitted
      /\ e.ip = s[i].ip /\ e.door = s[i].door /\ e.up = s[i].up
  BY <1>1 DEF SessionRecords
<1>4. Leave(i, e)
  OBVIOUS
<1> HIDE DEF e
<1>5. Ready(e)
  BY <1>1, <1>2, <1>3 DEF Ready, Written, Unanswered, Unrecorded,
     Recorded, Unpaused, Fresh, SessionRecords
<1> QED BY <1>3, <1>4, <1>5, Leaves

LEMMA LeavesDenied ==
  ASSUME SessionsInv, NEW i \in Sessions, s[i].pc = "admit",
         Leave(i, [s[i] EXCEPT !.wrote = @ + 1])
  PROVE  SessionsInv'
<1> DEFINE e == [s[i] EXCEPT !.wrote = @ + 1]
<1>1. s[i] \in SessionRecords /\ Placed(s[i]) /\ Ended(s[i]) /\ Written(s[i])
  BY SessionAt
<1>2. e \in SessionRecords
  BY <1>1, Literals DEF SessionRecords
<1>3. /\ e.pc = s[i].pc /\ e.wrote = s[i].wrote + 1 /\ e.rows = s[i].rows
      /\ e.resumed = s[i].resumed /\ e.skip = s[i].skip /\ e.reached = s[i].reached
      /\ e.cut = s[i].cut /\ e.kind = s[i].kind /\ e.admitted = s[i].admitted
      /\ e.ip = s[i].ip /\ e.door = s[i].door /\ e.up = s[i].up
  BY <1>1 DEF SessionRecords
<1>4. Leave(i, e)
  OBVIOUS
<1> HIDE DEF e
<1>5. Ready(e)
  BY <1>1, <1>2, <1>3 DEF Ready, Written, Unanswered, Unrecorded,
     Recorded, Unpaused, Fresh, SessionRecords
<1> QED BY <1>3, <1>4, <1>5, Leaves

\* The target is accepted.
LEMMA GuardsTunnel ==
  ASSUME SessionsInv, NEW i \in Sessions, s[i].pc = "resolve",
         Set(i, [s[i] EXCEPT !.pc = "dial", !.door = IF @ = "socks" THEN "http" ELSE @]), Stay
  PROVE  SessionsInv'
<1> DEFINE e == [s[i] EXCEPT !.pc = "dial", !.door = IF @ = "socks" THEN "http" ELSE @]
<1>1. s[i] \in SessionRecords /\ Placed(s[i]) /\ Ended(s[i]) /\ Written(s[i])
  BY SessionAt
<1>2. e \in SessionRecords
  <2>1. \A d \in DoorNames : [s[i] EXCEPT !.pc = "dial", !.door = d] \in SessionRecords
    BY <1>1, Literals DEF SessionRecords, Unrecorded
  <2>2. (IF s[i].door = "socks" THEN "http" ELSE s[i].door) \in DoorNames
    BY <1>1, Literals DEF SessionRecords
  <2> QED BY <2>1, <2>2
<1>3. /\ e.pc = "dial" /\ e.wrote = s[i].wrote /\ e.rows = s[i].rows
      /\ e.resumed = s[i].resumed /\ e.skip = s[i].skip /\ e.reached = s[i].reached
      /\ e.cut = s[i].cut /\ e.kind = s[i].kind /\ e.admitted = s[i].admitted
      /\ e.ip = s[i].ip /\ e.door = (IF s[i].door = "socks" THEN "http" ELSE s[i].door)
      /\ e.up = s[i].up
  BY <1>1 DEF SessionRecords
<1>4. Set(i, e) /\ Stay
  OBVIOUS
<1> HIDE DEF e
<1>5. Session(e)
  BY <1>1, <1>2, <1>3 DEF Session, Placed, Ended, Written, Outside, Unanswered, Unrecorded,
     Recorded, Unpaused, Fresh, SessionRecords
<1> QED BY <1>1, <1>3, <1>4, <1>5, Moves DEF Placed, Outside

LEMMA GuardsUnruled ==
  ASSUME SessionsInv, NEW i \in Sessions, s[i].pc = "resolve",
         Set(i, [s[i] EXCEPT !.pc = "forward", !.reached = TRUE]), Stay
  PROVE  SessionsInv'
<1> DEFINE e == [s[i] EXCEPT !.pc = "forward", !.reached = TRUE]
<1>1. s[i] \in SessionRecords /\ Placed(s[i]) /\ Ended(s[i]) /\ Written(s[i])
  BY SessionAt
<1>2. e \in SessionRecords
  BY <1>1, Literals DEF SessionRecords, Unrecorded
<1>3. /\ e.pc = "forward" /\ e.wrote = s[i].wrote /\ e.rows = s[i].rows
      /\ e.resumed = s[i].resumed /\ e.skip = s[i].skip /\ e.reached = TRUE
      /\ e.cut = s[i].cut /\ e.kind = s[i].kind /\ e.admitted = s[i].admitted
      /\ e.ip = s[i].ip /\ e.door = s[i].door /\ e.up = s[i].up
  BY <1>1 DEF SessionRecords
<1>4. Set(i, e) /\ Stay
  OBVIOUS
<1> HIDE DEF e
<1>5. Session(e)
  BY <1>1, <1>2, <1>3 DEF Session, Placed, Ended, Written, Outside, Unanswered, Unrecorded,
     Recorded, Unpaused, Fresh, SessionRecords
<1> QED BY <1>1, <1>3, <1>4, <1>5, Moves DEF Placed, Outside

\* An exchange begins with nothing recorded and nothing answered.
LEMMA Begins ==
  ASSUME NEW e \in SessionRecords, NEW req \in Actions, NEW size \in Sizes
  PROVE  LET d == Exchange(e, "match", req, size) IN
         /\ d \in SessionRecords
         /\ d.pc = "match" /\ d.rows = 0 /\ d.resumed = FALSE /\ d.skip = FALSE /\ d.wrote = 0
         /\ d.reached = e.reached /\ d.admitted = e.admitted /\ d.ip = e.ip
         /\ d.door = e.door /\ d.up = e.up /\ d.kind = e.kind
<1> DEFINE d == Exchange(e, "match", req, size)
           l == IF size = "none" THEN "none" ELSE "all"
<1>1. l \in Lefts
  BY Literals
<1>2. \A x \in Lefts :
        [e EXCEPT !.pc = "match", !.req = req, !.resp = "none", !.size = size,
          !.rsize = "none", !.left = x, !.from = "none", !.rows = 0, !.resumed = FALSE,
          !.skip = FALSE, !.wrote = 0] \in SessionRecords
  <2>1. "match" \in Pcs /\ "none" \in Actions /\ "none" \in Sizes /\ "none" \in Conns
    BY Literals DEF Unrecorded
  <2> QED BY <2>1 DEF SessionRecords
<1>3. d = [e EXCEPT !.pc = "match", !.req = req, !.resp = "none", !.size = size,
             !.rsize = "none", !.left = l, !.from = "none", !.rows = 0, !.resumed = FALSE,
             !.skip = FALSE, !.wrote = 0]
  BY DEF Exchange
<1>4. d \in SessionRecords
  <2> HIDE DEF d, l
  <2> QED BY <1>1, <1>2, <1>3
<1>5. /\ d.pc = "match" /\ d.rows = 0 /\ d.resumed = FALSE /\ d.skip = FALSE /\ d.wrote = 0
      /\ d.reached = e.reached /\ d.admitted = e.admitted /\ d.ip = e.ip
      /\ d.door = e.door /\ d.up = e.up /\ d.kind = e.kind
  BY DEF Exchange, SessionRecords
<1> QED BY <1>4, <1>5

LEMMA GuardsExchange ==
  ASSUME SessionsInv, NEW i \in Sessions, NEW req \in Actions, NEW size \in Sizes,
         s[i].pc = "resolve",
         Set(i, Exchange([s[i] EXCEPT !.door = IF @ = "h2c" THEN @ ELSE "http"], "match", req, size)),
         Stay
  PROVE  SessionsInv'
<1> DEFINE b == [s[i] EXCEPT !.door = IF @ = "h2c" THEN @ ELSE "http"]
           e == Exchange(b, "match", req, size)
<1>1. s[i] \in SessionRecords /\ Placed(s[i]) /\ Written(s[i])
  BY SessionAt
<1>2. b \in SessionRecords
  BY <1>1, Literals DEF SessionRecords
<1>3. /\ b.reached = s[i].reached /\ b.admitted = s[i].admitted /\ b.ip = s[i].ip
      /\ b.door = IF s[i].door = "h2c" THEN s[i].door ELSE "http"
  BY <1>1 DEF SessionRecords
<1>4. Set(i, e) /\ Stay
  OBVIOUS
<1> HIDE DEF b
<1>5. /\ e \in SessionRecords
      /\ e.pc = "match" /\ e.rows = 0 /\ e.resumed = FALSE /\ e.skip = FALSE /\ e.wrote = 0
      /\ e.reached = b.reached /\ e.admitted = b.admitted /\ e.ip = b.ip /\ e.door = b.door
  BY <1>2, Begins
<1> HIDE DEF e
<1>6. Session(e)
  BY <1>1, <1>3, <1>5 DEF Session, Placed, Ended, Written, Outside, Unanswered, Unrecorded,
     Recorded, Unpaused, Fresh
<1> QED BY <1>3, <1>4, <1>5, <1>6, Moves

LEMMA ReadsInner ==
  ASSUME SessionsInv, NEW i \in Sessions, NEW req \in Actions, NEW size \in Sizes,
         NEW kind \in {"http", "ws"},
         s[i].pc = "inner",
         Set(i, Exchange([s[i] EXCEPT !.n = @ + 1, !.reached = FALSE, !.kind = kind,
                            !.synced = s[i].left = "none"], "match", req, size)), Stay
  PROVE  SessionsInv'
<1> DEFINE b == [s[i] EXCEPT !.n = @ + 1, !.reached = FALSE, !.kind = kind,
                            !.synced = s[i].left = "none"]
           e == Exchange(b, "match", req, size)
<1>1. s[i] \in SessionRecords /\ Placed(s[i]) /\ Written(s[i])
  BY SessionAt
<1>2. b \in SessionRecords
  <2>1. \A x \in Nat, y \in BOOLEAN :
          [s[i] EXCEPT !.n = x, !.reached = FALSE, !.kind = kind, !.synced = y]
            \in SessionRecords
    BY <1>1, Literals DEF SessionRecords
  <2>2. s[i].n + 1 \in Nat /\ (s[i].left = "none") \in BOOLEAN
    BY <1>1 DEF SessionRecords
  <2> QED BY <2>1, <2>2
<1>3. b.reached = FALSE /\ b.admitted = s[i].admitted /\ b.ip = s[i].ip /\ b.door = s[i].door
  BY <1>1 DEF SessionRecords
<1>4. Set(i, e) /\ Stay
  OBVIOUS
<1> HIDE DEF b
<1>5. /\ e \in SessionRecords
      /\ e.pc = "match" /\ e.rows = 0 /\ e.resumed = FALSE /\ e.skip = FALSE /\ e.wrote = 0
      /\ e.reached = b.reached /\ e.admitted = b.admitted /\ e.ip = b.ip /\ e.door = b.door
  BY <1>2, Begins
<1> HIDE DEF e
<1>6. Session(e)
  BY <1>1, <1>3, <1>5 DEF Session, Placed, Ended, Written, Outside, Unanswered, Unrecorded,
     Recorded, Unpaused, Fresh
<1> QED BY <1>3, <1>4, <1>5, <1>6, Moves

LEMMA Dials ==
  ASSUME SessionsInv, NEW i \in Sessions, NEW b \in BOOLEAN, s[i].pc = "dial",
         Set(i, [s[i] EXCEPT !.up = "open", !.reached = TRUE,
               !.eligible = IF s[i].door = "origTLS" THEN @ ELSE b,
               !.pc = IF s[i].door = "origTLS" THEN "established" ELSE "reply",
               !.door = IF @ = "origTLS" THEN "http" ELSE @]), Stay
  PROVE  SessionsInv'
<1> DEFINE e == [s[i] EXCEPT !.up = "open", !.reached = TRUE,
               !.eligible = IF s[i].door = "origTLS" THEN @ ELSE b,
               !.pc = IF s[i].door = "origTLS" THEN "established" ELSE "reply",
               !.door = IF @ = "origTLS" THEN "http" ELSE @]
<1>1. s[i] \in SessionRecords /\ Placed(s[i]) /\ Ended(s[i]) /\ Written(s[i])
  BY SessionAt
<1>2. e \in SessionRecords
  <2>1. \A y \in BOOLEAN, p \in Pcs, d \in DoorNames :
          [s[i] EXCEPT !.up = "open", !.reached = TRUE, !.eligible = y, !.pc = p, !.door = d]
            \in SessionRecords
    BY <1>1, Literals DEF SessionRecords
  <2>2. /\ (IF s[i].door = "origTLS" THEN s[i].eligible ELSE b) \in BOOLEAN
        /\ (IF s[i].door = "origTLS" THEN "established" ELSE "reply") \in Pcs
        /\ (IF s[i].door = "origTLS" THEN "http" ELSE s[i].door) \in DoorNames
    BY <1>1, Literals DEF SessionRecords, Pcs
  <2> QED BY <2>1, <2>2
<1>3. /\ e.pc = (IF s[i].door = "origTLS" THEN "established" ELSE "reply")
      /\ e.wrote = s[i].wrote /\ e.rows = s[i].rows
      /\ e.resumed = s[i].resumed /\ e.skip = s[i].skip /\ e.reached = TRUE
      /\ e.cut = s[i].cut /\ e.kind = s[i].kind /\ e.admitted = s[i].admitted
      /\ e.ip = s[i].ip /\ e.door = (IF s[i].door = "origTLS" THEN "http" ELSE s[i].door)
      /\ e.up = "open"
  BY <1>1 DEF SessionRecords
<1>4. Set(i, e) /\ Stay
  OBVIOUS
<1> HIDE DEF e
<1>5. Session(e)
  BY <1>1, <1>2, <1>3 DEF Session, Placed, Ended, Written, Outside, Unanswered, Unrecorded,
     Recorded, Unpaused, Fresh, SessionRecords
<1> QED BY <1>1, <1>3, <1>4, <1>5, Moves DEF Placed, Outside

LEMMA Establishes ==
  ASSUME SessionsInv, NEW i \in Sessions, s[i].pc = "reply",
         Set(i, [s[i] EXCEPT !.pc = "established", !.wrote = @ + 1]), Stay
  PROVE  SessionsInv'
<1> DEFINE e == [s[i] EXCEPT !.pc = "established", !.wrote = @ + 1]
<1>1. s[i] \in SessionRecords /\ Placed(s[i]) /\ Ended(s[i]) /\ Written(s[i])
  BY SessionAt
<1>n. s[i].wrote + 1 \in Nat
  BY <1>1 DEF SessionRecords
<1>2. e \in SessionRecords
  BY <1>1, <1>n, Literals DEF SessionRecords, Unrecorded
<1>3. /\ e.pc = "established" /\ e.wrote = s[i].wrote + 1 /\ e.rows = s[i].rows
      /\ e.resumed = s[i].resumed /\ e.skip = s[i].skip /\ e.reached = s[i].reached
      /\ e.cut = s[i].cut /\ e.kind = s[i].kind /\ e.admitted = s[i].admitted
      /\ e.ip = s[i].ip /\ e.door = s[i].door /\ e.up = s[i].up
  BY <1>1, <1>n DEF SessionRecords
<1>4. Set(i, e) /\ Stay
  OBVIOUS
<1> HIDE DEF e
<1>5. Session(e)
  BY <1>1, <1>2, <1>3, <1>n DEF Session, Placed, Ended, Written, Outside, Unanswered, Unrecorded,
     Recorded, Unpaused, Fresh, SessionRecords
<1> QED BY <1>1, <1>3, <1>4, <1>5, Moves DEF Placed, Outside

LEMMA Listens ==
  ASSUME SessionsInv, NEW i \in Sessions, s[i].pc = "listen",
         Set(i, [s[i] EXCEPT !.pc = "relay", !.up = "open", !.wrote = @ + 1, !.reached = TRUE]),
         Stay
  PROVE  SessionsInv'
<1> DEFINE e == [s[i] EXCEPT !.pc = "relay", !.up = "open", !.wrote = @ + 1, !.reached = TRUE]
<1>1. s[i] \in SessionRecords /\ Placed(s[i]) /\ Ended(s[i]) /\ Written(s[i])
  BY SessionAt
<1>n. s[i].wrote + 1 \in Nat
  BY <1>1 DEF SessionRecords
<1>2. e \in SessionRecords
  BY <1>1, <1>n, Literals DEF SessionRecords, Unrecorded
<1>3. /\ e.pc = "relay" /\ e.wrote = s[i].wrote + 1 /\ e.rows = s[i].rows
      /\ e.resumed = s[i].resumed /\ e.skip = s[i].skip /\ e.reached = TRUE
      /\ e.cut = s[i].cut /\ e.kind = s[i].kind /\ e.admitted = s[i].admitted
      /\ e.ip = s[i].ip /\ e.door = s[i].door /\ e.up = "open"
  BY <1>1, <1>n DEF SessionRecords
<1>4. Set(i, e) /\ Stay
  OBVIOUS
<1> HIDE DEF e
<1>5. Session(e)
  BY <1>1, <1>2, <1>3, <1>n DEF Session, Placed, Ended, Written, Outside, Unanswered, Unrecorded,
     Recorded, Unpaused, Fresh, SessionRecords
<1> QED BY <1>1, <1>3, <1>4, <1>5, Moves DEF Placed, Outside

LEMMA Intercepts ==
  ASSUME SessionsInv, NEW i \in Sessions, s[i].pc = "handshake",
         Set(i, [s[i] EXCEPT !.pc = "inner", !.inner = TRUE, !.eligible = FALSE,
               !.reached = FALSE, !.wrote = 0]), Stay
  PROVE  SessionsInv'
<1> DEFINE e == [s[i] EXCEPT !.pc = "inner", !.inner = TRUE, !.eligible = FALSE,
               !.reached = FALSE, !.wrote = 0]
<1>1. s[i] \in SessionRecords /\ Placed(s[i]) /\ Ended(s[i]) /\ Written(s[i])
  BY SessionAt
<1>2. e \in SessionRecords
  BY <1>1, Literals DEF SessionRecords, Unpaused
<1>3. /\ e.pc = "inner" /\ e.wrote = 0 /\ e.rows = s[i].rows
      /\ e.resumed = s[i].resumed /\ e.skip = s[i].skip /\ e.reached = FALSE
      /\ e.cut = s[i].cut /\ e.kind = s[i].kind /\ e.admitted = s[i].admitted
      /\ e.ip = s[i].ip /\ e.door = s[i].door /\ e.up = s[i].up
  BY <1>1 DEF SessionRecords
<1>4. Set(i, e) /\ Stay
  OBVIOUS
<1> HIDE DEF e
<1>5. Session(e)
  BY <1>1, <1>2, <1>3 DEF Session, Placed, Ended, Written, Outside, Unanswered, Unrecorded,
     Recorded, Unpaused, Fresh, SessionRecords
<1> QED BY <1>1, <1>3, <1>4, <1>5, Moves DEF Placed, Outside

-----------------------------------------------------------------------------
(* Tunnels, interceptions and ends of an exchange.                         *)

\* capture: an insert of the exchange's flow, and nothing else.
Captures(e, d) ==
  /\ d.rows = e.rows + 1
  /\ d.pc = e.pc /\ d.wrote = e.wrote /\ d.resumed = e.resumed /\ d.skip = e.skip
  /\ d.reached = e.reached /\ d.cut = e.cut /\ d.kind = e.kind /\ d.admitted = e.admitted
  /\ d.ip = e.ip /\ d.door = e.door /\ d.up = e.up /\ d.inner = e.inner /\ d.resp = e.resp

LEMMA Captured ==
  ASSUME NEW e \in SessionRecords
  PROVE  capture(e) \in SessionRecords /\ Captures(e, capture(e))
<1>1. capture(e) \in SessionRecords
  BY DEF capture, SessionRecords
<1>2. Captures(e, capture(e))
  BY DEF capture, Captures, SessionRecords
<1> QED BY <1>1, <1>2

LEMMA FailsToDial ==
  ASSUME SessionsInv, NEW i \in Sessions, s[i].pc = "dial",
         End(i, [capture(s[i]) EXCEPT !.reached = TRUE, !.wrote = IF s[i].door = "origTLS" THEN @ ELSE @ + 1])
  PROVE  SessionsInv'
<1> DEFINE c == capture(s[i])
           e == [c EXCEPT !.reached = TRUE, !.wrote = IF s[i].door = "origTLS" THEN @ ELSE @ + 1]
<1>1. s[i] \in SessionRecords /\ Placed(s[i]) /\ Ended(s[i]) /\ Written(s[i])
  BY SessionAt
<1>2. End(i, e)
  OBVIOUS
<1>3. c \in SessionRecords /\ Captures(s[i], c)
  BY <1>1, Captured
<1> HIDE DEF c
<1>n. (IF s[i].door = "origTLS" THEN c.wrote ELSE c.wrote + 1) \in Nat
  BY <1>3 DEF SessionRecords
<1>4. e \in SessionRecords
  BY <1>3, <1>n, Literals DEF SessionRecords
<1>5. /\ e.pc = c.pc /\ e.wrote = (IF s[i].door = "origTLS" THEN c.wrote ELSE c.wrote + 1)
      /\ e.rows = c.rows
      /\ e.resumed = c.resumed /\ e.skip = c.skip /\ e.reached = TRUE
      /\ e.cut = c.cut /\ e.kind = c.kind /\ e.admitted = c.admitted
      /\ e.ip = c.ip /\ e.door = c.door /\ e.up = c.up
  BY <1>3 DEF SessionRecords
<1> HIDE DEF e
<1>6. Ready(e)
  BY <1>1, <1>3, <1>4, <1>5 DEF Ready, Captures, Written, Unanswered,
     Unrecorded, Recorded, Unpaused, Fresh, SessionRecords
<1>7. e.door = "h2c" => e.admitted
  BY <1>1, <1>3, <1>5 DEF Placed, Captures
<1> QED BY <1>2, <1>3, <1>5, <1>6, <1>7, Ends DEF Captures

LEMMA Tunnels ==
  ASSUME SessionsInv, NEW i \in Sessions, s[i].pc = "established",
         Set(i, [capture(s[i]) EXCEPT !.pc = "tunnel"]), Stay
  PROVE  SessionsInv'
<1> DEFINE c == capture(s[i])
           e == [c EXCEPT !.pc = "tunnel"]
<1>1. s[i] \in SessionRecords /\ Placed(s[i]) /\ Ended(s[i]) /\ Written(s[i])
  BY SessionAt
<1>2. Set(i, e) /\ Stay
  OBVIOUS
<1>3. c \in SessionRecords /\ Captures(s[i], c)
  BY <1>1, Captured
<1> HIDE DEF c
<1>4. e \in SessionRecords
  BY <1>3, Literals DEF SessionRecords, Recorded
<1>5. /\ e.pc = "tunnel" /\ e.wrote = c.wrote /\ e.rows = c.rows
      /\ e.resumed = c.resumed /\ e.skip = c.skip /\ e.reached = c.reached
      /\ e.cut = c.cut /\ e.kind = c.kind /\ e.admitted = c.admitted
      /\ e.ip = c.ip /\ e.door = c.door /\ e.up = c.up
  BY <1>3 DEF SessionRecords
<1> HIDE DEF e
<1>6. Session(e)
  BY <1>1, <1>3, <1>4, <1>5 DEF Session, Captures, Placed, Ended, Written, Outside, Unanswered,
     Unrecorded, Recorded, Unpaused, Fresh, SessionRecords
<1> QED BY <1>2, <1>3, <1>5, <1>6, Moves DEF Captures

\* The flow has been recorded before.
LEMMA EndsRecorded ==
  ASSUME SessionsInv, NEW i \in Sessions, s[i].pc \in Recorded,
         End(i, s[i])
  PROVE  SessionsInv'
<1> DEFINE e == s[i]
<1>1. s[i] \in SessionRecords /\ Placed(s[i]) /\ Ended(s[i]) /\ Written(s[i])
  BY SessionAt
<1>2. e \in SessionRecords
  BY <1>1, Literals DEF SessionRecords
<1>3. /\ e.pc = s[i].pc /\ e.wrote = s[i].wrote /\ e.rows = s[i].rows
      /\ e.resumed = s[i].resumed /\ e.skip = s[i].skip /\ e.reached = s[i].reached
      /\ e.cut = s[i].cut /\ e.kind = s[i].kind /\ e.admitted = s[i].admitted
      /\ e.ip = s[i].ip /\ e.door = s[i].door /\ e.up = s[i].up
  BY <1>1 DEF SessionRecords
<1>4. End(i, e)
  OBVIOUS
<1> HIDE DEF e
<1>5. Ready(e)
  BY <1>1, <1>2, <1>3 DEF Ready, Written, Unanswered, Unrecorded,
     Recorded, Unpaused, Fresh, SessionRecords
<1>6. e.door = "h2c" => e.admitted
  BY <1>1, <1>3 DEF Placed, Recorded
<1> QED BY <1>3, <1>4, <1>5, <1>6, Ends

LEMMA LeavesInner ==
  ASSUME SessionsInv, NEW i \in Sessions, s[i].pc = "inner",
         Leave(i, [capture(s[i]) EXCEPT !.rows = 1])
  PROVE  SessionsInv'
<1> DEFINE c == capture(s[i])
           e == [c EXCEPT !.rows = 1]
<1>1. s[i] \in SessionRecords /\ Placed(s[i]) /\ Ended(s[i]) /\ Written(s[i])
  BY SessionAt
<1>2. Leave(i, e)
  OBVIOUS
<1>3. c \in SessionRecords /\ Captures(s[i], c)
  BY <1>1, Captured
<1> HIDE DEF c
<1>4. e \in SessionRecords
  BY <1>3, Literals DEF SessionRecords
<1>5. /\ e.pc = c.pc /\ e.wrote = c.wrote /\ e.rows = 1
      /\ e.resumed = c.resumed /\ e.skip = c.skip /\ e.reached = c.reached
      /\ e.cut = c.cut /\ e.kind = c.kind /\ e.admitted = c.admitted
      /\ e.ip = c.ip /\ e.door = c.door /\ e.up = c.up
  BY <1>3 DEF SessionRecords
<1> HIDE DEF e
<1>6. Ready(e)
  BY <1>1, <1>3, <1>4, <1>5 DEF Ready, Captures, Written, Unanswered,
     Unrecorded, Recorded, Unpaused, Fresh, SessionRecords
<1> QED BY <1>2, <1>3, <1>5, <1>6, Leaves DEF Captures

\* The origin has answered.
LEMMA RoundTrips ==
  ASSUME SessionsInv, NEW i \in Sessions, NEW resp \in Actions, NEW rsize \in Sizes,
         NEW early \in BOOLEAN, s[i].pc = "forward",
         Set(i, [s[i] EXCEPT !.pc = "respond", !.req = "none", !.synced = TRUE, !.resp = resp, !.rsize = rsize,
               !.reached = TRUE, !.size = "none",
         !.from = IF rsize = "none" THEN "closed" ELSE "open",
               !.left = IF early THEN @ ELSE "none"]), Stay
  PROVE  SessionsInv'
<1> DEFINE e == [s[i] EXCEPT !.pc = "respond", !.req = "none", !.synced = TRUE, !.resp = resp, !.rsize = rsize,
               !.reached = TRUE, !.size = "none",
         !.from = IF rsize = "none" THEN "closed" ELSE "open",
               !.left = IF early THEN @ ELSE "none"]
<1>1. s[i] \in SessionRecords /\ Placed(s[i]) /\ Ended(s[i]) /\ Written(s[i])
  BY SessionAt
<1>2. e \in SessionRecords
  <2>1. \A x \in Conns, y \in Lefts :
          [s[i] EXCEPT !.pc = "respond", !.req = "none", !.synced = TRUE, !.resp = resp,
            !.rsize = rsize, !.reached = TRUE, !.size = "none", !.from = x, !.left = y]
              \in SessionRecords
    BY <1>1, Literals DEF SessionRecords, Unrecorded
  <2>2. /\ (IF rsize = "none" THEN "closed" ELSE "open") \in Conns
        /\ (IF early THEN s[i].left ELSE "none") \in Lefts
    BY <1>1, Literals DEF SessionRecords
  <2> QED BY <2>1, <2>2
<1>3. /\ e.pc = "respond" /\ e.wrote = s[i].wrote /\ e.rows = s[i].rows
      /\ e.resumed = s[i].resumed /\ e.skip = s[i].skip /\ e.reached = TRUE
      /\ e.cut = s[i].cut /\ e.kind = s[i].kind /\ e.admitted = s[i].admitted
      /\ e.ip = s[i].ip /\ e.door = s[i].door /\ e.up = s[i].up
  BY <1>1 DEF SessionRecords
<1>4. Set(i, e) /\ Stay
  OBVIOUS
<1> HIDE DEF e
<1>5. Session(e)
  BY <1>1, <1>2, <1>3 DEF Session, Placed, Ended, Written, Outside, Unanswered, Unrecorded,
     Recorded, Unpaused, Fresh, SessionRecords
<1> QED BY <1>1, <1>3, <1>4, <1>5, Moves DEF Placed, Outside

LEMMA Replays ==
  ASSUME SessionsInv, NEW i \in Sessions, NEW up \in {"none", "open"}, s[i].pc = "forward",
         Set(i, [s[i] EXCEPT !.pc = "replayed", !.up = up]), Stay
  PROVE  SessionsInv'
<1> DEFINE e == [s[i] EXCEPT !.pc = "replayed", !.up = up]
<1>1. s[i] \in SessionRecords /\ Placed(s[i]) /\ Ended(s[i]) /\ Written(s[i])
  BY SessionAt
<1>2. e \in SessionRecords
  BY <1>1, Literals DEF SessionRecords, Unrecorded
<1>3. /\ e.pc = "replayed" /\ e.wrote = s[i].wrote /\ e.rows = s[i].rows
      /\ e.resumed = s[i].resumed /\ e.skip = s[i].skip /\ e.reached = s[i].reached
      /\ e.cut = s[i].cut /\ e.kind = s[i].kind /\ e.admitted = s[i].admitted
      /\ e.ip = s[i].ip /\ e.door = s[i].door /\ e.up = up
  BY <1>1 DEF SessionRecords
<1>4. Set(i, e) /\ Stay
  OBVIOUS
<1> HIDE DEF e
<1>5. Session(e)
  BY <1>1, <1>2, <1>3 DEF Session, Placed, Ended, Written, Outside, Unanswered, Unrecorded,
     Recorded, Unpaused, Fresh, SessionRecords
<1> QED BY <1>1, <1>3, <1>4, <1>5, Moves DEF Placed, Outside

LEMMA Declines ==
  ASSUME SessionsInv, NEW i \in Sessions, NEW resp \in Actions, s[i].pc = "forward",
         Set(i, [s[i] EXCEPT !.pc = "respond", !.resp = resp, !.reached = TRUE,
                       !.from = "closed"]), Stay
  PROVE  SessionsInv'
<1> DEFINE e == [s[i] EXCEPT !.pc = "respond", !.resp = resp, !.reached = TRUE,
                       !.from = "closed"]
<1>1. s[i] \in SessionRecords /\ Placed(s[i]) /\ Ended(s[i]) /\ Written(s[i])
  BY SessionAt
<1>2. e \in SessionRecords
  BY <1>1, Literals DEF SessionRecords, Unrecorded
<1>3. /\ e.pc = "respond" /\ e.wrote = s[i].wrote /\ e.rows = s[i].rows
      /\ e.resumed = s[i].resumed /\ e.skip = s[i].skip /\ e.reached = TRUE
      /\ e.cut = s[i].cut /\ e.kind = s[i].kind /\ e.admitted = s[i].admitted
      /\ e.ip = s[i].ip /\ e.door = s[i].door /\ e.up = s[i].up
  BY <1>1 DEF SessionRecords
<1>4. Set(i, e) /\ Stay
  OBVIOUS
<1> HIDE DEF e
<1>5. Session(e)
  BY <1>1, <1>2, <1>3 DEF Session, Placed, Ended, Written, Outside, Unanswered, Unrecorded,
     Recorded, Unpaused, Fresh, SessionRecords
<1> QED BY <1>1, <1>3, <1>4, <1>5, Moves DEF Placed, Outside

LEMMA DeclinesStream ==
  ASSUME SessionsInv, NEW i \in Sessions, s[i].pc = "forward", s[i].kind = "h2ws",
         End(i, [s[i] EXCEPT !.reached = TRUE, !.wrote = @ + 1])
  PROVE  SessionsInv'
<1> DEFINE e == [s[i] EXCEPT !.reached = TRUE, !.wrote = @ + 1]
<1>1. s[i] \in SessionRecords /\ Placed(s[i]) /\ Ended(s[i]) /\ Written(s[i])
  BY SessionAt
<1>n. s[i].wrote + 1 \in Nat
  BY <1>1 DEF SessionRecords
<1>2. e \in SessionRecords
  BY <1>1, <1>n, Literals DEF SessionRecords
<1>3. /\ e.pc = s[i].pc /\ e.wrote = s[i].wrote + 1 /\ e.rows = s[i].rows
      /\ e.resumed = s[i].resumed /\ e.skip = s[i].skip /\ e.reached = TRUE
      /\ e.cut = s[i].cut /\ e.kind = s[i].kind /\ e.admitted = s[i].admitted
      /\ e.ip = s[i].ip /\ e.door = s[i].door /\ e.up = s[i].up
  BY <1>1, <1>n DEF SessionRecords
<1>4. End(i, e)
  OBVIOUS
<1> HIDE DEF e
<1>5. Ready(e)
  BY <1>1, <1>2, <1>3, <1>n DEF Ready, Written, Unanswered, Unrecorded,
     Recorded, Unpaused, Fresh, SessionRecords
<1>6. e.door = "h2c" => e.admitted
  BY <1>1, <1>3 DEF Placed
<1> QED BY <1>3, <1>4, <1>5, <1>6, Ends

LEMMA FailsStream ==
  ASSUME SessionsInv, NEW i \in Sessions, s[i].pc = "forward", s[i].kind = "h2ws",
         End(i, [[s[i] EXCEPT !.wrote = @ + 1] EXCEPT !.reached = TRUE])
  PROVE  SessionsInv'
<1> DEFINE e == [[s[i] EXCEPT !.wrote = @ + 1] EXCEPT !.reached = TRUE]
<1>1. s[i] \in SessionRecords /\ Placed(s[i]) /\ Ended(s[i]) /\ Written(s[i])
  BY SessionAt
<1>n. s[i].wrote + 1 \in Nat
  BY <1>1 DEF SessionRecords
<1>2. e \in SessionRecords
  BY <1>1, <1>n, Literals DEF SessionRecords
<1>3. /\ e.pc = s[i].pc /\ e.wrote = s[i].wrote + 1 /\ e.rows = s[i].rows
      /\ e.resumed = s[i].resumed /\ e.skip = s[i].skip /\ e.reached = TRUE
      /\ e.cut = s[i].cut /\ e.kind = s[i].kind /\ e.admitted = s[i].admitted
      /\ e.ip = s[i].ip /\ e.door = s[i].door /\ e.up = s[i].up
  BY <1>1, <1>n DEF SessionRecords
<1>4. End(i, e)
  OBVIOUS
<1> HIDE DEF e
<1>5. Ready(e)
  BY <1>1, <1>2, <1>3, <1>n DEF Ready, Written, Unanswered, Unrecorded,
     Recorded, Unpaused, Fresh, SessionRecords
<1>6. e.door = "h2c" => e.admitted
  BY <1>1, <1>3 DEF Placed
<1> QED BY <1>3, <1>4, <1>5, <1>6, Ends

LEMMA Inspects ==
  ASSUME SessionsInv, NEW i \in Sessions, s[i].pc = "forward",
         Set(i, [[s[i] EXCEPT !.up = "open", !.reached = TRUE, !.wrote = @ + 1] EXCEPT !.pc = "inspect"]),
         Stay
  PROVE  SessionsInv'
<1> DEFINE e == [[s[i] EXCEPT !.up = "open", !.reached = TRUE, !.wrote = @ + 1] EXCEPT !.pc = "inspect"]
<1>1. s[i] \in SessionRecords /\ Placed(s[i]) /\ Ended(s[i]) /\ Written(s[i])
  BY SessionAt
<1>n. s[i].wrote + 1 \in Nat
  BY <1>1 DEF SessionRecords
<1>2. e \in SessionRecords
  BY <1>1, <1>n, Literals DEF SessionRecords, Unrecorded
<1>3. /\ e.pc = "inspect" /\ e.wrote = s[i].wrote + 1 /\ e.rows = s[i].rows
      /\ e.resumed = s[i].resumed /\ e.skip = s[i].skip /\ e.reached = TRUE
      /\ e.cut = s[i].cut /\ e.kind = s[i].kind /\ e.admitted = s[i].admitted
      /\ e.ip = s[i].ip /\ e.door = s[i].door /\ e.up = "open"
  BY <1>1, <1>n DEF SessionRecords
<1>4. Set(i, e) /\ Stay
  OBVIOUS
<1> HIDE DEF e
<1>5. Session(e)
  BY <1>1, <1>2, <1>3, <1>n DEF Session, Placed, Ended, Written, Outside, Unanswered, Unrecorded,
     Recorded, Unpaused, Fresh, SessionRecords
<1> QED BY <1>1, <1>3, <1>4, <1>5, Moves DEF Placed, Outside

\* A WebSocket that is not inspected.
LEMMA TunnelsUpgrade ==
  ASSUME SessionsInv, NEW i \in Sessions, s[i].pc = "forward",
         Set(i, [capture([s[i] EXCEPT !.up = "open", !.reached = TRUE, !.wrote = @ + 1])
                   EXCEPT !.pc = "tunnel"]), Stay
  PROVE  SessionsInv'
<1> DEFINE b == [s[i] EXCEPT !.up = "open", !.reached = TRUE, !.wrote = @ + 1]
           c == capture(b)
           e == [c EXCEPT !.pc = "tunnel"]
<1>1. s[i] \in SessionRecords /\ Placed(s[i]) /\ Written(s[i])
  BY SessionAt
<1>2. Set(i, e) /\ Stay
  OBVIOUS
<1>3. b \in SessionRecords
  <2>1. s[i].wrote + 1 \in Nat
    BY <1>1 DEF SessionRecords
  <2> QED BY <1>1, <2>1, Literals DEF SessionRecords
<1>4. /\ b.wrote = s[i].wrote + 1 /\ b.rows = s[i].rows /\ b.resumed = s[i].resumed
      /\ b.skip = s[i].skip /\ b.admitted = s[i].admitted /\ b.ip = s[i].ip
      /\ b.door = s[i].door
  BY <1>1 DEF SessionRecords
<1> HIDE DEF b
<1>5. c \in SessionRecords /\ Captures(b, c)
  BY <1>3, Captured
<1> HIDE DEF c
<1>6. e \in SessionRecords
  BY <1>5, Literals DEF SessionRecords, Recorded
<1>7. /\ e.pc = "tunnel" /\ e.wrote = c.wrote /\ e.rows = c.rows /\ e.resumed = c.resumed
      /\ e.skip = c.skip /\ e.admitted = c.admitted /\ e.ip = c.ip /\ e.door = c.door
  BY <1>5 DEF SessionRecords
<1> HIDE DEF e
<1>8. Session(e)
  BY <1>1, <1>3, <1>4, <1>5, <1>6, <1>7 DEF Session, Captures, Placed, Ended, Written, Outside,
     Unanswered, Unrecorded, Recorded, Unpaused, Fresh, SessionRecords
<1> QED BY <1>2, <1>4, <1>5, <1>7, <1>8, Moves DEF Captures

\* The client of an upgrade is gone.
LEMMA UpgradeCut ==
  ASSUME SessionsInv, NEW i \in Sessions, s[i].pc = "forward",
         End(i, [(IF s[i].inner THEN capture(s[i]) ELSE s[i]) EXCEPT !.cut = TRUE])
  PROVE  SessionsInv'
<1>1. s[i] \in SessionRecords /\ Placed(s[i]) /\ Written(s[i])
  BY SessionAt
<1>2. CASE ~s[i].inner
  <2>1. End(i, [s[i] EXCEPT !.cut = TRUE])
    BY <1>2
  <2> QED BY <2>1, CutsShort
<1>3. CASE s[i].inner
  <2> DEFINE c == capture(s[i])
             e == [c EXCEPT !.cut = TRUE]
  <2>1. End(i, e)
    BY <1>3
  <2>2. c \in SessionRecords /\ Captures(s[i], c)
    BY <1>1, Captured
  <2> HIDE DEF c
  <2>3. e \in SessionRecords
    BY <2>2 DEF SessionRecords
  <2>4. /\ e.cut = TRUE /\ e.wrote = c.wrote /\ e.rows = c.rows /\ e.resumed = c.resumed
        /\ e.skip = c.skip /\ e.admitted = c.admitted /\ e.ip = c.ip /\ e.door = c.door
    BY <2>2 DEF SessionRecords
  <2> HIDE DEF e
  <2>5. Ready(e)
    BY <1>1, <2>2, <2>3, <2>4 DEF Ready, Captures, Written, Unrecorded, SessionRecords
  <2>6. e.door = "h2c" => e.admitted
    BY <1>1, <2>2, <2>4 DEF Placed, Captures
  <2> QED BY <2>1, <2>2, <2>4, <2>5, <2>6, Ends DEF Captures
<1> QED BY <1>2, <1>3

\* The origin fails: the flow is recorded and a 502 written.
LEMMA RoundTripBreaks ==
  ASSUME SessionsInv, NEW i \in Sessions, s[i].pc = "forward",
         End(i, [upstreamFailed(s[i]) EXCEPT !.reached = TRUE])
  PROVE  SessionsInv'
<1> DEFINE c == capture(s[i])
           d == [c EXCEPT !.wrote = @ + 1, !.pc = "failed"]
           e == [d EXCEPT !.reached = TRUE]
<1>1. s[i] \in SessionRecords /\ Placed(s[i]) /\ Written(s[i])
  BY SessionAt
<1>2. End(i, e)
  BY DEF upstreamFailed
<1>3. c \in SessionRecords /\ Captures(s[i], c)
  BY <1>1, Captured
<1> HIDE DEF c
<1>4. d \in SessionRecords
  <2>1. c.wrote + 1 \in Nat
    BY <1>3 DEF SessionRecords
  <2> QED BY <1>3, <2>1, Literals DEF SessionRecords
<1>5. /\ d.wrote = c.wrote + 1 /\ d.rows = c.rows /\ d.resumed = c.resumed
      /\ d.skip = c.skip /\ d.admitted = c.admitted /\ d.ip = c.ip /\ d.door = c.door
  BY <1>3 DEF SessionRecords
<1> HIDE DEF d
<1>6. e \in SessionRecords
  BY <1>4 DEF SessionRecords
<1>7. /\ e.wrote = d.wrote /\ e.rows = d.rows /\ e.resumed = d.resumed
      /\ e.skip = d.skip /\ e.admitted = d.admitted /\ e.ip = d.ip /\ e.door = d.door
  BY <1>4 DEF SessionRecords
<1> HIDE DEF e
<1>8. Ready(e)
  BY <1>1, <1>3, <1>5, <1>6, <1>7 DEF Ready, Captures, Written, Unanswered, Unrecorded,
     SessionRecords
<1>9. e.door = "h2c" => e.admitted
  BY <1>1, <1>3, <1>5, <1>7 DEF Placed, Captures
<1> QED BY <1>2, <1>3, <1>5, <1>7, <1>8, <1>9, Ends DEF Captures

\* The next request of an intercepted connection, or the end of the session.
LEMMA ExchangeOvers ==
  ASSUME SessionsInv, NEW i \in Sessions, NEW e, Ready(e), ExchangeOver(i, e),
         e.admitted = s[i].admitted, e.ip = s[i].ip, e.door = "h2c" => e.admitted
  PROVE  SessionsInv'
<1> DEFINE c == settled(e)
           d == [c EXCEPT !.pc = "inner"]
<1>1. CASE ~e.inner
  BY <1>1, Ends DEF ExchangeOver
<1>2. CASE e.inner
  <2>1. Set(i, d) /\ Stay
    BY <1>2 DEF ExchangeOver
  <2>2. /\ c \in SessionRecords /\ c.skip = FALSE /\ c.wrote <= 1
        /\ (c.rows > 1 => c.resumed) /\ (c.reached => c.rows > 0)
        /\ c.admitted = e.admitted /\ c.ip = e.ip /\ c.door = e.door
    BY SettledIsReady
  <2> HIDE DEF c
  <2>3. d \in SessionRecords
    BY <2>2, Literals DEF SessionRecords, Unpaused
  <2>4. /\ d.pc = "inner" /\ d.admitted = c.admitted /\ d.door = c.door /\ d.ip = c.ip
        /\ d.wrote = c.wrote /\ d.rows = c.rows
        /\ d.resumed = c.resumed /\ d.reached = c.reached /\ d.skip = c.skip
    BY <2>2 DEF SessionRecords
  <2> HIDE DEF d
  <2>5. Session(d)
    BY <2>2, <2>3, <2>4 DEF Session, Placed, Ended, Written, Outside, Unanswered, Unrecorded,
       Recorded, Fresh
  <2> QED BY <2>1, <2>2, <2>4, <2>5, Moves
<1> QED BY <1>1, <1>2

\* A WebSocket inside an interception is refused.
LEMMA ForbidsInner ==
  ASSUME SessionsInv, NEW i \in Sessions, s[i].pc = "match",
         Set(i, [settled(capture(s[i])) EXCEPT !.wrote = @ + 1, !.pc = "inner"]), Stay
  PROVE  SessionsInv'
<1> DEFINE b == capture(s[i])
           c == settled(b)
           d == [c EXCEPT !.wrote = @ + 1, !.pc = "inner"]
<1>1. s[i] \in SessionRecords /\ Placed(s[i]) /\ Written(s[i])
  BY SessionAt
<1>2. Set(i, d) /\ Stay
  OBVIOUS
<1>3. b \in SessionRecords /\ Captures(s[i], b)
  BY <1>1, Captured
<1> HIDE DEF b
<1>4. Ready(b) /\ b.wrote = 0
  BY <1>1, <1>3 DEF Ready, Captures, Written, Unanswered, Unrecorded, SessionRecords
<1>5. /\ c \in SessionRecords /\ c.skip = FALSE
      /\ (c.rows > 1 => c.resumed) /\ (c.reached => c.rows > 0)
      /\ c.admitted = b.admitted /\ c.ip = b.ip /\ c.door = b.door
  BY <1>4, SettledIsReady
<1>6. c.wrote = 0
  BY <1>3, <1>4 DEF settled, SessionRecords
<1> HIDE DEF c
<1>7. d \in SessionRecords
  <2>1. c.wrote + 1 \in Nat
    BY <1>6
  <2> QED BY <1>5, <2>1, Literals DEF SessionRecords, Unpaused
<1>8. /\ d.pc = "inner" /\ d.admitted = c.admitted /\ d.door = c.door /\ d.ip = c.ip
      /\ d.wrote = 1 /\ d.rows = c.rows
      /\ d.resumed = c.resumed /\ d.reached = c.reached /\ d.skip = c.skip
  BY <1>5, <1>6 DEF SessionRecords
<1> HIDE DEF d
<1>9. Session(d)
  BY <1>1, <1>3, <1>5, <1>7, <1>8 DEF Session, Captures, Placed, Ended, Written, Outside,
     Unanswered, Unrecorded, Recorded, Fresh
<1> QED BY <1>2, <1>3, <1>5, <1>8, <1>9, Moves DEF Captures


-----------------------------------------------------------------------------
(* Sessions begin.                                                         *)

LEMMA NewSession ==
  /\ newSession \in SessionRecords
  /\ newSession.admitted = FALSE /\ newSession.up = "none" /\ newSession.wrote = 0
  /\ newSession.rows = 0 /\ newSession.skip = FALSE /\ newSession.reached = FALSE
  /\ newSession.pc = "idle" /\ newSession.door = "none"
<1>1. NoIP \in Addresses
  BY DEF Addresses
<1> QED BY <1>1, Literals DEF newSession, SessionRecords, Outside

LEMMA ArriveKeeps ==
  ASSUME SessionsInv, NEW i \in Sessions, NEW door \in Doors(i), NEW ip \in IPs(i),
         Arrive(i, door, ip)
  PROVE  SessionsInv'
<1> DEFINE to == IF door = "replay" THEN NoIP ELSE ip
           pc == CASE door = "socks" -> "greeting"
                   [] door = "replay" -> "resolve"
                   [] OTHER -> "admit"
           e == [newSession EXCEPT !.door = door, !.ip = to, !.pc = pc]
<1>1. s[i] \in SessionRecords /\ Placed(s[i]) /\ s[i].pc \in {"idle", "over"}
  BY SessionAt DEF Arrive
<1>2. Set(i, e) /\ Stay
  BY DEF Arrive
<1>3. door \in DoorNames
  <2>1. door \in {"http", "socks", "origTLS", "origHTTP", "h2c", "replay"}
    BY SessionsAssumption
  <2> QED BY <2>1 DEF DoorNames
<1>4. to \in Addresses
  BY DEF Addresses
<1>5. /\ pc \in {"greeting", "resolve", "admit"} /\ pc \in Pcs
      /\ (door = "h2c" => pc = "admit")
  BY Literals DEF Unrecorded, Fresh
<1> HIDE DEF to, pc
<1>6. e \in SessionRecords
  BY <1>3, <1>4, <1>5, NewSession DEF SessionRecords
<1>7. /\ e.pc = pc /\ e.door = door /\ e.admitted = FALSE /\ e.wrote = 0 /\ e.rows = 0
      /\ e.skip = FALSE /\ e.reached = FALSE /\ e.up = "none"
  BY NewSession DEF SessionRecords
<1> HIDE DEF e
<1>8. Session(e)
  BY <1>5, <1>6, <1>7 DEF Session, Placed, Ended, Written, Outside, Unanswered, Unrecorded,
     Recorded, Unpaused, Fresh
<1>9. s[i].admitted = FALSE
  BY <1>1 DEF Placed, Outside, SessionRecords
<1> QED BY <1>2, <1>7, <1>8, <1>9, Moves

\* The next stream of an h2c connection.
LEMMA NextStream ==
  ASSUME SessionsInv, NEW i \in Sessions, s[i].pc = "streams",
         Set(i, [newSession EXCEPT !.door = "h2c", !.ip = s[i].ip, !.admitted = TRUE,
                   !.pc = "route"]), Stay
  PROVE  SessionsInv'
<1> DEFINE e == [newSession EXCEPT !.door = "h2c", !.ip = s[i].ip, !.admitted = TRUE,
                   !.pc = "route"]
<1>1. s[i] \in SessionRecords /\ Placed(s[i])
  BY SessionAt
<1>2. Set(i, e) /\ Stay
  OBVIOUS
<1>3. s[i].ip \in Addresses
  BY <1>1 DEF SessionRecords
<1>4. e \in SessionRecords
  BY <1>3, NewSession, Literals DEF SessionRecords, Unrecorded, Fresh
<1>5. /\ e.pc = "route" /\ e.admitted = TRUE /\ e.wrote = 0 /\ e.rows = 0 /\ e.ip = s[i].ip
      /\ e.skip = FALSE /\ e.reached = FALSE /\ e.up = "none"
  BY NewSession DEF SessionRecords
<1> HIDE DEF e
<1>6. Session(e)
  BY <1>4, <1>5 DEF Session, Placed, Ended, Written, Outside, Unanswered, Unrecorded,
     Recorded, Unpaused, Fresh
<1>7. s[i].admitted = TRUE
  BY <1>1 DEF Placed, SessionRecords
<1> QED BY <1>2, <1>5, <1>6, <1>7, Moves

LEMMA AdmitKeeps ==
  ASSUME SessionsInv, NEW i \in Sessions, Admit(i)
  PROVE  SessionsInv'
<1> DEFINE pc == CASE s[i].door = "h2c" -> "streams"
                   [] s[i].kind = "udp" -> "listen"
                   [] s[i].door = "socks" -> "resolve"
                   [] OTHER -> "route"
           e == [s[i] EXCEPT !.admitted = TRUE, !.pc = pc]
<1>1. /\ s \in [Sessions -> SessionRecords] /\ s[i] \in SessionRecords /\ Counts(s, gate)
      /\ Placed(s[i]) /\ Ended(s[i]) /\ Written(s[i])
  BY SessionAt
<1>2. s[i].pc = "admit" /\ acquire(s[i].ip) /\ Set(i, e) /\ limits' = limits
  BY DEF Admit
<1>3. pc \in {"streams", "listen", "resolve", "route"} /\ pc \in Pcs
  BY Literals DEF Unrecorded, Unpaused, Fresh
<1> HIDE DEF pc
<1>4. e \in SessionRecords
  BY <1>1, <1>3 DEF SessionRecords
<1>5. /\ e.pc = pc /\ e.admitted = TRUE /\ e.wrote = s[i].wrote /\ e.rows = s[i].rows
      /\ e.skip = s[i].skip /\ e.reached = s[i].reached /\ e.ip = s[i].ip /\ e.up = s[i].up
      /\ e.resumed = s[i].resumed
  BY <1>1 DEF SessionRecords
<1> HIDE DEF e
<1>6. Placed(e) /\ Written(e)
  BY <1>1, <1>2, <1>3, <1>5 DEF Placed, Written, Outside, Unanswered, Unrecorded,
     Recorded, Unpaused, Fresh
<1>7. Ended(e)
  BY <1>1, <1>2, <1>5 DEF Ended, Outside
<1>8. s' = [s EXCEPT ![i] = e]
  BY <1>2 DEF Set
<1>9. SessionsTypeOK'
  BY <1>1, <1>2, <1>4, <1>8 DEF SessionsInv, SessionsTypeOK
<1>10. \A j \in Sessions : Session(s'[j])
  BY <1>1, <1>4, <1>6, <1>7, <1>8 DEF SessionsInv, Session
<1>11. Counts(s', gate')
  <2>1. ~s[i].admitted
    BY <1>1, <1>2 DEF Placed, Outside
  <2> QED BY <1>1, <1>2, <1>4, <1>5, <1>8, <2>1, CountsEnter
<1> QED BY <1>9, <1>10, <1>11 DEF SessionsInv


-----------------------------------------------------------------------------
(* The rules of an exchange (RulePipeline).                                *)

\* d is e with another state of its exchange.
Carries(e, d) ==
  /\ d \in SessionRecords
  /\ d.admitted = e.admitted /\ d.ip = e.ip /\ d.door = e.door /\ d.up = e.up
  /\ d.reached = e.reached /\ d.cut = e.cut /\ d.kind = e.kind /\ d.inner = e.inner

\* d is e at another point, as far as what was recorded and answered goes.
Same(e, d) ==
  /\ Carries(e, d)
  /\ d.rows = e.rows /\ d.resumed = e.resumed /\ d.skip = e.skip /\ d.wrote = e.wrote

Exchanging ==
  {"match", "reqSleep", "reqPaused", "forward", "respond", "respSleep", "respPaused", "write",
   "synthesize", "silentClose", "abort"}

LEMMA StepsTo ==
  ASSUME NEW e \in SessionRecords, NEW pc \in Pcs
  PROVE  LET d == [e EXCEPT !.pc = pc] IN Same(e, d) /\ d.pc = pc
<1>1. [e EXCEPT !.pc = pc] \in SessionRecords
  BY DEF SessionRecords
<1> QED BY <1>1 DEF Same, Carries, SessionRecords

LEMMA CapturesTo ==
  ASSUME NEW e \in SessionRecords, NEW pc \in Pcs
  PROVE  LET d == [capture(e) EXCEPT !.pc = pc] IN
         /\ Carries(e, d) /\ d.pc = pc /\ d.rows = e.rows + 1
         /\ d.resumed = e.resumed /\ d.skip = e.skip /\ d.wrote = e.wrote
<1> DEFINE c == capture(e)
<1>1. c \in SessionRecords /\ Captures(e, c)
  BY Captured
<1> HIDE DEF c
<1>2. Same(c, [c EXCEPT !.pc = pc]) /\ [c EXCEPT !.pc = pc].pc = pc
  BY <1>1, StepsTo
<1>3. LET d == [c EXCEPT !.pc = pc] IN
      /\ Carries(e, d) /\ d.pc = pc /\ d.rows = e.rows + 1
      /\ d.resumed = e.resumed /\ d.skip = e.skip /\ d.wrote = e.wrote
  BY <1>1, <1>2 DEF Same, Carries, Captures
<1> QED BY <1>3 DEF c

LEMMA Synthesizes ==
  ASSUME NEW e \in SessionRecords
  PROVE  LET d == synthesize(e) IN
         /\ Carries(e, d) /\ d.pc = "synthesize" /\ d.rows = e.rows + 1
         /\ d.resumed = e.resumed /\ d.skip = e.skip /\ d.wrote = e.wrote + 1
<1> DEFINE c == capture(e)
           d == [c EXCEPT !.wrote = @ + 1, !.pc = "synthesize"]
<1>1. c \in SessionRecords /\ Captures(e, c)
  BY Captured
<1> HIDE DEF c
<1>2. d \in SessionRecords
  <2>1. c.wrote + 1 \in Nat
    BY <1>1 DEF SessionRecords
  <2> QED BY <1>1, <2>1, Literals DEF SessionRecords, Recorded
<1>3. /\ d.pc = "synthesize" /\ d.rows = c.rows /\ d.resumed = c.resumed /\ d.skip = c.skip
      /\ d.wrote = c.wrote + 1 /\ d.admitted = c.admitted /\ d.ip = c.ip /\ d.door = c.door
      /\ d.up = c.up /\ d.reached = c.reached /\ d.cut = c.cut /\ d.kind = c.kind
      /\ d.inner = c.inner
  BY <1>1 DEF SessionRecords
<1>4. synthesize(e) = d
  BY DEF synthesize, c
<1> HIDE DEF d
<1>5. Carries(e, d)
  BY <1>1, <1>2, <1>3 DEF Carries, Captures
<1> QED BY <1>1, <1>3, <1>4, <1>5 DEF Captures

\* The result of a step whose skip flag is set.
LEMMA SkipsTo ==
  ASSUME NEW e \in SessionRecords, NEW pc \in Pcs
  PROVE  LET d == [e EXCEPT !.skip = TRUE, !.pc = pc] IN
         /\ Carries(e, d) /\ d.pc = pc /\ d.rows = e.rows
         /\ d.skip = TRUE /\ d.wrote = e.wrote
<1>1. [e EXCEPT !.skip = TRUE, !.pc = pc] \in SessionRecords
  BY DEF SessionRecords
<1> QED BY <1>1 DEF Carries, SessionRecords

\* The answer to an operator's drop: the row is there already.
LEMMA Drops ==
  ASSUME NEW e \in SessionRecords
  PROVE  LET d == [e EXCEPT !.wrote = @ + 1, !.pc = "synthesize"] IN
         /\ Carries(e, d) /\ d.pc = "synthesize" /\ d.rows = e.rows
         /\ d.resumed = e.resumed /\ d.skip = e.skip /\ d.wrote = e.wrote + 1
<1>1. [e EXCEPT !.wrote = @ + 1, !.pc = "synthesize"] \in SessionRecords
  <2>1. e.wrote + 1 \in Nat
    BY DEF SessionRecords
  <2> QED BY <2>1, Literals DEF SessionRecords, Recorded
<1> QED BY <1>1 DEF Carries, SessionRecords

LEMMA RuleStep ==
  ASSUME SessionsInv, NEW i \in Sessions, s[i].pc \in Exchanging, NEW e, Carries(s[i], e),
         Written(e), e.pc \in Exchanging, Set(i, e), Stay
  PROVE  SessionsInv'
<1>1. s[i] \in SessionRecords /\ Placed(s[i])
  BY SessionAt
<1>2. Session(e)
  BY <1>1 DEF Session, Carries, Placed, Ended, Outside, Exchanging
<1> QED BY <1>2, Moves DEF Carries

\* The body of the request is read up to the cap.
LEMMA Prepares ==
  ASSUME NEW e \in SessionRecords
  PROVE  Same(e, prepareRequestBody(e))
<1>1. (IF e.size = "over" THEN "tail" ELSE "none") \in Lefts
  BY Literals
<1>2. \A x \in Lefts : Same(e, [e EXCEPT !.left = x])
  <2> SUFFICES ASSUME NEW x \in Lefts PROVE Same(e, [e EXCEPT !.left = x])
    OBVIOUS
  <2>1. [e EXCEPT !.left = x] \in SessionRecords
    BY DEF SessionRecords
  <2> QED BY <2>1 DEF Same, Carries, SessionRecords
<1>3. Same(e, e)
  BY DEF Same, Carries
<1> QED BY <1>1, <1>2, <1>3 DEF prepareRequestBody

\* The body of the response is buffered or thrown away.
LEMMA Buffers ==
  ASSUME NEW e \in SessionRecords
  PROVE  Same(e, bufferResponse(e)) /\ Same(e, drainDiscard(e))
<1>1. (IF e.rsize = "over" THEN e.from ELSE "closed") \in Conns /\ "closed" \in Conns
  BY Literals DEF SessionRecords
<1>2. \A x \in Conns : Same(e, [e EXCEPT !.from = x])
  <2> SUFFICES ASSUME NEW x \in Conns PROVE Same(e, [e EXCEPT !.from = x])
    OBVIOUS
  <2>1. [e EXCEPT !.from = x] \in SessionRecords
    BY DEF SessionRecords
  <2> QED BY <2>1 DEF Same, Carries, SessionRecords
<1> QED BY <1>1, <1>2 DEF bufferResponse, drainDiscard


\* Where an exchange stands decides what Written asks of it.
LEMMA WrittenAt ==
  ASSUME NEW e \in SessionRecords, e.wrote <= 1, e.skip => e.rows > 0,
         e.rows > 1 => e.resumed \/ e.skip,
         \/ e.pc \in {"forward", "respond", "respSleep", "write"}
              /\ e.wrote = 0 /\ (e.rows > 0 => e.resumed \/ e.skip)
         \/ e.pc = "reqSleep" /\ e.wrote = 0 /\ ~e.skip
              /\ (e.rows > 0 => e.resumed \/ e.skip)
         \/ e.pc = "reqPaused" /\ e.wrote = 0 /\ ~e.skip /\ e.rows > 0
         \/ e.pc \in {"silentClose", "respPaused"} /\ e.wrote = 0 /\ e.rows > 0
         \/ e.pc = "synthesize" /\ e.rows > 0
         \/ e.pc = "abort" /\ e.wrote = 0
  PROVE  Written(e) /\ e.pc \in Exchanging
BY DEF Written, Exchanging, Unanswered, Unrecorded, Recorded, Unpaused, Fresh

\* What Written says of an exchange whose flow is not recorded yet.
LEMMA WrittenBefore ==
  ASSUME NEW e \in SessionRecords, Written(e),
         e.pc \in {"match", "reqSleep", "forward", "respond", "respSleep", "write"}
  PROVE  /\ e.wrote = 0 /\ (e.rows > 0 => e.resumed \/ e.skip) /\ (e.skip => e.rows > 0)
         /\ e.rows \in Nat
         /\ e.pc \in {"match", "reqSleep"} => ~e.skip
BY DEF Written, Unanswered, Unrecorded, Unpaused, Fresh, SessionRecords

LEMMA RequestRuleStep ==
  ASSUME NEW e \in SessionRecords, Written(e), e.pc = "match", NEW d \in runRequestRules(e)
  PROVE  Carries(e, d) /\ Written(d) /\ d.pc \in Exchanging
<1> DEFINE b == prepareRequestBody(e)
           on == [b EXCEPT !.pc = "forward"]
           stored == [capture(on) EXCEPT !.skip = TRUE]
<1>1. Same(e, b) /\ b \in SessionRecords
  BY Prepares DEF Same, Carries
<1>2. /\ e.wrote = 0 /\ (e.rows > 0 => e.resumed) /\ e.rows \in Nat
      /\ ~e.skip
  BY WrittenBefore
<1>p. {"forward", "reqSleep", "reqPaused", "silentClose", "synthesize"} \subseteq Pcs
  BY Literals DEF Unrecorded, Recorded, Fresh
<1> HIDE DEF b
<1>3. Same(b, on) /\ on.pc = "forward" /\ on \in SessionRecords
  BY <1>1, <1>p, StepsTo DEF Same, Carries
<1>4. CASE d = on
  <2>1. Carries(e, d)
    BY <1>1, <1>3, <1>4 DEF Same, Carries
  <2>2. d.wrote = 0 /\ (d.rows > 0 => d.resumed) /\ ~d.skip /\ d.pc = "forward"
    BY <1>1, <1>2, <1>3, <1>4 DEF Same
  <2> QED BY <2>1, <2>2, WrittenAt DEF Carries, SessionRecords
<1>5. CASE d = [b EXCEPT !.pc = "reqSleep"]
  <2>1. Same(b, d) /\ d.pc = "reqSleep"
    BY <1>1, <1>5, <1>p, StepsTo
  <2>2. Carries(e, d)
    BY <1>1, <2>1 DEF Same, Carries
  <2>3. d.wrote = 0 /\ (d.rows > 0 => d.resumed) /\ ~d.skip
    BY <1>1, <1>2, <2>1 DEF Same
  <2> QED BY <2>1, <2>2, <2>3, WrittenAt DEF Carries, SessionRecords
<1>6. CASE d = synthesize(b)
  <2>1. /\ Carries(b, d) /\ d.pc = "synthesize" /\ d.rows = b.rows + 1
        /\ d.resumed = b.resumed /\ d.skip = b.skip /\ d.wrote = b.wrote + 1
    BY <1>1, <1>6, Synthesizes
  <2>2. Carries(e, d)
    BY <1>1, <2>1 DEF Same, Carries
  <2>3. d.wrote = 1 /\ d.rows > 0 /\ (d.rows > 1 => d.resumed) /\ ~d.skip
    BY <1>1, <1>2, <2>1 DEF Same
  <2> QED BY <2>1, <2>2, <2>3, WrittenAt DEF Carries, SessionRecords
<1>7. ASSUME NEW pc \in {"silentClose", "reqPaused"}, d = [capture(b) EXCEPT !.pc = pc]
      PROVE  Carries(e, d) /\ Written(d) /\ d.pc \in Exchanging
  <2>1. /\ Carries(b, d) /\ d.pc = pc /\ d.rows = b.rows + 1
        /\ d.resumed = b.resumed /\ d.skip = b.skip /\ d.wrote = b.wrote
    BY <1>1, <1>7, <1>p, CapturesTo
  <2>2. Carries(e, d)
    BY <1>1, <2>1 DEF Same, Carries
  <2>3. d.wrote = 0 /\ d.rows > 0 /\ (d.rows > 1 => d.resumed) /\ ~d.skip
    BY <1>1, <1>2, <2>1 DEF Same
  <2> QED BY <2>1, <2>2, <2>3, WrittenAt DEF Carries, SessionRecords
<1>8. CASE d = stored
  <2> DEFINE c == capture(on)
  <2>1. c \in SessionRecords /\ Captures(on, c)
    BY <1>3, Captured
  <2>2. d = [c EXCEPT !.skip = TRUE]
    BY <1>8
  <2> HIDE DEF c, on
  <2>3. d \in SessionRecords
    BY <2>1, <2>2 DEF SessionRecords
  <2>4. /\ d.pc = c.pc /\ d.rows = c.rows /\ d.resumed = c.resumed /\ d.skip = TRUE
        /\ d.wrote = c.wrote /\ d.admitted = c.admitted /\ d.ip = c.ip /\ d.door = c.door
        /\ d.up = c.up /\ d.reached = c.reached /\ d.cut = c.cut /\ d.kind = c.kind
        /\ d.inner = c.inner
    BY <2>1, <2>2 DEF SessionRecords
  <2>5. Carries(e, d)
    BY <1>1, <1>3, <2>1, <2>3, <2>4 DEF Same, Carries, Captures
  <2>6. d.pc = "forward" /\ d.wrote = 0 /\ d.rows > 0
    BY <1>1, <1>2, <1>3, <2>1, <2>4 DEF Same, Captures
  <2> QED BY <2>3, <2>4, <2>5, <2>6, WrittenAt DEF SessionRecords
<1>9. \/ d = on \/ d = [b EXCEPT !.pc = "reqSleep"] \/ d = synthesize(b)
      \/ d = [capture(b) EXCEPT !.pc = "silentClose"]
      \/ d = [capture(b) EXCEPT !.pc = "reqPaused"] \/ d = stored
  BY DEF runRequestRules, captureSilentRequest, pausedOr, b, SessionRecords, Actions
<1> QED BY <1>4, <1>5, <1>6, <1>7, <1>8, <1>9

LEMMA RequestRulesKeep ==
  ASSUME SessionsInv, NEW i \in Sessions, RequestRules(i)
  PROVE  SessionsInv'
<1> DEFINE e == s[i]
<1>1. e \in SessionRecords /\ Written(e)
  BY SessionAt
<1>p. {"forward", "abort", "silentClose"} \subseteq Pcs
  BY Literals DEF Unrecorded, Unanswered
<1>2. CASE e.pc = "match"
  <2>1. PICK d \in runRequestRules(e) : Set(i, d) /\ Stay
    BY <1>2 DEF RequestRules
  <2>2. Carries(e, d) /\ Written(d) /\ d.pc \in Exchanging
    BY <1>1, <1>2, <2>1, RequestRuleStep
  <2> QED BY <1>2, <2>1, <2>2, RuleStep DEF Exchanging
<1>3. CASE e.pc = "reqSleep"
  <2>1. PICK d : /\ d \in {requestSlept(e), requestCancelled(e)}
                 /\ Set(i, d) /\ Stay
    BY <1>3 DEF RequestRules
  <2>2. /\ e.wrote = 0 /\ (e.rows > 0 => e.resumed) /\ ~e.skip /\ e.rows \in Nat
    BY <1>1, <1>3, WrittenBefore
  <2>3. CASE \E pc \in {"forward", "abort"} : d = [e EXCEPT !.pc = pc]
    <3>1. PICK pc \in {"forward", "abort"} : d = [e EXCEPT !.pc = pc]
      BY <2>3
    <3>2. Same(e, d) /\ d.pc = pc
      BY <1>1, <1>p, <3>1, StepsTo
    <3>3. Written(d) /\ d.pc \in Exchanging
      BY <2>2, <3>2, WrittenAt DEF Same, Carries, SessionRecords
    <3> QED BY <1>3, <2>1, <3>2, <3>3, RuleStep DEF Same, Exchanging
  <2>4. CASE d = [capture(e) EXCEPT !.pc = "silentClose"]
    <3>1. /\ Carries(e, d) /\ d.pc = "silentClose" /\ d.rows = e.rows + 1
          /\ d.resumed = e.resumed /\ d.skip = e.skip /\ d.wrote = e.wrote
      BY <1>1, <1>p, <2>4, CapturesTo
    <3>2. Written(d) /\ d.pc \in Exchanging
      BY <2>2, <3>1, WrittenAt DEF Carries, SessionRecords
    <3> QED BY <1>3, <2>1, <3>1, <3>2, RuleStep DEF Exchanging
  <2> QED BY <2>1, <2>3, <2>4 DEF requestSlept, requestCancelled, captureSilentRequest
<1>4. CASE e.pc = "reqPaused"
  <2>1. PICK d \in requestVerdicts(e) : Set(i, d) /\ Stay
    BY <1>4 DEF RequestRules
  <2>2. e.wrote = 0 /\ e.rows > 0 /\ (e.rows > 1 => e.resumed) /\ ~e.skip /\ e.rows \in Nat
    BY <1>1, <1>4 DEF Written, Unanswered, Recorded, Unpaused, SessionRecords
  <2>3. CASE d = [e EXCEPT !.wrote = @ + 1, !.pc = "synthesize"]
    <3>1. /\ Carries(e, d) /\ d.pc = "synthesize" /\ d.rows = e.rows
          /\ d.resumed = e.resumed /\ d.skip = e.skip /\ d.wrote = e.wrote + 1
      BY <1>1, <2>3, Drops
    <3>2. Written(d) /\ d.pc \in Exchanging
      BY <2>2, <3>1, WrittenAt DEF Carries, SessionRecords
    <3> QED BY <1>4, <2>1, <3>1, <3>2, RuleStep DEF Exchanging
  <2>4. CASE d = [e EXCEPT !.resumed = TRUE, !.pc = "forward"]
    <3>1. d \in SessionRecords
      BY <1>1, <1>p, <2>4 DEF SessionRecords
    <3>2. /\ Carries(e, d) /\ d.pc = "forward" /\ d.rows = e.rows
          /\ d.resumed = TRUE /\ d.skip = e.skip /\ d.wrote = e.wrote
      BY <1>1, <2>4, <3>1 DEF SessionRecords, Carries
    <3>3. Written(d) /\ d.pc \in Exchanging
      BY <2>2, <3>2, WrittenAt DEF Carries, SessionRecords
    <3> QED BY <1>4, <2>1, <3>2, <3>3, RuleStep DEF Exchanging
  <2>5. CASE d = [e EXCEPT !.skip = TRUE, !.pc = "forward"]
    <3>1. /\ Carries(e, d) /\ d.pc = "forward" /\ d.rows = e.rows
          /\ d.skip = TRUE /\ d.wrote = e.wrote
      BY <1>1, <1>p, <2>5, SkipsTo
    <3>2. Written(d) /\ d.pc \in Exchanging
      BY <2>2, <3>1, WrittenAt DEF Carries, SessionRecords
    <3> QED BY <1>4, <2>1, <3>1, <3>2, RuleStep DEF Exchanging
  <2> QED BY <2>1, <2>3, <2>4, <2>5 DEF requestVerdicts
<1> QED BY <1>2, <1>3, <1>4 DEF RequestRules


\* The forms a step of the response phase takes, on a buffered response or not.
LEMMA ResponseForms ==
  ASSUME NEW e \in SessionRecords, Written(e), e.pc \in {"respond", "respSleep"},
         NEW b, Same(e, b), NEW d,
         \/ \E pc \in {"write", "respSleep", "abort"} : d = [b EXCEPT !.pc = pc]
         \/ \E pc \in {"silentClose", "respPaused"} : d = [capture(b) EXCEPT !.pc = pc]
         \/ d = synthesize(b)
         \/ d = [capture(b) EXCEPT !.skip = TRUE, !.pc = "write"]
  PROVE  Carries(e, d) /\ Written(d) /\ d.pc \in Exchanging
<1>1. b \in SessionRecords
  BY DEF Same, Carries
<1>2. /\ e.wrote = 0 /\ (e.rows > 0 => e.resumed \/ e.skip) /\ (e.skip => e.rows > 0)
      /\ e.rows \in Nat
  BY WrittenBefore
<1>p. {"write", "respSleep", "abort", "silentClose", "respPaused"} \subseteq Pcs
  BY Literals DEF Unrecorded, Unanswered, Recorded
<1>3. CASE \E pc \in {"write", "respSleep", "abort"} : d = [b EXCEPT !.pc = pc]
  <2>1. PICK pc \in {"write", "respSleep", "abort"} : d = [b EXCEPT !.pc = pc]
    BY <1>3
  <2>2. Same(b, d) /\ d.pc = pc
    BY <1>1, <1>p, <2>1, StepsTo
  <2>3. Carries(e, d)
    BY <2>2 DEF Same, Carries
  <2>4. /\ d.wrote = 0 /\ (d.rows > 0 => d.resumed \/ d.skip) /\ (d.skip => d.rows > 0)
    BY <1>2, <2>2 DEF Same
  <2> QED BY <2>2, <2>3, <2>4, WrittenAt DEF Carries, SessionRecords
<1>4. CASE \E pc \in {"silentClose", "respPaused"} : d = [capture(b) EXCEPT !.pc = pc]
  <2>1. PICK pc \in {"silentClose", "respPaused"} : d = [capture(b) EXCEPT !.pc = pc]
    BY <1>4
  <2>2. /\ Carries(b, d) /\ d.pc = pc /\ d.rows = b.rows + 1
        /\ d.resumed = b.resumed /\ d.skip = b.skip /\ d.wrote = b.wrote
    BY <1>1, <1>p, <2>1, CapturesTo
  <2>3. Carries(e, d)
    BY <2>2 DEF Same, Carries
  <2>4. d.wrote = 0 /\ d.rows > 0 /\ (d.rows > 1 => d.resumed \/ d.skip)
    BY <1>2, <2>2 DEF Same
  <2> QED BY <2>2, <2>3, <2>4, WrittenAt DEF Carries, SessionRecords
<1>5. CASE d = synthesize(b)
  <2>1. /\ Carries(b, d) /\ d.pc = "synthesize" /\ d.rows = b.rows + 1
        /\ d.resumed = b.resumed /\ d.skip = b.skip /\ d.wrote = b.wrote + 1
    BY <1>1, <1>5, Synthesizes
  <2>2. Carries(e, d)
    BY <2>1 DEF Same, Carries
  <2>3. d.wrote = 1 /\ d.rows > 0 /\ (d.rows > 1 => d.resumed \/ d.skip)
    BY <1>2, <2>1 DEF Same
  <2> QED BY <2>1, <2>2, <2>3, WrittenAt DEF Carries, SessionRecords
<1>6. CASE d = [capture(b) EXCEPT !.skip = TRUE, !.pc = "write"]
  <2> DEFINE c == capture(b)
  <2>1. c \in SessionRecords /\ Captures(b, c)
    BY <1>1, Captured
  <2>2. d = [c EXCEPT !.skip = TRUE, !.pc = "write"]
    BY <1>6
  <2> HIDE DEF c
  <2>3. /\ Carries(c, d) /\ d.pc = "write" /\ d.rows = c.rows
        /\ d.skip = TRUE /\ d.wrote = c.wrote
    BY <1>p, <2>1, <2>2, SkipsTo
  <2>4. Carries(e, d)
    BY <2>1, <2>3 DEF Same, Carries, Captures
  <2>5. d.wrote = 0 /\ d.rows > 0
    BY <1>2, <2>1, <2>3 DEF Same, Captures
  <2> QED BY <2>3, <2>4, <2>5, WrittenAt DEF Carries, SessionRecords
<1> QED BY <1>3, <1>4, <1>5, <1>6

LEMMA FinishIsReady ==
  ASSUME NEW e \in SessionRecords, Written(e), e.pc = "write"
  PROVE  LET d == finishResponse(e) IN
         /\ Ready(d) /\ d.admitted = e.admitted /\ d.ip = e.ip /\ d.door = e.door
<1> DEFINE f == [e EXCEPT !.wrote = @ + 1, !.pc = "continue"]
<1>1. /\ e.wrote = 0 /\ (e.rows > 0 => e.resumed \/ e.skip) /\ (e.skip => e.rows > 0)
      /\ e.rows \in Nat
  BY WrittenBefore
<1>2. f \in SessionRecords
  <2>1. e.wrote + 1 \in Nat
    BY <1>1
  <2> QED BY <2>1, Literals DEF SessionRecords
<1>3. /\ f.wrote = 1 /\ f.rows = e.rows /\ f.resumed = e.resumed /\ f.skip = e.skip
      /\ f.admitted = e.admitted /\ f.ip = e.ip /\ f.door = e.door
  BY <1>1 DEF SessionRecords
<1>4. finishResponse(e) = IF e.skip THEN f ELSE capture(f)
  BY DEF finishResponse
<1> HIDE DEF f
<1>5. capture(f) \in SessionRecords /\ Captures(f, capture(f))
  BY <1>2, Captured
<1>6. CASE e.skip
  <2>1. Ready(f)
    BY <1>1, <1>2, <1>3, <1>6 DEF Ready
  <2>2. finishResponse(e) = f
    BY <1>4, <1>6
  <2> QED BY <1>3, <2>1, <2>2
<1>7. CASE ~e.skip
  <2> DEFINE d == capture(f)
  <2>1. finishResponse(e) = d
    BY <1>4, <1>7
  <2>2. d \in SessionRecords /\ Captures(f, d)
    BY <1>5
  <2> HIDE DEF d
  <2>3. Ready(d) /\ d.admitted = e.admitted /\ d.ip = e.ip /\ d.door = e.door
    BY <1>1, <1>3, <1>7, <2>2 DEF Ready, Captures
  <2> QED BY <2>1, <2>3
<1> QED BY <1>6, <1>7

LEMMA ResponseRulesKeep ==
  ASSUME SessionsInv, NEW i \in Sessions, ResponseRules(i)
  PROVE  SessionsInv'
<1> DEFINE e == s[i]
<1>1. e \in SessionRecords /\ Written(e) /\ Placed(e)
  BY SessionAt
<1>2. Same(e, e) /\ Same(e, bufferResponse(e)) /\ Same(e, drainDiscard(e))
  BY <1>1, Buffers DEF Same, Carries
<1>3. CASE e.pc = "respond"
  <2>1. PICK d \in runResponseRules(e) : Set(i, d) /\ Stay
    BY <1>3 DEF ResponseRules
  <2>2. \E b \in {e, bufferResponse(e), drainDiscard(e)} :
         \/ \E pc \in {"write", "respSleep", "abort"} : d = [b EXCEPT !.pc = pc]
         \/ \E pc \in {"silentClose", "respPaused"} : d = [capture(b) EXCEPT !.pc = pc]
         \/ d = synthesize(b)
         \/ d = [capture(b) EXCEPT !.skip = TRUE, !.pc = "write"]
    <3>1. e.resp \in Actions
      BY <1>1 DEF SessionRecords
    <3> HIDE DEF e
    <3> QED BY <2>1, <3>1 DEF runResponseRules, silentResponse, pausedOr, Actions
  <2>3. Carries(e, d) /\ Written(d) /\ d.pc \in Exchanging
    BY <1>1, <1>2, <1>3, <2>2, ResponseForms
  <2> QED BY <1>3, <2>1, <2>3, RuleStep DEF Exchanging
<1>4. CASE e.pc = "respSleep"
  <2>1. PICK d \in {responseSlept(e), responseCancelled(e)} : Set(i, d) /\ Stay
    BY <1>4 DEF ResponseRules
  <2>2. \E b \in {e, drainDiscard(e)} :
         \/ \E pc \in {"write", "respSleep", "abort"} : d = [b EXCEPT !.pc = pc]
         \/ \E pc \in {"silentClose", "respPaused"} : d = [capture(b) EXCEPT !.pc = pc]
    <3> HIDE DEF e
    <3> QED BY <2>1 DEF responseSlept, responseCancelled, silentResponse
  <2>3. Carries(e, d) /\ Written(d) /\ d.pc \in Exchanging
    BY <1>1, <1>2, <1>4, <2>2, ResponseForms
  <2> QED BY <1>4, <2>1, <2>3, RuleStep DEF Exchanging
<1>5. CASE e.pc = "respPaused"
  <2>1. PICK d \in responseVerdicts(e) : Set(i, d) /\ Stay
    BY <1>5 DEF ResponseRules
  <2>2. /\ e.wrote = 0 /\ e.rows > 0 /\ (e.rows > 1 => e.resumed \/ e.skip)
        /\ e.rows \in Nat
    BY <1>1, <1>5 DEF Written, Unanswered, Recorded, SessionRecords
  <2>3. CASE d = [e EXCEPT !.wrote = @ + 1, !.pc = "synthesize"]
    <3>1. /\ Carries(e, d) /\ d.pc = "synthesize" /\ d.rows = e.rows
          /\ d.resumed = e.resumed /\ d.skip = e.skip /\ d.wrote = e.wrote + 1
      BY <1>1, <2>3, Drops
    <3>2. Written(d) /\ d.pc \in Exchanging
      BY <2>2, <3>1, WrittenAt DEF Carries, SessionRecords
    <3> QED BY <1>5, <2>1, <3>1, <3>2, RuleStep DEF Exchanging
  <2>4. CASE d = [e EXCEPT !.skip = TRUE, !.pc = "write"]
    <3>1. /\ Carries(e, d) /\ d.pc = "write" /\ d.rows = e.rows
          /\ d.skip = TRUE /\ d.wrote = e.wrote
      <4>1. "write" \in Pcs
        BY Literals DEF Unrecorded
      <4> QED BY <1>1, <2>4, <4>1, SkipsTo
    <3>2. Written(d) /\ d.pc \in Exchanging
      BY <2>2, <3>1, WrittenAt DEF Carries, SessionRecords
    <3> QED BY <1>5, <2>1, <3>1, <3>2, RuleStep DEF Exchanging
  <2> QED BY <2>1, <2>3, <2>4 DEF responseVerdicts
<1>6. CASE e.pc = "write"
  <2>1. ExchangeOver(i, finishResponse(e))
    BY <1>6 DEF ResponseRules
  <2>2. LET d == finishResponse(e) IN
        Ready(d) /\ d.admitted = e.admitted /\ d.ip = e.ip /\ d.door = e.door
    BY <1>1, <1>6, FinishIsReady
  <2>3. e.door = "h2c" => e.admitted
    BY <1>1, <1>6 DEF Placed
  <2> QED BY <2>1, <2>2, <2>3, ExchangeOvers
<1> QED BY <1>3, <1>4, <1>5, <1>6 DEF ResponseRules

LEMMA RuleAnsweredKeeps ==
  ASSUME SessionsInv, NEW i \in Sessions, RuleAnswered(i)
  PROVE  SessionsInv'
<1>1. s[i] \in SessionRecords /\ Written(s[i]) /\ Placed(s[i])
  BY SessionAt
<1>2. CASE s[i].pc = "synthesize"
  <2> DEFINE e == [s[i] EXCEPT !.reached = TRUE]
  <2>1. ExchangeOver(i, e)
    BY <1>2 DEF RuleAnswered
  <2>2. e \in SessionRecords
    BY <1>1 DEF SessionRecords
  <2>3. /\ e.wrote = s[i].wrote /\ e.rows = s[i].rows /\ e.resumed = s[i].resumed
        /\ e.skip = s[i].skip /\ e.admitted = s[i].admitted /\ e.ip = s[i].ip
        /\ e.door = s[i].door
    BY <1>1 DEF SessionRecords
  <2> HIDE DEF e
  <2>4. Ready(e) /\ (e.door = "h2c" => e.admitted)
    BY <1>1, <1>2, <2>2, <2>3 DEF Ready, Written, Placed, Recorded
  <2> QED BY <2>1, <2>3, <2>4, ExchangeOvers
<1>3. CASE s[i].pc = "abort"
  <2> DEFINE e == [s[i] EXCEPT !.cut = TRUE]
  <2>1. ExchangeOver(i, e)
    BY <1>3 DEF RuleAnswered
  <2>2. e \in SessionRecords
    BY <1>1 DEF SessionRecords
  <2>3. /\ e.wrote = s[i].wrote /\ e.rows = s[i].rows /\ e.resumed = s[i].resumed
        /\ e.skip = s[i].skip /\ e.admitted = s[i].admitted /\ e.ip = s[i].ip
        /\ e.door = s[i].door /\ e.cut = TRUE
    BY <1>1 DEF SessionRecords
  <2> HIDE DEF e
  <2>4. Ready(e) /\ (e.door = "h2c" => e.admitted)
    BY <1>1, <1>3, <2>2, <2>3 DEF Ready, Written, Placed
  <2> QED BY <2>1, <2>3, <2>4, ExchangeOvers
<1>4. CASE s[i].pc = "silentClose"
  BY <1>4, EndsRecorded DEF RuleAnswered, Recorded
<1> QED BY <1>2, <1>3, <1>4 DEF RuleAnswered


-----------------------------------------------------------------------------
(* Every step of a session.                                                *)

LEMMA DoorsKeep ==
  ASSUME SessionsInv, NEW i \in Sessions,
         \/ socks5NegotiateAuth(i) \/ socks5UserPass(i)
         \/ \E kind \in {"connect", "udp"} : serveSOCKS(i, kind)
         \/ Deny(i) \/ dispatchOrigDest(i) \/ serveCONNECT(i)
         \/ \E kind \in {"http", "ws"} : serveAbsolute(i, kind) \/ serveOrigDestHTTP(i, kind)
         \/ \E eligible \in BOOLEAN : serveOrigDestTLS(i, eligible)
         \/ serveH2C(i) \/ roundTripH2C(i) \/ h2cConnectTunnel(i) \/ h2cTunnel(i)
         \/ rejectReplayable(i) \/ rejectResolve(i)
  PROVE  SessionsInv'
<1>1. CASE socks5NegotiateAuth(i) \/ socks5UserPass(i)
  BY <1>1, Refuses, CutsShort, Goes DEF socks5NegotiateAuth, socks5UserPass, Fresh
<1>2. CASE \E kind \in {"connect", "udp"} : serveSOCKS(i, kind)
  BY <1>2, Refuses, CutsShort, TakesCommand DEF serveSOCKS, Fresh
<1>3. CASE Deny(i) \/ dispatchOrigDest(i)
  <2>1. s[i].pc = "admit" /\ (Leave(i, s[i]) \/ Leave(i, [s[i] EXCEPT !.wrote = @ + 1]))
    BY <1>3 DEF Deny, dispatchOrigDest
  <2> QED BY <2>1, LeavesAsIs, LeavesDenied
<1>4. CASE serveCONNECT(i)
  BY <1>4, Refuses, RefusesRecorded, Routes
     DEF serveCONNECT, rejectHTTPAuth, Fresh, Unanswered, Unrecorded
<1>5. CASE \E kind \in {"http", "ws"} : serveAbsolute(i, kind) \/ serveOrigDestHTTP(i, kind)
  BY <1>5, Refuses, RefusesRecorded, Routes
     DEF serveAbsolute, serveOrigDestHTTP, rejectHTTPAuth, Fresh, Unanswered, Unrecorded
<1>6. CASE \E eligible \in BOOLEAN : serveOrigDestTLS(i, eligible)
  BY <1>6, ClosesRecorded, RoutesTLS DEF serveOrigDestTLS, Fresh, Unrecorded
<1>7. CASE serveH2C(i)
  BY <1>7, NextStream, LeavesAsIs DEF serveH2C
<1>8. CASE roundTripH2C(i) \/ h2cConnectTunnel(i) \/ h2cTunnel(i)
  BY <1>8, Refuses, RefusesRecorded, Routes, RoutesStream
     DEF roundTripH2C, h2cConnectTunnel, h2cTunnel, Fresh, Unanswered, Unrecorded
<1>9. CASE rejectReplayable(i) \/ rejectResolve(i)
  <2>1. s[i].pc = "resolve" /\ (Refuse(i) \/ RefuseRecorded(i) \/ CloseRecorded(i))
    BY <1>9 DEF rejectReplayable, rejectResolve
  <2> QED BY <2>1, Refuses, RefusesRecorded, ClosesRecorded DEF Fresh, Unanswered, Unrecorded
<1> QED BY <1>1, <1>2, <1>3, <1>4, <1>5, <1>6, <1>7, <1>8, <1>9

LEMMA TunnelsKeep ==
  ASSUME SessionsInv, NEW i \in Sessions,
         \/ \E req \in ReqActions(i), size \in ReqSizes : resolveThenGuard(i, req, size)
         \/ dialFails(i) \/ \E eligible \in BOOLEAN : dialPinnedTO(i, eligible)
         \/ writeEstablished(i) \/ tunnelOrIntercept(i) \/ TunnelEnds(i) \/ serveSOCKSUDP(i)
         \/ failIntercept(i) \/ innerHTTP(i) \/ innerEnds(i) \/ innerForbidden(i)
         \/ \E req \in ReqActions(i), size \in ReqSizes, kind \in {"http", "ws"} :
              innerRead(i, req, size, kind)
  PROVE  SessionsInv'
<1>1. ReqActions(i) \subseteq Actions /\ ReqSizes \subseteq Sizes
  BY SessionsAssumption
<1>2. CASE \E req \in ReqActions(i), size \in ReqSizes : resolveThenGuard(i, req, size)
  <2>1. PICK req \in ReqActions(i), size \in ReqSizes : resolveThenGuard(i, req, size)
    BY <1>2
  <2>2. /\ s[i].pc = "resolve" /\ Stay
        /\ \/ Set(i, [s[i] EXCEPT !.pc = "dial", !.door = IF @ = "socks" THEN "http" ELSE @])
           \/ Set(i, [s[i] EXCEPT !.pc = "forward", !.reached = TRUE])
           \/ Set(i, Exchange([s[i] EXCEPT !.door = IF @ = "h2c" THEN @ ELSE "http"],
                              "match", req, size))
    BY <2>1 DEF resolveThenGuard
  <2> QED BY <1>1, <2>2, GuardsTunnel, GuardsUnruled, GuardsExchange
<1>3. CASE dialFails(i)
  BY <1>3, FailsToDial DEF dialFails
<1>4. CASE \E eligible \in BOOLEAN : dialPinnedTO(i, eligible)
  BY <1>4, Dials DEF dialPinnedTO
<1>5. CASE writeEstablished(i)
  BY <1>5, Establishes, CutsShort DEF writeEstablished
<1>6. CASE tunnelOrIntercept(i)
  BY <1>6, Goes, Tunnels DEF tunnelOrIntercept
<1>7. CASE TunnelEnds(i)
  <2>1. \/ s[i].pc = "tunnel" /\ End(i, s[i])
        \/ s[i].pc = "inspect" /\ CloseRecorded(i)
    BY <1>7 DEF TunnelEnds, CloseRecorded
  <2> QED BY <2>1, EndsRecorded, ClosesRecorded DEF Recorded, Unrecorded
<1>8. CASE serveSOCKSUDP(i)
  BY <1>8, Refuses, RefusesRecorded, CutsShort, Listens, ClosesRecorded
     DEF serveSOCKSUDP, Fresh, Unanswered, Unrecorded
<1>9. CASE failIntercept(i) \/ innerHTTP(i)
  BY <1>9, ClosesRecorded, Intercepts DEF failIntercept, innerHTTP, Unrecorded
<1>10. CASE innerEnds(i)
  BY <1>10, LeavesAsIs, LeavesInner DEF innerEnds
<1>11. CASE innerForbidden(i)
  BY <1>11, ForbidsInner DEF innerForbidden
<1>12. CASE \E req \in ReqActions(i), size \in ReqSizes, kind \in {"http", "ws"} :
              innerRead(i, req, size, kind)
  BY <1>1, <1>12, ReadsInner DEF innerRead
<1> QED BY <1>2, <1>3, <1>4, <1>5, <1>6, <1>7, <1>8, <1>9, <1>10, <1>11, <1>12

LEMMA OriginKeeps ==
  ASSUME SessionsInv, NEW i \in Sessions,
         \/ serveExpectAbsolute(i) \/ RoundTripFails(i)
         \/ \E resp \in RespActions(i), rsize \in RespSizes, early \in BOOLEAN :
              RoundTrip(i, resp, rsize, early)
         \/ \E resp \in RespActions(i) : UpgradeDeclined(i, resp)
         \/ roundTripReplay(i) \/ Replay(i) \/ hijackUpgrade(i)
  PROVE  SessionsInv'
<1>1. RespActions(i) \subseteq Actions /\ RespSizes \subseteq Sizes
  BY SessionsAssumption
<1>2. CASE serveExpectAbsolute(i)
  BY <1>2, CutsShort DEF serveExpectAbsolute
<1>3. CASE RoundTripFails(i)
  <2>1. CASE s[i].kind = "h2ws"
    BY <1>3, <2>1, FailsStream DEF RoundTripFails
  <2>2. CASE s[i].kind # "h2ws"
    BY <1>3, <2>2, RoundTripBreaks DEF RoundTripFails
  <2> QED BY <2>1, <2>2
<1>4. CASE \E resp \in RespActions(i), rsize \in RespSizes, early \in BOOLEAN :
              RoundTrip(i, resp, rsize, early)
  BY <1>1, <1>4, RoundTrips DEF RoundTrip
<1>5. CASE \E resp \in RespActions(i) : UpgradeDeclined(i, resp)
  BY <1>1, <1>5, DeclinesStream, Declines DEF UpgradeDeclined
<1>6. CASE roundTripReplay(i)
  BY <1>6, Replays DEF roundTripReplay
<1>7. CASE Replay(i)
  <2>1. s[i].pc = "replayed" /\ RefuseRecorded(i)
    BY <1>7 DEF Replay, RefuseRecorded
  <2> QED BY <2>1, RefusesRecorded DEF Unanswered, Unrecorded
<1>8. CASE hijackUpgrade(i)
  BY <1>8, Inspects, TunnelsUpgrade, UpgradeCut DEF hijackUpgrade
<1> QED BY <1>2, <1>3, <1>4, <1>5, <1>6, <1>7, <1>8

LEMMA NextKeeps ==
  ASSUME SessionsInv, [Next]_vars
  PROVE  SessionsInv'
<1>1. CASE UNCHANGED vars
  BY <1>1 DEF vars, SessionsInv, SessionsTypeOK
<1>2. CASE Reconfigure
  BY <1>2 DEF Reconfigure, SessionsInv, SessionsTypeOK
<1>3. ASSUME NEW i \in Sessions, NEW door \in Doors(i), NEW ip \in IPs(i), Arrive(i, door, ip)
      PROVE  SessionsInv'
  BY <1>3, ArriveKeeps
<1>4. ASSUME NEW i \in Sessions, Work(i) PROVE SessionsInv'
  BY <1>4, DoorsKeep, AdmitKeeps, TunnelsKeep, RequestRulesKeep, RuleAnsweredKeeps,
     OriginKeeps, ResponseRulesKeep, Zenon DEF Work
<1> QED BY <1>1, <1>2, <1>3, <1>4 DEF Next

LEMMA InitKeeps ==
  ASSUME Init
  PROVE  SessionsInv
<1>1. s \in [Sessions -> SessionRecords] /\ limits \in Limits
  BY NewSession DEF Init
<1>2. \A i \in Sessions : s[i] = newSession
  BY DEF Init
<1>3. \A i \in Sessions : Session(s[i])
  BY <1>2, NewSession DEF Session, Placed, Ended, Written, Outside, Unanswered, Unrecorded,
     Recorded, Unpaused, Fresh
<1>4. Admitted(s) = {}
  BY <1>2, NewSession DEF Admitted
<1>5. Cardinality(Admitted(s)) = 0
  BY <1>4, FS_EmptySet
<1>6. gate.sessions = 0 /\ gate.inflight = 0 /\ DOMAIN gate.perIP = {}
  BY DEF Init, newGate
<1>7. Counts(s, gate)
  BY <1>4, <1>5, <1>6 DEF Counts
<1> QED BY <1>1, <1>3, <1>7 DEF SessionsInv, SessionsTypeOK

\* The inductive invariant of the front doors: every session is where its place
\* in the gate, its connection and its record say it is, and the gate counts the
\* places.
THEOREM SessionsInvariant == Spec => []SessionsInv
<1>1. Init => SessionsInv
  BY InitKeeps
<1>2. SessionsInv /\ [Next]_vars => SessionsInv'
  BY NextKeeps
<1> QED BY <1>1, <1>2, PTL DEF Spec

\* GateExact, for any number of sessions and addresses and whatever limits are
\* published meanwhile: the counters of the admission gate (acquire, release) are
\* the sessions that run, on every return path of every door.
THEOREM GateCounts == Spec => []GateExact
<1>1. SessionsInv => GateExact
  <2> SUFFICES ASSUME SessionsInv PROVE GateExact
    OBVIOUS
  <2>1. Counts(s, gate)
    BY DEF SessionsInv
  <2>2. \A a : admittedFrom(a) = Cardinality(From(s, a))
    BY DEF admittedFrom, From
  <2>3. \A i \in Sessions : s[i].pc \in {"idle", "over", "streams"} => s[i].up # "open"
    BY DEF SessionsInv, Session, Ended, Outside
  <2> QED BY <2>1, <2>2, <2>3 DEF GateExact, Counts, Admitted
<1> QED BY <1>1, SessionsInvariant, PTL

\* ReachedIsRecorded, for every rule, body size and outcome of every door: what
\* was dialled, sent or answered has its flow, and one answer at most.
THEOREM ReachedHasFlow == Spec => []ReachedIsRecorded
<1>1. SessionsInv => ReachedIsRecorded
  BY DEF SessionsInv, SessionsTypeOK, Session, Written, Unpaused, ReachedIsRecorded, SessionRecords
<1> QED BY <1>1, SessionsInvariant, PTL

-----------------------------------------------------------------------------
(* Relays.                                                                 *)

PumpStages == {"top", "read", "match", "decide", "tee", "stamp", "capture", "end", "fail",
           "closeBoth", "done"}
Rulings == KnownActions \cup {NoHit}

PumpRecord ==
  [pc : PumpStages, op : Opcodes, len : Nat, words : SUBSET Words, kept : Nat, read : BOOLEAN,
   rule : Rulings, wire : Nat]
FrameRecord == [size : Nat, whole : BOOLEAN]

InspectionRecord ==
  [pump : [Directions -> PumpRecord], rules : RuleLists \cup {<< >>}, frames : Seq(FrameRecord),
   count : Nat, stored : Nat, stop : BOOLEAN, truncated : BOOLEAN, error : BOOLEAN,
   state : {"completed", "error"}, open : BOOLEAN, flow : {"none", "recorded"}]

\* A frame in the hands of pump record p, as the rules see it.
View(d, p, words) ==
  [host |-> Snap.host, path |-> Snap.path, method |-> Snap.method, headers |-> Snap.headers,
   opcode |-> p.op, direction |-> d, words |-> words]

Ruling(items, d, p, words) == Match(items, "websocket", View(d, p, words))

Asked(items, d, p) == p.len > 0 /\ NeedsFramePayload(items, View(d, p, {}), p.len, MaxStored)

InView(p) == IF p.len <= MaxStored THEN p.words ELSE {}

\* What a pump knows of its frame at each stage: an empty payload holds no word,
\* it is read when a rule will ask for it, and the ruling is that of the whole frame.
PumpOK(d, p, items) ==
  /\ p.len = 0 => p.words = {}
  /\ p.pc \in {"match", "decide"} => HasEnabledWebSocket(items)
  /\ p.pc = "decide" => p.read = Asked(items, d, p)
  /\ p.pc \in {"tee", "stamp", "capture"} /\ HasEnabledWebSocket(items) =>
       p.rule = Ruling(items, d, p, InView(p))

RelaySizes(frames) == [k \in DOMAIN frames |-> frames[k].size]
SumSizes(frames) == SumFunctionOnSet(RelaySizes(frames), DOMAIN frames)

RecordOK(frames, count, stored, truncated) ==
  /\ stored <= MaxStored /\ Len(frames) <= WSMaxFrames
  /\ stored = SumSizes(frames)
  /\ truncated \/ (Len(frames) = count /\ \A k \in DOMAIN frames : frames[k].whole)

InspectionInv ==
  /\ ws \in InspectionRecord
  /\ \A d \in Directions : PumpOK(d, ws.pump[d], ws.rules)
  /\ RecordOK(ws.frames, ws.count, ws.stored, ws.truncated)

AssociationRecord ==
  [client : Strangers \cup {NoOne}, pins : [Names -> RelayAddresses \cup {NoOne, Denied}],
   origins : SUBSET RelayAddresses, out : Nat, in : Nat, truncated : BOOLEAN,
   back : SUBSET RelayAddresses, open : BOOLEAN, targets : Targets, v4 : BOOLEAN,
   sent : [Names \cup {Literal} -> SUBSET RelayAddresses]]

\* An address that the policy and the family of the relay allow.
Allowed(a, targets, v4) == a \in RelayAddresses /\ ~denyIP(targets, a) /\ a.v4 = v4

AssociationInv ==
  /\ udp \in AssociationRecord
  /\ \A n \in Names : udp.pins[n] \notin {NoOne, Denied} => Allowed(udp.pins[n], udp.targets, udp.v4)
  /\ \A n \in Names : udp.sent[n] \subseteq {udp.pins[n]} \ {NoOne, Denied}
  /\ \A a \in udp.origins : Allowed(a, udp.targets, udp.v4) /\ ~isHairpin(udp.targets.listeners, a)
  /\ udp.back \subseteq udp.origins

RelaysInv == RelaysConstants /\ InspectionInv /\ AssociationInv

-----------------------------------------------------------------------------
(* The rules.                                                              *)

\* What may match whatever the payload holds; what does match.
Candidates(items, in, declared) ==
  {k \in Live(items) : /\ matchANDExceptPayload(items[k], in)
                       /\ items[k].payload = Unset \/ declared <= MaxStored}
Hits(items, in) == {k \in Live(items) : matchAND(items[k], in)}

LEMMA MatchIsFirstHit ==
  ASSUME NEW items, NEW in
  PROVE  Match(items, "websocket", in) =
           IF Hits(items, in) = {} THEN NoHit ELSE items[Min(Hits(items, in))].action
<1>1. Hits(items, in) = {k \in DOMAIN items :
        items[k].enabled /\ items[k].phase = "websocket" /\ matchAND(items[k], in)}
  BY DEF Hits, Live
<1> QED BY <1>1 DEF Match

LEMMA RuleListShape ==
  ASSUME RelaysConstants, NEW items \in RuleLists \cup {<< >>}
  PROVE  /\ DOMAIN items \subseteq Nat
         /\ \A k \in DOMAIN items : items[k].action \in KnownActions
<1>1. CASE items = << >>
  BY <1>1
<1>2. CASE items \in RuleLists
  BY <1>2 DEF RelaysConstants, validateRules
<1> QED BY <1>1, <1>2

LEMMA RulingIsKnown ==
  ASSUME RelaysConstants, NEW items \in RuleLists \cup {<< >>}, NEW in
  PROVE  Match(items, "websocket", in) \in Rulings
<1> DEFINE H == Hits(items, in)
<1>1. H \subseteq DOMAIN items /\ H \in SUBSET Nat
  BY RuleListShape DEF Hits, Live
<1>2. CASE H = {}
  BY <1>2, MatchIsFirstHit DEF Rulings
<1>3. CASE H # {}
  <2>1. Min(H) \in H
    BY <1>1, <1>3, MinOfNat
  <2>2. items[Min(H)].action \in KnownActions
    BY <1>1, <2>1, RuleListShape
  <2> QED BY <1>3, <2>2, MatchIsFirstHit DEF Rulings
<1> QED BY <1>2, <1>3

\* Two least elements of two sets that contain both are one.
LEMMA SameLeast ==
  ASSUME NEW S \in SUBSET Nat, NEW T \in SUBSET S, S # {}, Min(S) \in T
  PROVE  Min(T) = Min(S)
<1>1. T \in SUBSET Nat /\ T # {}
  OBVIOUS
<1>2. Min(T) \in T /\ Min(S) \in S /\ (\A k \in S : Min(S) <= k) /\ (\A k \in T : Min(T) <= k)
  BY <1>1, MinOfNat
<1>3. Min(T) <= Min(S) /\ Min(S) <= Min(T) /\ Min(T) \in Nat /\ Min(S) \in Nat
  BY <1>1, <1>2
<1> QED BY <1>3

\* A payload that no rule asks for decides nothing.
LEMMA UnreadDecidesNothing ==
  ASSUME RelaysConstants, NEW items \in RuleLists \cup {<< >>}, NEW d, NEW p, NEW W,
         p.len <= MaxStored,
         ~NeedsFramePayload(items, View(d, p, {}), p.len, MaxStored)
  PROVE  Ruling(items, d, p, {}) = Ruling(items, d, p, W)
<1> DEFINE May == Candidates(items, View(d, p, {}), p.len)
           H(x) == Hits(items, View(d, p, x))
<1>1. \A k, x : matchANDExceptPayload(items[k], View(d, p, x))
                  = matchANDExceptPayload(items[k], View(d, p, {}))
  BY DEF matchANDExceptPayload, View
<1>2. May \in SUBSET Nat
  BY RuleListShape DEF Candidates, Live
<1>3. \A x : H(x) \in SUBSET May
  BY <1>1 DEF Hits, Candidates, matchAND
<1>4. May # {} => items[Min(May)].payload = Unset
  BY DEF NeedsFramePayload, Candidates
<1>5. CASE May = {}
  <2>1. H({}) = {} /\ H(W) = {}
    BY <1>3, <1>5
  <2> HIDE DEF H
  <2>2. Match(items, "websocket", View(d, p, {})) = NoHit
    BY <2>1, MatchIsFirstHit DEF H
  <2>3. Match(items, "websocket", View(d, p, W)) = NoHit
    BY <2>1, MatchIsFirstHit DEF H
  <2> QED BY <2>2, <2>3 DEF Ruling
<1>6. CASE May # {}
  <2>1. Min(May) \in May
    BY <1>2, <1>6, MinOfNat
  <2>2. \A x : Min(May) \in H(x)
    BY <1>1, <1>4, <1>6, <2>1 DEF Hits, Candidates, matchAND
  <2> HIDE DEF May, H
  <2>3. \A x : Min(H(x)) = Min(May) /\ H(x) # {}
    BY <1>2, <1>3, <1>6, <2>2, SameLeast
  <2>4. \A x : Match(items, "websocket", View(d, p, x)) = items[Min(May)].action
    BY <2>3, MatchIsFirstHit DEF H
  <2> QED BY <2>4 DEF Ruling
<1> QED BY <1>5, <1>6

\* A payload that is read is under the cap.
LEMMA ReadIsShort ==
  ASSUME RelaysConstants, NEW items \in RuleLists \cup {<< >>}, NEW in, NEW declared,
         NeedsFramePayload(items, in, declared, MaxStored)
  PROVE  declared <= MaxStored
<1> DEFINE May == Candidates(items, in, declared)
<1>1. May \in SUBSET Nat
  BY RuleListShape DEF Candidates, Live
<1>2. May # {} /\ items[Min(May)].payload # Unset
  BY DEF NeedsFramePayload, Candidates
<1>3. Min(May) \in May
  BY <1>1, <1>2, MinOfNat
<1> QED BY <1>2, <1>3 DEF Candidates

\* What pumpRules decides is what the whole frame would have decided.
LEMMA DecidesOnWhole ==
  ASSUME RelaysConstants, NEW items \in RuleLists \cup {<< >>}, NEW d, NEW p \in PumpRecord,
         p.len = 0 => p.words = {}, p.read = Asked(items, d, p)
  PROVE  Ruling(items, d, p, IF p.read THEN p.words ELSE {}) = Ruling(items, d, p, InView(p))
<1>1. CASE p.read
  <2>1. p.len <= MaxStored
    BY <1>1, ReadIsShort DEF Asked
  <2> QED BY <1>1, <2>1 DEF InView
<1>2. CASE ~p.read /\ ~(p.len <= MaxStored)
  BY <1>2 DEF InView
<1>3. CASE ~p.read /\ p.len <= MaxStored /\ p.len = 0
  BY <1>3 DEF InView
<1>4. CASE ~p.read /\ p.len <= MaxStored /\ p.len # 0
  <2>1. p.len > 0
    BY <1>4 DEF PumpRecord
  <2>2. ~Asked(items, d, p)
    BY <1>4
  <2>3. ~NeedsFramePayload(items, View(d, p, {}), p.len, MaxStored)
    BY <2>1, <2>2, Zenon DEF Asked
  <2> QED BY <1>4, <2>3, UnreadDecidesNothing DEF InView
<1> QED BY <1>1, <1>2, <1>3, <1>4 DEF PumpRecord

-----------------------------------------------------------------------------
(* The pumps.                                                              *)

LEMMA PumpMoves ==
  ASSUME RelaysInv, NEW d \in Directions, NEW p \in PumpRecord, PumpOK(d, p, ws.rules),
         ws' \in InspectionRecord, ws'.pump = [ws.pump EXCEPT ![d] = p], ws'.rules = ws.rules,
         RecordOK(ws'.frames, ws'.count, ws'.stored, ws'.truncated), udp' = udp
  PROVE  RelaysInv'
<1>1. ws.pump \in [Directions -> PumpRecord]
  BY DEF RelaysInv, InspectionInv, InspectionRecord
<1>2. \A e \in Directions : PumpOK(e, ws.pump[e], ws.rules)
  BY DEF RelaysInv, InspectionInv
<1>3. \A e \in Directions : ws'.pump[e] = IF e = d THEN p ELSE ws.pump[e]
  BY <1>1
<1>4. \A e \in Directions : PumpOK(e, ws'.pump[e], ws'.rules)
  BY <1>2, <1>3
<1>5. AssociationInv'
  BY DEF RelaysInv, AssociationInv
<1> QED BY <1>4, <1>5 DEF RelaysInv, InspectionInv, RelaysConstants

\* A step of one pump that changes nothing else.
LEMMA PumpOnly ==
  ASSUME RelaysInv, NEW d \in Directions, NEW p \in PumpRecord, PumpOK(d, p, ws.rules),
         Pump(d, p)
  PROVE  RelaysInv'
<1>1. ws \in InspectionRecord /\ RecordOK(ws.frames, ws.count, ws.stored, ws.truncated)
  BY DEF RelaysInv, InspectionInv
<1> DEFINE v == [ws EXCEPT !.pump = [ws.pump EXCEPT ![d] = p]]
<1>2. v \in InspectionRecord
  BY <1>1 DEF InspectionRecord
<1>3. /\ v.pump = [ws.pump EXCEPT ![d] = p] /\ v.rules = ws.rules /\ v.frames = ws.frames
      /\ v.count = ws.count /\ v.stored = ws.stored /\ v.truncated = ws.truncated
  BY <1>1 DEF InspectionRecord
<1>4. ws' = v /\ udp' = udp
  BY DEF Pump
<1> HIDE DEF v
<1> QED BY <1>1, <1>2, <1>3, <1>4, PumpMoves

LEMMA PumpType ==
  ASSUME RelaysInv, NEW d \in Directions
  PROVE  /\ P(d) \in PumpRecord /\ PumpOK(d, P(d), ws.rules) /\ ws.rules \in RuleLists \cup {<< >>}
         /\ RelaysConstants
BY DEF RelaysInv, InspectionInv, InspectionRecord, P

\* A pump between two frames, at stage s.
LEMMA IdleOK ==
  ASSUME NEW stage \in PumpStages \ {"match", "decide", "tee", "stamp", "capture"}, NEW n \in Nat,
         NEW d, NEW items
  PROVE  /\ [idlePump EXCEPT !.pc = stage, !.wire = n] \in PumpRecord
         /\ PumpOK(d, [idlePump EXCEPT !.pc = stage, !.wire = n], items)
         /\ [idlePump EXCEPT !.pc = stage] \in PumpRecord
         /\ PumpOK(d, [idlePump EXCEPT !.pc = stage], items)
BY DEF idlePump, PumpRecord, PumpOK, PumpStages, Opcodes, Rulings, PumpStages

LEMMA ReturnsKeeps ==
  ASSUME RelaysInv, NEW d \in Directions, Returns(d) PROVE RelaysInv'
<1>1. "done" \in PumpStages \ {"match", "decide", "tee", "stamp", "capture"}
  BY DEF PumpStages
<1> QED BY <1>1, IdleOK, PumpOnly DEF Returns

\* Only the stage changes, to one that claims nothing about the frame.
LEMMA StageOnly ==
  ASSUME RelaysInv, NEW d \in Directions,
         NEW stage \in PumpStages \ {"match", "decide", "tee", "stamp", "capture"}
  PROVE  /\ [P(d) EXCEPT !.pc = stage] \in PumpRecord
         /\ PumpOK(d, [P(d) EXCEPT !.pc = stage], ws.rules)
<1>1. P(d) \in PumpRecord /\ PumpOK(d, P(d), ws.rules)
  BY PumpType
<1> QED BY <1>1 DEF PumpRecord, PumpOK

LEMMA pumpKeeps ==
  ASSUME RelaysInv, NEW d \in Directions, pump(d) PROVE RelaysInv'
<1>1. "read" \in PumpStages \ {"match", "decide", "tee", "stamp", "capture"}
  BY DEF PumpStages
<1>2. CASE ws.error
  BY <1>2, ReturnsKeeps DEF pump
<1>3. CASE ~ws.error
  BY <1>1, <1>3, StageOnly, PumpOnly DEF pump
<1> QED BY <1>2, <1>3

LEMMA malformedKeeps ==
  ASSUME RelaysInv, NEW d \in Directions, malformed(d) PROVE RelaysInv'
<1>1. "fail" \in PumpStages \ {"match", "decide", "tee", "stamp", "capture"}
  BY DEF PumpStages
<1> QED BY <1>1, StageOnly, PumpOnly DEF malformed

LEMMA ReadHeaderKeeps ==
  ASSUME RelaysInv, NEW d \in Directions, NEW op \in Opcodes, NEW len \in Lengths,
         NEW words \in SUBSET Words, len = 0 => words = {}, ReadHeader(d, op, len, words)
  PROVE  RelaysInv'
<1> DEFINE stage == IF rulesPath THEN "match" ELSE "tee"
           p == [P(d) EXCEPT !.op = op, !.len = len, !.words = words,
                             !.wire = P(d).wire + 1, !.pc = stage]
<1>1. P(d) \in PumpRecord /\ len \in Nat
  BY PumpType DEF RelaysConstants
<1>2. stage \in PumpStages /\ P(d).wire + 1 \in Nat
  BY <1>1 DEF PumpStages, PumpRecord
<1>3. (stage = "match" /\ rulesPath) \/ (stage = "tee" /\ ~rulesPath)
  OBVIOUS
<1> HIDE DEF stage
<1>4. p \in PumpRecord
  BY <1>1, <1>2 DEF PumpRecord
<1>5. p.len = len /\ p.words = words /\ p.pc = stage
  BY <1>1 DEF PumpRecord
<1>6. Pump(d, p)
  BY DEF ReadHeader, stage
<1> HIDE DEF p
<1>7. PumpOK(d, p, ws.rules)
  BY <1>3, <1>5 DEF PumpOK, rulesPath
<1> QED BY <1>4, <1>6, <1>7, PumpOnly

LEMMA readPayloadKeeps ==
  ASSUME RelaysInv, NEW d \in Directions, readPayload(d) PROVE RelaysInv'
<1>1. CASE P(d).op = "close" /\ P(d).len = 1
  <2>1. "fail" \in PumpStages \ {"match", "decide", "tee", "stamp", "capture"}
    BY DEF PumpStages
  <2> QED BY <1>1, <2>1, StageOnly, PumpOnly DEF readPayload
<1>2. CASE ~(P(d).op = "close" /\ P(d).len = 1)
  <2> DEFINE reads == P(d).len > 0 /\ NeedsFramePayload(ws.rules, frame(d, {}), P(d).len, MaxStored)
             p == [P(d) EXCEPT !.read = reads, !.pc = "decide"]
  <2>1. reads = Asked(ws.rules, d, P(d)) /\ reads \in BOOLEAN
    BY DEF Asked, frame, View
  <2>2. Pump(d, p) \/ Returns(d)
    BY <1>2 DEF readPayload
  <2> HIDE DEF reads
  <2>3. P(d) \in PumpRecord /\ PumpOK(d, P(d), ws.rules) /\ P(d).pc = "match"
    BY PumpType DEF readPayload
  <2>4. p \in PumpRecord
    BY <2>1, <2>3 DEF PumpRecord, PumpStages
  <2>5. /\ p.read = reads /\ p.pc = "decide" /\ p.len = P(d).len /\ p.words = P(d).words
        /\ p.op = P(d).op
    BY <2>3 DEF PumpRecord
  <2> HIDE DEF p
  <2>6. Asked(ws.rules, d, p) = Asked(ws.rules, d, P(d))
    BY <2>5 DEF Asked, View
  <2>7. p.read = Asked(ws.rules, d, p)
    BY <2>1, <2>5, <2>6
  <2>8. HasEnabledWebSocket(ws.rules) /\ (p.len = 0 => p.words = {})
    BY <2>3, <2>5 DEF PumpOK
  <2>9. PumpOK(d, p, ws.rules)
    BY <2>5, <2>7, <2>8 DEF PumpOK
  <2> QED BY <2>2, <2>4, <2>9, PumpOnly, ReturnsKeeps
<1> QED BY <1>1, <1>2

LEMMA pumpRulesKeeps ==
  ASSUME RelaysInv, NEW d \in Directions, pumpRules(d) PROVE RelaysInv'
<1> DEFINE x == IF P(d).read THEN P(d).words ELSE {}
           r == Match(ws.rules, "websocket", frame(d, x))
           p == [P(d) EXCEPT !.pc = "tee", !.rule = r]
<1>1. /\ P(d) \in PumpRecord /\ PumpOK(d, P(d), ws.rules) /\ ws.rules \in RuleLists \cup {<< >>}
      /\ RelaysConstants
  BY PumpType
<1>2. P(d).pc = "decide" /\ Pump(d, p)
  BY DEF pumpRules
<1>3. r = Ruling(ws.rules, d, P(d), x)
  BY DEF Ruling, frame, View
<1>4. r \in Rulings
  BY <1>1, RulingIsKnown
<1>5. (P(d).len = 0 => P(d).words = {}) /\ P(d).read = Asked(ws.rules, d, P(d))
  BY <1>1, <1>2 DEF PumpOK
<1>6. r = Ruling(ws.rules, d, P(d), InView(P(d)))
  BY <1>1, <1>3, <1>5, DecidesOnWhole
<1> HIDE DEF r
<1>7. p \in PumpRecord
  BY <1>1, <1>4 DEF PumpRecord, PumpStages
<1>8. /\ p.rule = r /\ p.pc = "tee" /\ p.len = P(d).len /\ p.words = P(d).words
      /\ p.op = P(d).op
  BY <1>1 DEF PumpRecord
<1> HIDE DEF p
<1>9. InView(p) = InView(P(d))
  BY <1>8 DEF InView
<1>10. Ruling(ws.rules, d, p, InView(p)) = Ruling(ws.rules, d, P(d), InView(P(d)))
  BY <1>8, <1>9 DEF Ruling, View
<1>11. PumpOK(d, p, ws.rules)
  BY <1>5, <1>6, <1>8, <1>10 DEF PumpOK
<1> QED BY <1>2, <1>7, <1>11, PumpOnly

\* Another stage of a frame that has its ruling.
LEMMA RulingStays ==
  ASSUME RelaysInv, NEW d \in Directions, P(d).pc \in {"tee", "stamp"},
         NEW stage \in {"stamp", "capture"}, NEW n \in Nat
  PROVE  /\ [P(d) EXCEPT !.kept = n, !.pc = stage] \in PumpRecord
         /\ PumpOK(d, [P(d) EXCEPT !.kept = n, !.pc = stage], ws.rules)
         /\ [P(d) EXCEPT !.pc = stage] \in PumpRecord
         /\ PumpOK(d, [P(d) EXCEPT !.pc = stage], ws.rules)
<1> DEFINE p == [P(d) EXCEPT !.kept = n, !.pc = stage]
           q == [P(d) EXCEPT !.pc = stage]
<1>1. P(d) \in PumpRecord /\ PumpOK(d, P(d), ws.rules)
  BY PumpType
<1>2. p \in PumpRecord /\ q \in PumpRecord
  BY <1>1 DEF PumpRecord, PumpStages
<1>3. /\ p.pc = stage /\ p.len = P(d).len /\ p.words = P(d).words /\ p.op = P(d).op
      /\ p.rule = P(d).rule
      /\ q.pc = stage /\ q.len = P(d).len /\ q.words = P(d).words /\ q.op = P(d).op
      /\ q.rule = P(d).rule
  BY <1>1 DEF PumpRecord
<1> HIDE DEF p, q
<1>4. InView(p) = InView(P(d)) /\ InView(q) = InView(P(d))
  BY <1>3 DEF InView
<1>5. /\ Ruling(ws.rules, d, p, InView(p)) = Ruling(ws.rules, d, P(d), InView(P(d)))
      /\ Ruling(ws.rules, d, q, InView(q)) = Ruling(ws.rules, d, P(d), InView(P(d)))
  BY <1>3, <1>4 DEF Ruling, View
<1>6. PumpOK(d, p, ws.rules) /\ PumpOK(d, q, ws.rules)
  BY <1>1, <1>3, <1>5 DEF PumpOK
<1> QED BY <1>2, <1>6 DEF p, q

LEMMA storeRemainType ==
  ASSUME RelaysInv PROVE storeRemain \in Nat
<1>1. ws \in InspectionRecord /\ RelaysConstants
  BY DEF RelaysInv, InspectionInv
<1> QED BY <1>1 DEF RelaysConstants, storeRemain, InspectionRecord

LEMMA teeKeeps ==
  ASSUME RelaysInv, NEW d \in Directions, tee(d) PROVE RelaysInv'
<1> DEFINE n == IF P(d).read THEN P(d).len ELSE min(P(d).len, storeRemain)
           stage == afterCopy(P(d).rule)
<1>1. P(d).len \in Nat
  BY PumpType DEF PumpRecord
<1>2. n \in Nat
  BY <1>1, storeRemainType DEF min
<1>3. stage \in {"stamp", "capture"}
  BY DEF afterCopy
<1>4. P(d).pc = "tee" /\ (Pump(d, [P(d) EXCEPT !.kept = n, !.pc = stage]) \/ Returns(d))
  BY DEF tee
<1> HIDE DEF n, stage
<1> QED BY <1>2, <1>3, <1>4, RulingStays, PumpOnly, ReturnsKeeps

LEMMA stampRuleKeeps ==
  ASSUME RelaysInv, NEW d \in Directions, stampRule(d) PROVE RelaysInv'
<1> DEFINE p == [P(d) EXCEPT !.pc = "capture"]
           c == IF P(d).rule = "block" THEN "completed" ELSE ws.state
<1>1. ws \in InspectionRecord /\ RecordOK(ws.frames, ws.count, ws.stored, ws.truncated)
  BY DEF RelaysInv, InspectionInv
<1>2. p \in PumpRecord /\ PumpOK(d, p, ws.rules)
  BY RulingStays DEF stampRule
<1>3. ws' = [ws EXCEPT !.pump = [ws.pump EXCEPT ![d] = p], !.state = c] /\ udp' = udp
  BY <1>1 DEF stampRule, P, InspectionRecord
<1>4. c \in {"completed", "error"}
  BY <1>1 DEF InspectionRecord
<1> HIDE DEF p, c
<1>5. ws' \in InspectionRecord
  BY <1>1, <1>2, <1>3, <1>4 DEF InspectionRecord
<1>6. /\ ws'.pump = [ws.pump EXCEPT ![d] = p] /\ ws'.rules = ws.rules /\ ws'.frames = ws.frames
      /\ ws'.count = ws.count /\ ws'.stored = ws.stored /\ ws'.truncated = ws.truncated
  BY <1>1, <1>3 DEF InspectionRecord
<1> QED BY <1>1, <1>2, <1>3, <1>5, <1>6, PumpMoves

LEMMA protocolErrorKeeps ==
  ASSUME RelaysInv, NEW d \in Directions, protocolError(d) PROVE RelaysInv'
<1> DEFINE p == [P(d) EXCEPT !.pc = "closeBoth"]
<1>1. ws \in InspectionRecord /\ RecordOK(ws.frames, ws.count, ws.stored, ws.truncated)
  BY DEF RelaysInv, InspectionInv
<1>2. p \in PumpRecord /\ PumpOK(d, p, ws.rules)
  BY StageOnly DEF PumpStages
<1>3. /\ ws' = [ws EXCEPT !.error = TRUE, !.state = "error", !.pump = [ws.pump EXCEPT ![d] = p]]
      /\ udp' = udp
  BY <1>1 DEF protocolError, P, InspectionRecord
<1> HIDE DEF p
<1>4. ws' \in InspectionRecord
  BY <1>1, <1>2, <1>3 DEF InspectionRecord
<1>5. /\ ws'.pump = [ws.pump EXCEPT ![d] = p] /\ ws'.rules = ws.rules /\ ws'.frames = ws.frames
      /\ ws'.count = ws.count /\ ws'.stored = ws.stored /\ ws'.truncated = ws.truncated
  BY <1>1, <1>3 DEF InspectionRecord
<1> QED BY <1>1, <1>2, <1>3, <1>4, <1>5, PumpMoves

LEMMA closeBothKeeps ==
  ASSUME RelaysInv, NEW d \in Directions, closeBoth(d) PROVE RelaysInv'
<1> DEFINE p == [idlePump EXCEPT !.pc = "done"]
<1>1. ws \in InspectionRecord /\ RecordOK(ws.frames, ws.count, ws.stored, ws.truncated)
  BY DEF RelaysInv, InspectionInv
<1>2. p \in PumpRecord /\ PumpOK(d, p, ws.rules)
  BY IdleOK DEF PumpStages
<1>3. ws' = [ws EXCEPT !.open = FALSE, !.pump = [ws.pump EXCEPT ![d] = p]] /\ udp' = udp
  BY <1>1 DEF closeBoth, InspectionRecord
<1> HIDE DEF p
<1>4. ws' \in InspectionRecord
  BY <1>1, <1>2, <1>3 DEF InspectionRecord
<1>5. /\ ws'.pump = [ws.pump EXCEPT ![d] = p] /\ ws'.rules = ws.rules /\ ws'.frames = ws.frames
      /\ ws'.count = ws.count /\ ws'.stored = ws.stored /\ ws'.truncated = ws.truncated
  BY <1>1, <1>3 DEF InspectionRecord
<1> QED BY <1>1, <1>2, <1>3, <1>4, <1>5, PumpMoves

\* One more stored frame adds its size.
LEMMA OneMoreFrame ==
  ASSUME NEW frames \in Seq(FrameRecord), NEW f \in FrameRecord
  PROVE  /\ SumSizes(Append(frames, f)) = SumSizes(frames) + f.size
         /\ SumSizes(frames) \in Nat
         /\ Len(Append(frames, f)) = Len(frames) + 1
         /\ \A k \in DOMAIN Append(frames, f) :
              \/ k \in DOMAIN frames /\ Append(frames, f)[k] = frames[k]
              \/ Append(frames, f)[k] = f
<1> DEFINE n == Len(frames)
           after == Append(frames, f)
           S == DOMAIN frames
           T == DOMAIN after
           g == RelaySizes(after)
<1>1. /\ n \in Nat /\ S = 1 .. n /\ T = 1 .. n + 1
      /\ \A k \in S : after[k] = frames[k] /\ frames[k] \in FrameRecord
      /\ after[n + 1] = f
      /\ Len(after) = n + 1
  OBVIOUS
<1> HIDE DEF after, n
<1>2. T = S \cup {n + 1} /\ n + 1 \notin S /\ IsFiniteSet(S)
  <2>1. IsFiniteSet(1 .. n)
    BY <1>1, FS_Interval
  <2>2. 1 .. n + 1 = (1 .. n) \cup {n + 1} /\ n + 1 \notin 1 .. n
    BY <1>1
  <2> QED BY <1>1, <2>1, <2>2
<1> HIDE DEF S, T
<1>3. \A k \in S : RelaySizes(frames)[k] = frames[k].size /\ frames[k].size \in Nat
  BY <1>1 DEF RelaySizes, FrameRecord, S
<1>4. \A k \in T : g[k] = after[k].size
  BY DEF RelaySizes, T
<1>5. (\A k \in S : g[k] = RelaySizes(frames)[k]) /\ g[n + 1] = f.size /\ f.size \in Nat
  BY <1>1, <1>2, <1>3, <1>4 DEF FrameRecord
<1> HIDE DEF g
<1>6. \A k \in S : g[k] \in Nat
  BY <1>3, <1>5
<1>7. /\ SumFunctionOnSet(g, S \cup {n + 1}) = SumFunctionOnSet(g, S) + g[n + 1]
  BY <1>2, <1>5, <1>6, SumProps
<1>8. SumFunctionOnSet(RelaySizes(frames), S) \in Nat
  BY <1>2, <1>3, SumProps
<1>9. SumFunctionOnSet(g, S) = SumFunctionOnSet(RelaySizes(frames), S)
  BY <1>2, <1>3, <1>5, SumProps
<1>10. SumSizes(after) = SumSizes(frames) + f.size
  BY <1>2, <1>5, <1>7, <1>9 DEF SumSizes, S, T, g
<1>11. \A k \in T : (k \in S /\ after[k] = frames[k]) \/ after[k] = f
  BY <1>1, <1>2
<1> QED BY <1>1, <1>8, <1>10, <1>11 DEF SumSizes, S, T, after, n

\* What appendCapturedFrame makes of the record keeps it exact.
LEMMA AppendKeepsRecord ==
  ASSUME RelaysInv, NEW kept \in Nat, NEW declared \in Nat
  PROVE  LET v == appendCapturedFrame(kept, declared)
         IN  /\ v \in InspectionRecord /\ v.pump = ws.pump /\ v.rules = ws.rules
             /\ RecordOK(v.frames, v.count, v.stored, v.truncated)
<1> DEFINE remain == MaxStored - ws.stored
           size == min(kept, remain)
           cut == declared > size
           f == [size |-> size, whole |-> ~cut]
<1>1. ws \in InspectionRecord /\ RecordOK(ws.frames, ws.count, ws.stored, ws.truncated)
  BY DEF RelaysInv, InspectionInv
<1>2. /\ ws.stored \in Nat /\ ws.count \in Nat /\ ws.frames \in Seq(FrameRecord)
      /\ ws.truncated \in BOOLEAN /\ MaxStored \in Nat /\ WSMaxFrames \in Nat
      /\ ws.stored <= MaxStored /\ Len(ws.frames) <= WSMaxFrames
  BY <1>1 DEF RelaysInv, RelaysConstants, InspectionRecord, RecordOK
<1>3. remain \in Nat /\ size \in Nat /\ ws.stored + size \in Nat /\ ws.stored + size <= MaxStored
  BY <1>2 DEF min
<1> DEFINE n == ws.count + 1
           m == ws.stored + size
<1>4. n \in Nat /\ m \in Nat
  BY <1>2, <1>3
<1>5. CASE ws.stop \/ Len(ws.frames) >= WSMaxFrames \/ remain = 0
  <2> DEFINE v == [ws EXCEPT !.count = n, !.truncated = TRUE, !.stop = TRUE]
  <2>1. appendCapturedFrame(kept, declared) = v
    BY <1>5 DEF appendCapturedFrame
  <2> HIDE DEF n
  <2>2. v \in InspectionRecord
    BY <1>1, <1>4 DEF InspectionRecord
  <2>3. /\ v.pump = ws.pump /\ v.rules = ws.rules /\ v.frames = ws.frames
        /\ v.stored = ws.stored /\ v.truncated = TRUE
    BY <1>1 DEF InspectionRecord
  <2> HIDE DEF v
  <2>4. RecordOK(v.frames, v.count, v.stored, v.truncated)
    BY <1>1, <2>3 DEF RecordOK
  <2> QED BY <2>1, <2>2, <2>3, <2>4
<1>6. CASE ~(ws.stop \/ Len(ws.frames) >= WSMaxFrames \/ remain = 0)
  <2> DEFINE t == ws.truncated \/ cut
             v == [ws EXCEPT !.count = n, !.stored = m,
                     !.truncated = t, !.stop = cut, !.frames = Append(ws.frames, f)]
  <2>1. appendCapturedFrame(kept, declared) = v
    BY <1>6 DEF appendCapturedFrame
  <2>2. f \in FrameRecord /\ f.size = size /\ f.whole = ~cut /\ cut \in BOOLEAN
    BY <1>3 DEF FrameRecord
  <2>3. Len(ws.frames) + 1 <= WSMaxFrames /\ Len(ws.frames) \in Nat
    BY <1>2, <1>6, LenProperties
  <2> HIDE DEF f, size, cut, n, m
  <2>4. Append(ws.frames, f) \in Seq(FrameRecord) /\ t \in BOOLEAN
    BY <1>2, <2>2
  <2>5. v \in InspectionRecord
    <3> HIDE DEF t
    <3> QED BY <1>1, <1>4, <2>2, <2>4 DEF InspectionRecord
  <2>6. /\ v.pump = ws.pump /\ v.rules = ws.rules /\ v.frames = Append(ws.frames, f)
        /\ v.stored = ws.stored + size /\ v.truncated = t /\ v.count = ws.count + 1
    BY <1>1 DEF InspectionRecord, n, m
  <2> HIDE DEF v
  <2>7. v.stored = SumSizes(v.frames) /\ Len(v.frames) = Len(ws.frames) + 1
    BY <1>1, <1>2, <2>2, <2>6, OneMoreFrame DEF RecordOK
  <2>8. ASSUME ~t PROVE Len(v.frames) = v.count /\ \A k \in DOMAIN v.frames : v.frames[k].whole
    <3>1. ~ws.truncated /\ f.whole
      BY <2>2, <2>8
    <3>2. Len(ws.frames) = ws.count /\ \A k \in DOMAIN ws.frames : ws.frames[k].whole
      BY <1>1, <3>1 DEF RecordOK
    <3>3. \A k \in DOMAIN v.frames :
            (k \in DOMAIN ws.frames /\ v.frames[k] = ws.frames[k]) \/ v.frames[k] = f
      BY <1>2, <2>2, <2>6, OneMoreFrame
    <3> QED BY <2>6, <2>7, <3>1, <3>2, <3>3
  <2>9. RecordOK(v.frames, v.count, v.stored, v.truncated)
    BY <1>3, <2>3, <2>6, <2>7, <2>8 DEF RecordOK
  <2> QED BY <2>1, <2>5, <2>6, <2>9
<1> QED BY <1>5, <1>6

LEMMA captureFrameKeeps ==
  ASSUME RelaysInv, NEW d \in Directions, captureFrame(d) PROVE RelaysInv'
<1> DEFINE short == ~rulesPath /\ P(d).op = "close" /\ P(d).len = 1
           pc == CASE short -> "fail"
                   [] P(d).rule = "block" -> "closeBoth"
                   [] P(d).rule = "drop" -> "top"
                   [] P(d).op = "close" -> "end"
                   [] OTHER -> "top"
           p == [idlePump EXCEPT !.pc = pc, !.wire = P(d).wire]
           v == IF short THEN ws ELSE appendCapturedFrame(P(d).kept, P(d).len)
<1>1. P(d) \in PumpRecord /\ P(d).kept \in Nat /\ P(d).len \in Nat /\ P(d).wire \in Nat
  BY PumpType DEF PumpRecord
<1>2. pc \in {"fail", "closeBoth", "top", "end"}
  OBVIOUS
<1>3. ws' = [v EXCEPT !.pump[d] = p] /\ udp' = udp
  BY DEF captureFrame
<1>4. ws \in InspectionRecord /\ RecordOK(ws.frames, ws.count, ws.stored, ws.truncated)
  BY DEF RelaysInv, InspectionInv
<1> HIDE DEF pc
<1>5. p \in PumpRecord /\ PumpOK(d, p, ws.rules)
  BY <1>1, <1>2, IdleOK DEF PumpStages
<1> HIDE DEF p, short
<1>6. /\ v \in InspectionRecord /\ v.pump = ws.pump /\ v.rules = ws.rules
      /\ RecordOK(v.frames, v.count, v.stored, v.truncated)
  BY <1>1, <1>4, AppendKeepsRecord
<1> HIDE DEF v
<1>7. ws' = [v EXCEPT !.pump = [ws.pump EXCEPT ![d] = p]]
  BY <1>3, <1>6 DEF InspectionRecord
<1>8. ws' \in InspectionRecord
  BY <1>5, <1>6, <1>7, <1>4 DEF InspectionRecord
<1>9. /\ ws'.pump = [ws.pump EXCEPT ![d] = p] /\ ws'.rules = ws.rules /\ ws'.frames = v.frames
      /\ ws'.count = v.count /\ ws'.stored = v.stored /\ ws'.truncated = v.truncated
  BY <1>6, <1>7 DEF InspectionRecord
<1> QED BY <1>3, <1>5, <1>6, <1>8, <1>9, PumpMoves

LEMMA inspectUpgradeKeeps ==
  ASSUME RelaysInv, inspectUpgrade PROVE RelaysInv'
<1>1. ws \in InspectionRecord /\ ws' = [ws EXCEPT !.flow = "recorded", !.open = FALSE] /\ udp' = udp
  BY DEF RelaysInv, InspectionInv, inspectUpgrade
<1>2. ws' \in InspectionRecord
  BY <1>1 DEF InspectionRecord
<1>3. /\ ws'.pump = ws.pump /\ ws'.rules = ws.rules /\ ws'.frames = ws.frames
      /\ ws'.count = ws.count /\ ws'.stored = ws.stored /\ ws'.truncated = ws.truncated
  BY <1>1 DEF InspectionRecord
<1>4. InspectionInv'
  BY <1>2, <1>3 DEF RelaysInv, InspectionInv
<1>5. AssociationInv'
  BY <1>1 DEF RelaysInv, AssociationInv
<1> QED BY <1>4, <1>5 DEF RelaysInv, RelaysConstants

LEMMA InspectKeeps ==
  ASSUME RelaysInv, NEW d \in Directions, Inspect(d) \/ Peer(d) PROVE RelaysInv'
<1>1. CASE readClosed(d) \/ readEnds(d) \/ closeForwarded(d)
  BY <1>1, ReturnsKeeps DEF readClosed, readEnds, closeForwarded
<1>2. CASE Inspect(d)
  BY <1>1, <1>2, pumpKeeps, readPayloadKeeps, pumpRulesKeeps, teeKeeps, stampRuleKeeps,
     captureFrameKeeps, protocolErrorKeeps, closeBothKeeps DEF Inspect
<1>3. CASE Peer(d)
  BY <1>1, <1>3, malformedKeeps, ReadHeaderKeeps DEF Peer
<1> QED BY <1>2, <1>3

-----------------------------------------------------------------------------
(* The association.                                                        *)

\* What a destination may be: refused, or an address the policy allows.
Destination(a, targets, v4) == a = Denied \/ Allowed(a, targets, v4)

LEMMA ConstantsApart ==
  ASSUME RelaysInv
  PROVE  /\ NoOne # Denied /\ Literal \notin Names
         /\ \A a \in RelayAddresses : a # NoOne /\ a # Denied
BY DEF RelaysInv, RelaysConstants, Literal

LEMMA LookupShape ==
  ASSUME NEW looked \in Lookups
  PROVE  DOMAIN looked \subseteq Nat /\ \A k \in DOMAIN looked : looked[k] \in RelayAddresses
BY DEF Lookups, SeqOf

\* The pin of a name is allowed: one denied address refuses the whole answer.
LEMMA pickedIsAllowed ==
  ASSUME NEW n, NEW looked \in Lookups
  PROVE  Destination(pickUDPIP(resolvedAndGuarded(udp.targets, n, looked)), udp.targets, udp.v4)
<1> DEFINE all == resolvedAndGuarded(udp.targets, n, looked)
           fit == {k \in DOMAIN all : all[k].v4 = udp.v4}
<1>1. all = << >> \/ (all = looked /\ \A k \in DOMAIN looked : ~denyIP(udp.targets, looked[k]))
  BY DEF resolvedAndGuarded
<1> HIDE DEF all
<1>2. ASSUME fit = {} PROVE Destination(pickUDPIP(all), udp.targets, udp.v4)
  <2>1. pickUDPIP(all) = Denied
    BY <1>2 DEF pickUDPIP
  <2> QED BY <2>1 DEF Destination
<1>3. ASSUME fit # {} PROVE Destination(pickUDPIP(all), udp.targets, udp.v4)
  <2>1. all = looked /\ \A k \in DOMAIN looked : ~denyIP(udp.targets, looked[k])
    BY <1>1, <1>3
  <2>2. fit \in SUBSET Nat
    BY <2>1, LookupShape
  <2>3. Min(fit) \in fit
    BY <1>3, <2>2, MinOfNat
  <2>4. Allowed(all[Min(fit)], udp.targets, udp.v4)
    BY <2>1, <2>3, LookupShape DEF Allowed
  <2>5. pickUDPIP(all) = all[Min(fit)]
    BY <1>3 DEF pickUDPIP
  <2> QED BY <2>4, <2>5 DEF Destination
<1>4. Destination(pickUDPIP(all), udp.targets, udp.v4)
  BY <1>2, <1>3
<1> QED BY <1>4 DEF all

\* A pin that is set is never replaced, and what is pinned may be sent to.
LEMMA selectedIsAllowed ==
  ASSUME RelaysInv, NEW n \in Names, NEW looked \in Lookups
  PROVE  /\ Destination(selectUDPDest(n, looked), udp.targets, udp.v4)
         /\ udp.pins[n] # NoOne => selectUDPDest(n, looked) = udp.pins[n]
<1>1. CASE udp.pins[n] = NoOne
  BY <1>1, pickedIsAllowed DEF selectUDPDest
<1>2. CASE udp.pins[n] # NoOne
  BY <1>2 DEF selectUDPDest, Destination, RelaysInv, AssociationInv
<1> QED BY <1>1, <1>2

LEMMA literalIsAllowed ==
  ASSUME NEW a \in RelayAddresses
  PROVE  Destination(selectUDPLiteral(a), udp.targets, udp.v4)
BY DEF selectUDPLiteral, Destination, Allowed, udpFamilyMismatch

\* Only the association changes.
LEMMA AssociationMoves ==
  ASSUME RelaysInv, UNCHANGED ws, AssociationInv' PROVE RelaysInv'
BY DEF RelaysInv, RelaysConstants, InspectionInv

\* A datagram from the client: v is the association with the pin it leaves, key
\* the name or Literal, dest its destination.
LEMMA OutgoingKeeps ==
  ASSUME RelaysInv, NEW key \in Names \cup {Literal}, NEW dest, NEW goes \in BOOLEAN,
         NEW v \in AssociationRecord,
         Destination(dest, udp.targets, udp.v4),
         v.origins = udp.origins, v.back = udp.back, v.sent = udp.sent, v.targets = udp.targets,
         v.v4 = udp.v4, \A n \in Names : n # key => v.pins[n] = udp.pins[n],
         key \in Names => v.pins[key] = dest /\ (udp.pins[key] # NoOne => dest = udp.pins[key]),
         Udp(Outgoing(v, key, dest, goes))
  PROVE  RelaysInv'
<1>1. /\ udp \in AssociationRecord
      /\ \A n \in Names : udp.pins[n] \notin {NoOne, Denied} => Allowed(udp.pins[n], udp.targets, udp.v4)
      /\ \A n \in Names : udp.sent[n] \subseteq {udp.pins[n]} \ {NoOne, Denied}
      /\ \A a \in udp.origins : Allowed(a, udp.targets, udp.v4) /\ ~isHairpin(udp.targets.listeners, a)
      /\ udp.back \subseteq udp.origins
  BY DEF RelaysInv, AssociationInv
<1>2. \A n \in Names : v.pins[n] \notin {NoOne, Denied} => Allowed(v.pins[n], v.targets, v.v4)
  BY <1>1 DEF Destination
<1>3. \A n \in Names : v.sent[n] \subseteq {v.pins[n]} \ {NoOne, Denied}
  <2> SUFFICES ASSUME NEW n \in Names PROVE v.sent[n] \subseteq {v.pins[n]} \ {NoOne, Denied}
    OBVIOUS
  <2>1. CASE n # key
    BY <1>1, <2>1
  <2>2. CASE n = key /\ udp.pins[n] # NoOne
    BY <1>1, <2>2
  <2>3. CASE n = key /\ udp.pins[n] = NoOne
    BY <1>1, <2>3
  <2> QED BY <2>1, <2>2, <2>3
<1>4. udp' = Outgoing(v, key, dest, goes) /\ UNCHANGED ws
  BY DEF Udp
<1>5. CASE ~goes \/ dest = Denied \/ isHairpin(udp.targets.listeners, dest)
  <2>1. udp' = v
    BY <1>4, <1>5 DEF Outgoing
  <2>2. AssociationInv'
    BY <1>1, <1>2, <1>3, <2>1 DEF AssociationInv
  <2> QED BY <1>4, <2>2, AssociationMoves
<1>6. CASE ~(~goes \/ dest = Denied \/ isHairpin(udp.targets.listeners, dest))
  <2> DEFINE o == v.origins \cup {dest}
             t == [v.sent EXCEPT ![key] = v.sent[key] \cup {dest}]
             x == [v EXCEPT !.origins = o, !.sent = t]
  <2>1. udp' = x
    BY <1>4, <1>6 DEF Outgoing
  <2>2. dest \in RelayAddresses /\ Allowed(dest, udp.targets, udp.v4) /\ dest # NoOne /\ dest # Denied
    BY <1>6, ConstantsApart DEF Destination, Allowed
  <2>3. o \in SUBSET RelayAddresses /\ udp.back \subseteq o
    BY <1>1, <2>2 DEF AssociationRecord
  <2>4. v.sent \in [Names \cup {Literal} -> SUBSET RelayAddresses]
    BY DEF AssociationRecord
  <2>5. t \in [Names \cup {Literal} -> SUBSET RelayAddresses]
    BY <2>2, <2>4
  <2>6. \A n \in Names : t[n] \subseteq {v.pins[n]} \ {NoOne, Denied}
    <3> SUFFICES ASSUME NEW n \in Names PROVE t[n] \subseteq {v.pins[n]} \ {NoOne, Denied}
      OBVIOUS
    <3>1. CASE n # key
      BY <1>3, <2>4, <3>1
    <3>2. CASE n = key
      <4>1. t[n] = v.sent[n] \cup {dest} /\ v.pins[n] = dest
        BY <2>4, <3>2
      <4> QED BY <1>3, <2>2, <4>1
    <3> QED BY <3>1, <3>2
  <2>7. \A a \in o : Allowed(a, udp.targets, udp.v4) /\ ~isHairpin(udp.targets.listeners, a)
    BY <1>1, <1>6, <2>2
  <2> HIDE DEF o, t
  <2>8. x \in AssociationRecord
    BY <2>3, <2>5 DEF AssociationRecord
  <2>9. /\ x.origins = o /\ x.sent = t /\ x.pins = v.pins /\ x.targets = udp.targets
        /\ x.v4 = udp.v4 /\ x.back = udp.back
    BY DEF AssociationRecord
  <2> HIDE DEF x
  <2>10. AssociationInv'
    BY <1>2, <2>1, <2>3, <2>6, <2>7, <2>8, <2>9 DEF AssociationInv
  <2> QED BY <1>4, <2>10, AssociationMoves
<1> QED BY <1>5, <1>6

LEMMA forwardKeeps ==
  ASSUME RelaysInv, NEW from \in Strangers, forwardSOCKSUDPClient(from)
  PROVE  RelaysInv'
<1> DEFINE v == [udp EXCEPT !.client = from, !.out = udp.out + 1]
<1>1. udp \in AssociationRecord
  BY DEF RelaysInv, AssociationInv
<1>2. udp.out + 1 \in Nat
  BY <1>1 DEF AssociationRecord
<1>3. v \in AssociationRecord
  BY <1>1, <1>2 DEF AssociationRecord
<1>4. /\ v.origins = udp.origins /\ v.back = udp.back /\ v.sent = udp.sent
      /\ v.targets = udp.targets /\ v.v4 = udp.v4 /\ v.pins = udp.pins
  BY <1>1 DEF AssociationRecord
<1>5. PICK goes \in BOOLEAN :
        \/ \E n \in Names, looked \in Lookups :
             Udp(Outgoing([v EXCEPT !.pins = [udp.pins EXCEPT ![n] = selectUDPDest(n, looked)]],
                          n, selectUDPDest(n, looked), goes))
        \/ \E a \in RelayAddresses : Udp(Outgoing(v, Literal, selectUDPLiteral(a), goes))
        \/ Udp(v)
  BY DEF forwardSOCKSUDPClient
<1> HIDE DEF v
<1>6. ASSUME NEW n \in Names, NEW looked \in Lookups,
             Udp(Outgoing([v EXCEPT !.pins = [udp.pins EXCEPT ![n] = selectUDPDest(n, looked)]],
                          n, selectUDPDest(n, looked), goes))
      PROVE  RelaysInv'
  <2> DEFINE dest == selectUDPDest(n, looked)
             pins == [udp.pins EXCEPT ![n] = dest]
             x == [v EXCEPT !.pins = pins]
  <2>1. Destination(dest, udp.targets, udp.v4) /\ (udp.pins[n] # NoOne => dest = udp.pins[n])
    BY selectedIsAllowed
  <2>2. Udp(Outgoing(x, n, dest, goes))
    BY <1>6
  <2> HIDE DEF dest
  <2>3. udp.pins \in [Names -> RelayAddresses \cup {NoOne, Denied}]
    BY <1>1 DEF AssociationRecord
  <2>4. /\ pins \in [Names -> RelayAddresses \cup {NoOne, Denied}]
        /\ pins[n] = dest /\ \A k \in Names : k # n => pins[k] = udp.pins[k]
    BY <2>1, <2>3 DEF Destination, Allowed
  <2> HIDE DEF pins
  <2>5. x \in AssociationRecord
    BY <1>3, <2>4 DEF AssociationRecord
  <2>6. /\ x.origins = v.origins /\ x.back = v.back /\ x.sent = v.sent
        /\ x.targets = v.targets /\ x.v4 = v.v4 /\ x.pins = pins
    BY <1>3 DEF AssociationRecord
  <2> HIDE DEF x
  <2> QED BY <1>4, <2>1, <2>2, <2>4, <2>5, <2>6, OutgoingKeeps
<1>7. ASSUME NEW a \in RelayAddresses, Udp(Outgoing(v, Literal, selectUDPLiteral(a), goes))
      PROVE  RelaysInv'
  BY <1>3, <1>4, <1>7, literalIsAllowed, ConstantsApart, OutgoingKeeps
<1>8. CASE Udp(v)
  <2>1. AssociationInv'
    BY <1>3, <1>4, <1>8 DEF Udp, RelaysInv, AssociationInv
  <2> QED BY <1>8, <2>1, AssociationMoves DEF Udp
<1> QED BY <1>5, <1>6, <1>7, <1>8

LEMMA relayKeeps ==
  ASSUME RelaysInv, NEW from, relaySOCKSUDP(from)
  PROVE  RelaysInv'
<1>1. udp \in AssociationRecord /\ from \in udp.origins /\ udp.back \subseteq udp.origins
  BY DEF RelaysInv, AssociationInv, relaySOCKSUDP, relayFrom
<1> DEFINE n == udp.in + 1
           b == udp.back \cup {from}
           x == [udp EXCEPT !.in = n, !.back = b]
           y == [udp EXCEPT !.truncated = TRUE]
<1>2. n \in Nat /\ b \in SUBSET RelayAddresses /\ b \subseteq udp.origins
  BY <1>1 DEF AssociationRecord
<1>3. Udp(y) \/ Udp(x)
  BY DEF relaySOCKSUDP
<1> HIDE DEF n, b
<1>4. x \in AssociationRecord /\ y \in AssociationRecord
  BY <1>1, <1>2 DEF AssociationRecord
<1>5. /\ x.origins = udp.origins /\ x.back = b /\ x.sent = udp.sent /\ x.pins = udp.pins
      /\ x.targets = udp.targets /\ x.v4 = udp.v4
      /\ y.origins = udp.origins /\ y.back = udp.back /\ y.sent = udp.sent /\ y.pins = udp.pins
      /\ y.targets = udp.targets /\ y.v4 = udp.v4
  BY <1>1 DEF AssociationRecord
<1> HIDE DEF x, y
<1>6. ASSUME Udp(x) PROVE AssociationInv'
  BY <1>2, <1>4, <1>5, <1>6 DEF Udp, RelaysInv, AssociationInv
<1>7. ASSUME Udp(y) PROVE AssociationInv'
  BY <1>1, <1>4, <1>5, <1>7 DEF Udp, RelaysInv, AssociationInv
<1> QED BY <1>3, <1>6, <1>7, AssociationMoves DEF Udp

LEMMA UDPEndsKeeps ==
  ASSUME RelaysInv, UDPEnds PROVE RelaysInv'
<1> DEFINE x == [udp EXCEPT !.open = FALSE]
<1>1. udp \in AssociationRecord /\ Udp(x)
  BY DEF RelaysInv, AssociationInv, UDPEnds
<1>2. x \in AssociationRecord
  BY <1>1 DEF AssociationRecord
<1>3. /\ x.origins = udp.origins /\ x.back = udp.back /\ x.sent = udp.sent /\ x.pins = udp.pins
      /\ x.targets = udp.targets /\ x.v4 = udp.v4
  BY <1>1 DEF AssociationRecord
<1> HIDE DEF x
<1>4. AssociationInv'
  BY <1>1, <1>2, <1>3 DEF Udp, RelaysInv, AssociationInv
<1> QED BY <1>1, <1>4, AssociationMoves DEF Udp

-----------------------------------------------------------------------------
LEMMA NothingSums == SumSizes(<< >>) = 0
<1>1. DOMAIN << >> = {} /\ IsFiniteSet({})
  BY FS_EmptySet
<1>2. SumFunctionOnSet(RelaySizes(<< >>), {}) = 0
  BY <1>1, SumProps
<1> QED BY <1>1, <1>2 DEF SumSizes

LEMMA InspectionStarts ==
  ASSUME RelaysConstants, NEW items \in RuleLists \cup {<< >>}, NEW stage \in {"top", "done"},
         NEW flow \in {"none", "recorded"}, ws = Inspection(items, stage, flow)
  PROVE  InspectionInv
<1> DEFINE p == [idlePump EXCEPT !.pc = stage]
<1>1. p \in PumpRecord /\ \A d : PumpOK(d, p, items)
  BY IdleOK DEF PumpStages
<1> HIDE DEF p
<1>2. << >> \in Seq(FrameRecord) /\ Len(<< >>) = 0 /\ DOMAIN << >> = {}
  OBVIOUS
<1>3. ws = [pump |-> [d \in Directions |-> p], rules |-> items,
           frames |-> << >>, count |-> 0, stored |-> 0, stop |-> FALSE, truncated |-> FALSE,
           error |-> FALSE, state |-> "completed", open |-> flow = "none", flow |-> flow]
  BY DEF Inspection, p
<1>4. ws \in InspectionRecord
  BY <1>1, <1>2, <1>3 DEF InspectionRecord
<1>5. /\ \A d \in Directions : ws.pump[d] = p
      /\ ws.rules = items /\ ws.frames = << >> /\ ws.count = 0 /\ ws.stored = 0
  BY <1>3
<1>6. 0 <= MaxStored /\ 0 <= WSMaxFrames
  BY DEF RelaysConstants
<1>7. RecordOK(ws.frames, ws.count, ws.stored, ws.truncated)
  BY <1>2, <1>5, <1>6, NothingSums DEF RecordOK
<1> QED BY <1>1, <1>4, <1>5, <1>7 DEF InspectionInv

LEMMA AssociationStarts ==
  ASSUME NEW t \in Targets, NEW v4 \in BOOLEAN, NEW o \in BOOLEAN,
         udp = Association(t, v4, o)
  PROVE  AssociationInv
<1>1. udp \in AssociationRecord
  BY DEF Association, AssociationRecord
<1>2. /\ \A n \in Names : udp.pins[n] = NoOne /\ udp.sent[n] = {}
      /\ udp.origins = {} /\ udp.back = {}
  BY DEF Association
<1> QED BY <1>1, <1>2 DEF AssociationInv

LEMMA InitHolds == ASSUME RelaysConstants, RelayInit PROVE RelaysInv
<1>1. (CHOOSE t \in Targets : TRUE) \in Targets
  BY DEF RelaysConstants
<1>2. CASE /\ \E items \in RuleLists : ws = Inspection(items, "top", "none")
           /\ udp = Association(CHOOSE t \in Targets : TRUE, TRUE, FALSE)
  BY <1>1, <1>2, InspectionStarts, AssociationStarts DEF RelaysInv
<1>3. CASE /\ ws = Inspection(<< >>, "done", "recorded")
           /\ \E t \in Targets, v4 \in BOOLEAN : udp = Association(t, v4, TRUE)
  BY <1>3, InspectionStarts, AssociationStarts DEF RelaysInv
<1> QED BY <1>2, <1>3 DEF RelayInit

LEMMA RelayNextKeeps == ASSUME RelaysInv, [RelayNext]_relayVars PROVE RelaysInv'
<1>1. CASE UNCHANGED relayVars
  BY <1>1 DEF relayVars, RelaysInv, RelaysConstants, InspectionInv, AssociationInv
<1>2. CASE inspectUpgrade
  BY <1>2, inspectUpgradeKeeps
<1>3. CASE \E d \in Directions : Inspect(d) \/ Peer(d)
  BY <1>3, InspectKeeps
<1>4. CASE Associate
  BY <1>4, forwardKeeps, relayKeeps, UDPEndsKeeps DEF Associate
<1> QED BY <1>1, <1>2, <1>3, <1>4 DEF RelayNext

\* The inductive invariant: what each pump knows of the frame in its hands, the
\* record both pumps write, and the pins of an association.
THEOREM RelaysInvariant == RelaySpec => []RelaysInv
<1>1. RelayInit => RelaysInv
  BY RelaysAssumption, InitHolds
<1>2. RelaysInv /\ [RelayNext]_relayVars => RelaysInv'
  BY RelayNextKeeps
<1> QED BY <1>1, <1>2, PTL DEF RelaySpec

\* The frames two pumps record for one flow stay within the caps, add up to the
\* counter, and are all there and whole unless the flow is marked truncated
\* (appendCapturedFrame looks at the room again under wsInspect.mu).
THEOREM FramesHold == RelaySpec => []FramesAreExact
<1>1. RelaysInv => FramesAreExact
  BY DEF RelaysInv, InspectionInv, RecordOK, FramesAreExact, SumSizes, RelaySizes
<1> QED BY <1>1, RelaysInvariant, PTL

\* Reading a payload only when a rule asks for it never changes which rule wins,
\* whatever the list of rules (NeedsFramePayload, Match).
THEOREM FirstMatchHolds == RelaySpec => []FirstMatchWins
<1>1. ASSUME RelaysInv, NEW d \in Directions, P(d).pc \in {"tee", "stamp", "capture"}, rulesPath
      PROVE  P(d).rule = Match(ws.rules, "websocket",
                               frame(d, IF P(d).len <= MaxStored THEN P(d).words ELSE {}))
  <2>1. P(d).rule = Ruling(ws.rules, d, P(d), InView(P(d)))
    BY <1>1, PumpType DEF PumpOK, rulesPath
  <2> QED BY <2>1 DEF Ruling, View, InView, frame
<1>2. RelaysInv => FirstMatchWins
  BY <1>1 DEF FirstMatchWins
<1> QED BY <1>2, RelaysInvariant, PTL

\* A name of an association keeps its first address, nothing is sent to a denied
\* address, to the proxy or to the other family, and only answers are relayed.
THEOREM RelayHolds == RelaySpec => []RelayIsPinned
<1>1. RelaysInv => RelayIsPinned
  BY DEF RelaysInv, AssociationInv, Allowed, RelayIsPinned
<1> QED BY <1>1, RelaysInvariant, PTL

-----------------------------------------------------------------------------
(* ProxyLifecycle.  The inductive invariant has three parts.  Sockets:     *)
(* which listener can be open at each step of Shutdown, given that         *)
(* serveRuntime.mu lets no Reset hold a staged listener once Shutdown has  *)
(* begun.  Binds: a BIND session is registered before it is accepted on,   *)
(* and no session passes the accepting re-check after Shutdown has begun   *)
(* to refuse.  Counted: a connection alive at some stage is counted by the *)
(* accept loop, by the WaitGroup or by the http.Server that Shutdown waits *)
(* for at that stage, and what Shutdown has waited for stays empty.        *)

(* The steps before Shutdown refuses connections, and before it closes the *)
(* listener.                                                               *)
Accepts == {"running", "begun"}
LifeListens == Accepts \cup {"refusing", "cancelled"}

Sockets ==
    /\ shutting <=> sh # "running"
    /\ shutting => staged = 0
    /\ staged # 0 =>
          staged \in openLns /\ staged # rawLn /\ acceptLoop[staged] = "off"
    /\ sh \in LifeListens => rawLn \in openLns
    /\ sh \notin LifeListens => openLns = {}
    /\ openLns \subseteq {rawLn, staged}
    /\ sh \in Accepts /\ ~broken => accepting
    /\ sh \in LoopsAreDone => \A l \in Listeners : acceptLoop[l] = "off"

Binds ==
    /\ sh \notin Accepts => ~accepting
    /\ \A c \in ClientConns : at[c] \in {"bindreg", "bindwait"} => c \in binds
    /\ sh \in PeeksAreCut =>
          \A c \in ClientConns : at[c] = "bindwait" => c \in bindClosed

(* The stages of a session, from beginHijacked to endHijacked.             *)
InSession == {"counted", "dial", "bind", "bindreg", "bindwait", "tunnel"}

Counted ==
    /\ \A c \in ClientConns : at[c] = "accepted" => \E l \in Listeners : acceptLoop[l] = c
    /\ \A c \in ClientConns : at[c] = "peek" => c \in dispatchWG
    /\ \A c \in ClientConns : at[c] = "http" => c \in serving
    /\ \A c \in ClientConns : at[c] \in InSession => c \in hijackWG
    /\ chanClosed <=> sh \in ChannelIsClosed
    /\ chanClosed => dispatchWG = {} /\ \A c \in ClientConns : at[c] # "queued"
    /\ sh = "httpdone" => serving = {} \/ late
    /\ sh = "hijackaborted" => late

IInv == ListenerConstants /\ TypeOK /\ Sockets /\ Binds /\ Counted

LEMMA AcceptConnKeeps ==
  ASSUME IInv, NEW l \in Listeners, NEW c \in ClientConns, AcceptConn(l, c)
  PROVE  IInv'
<1> USE DEF IInv
<1>1. TypeOK'
  BY DEF AcceptConn, TypeOK, Stages, stopVars
<1>2. Sockets'
  BY DEF AcceptConn, Sockets, stopVars
<1>3. Binds'
  BY DEF AcceptConn, Binds, stopVars
<1>4. Counted'
  BY DEF ListenerConstants, AcceptConn, Counted, InSession, TypeOK,
       Sockets, Binds, Stages, Listeners, ShutdownSteps, LoopsAreDone,
       PeeksAreCut, ChannelIsClosed, stopVars
<1> QED BY <1>1, <1>2, <1>3, <1>4 DEF ListenerConstants

LEMMA DispatchKeeps ==
  ASSUME IInv, NEW l \in Listeners, Dispatch(l)
  PROVE  IInv'
<1> USE DEF IInv
<1>1. TypeOK'
  BY DEF Dispatch, TypeOK, Stages, stopVars
<1>2. Sockets'
  BY DEF ListenerConstants, Dispatch, Sockets, Accepts, LifeListens, TypeOK,
       Listeners, ShutdownSteps, LoopsAreDone, PeeksAreCut,
       ChannelIsClosed, stopVars
<1>3. Binds'
  BY DEF Dispatch, Binds, TypeOK, stopVars
<1>4. Counted'
  BY DEF ListenerConstants, Dispatch, Counted, InSession, TypeOK, Sockets,
       Binds, Stages, Listeners, ShutdownSteps, LoopsAreDone, PeeksAreCut,
       ChannelIsClosed, stopVars
<1> QED BY <1>1, <1>2, <1>3, <1>4 DEF ListenerConstants

LEMMA AcceptClosedKeeps ==
  ASSUME IInv, NEW l \in Listeners, AcceptClosed(l)
  PROVE  IInv'
<1> USE DEF IInv
<1>1. TypeOK'
  BY DEF AcceptClosed, TypeOK, connVars, stopVars
<1>2. Sockets'
  BY DEF AcceptClosed, Sockets, Accepts, LifeListens, TypeOK, ShutdownSteps,
       LoopsAreDone, PeeksAreCut, ChannelIsClosed, connVars, stopVars
<1>3. Binds'
  BY DEF AcceptClosed, Binds, connVars, stopVars
<1>4. Counted'
  BY DEF ListenerConstants, AcceptClosed, Counted, InSession, TypeOK,
       Sockets, Binds, Stages, Listeners, ShutdownSteps, LoopsAreDone,
       PeeksAreCut, ChannelIsClosed, connVars, stopVars
<1> QED BY <1>1, <1>2, <1>3, <1>4 DEF ListenerConstants

LEMMA AcceptBrokenKeeps ==
  ASSUME IInv, NEW l \in Listeners, AcceptBroken(l)
  PROVE  IInv'
<1> USE DEF IInv
<1>1. TypeOK'
  BY DEF AcceptBroken, TypeOK, connVars, stopVars
<1>2. Sockets'
  BY DEF AcceptBroken, Sockets, connVars, stopVars
<1>3. Binds'
  BY DEF AcceptBroken, Binds, connVars, stopVars
<1>4. Counted'
  BY DEF ListenerConstants, AcceptBroken, Counted, InSession, TypeOK,
       Sockets, Binds, Stages, Listeners, ShutdownSteps, LoopsAreDone,
       PeeksAreCut, ChannelIsClosed, connVars, stopVars
<1> QED BY <1>1, <1>2, <1>3, <1>4 DEF ListenerConstants

LEMMA PeekFailKeeps ==
  ASSUME IInv, NEW c \in ClientConns, PeekFail(c)
  PROVE  IInv'
<1> USE DEF IInv
<1>1. TypeOK'
  BY DEF PeekFail, DispatchGone, TypeOK, Stages, lnVars, stopVars
<1>2. Sockets'
  BY DEF PeekFail, DispatchGone, Sockets, lnVars, stopVars
<1>3. Binds'
  BY DEF PeekFail, DispatchGone, Binds, lnVars, stopVars
<1>4. Counted'
  BY DEF PeekFail, DispatchGone, Counted, InSession, TypeOK, lnVars,
       stopVars
<1> QED BY <1>1, <1>2, <1>3, <1>4 DEF ListenerConstants

LEMMA PeekHTTPKeeps ==
  ASSUME IInv, NEW c \in ClientConns, PeekHTTP(c)
  PROVE  IInv'
<1> USE DEF IInv
<1>1. TypeOK'
  <2>1. CASE chanClosed
    BY <2>1 DEF PeekHTTP, DispatchGone, TypeOK, Stages, lnVars, stopVars
  <2>2. CASE ~chanClosed
    <3>1. queue' \in Seq(ClientConns)
      BY <2>2 DEF PeekHTTP, TypeOK
    <3> QED BY <2>2, <3>1 DEF PeekHTTP, TypeOK, Stages, lnVars, stopVars
  <2> QED BY <2>1, <2>2
<1>2. Sockets'
  BY DEF PeekHTTP, DispatchGone, Sockets, lnVars, stopVars
<1>3. Binds'
  BY DEF PeekHTTP, DispatchGone, Binds, TypeOK, lnVars, stopVars
<1>4. Counted'
  BY DEF PeekHTTP, DispatchGone, Counted, InSession, TypeOK, lnVars,
       stopVars
<1> QED BY <1>1, <1>2, <1>3, <1>4 DEF ListenerConstants

LEMMA PeekSOCKSKeeps ==
  ASSUME IInv, NEW c \in ClientConns, PeekSOCKS(c)
  PROVE  IInv'
<1> USE DEF IInv
<1>1. TypeOK'
  BY DEF PeekSOCKS, TypeOK, Stages, lnVars, stopVars
<1>2. Sockets'
  BY DEF PeekSOCKS, Sockets, lnVars, stopVars
<1>3. Binds'
  BY DEF PeekSOCKS, Binds, lnVars, stopVars
<1>4. Counted'
  BY DEF PeekSOCKS, Counted, lnVars, stopVars
<1> QED BY <1>1, <1>2, <1>3, <1>4 DEF ListenerConstants

LEMMA HTTPAcceptKeeps ==
  ASSUME IInv, HTTPAccept
  PROVE  IInv'
<1> USE DEF IInv
<1>1. TypeOK'
  BY DEF HTTPAccept, TypeOK, Stages, lnVars, stopVars
<1>2. Sockets'
  BY DEF HTTPAccept, Sockets, lnVars, stopVars
<1>3. Binds'
  BY DEF HTTPAccept, Binds, lnVars, stopVars
<1>4. Counted'
  BY DEF HTTPAccept, Counted, InSession, ChannelIsClosed, lnVars, stopVars
<1> QED BY <1>1, <1>2, <1>3, <1>4 DEF ListenerConstants

LEMMA HTTPDoneKeeps ==
  ASSUME IInv, NEW c \in ClientConns, HTTPDone(c)
  PROVE  IInv'
<1> USE DEF IInv
<1>1. TypeOK'
  BY DEF HTTPDone, TypeOK, Stages, lnVars, stopVars
<1>2. Sockets'
  BY DEF HTTPDone, Sockets, lnVars, stopVars
<1>3. Binds'
  BY DEF HTTPDone, Binds, lnVars, stopVars
<1>4. Counted'
  BY DEF HTTPDone, Counted, InSession, TypeOK, lnVars, stopVars
<1> QED BY <1>1, <1>2, <1>3, <1>4 DEF ListenerConstants

LEMMA HijackKeeps ==
  ASSUME IInv, NEW c \in ClientConns, Hijack(c)
  PROVE  IInv'
<1> USE DEF IInv
<1>1. TypeOK'
  BY DEF Hijack, TypeOK, Stages, lnVars, stopVars
<1>2. Sockets'
  BY DEF Hijack, Sockets, lnVars, stopVars
<1>3. Binds'
  BY DEF Hijack, Binds, lnVars, stopVars
<1>4. Counted'
  BY DEF Hijack, Counted, InSession, TypeOK, lnVars, stopVars
<1> QED BY <1>1, <1>2, <1>3, <1>4 DEF ListenerConstants

LEMMA BeginHijackedKeeps ==
  ASSUME IInv, NEW c \in ClientConns, BeginHijacked(c)
  PROVE  IInv'
<1> USE DEF IInv
<1>1. TypeOK'
  BY DEF BeginHijacked, TypeOK, Stages, lnVars, stopVars
<1>2. Sockets'
  BY DEF BeginHijacked, Sockets, lnVars, stopVars
<1>3. Binds'
  BY DEF BeginHijacked, Binds, lnVars, stopVars
<1>4. Counted'
  BY DEF BeginHijacked, Counted, lnVars, stopVars
<1> QED BY <1>1, <1>2, <1>3, <1>4 DEF ListenerConstants

LEMMA TrackKeeps ==
  ASSUME IInv, NEW c \in ClientConns, Track(c)
  PROVE  IInv'
<1> USE DEF IInv
<1>1. TypeOK'
  BY DEF Track, TypeOK, Stages, lnVars, stopVars
<1>2. Sockets'
  BY DEF Track, Sockets, lnVars, stopVars
<1>3. Binds'
  BY DEF Track, Binds, lnVars, stopVars
<1>4. Counted'
  BY DEF Track, Counted, InSession, lnVars, stopVars
<1> QED BY <1>1, <1>2, <1>3, <1>4 DEF ListenerConstants

LEMMA DialOKKeeps ==
  ASSUME IInv, NEW c \in ClientConns, DialOK(c)
  PROVE  IInv'
<1> USE DEF IInv
<1>1. TypeOK'
  BY DEF DialOK, TypeOK, Stages, lnVars, stopVars
<1>2. Sockets'
  BY DEF DialOK, Sockets, lnVars, stopVars
<1>3. Binds'
  BY DEF DialOK, Binds, lnVars, stopVars
<1>4. Counted'
  BY DEF DialOK, Counted, InSession, lnVars, stopVars
<1> QED BY <1>1, <1>2, <1>3, <1>4 DEF ListenerConstants

LEMMA DialFailKeeps ==
  ASSUME IInv, NEW c \in ClientConns, DialFail(c)
  PROVE  IInv'
<1> USE DEF IInv
<1>1. TypeOK'
  BY DEF DialFail, EndSession, TypeOK, Stages, lnVars, stopVars
<1>2. Sockets'
  BY DEF DialFail, EndSession, Sockets, lnVars, stopVars
<1>3. Binds'
  BY DEF DialFail, EndSession, Binds, lnVars, stopVars
<1>4. Counted'
  BY DEF DialFail, EndSession, Counted, InSession, TypeOK, lnVars,
       stopVars
<1> QED BY <1>1, <1>2, <1>3, <1>4 DEF ListenerConstants

LEMMA BindFailKeeps ==
  ASSUME IInv, NEW c \in ClientConns, BindFail(c)
  PROVE  IInv'
<1> USE DEF IInv
<1>1. TypeOK'
  BY DEF BindFail, EndSession, TypeOK, Stages, lnVars, stopVars
<1>2. Sockets'
  BY DEF BindFail, EndSession, Sockets, lnVars, stopVars
<1>3. Binds'
  BY DEF BindFail, EndSession, Binds, lnVars, stopVars
<1>4. Counted'
  BY DEF BindFail, EndSession, Counted, InSession, TypeOK, lnVars,
       stopVars
<1> QED BY <1>1, <1>2, <1>3, <1>4 DEF ListenerConstants

LEMMA TrackBindKeeps ==
  ASSUME IInv, NEW c \in ClientConns, TrackBind(c)
  PROVE  IInv'
<1> USE DEF IInv
<1>1. TypeOK'
  BY DEF TrackBind, TypeOK, Stages, lnVars, stopVars
<1>2. Sockets'
  BY DEF TrackBind, Sockets, lnVars, stopVars
<1>3. Binds'
  BY DEF TrackBind, Binds, lnVars, stopVars
<1>4. Counted'
  BY DEF TrackBind, Counted, InSession, lnVars, stopVars
<1> QED BY <1>1, <1>2, <1>3, <1>4 DEF ListenerConstants

LEMMA BindRecheckKeeps ==
  ASSUME IInv, NEW c \in ClientConns, BindRecheck(c)
  PROVE  IInv'
<1> USE DEF IInv
<1>1. TypeOK'
  BY DEF BindRecheck, EndSession, TypeOK, Stages, lnVars, stopVars
<1>2. Sockets'
  BY DEF BindRecheck, EndSession, Sockets, lnVars, stopVars
<1>3. Binds'
  BY DEF BindRecheck, EndSession, Binds, Accepts, TypeOK, ShutdownSteps,
       LoopsAreDone, PeeksAreCut, ChannelIsClosed, lnVars, stopVars
<1>4. Counted'
  BY DEF BindRecheck, EndSession, Counted, InSession, TypeOK, lnVars,
       stopVars
<1> QED BY <1>1, <1>2, <1>3, <1>4 DEF ListenerConstants

LEMMA BindInboundKeeps ==
  ASSUME IInv, NEW c \in ClientConns, BindInbound(c)
  PROVE  IInv'
<1> USE DEF IInv
<1>1. TypeOK'
  BY DEF BindInbound, TypeOK, Stages, lnVars, stopVars
<1>2. Sockets'
  BY DEF BindInbound, Sockets, lnVars, stopVars
<1>3. Binds'
  BY DEF BindInbound, Binds, lnVars, stopVars
<1>4. Counted'
  BY DEF BindInbound, Counted, InSession, lnVars, stopVars
<1> QED BY <1>1, <1>2, <1>3, <1>4 DEF ListenerConstants

LEMMA BindCutKeeps ==
  ASSUME IInv, NEW c \in ClientConns, BindCut(c)
  PROVE  IInv'
<1> USE DEF IInv
<1>1. TypeOK'
  BY DEF BindCut, EndSession, TypeOK, Stages, lnVars, stopVars
<1>2. Sockets'
  BY DEF BindCut, EndSession, Sockets, lnVars, stopVars
<1>3. Binds'
  BY DEF BindCut, EndSession, Binds, TypeOK, lnVars, stopVars
<1>4. Counted'
  BY DEF BindCut, EndSession, Counted, InSession, TypeOK, lnVars, stopVars
<1> QED BY <1>1, <1>2, <1>3, <1>4 DEF ListenerConstants

LEMMA TunnelCutKeeps ==
  ASSUME IInv, NEW c \in ClientConns, TunnelCut(c)
  PROVE  IInv'
<1> USE DEF IInv
<1>1. TypeOK'
  BY DEF TunnelCut, EndSession, TypeOK, Stages, lnVars, stopVars
<1>2. Sockets'
  BY DEF TunnelCut, EndSession, Sockets, lnVars, stopVars
<1>3. Binds'
  BY DEF TunnelCut, EndSession, Binds, lnVars, stopVars
<1>4. Counted'
  BY DEF TunnelCut, EndSession, Counted, InSession, TypeOK, lnVars,
       stopVars
<1> QED BY <1>1, <1>2, <1>3, <1>4 DEF ListenerConstants

LEMMA SessionExpireKeeps ==
  ASSUME IInv, NEW c \in ClientConns, SessionExpire(c)
  PROVE  IInv'
<1> USE DEF IInv
<1>1. TypeOK'
  BY DEF SessionExpire, EndSession, TypeOK, Stages, lnVars, stopVars
<1>2. Sockets'
  BY DEF SessionExpire, EndSession, Sockets, lnVars, stopVars
<1>3. Binds'
  BY DEF SessionExpire, EndSession, Binds, TypeOK, lnVars, stopVars
<1>4. Counted'
  BY DEF SessionExpire, EndSession, Counted, InSession, TypeOK, lnVars,
       stopVars
<1> QED BY <1>1, <1>2, <1>3, <1>4 DEF ListenerConstants

LEMMA PrepareListenersKeeps ==
  ASSUME IInv, NEW l \in Listeners, PrepareListeners(l)
  PROVE  IInv'
<1> USE DEF IInv
<1>1. TypeOK'
  BY DEF ListenerConstants, PrepareListeners, TypeOK, Stages, Listeners,
       ShutdownSteps, LoopsAreDone, PeeksAreCut, ChannelIsClosed, connVars
<1>2. Sockets'
  <2>1. /\ sh = "running" /\ sh' = sh /\ shutting' = shutting /\ staged' = l
        /\ openLns' = openLns \cup {l} /\ l \notin openLns /\ acceptLoop[l] = "off"
        /\ UNCHANGED <<rawLn, acceptLoop, accepting, broken>>
    BY DEF PrepareListeners, Sockets
  <2>2. rawLn \in openLns /\ openLns \subseteq {rawLn, staged} /\ staged = 0
    BY <2>1 DEF PrepareListeners, Sockets, LifeListens, Accepts
  <2>3. sh \notin LoopsAreDone
    BY <2>1 DEF LoopsAreDone, PeeksAreCut, ChannelIsClosed
  <2>4. 0 \notin openLns
    BY DEF TypeOK, Listeners
  <2>5. /\ shutting' <=> sh' # "running"
        /\ sh' \in Accepts /\ ~broken' => accepting'
    BY <2>1 DEF Sockets
  <2>6. openLns' \subseteq {rawLn', staged'} /\ staged' \in openLns' /\ staged' # rawLn'
    BY <2>1, <2>2, <2>4
  <2>7. rawLn' \in openLns' /\ sh' \in LifeListens
    BY <2>1, <2>2 DEF LifeListens, Accepts
  <2> QED BY <2>1, <2>3, <2>5, <2>6, <2>7 DEF Sockets
<1>3. Binds'
  BY DEF PrepareListeners, Binds, connVars
<1>4. Counted'
  BY DEF PrepareListeners, Counted, connVars
<1> QED BY <1>1, <1>2, <1>3, <1>4 DEF ListenerConstants

LEMMA CommitListenerKeeps ==
  ASSUME IInv, CommitListener
  PROVE  IInv'
<1> USE DEF IInv
<1>1. TypeOK'
  BY DEF ListenerConstants, CommitListener, TypeOK, Stages, Listeners,
       ShutdownSteps, LoopsAreDone, PeeksAreCut, ChannelIsClosed, connVars
<1>2. Sockets'
  BY DEF CommitListener, Sockets, Accepts, LifeListens, LoopsAreDone,
       PeeksAreCut, ChannelIsClosed, connVars
<1>3. Binds'
  BY DEF CommitListener, Binds, connVars
<1>4. Counted'
  BY DEF ListenerConstants, CommitListener, Counted, InSession, TypeOK,
       Sockets, Binds, Stages, Listeners, ShutdownSteps, LoopsAreDone,
       PeeksAreCut, ChannelIsClosed, connVars
<1> QED BY <1>1, <1>2, <1>3, <1>4 DEF ListenerConstants

LEMMA RollbackListenerKeeps ==
  ASSUME IInv, RollbackListener
  PROVE  IInv'
<1> USE DEF IInv
<1>1. TypeOK'
  BY DEF ListenerConstants, RollbackListener, TypeOK, Stages, Listeners,
       ShutdownSteps, LoopsAreDone, PeeksAreCut, ChannelIsClosed, connVars
<1>2. Sockets'
  BY DEF RollbackListener, Sockets, connVars
<1>3. Binds'
  BY DEF RollbackListener, Binds, connVars
<1>4. Counted'
  BY DEF RollbackListener, Counted, connVars
<1> QED BY <1>1, <1>2, <1>3, <1>4 DEF ListenerConstants

LEMMA BeginShutdownKeeps ==
  ASSUME IInv, BeginShutdown
  PROVE  IInv'
<1> USE DEF IInv
<1>1. TypeOK'
  BY DEF BeginShutdown, Step, TypeOK, ShutdownSteps, LoopsAreDone,
       PeeksAreCut, ChannelIsClosed, lnVars, connVars
<1>2. Sockets'
  BY DEF BeginShutdown, Step, Sockets, Accepts, LifeListens, LoopsAreDone,
       PeeksAreCut, ChannelIsClosed, lnVars, connVars
<1>3. Binds'
  BY DEF BeginShutdown, Step, Binds, Accepts, PeeksAreCut,
       ChannelIsClosed, lnVars, connVars
<1>4. Counted'
  BY DEF BeginShutdown, Step, Counted, InSession, ChannelIsClosed, lnVars,
       connVars
<1> QED BY <1>1, <1>2, <1>3, <1>4 DEF ListenerConstants

LEMMA StopAcceptingKeeps ==
  ASSUME IInv, StopAccepting
  PROVE  IInv'
<1> USE DEF IInv
<1>1. TypeOK'
  BY DEF StopAccepting, Step, TypeOK, ShutdownSteps, LoopsAreDone,
       PeeksAreCut, ChannelIsClosed, connVars
<1>2. Sockets'
  BY DEF StopAccepting, Step, Sockets, Accepts, LifeListens, LoopsAreDone,
       PeeksAreCut, ChannelIsClosed, connVars
<1>3. Binds'
  BY DEF StopAccepting, Step, Binds, Accepts, PeeksAreCut,
       ChannelIsClosed, connVars
<1>4. Counted'
  BY DEF StopAccepting, Step, Counted, InSession, ChannelIsClosed,
       connVars
<1> QED BY <1>1, <1>2, <1>3, <1>4 DEF ListenerConstants

LEMMA CancelContextKeeps ==
  ASSUME IInv, CancelContext
  PROVE  IInv'
<1> USE DEF IInv
<1>1. TypeOK'
  BY DEF CancelContext, Step, TypeOK, ShutdownSteps, LoopsAreDone,
       PeeksAreCut, ChannelIsClosed, connVars
<1>2. Sockets'
  BY DEF CancelContext, Step, Sockets, Accepts, LifeListens, LoopsAreDone,
       PeeksAreCut, ChannelIsClosed, connVars
<1>3. Binds'
  BY DEF CancelContext, Step, Binds, Accepts, PeeksAreCut,
       ChannelIsClosed, connVars
<1>4. Counted'
  BY DEF CancelContext, Step, Counted, InSession, ChannelIsClosed,
       connVars
<1> QED BY <1>1, <1>2, <1>3, <1>4 DEF ListenerConstants

LEMMA CloseListenerKeeps ==
  ASSUME IInv, CloseListener
  PROVE  IInv'
<1> USE DEF IInv
<1>1. TypeOK'
  BY DEF CloseListener, Step, TypeOK, ShutdownSteps, LoopsAreDone,
       PeeksAreCut, ChannelIsClosed, connVars
<1>2. Sockets'
  BY DEF ListenerConstants, CloseListener, Step, Sockets, Accepts,
       LifeListens, TypeOK, Listeners, ShutdownSteps, LoopsAreDone,
       PeeksAreCut, ChannelIsClosed, connVars
<1>3. Binds'
  BY DEF CloseListener, Step, Binds, Accepts, PeeksAreCut,
       ChannelIsClosed, connVars
<1>4. Counted'
  BY DEF CloseListener, Step, Counted, InSession, ChannelIsClosed,
       connVars
<1> QED BY <1>1, <1>2, <1>3, <1>4 DEF ListenerConstants

LEMMA AwaitLoopsKeeps ==
  ASSUME IInv, AwaitLoops
  PROVE  IInv'
<1> USE DEF IInv
<1>1. TypeOK'
  BY DEF AwaitLoops, Step, TypeOK, ShutdownSteps, LoopsAreDone,
       PeeksAreCut, ChannelIsClosed, lnVars, connVars
<1>2. Sockets'
  BY DEF AwaitLoops, Step, Sockets, Accepts, LifeListens, LoopsAreDone,
       PeeksAreCut, ChannelIsClosed, lnVars, connVars
<1>3. Binds'
  BY DEF AwaitLoops, Step, Binds, Accepts, PeeksAreCut, ChannelIsClosed,
       lnVars, connVars
<1>4. Counted'
  BY DEF AwaitLoops, Step, Counted, InSession, ChannelIsClosed, lnVars,
       connVars
<1> QED BY <1>1, <1>2, <1>3, <1>4 DEF ListenerConstants

LEMMA CutPeeksKeeps ==
  ASSUME IInv, CutPeeks
  PROVE  IInv'
<1> USE DEF IInv
<1>1. TypeOK'
  BY DEF CutPeeks, CloseDispatching, CloseBinds, Step, TypeOK,
       ShutdownSteps, LoopsAreDone, PeeksAreCut, ChannelIsClosed, lnVars
<1>2. Sockets'
  BY DEF CutPeeks, CloseDispatching, CloseBinds, Step, Sockets, Accepts,
       LifeListens, LoopsAreDone, PeeksAreCut, ChannelIsClosed, lnVars
<1>3. Binds'
  BY DEF CutPeeks, CloseDispatching, CloseBinds, Step, Binds, Accepts,
       PeeksAreCut, ChannelIsClosed, lnVars
<1>4. Counted'
  BY DEF CutPeeks, CloseDispatching, CloseBinds, Step, Counted, InSession,
       ChannelIsClosed, lnVars
<1> QED BY <1>1, <1>2, <1>3, <1>4 DEF ListenerConstants

LEMMA AbortDispatchKeeps ==
  ASSUME IInv, AbortDispatch
  PROVE  IInv'
<1> USE DEF IInv
<1>1. TypeOK'
  BY DEF AbortDispatch, CloseDispatching, CloseBinds, Step, TypeOK,
       ShutdownSteps, LoopsAreDone, PeeksAreCut, ChannelIsClosed, lnVars
<1>2. Sockets'
  BY DEF AbortDispatch, CloseDispatching, CloseBinds, Step, Sockets,
       Accepts, LifeListens, LoopsAreDone, PeeksAreCut, ChannelIsClosed,
       lnVars
<1>3. Binds'
  BY DEF AbortDispatch, CloseDispatching, CloseBinds, Step, Binds,
       Accepts, PeeksAreCut, ChannelIsClosed, lnVars
<1>4. Counted'
  BY DEF AbortDispatch, CloseDispatching, CloseBinds, Step, Counted,
       InSession, ChannelIsClosed, lnVars
<1> QED BY <1>1, <1>2, <1>3, <1>4 DEF ListenerConstants

LEMMA CloseChannelKeeps ==
  ASSUME IInv, CloseChannel
  PROVE  IInv'
<1> USE DEF IInv
<1>1. TypeOK'
  BY DEF CloseChannel, TypeOK, Stages, ShutdownSteps, LoopsAreDone,
       PeeksAreCut, ChannelIsClosed, lnVars
<1>2. Sockets'
  BY DEF CloseChannel, Sockets, Accepts, LifeListens, LoopsAreDone,
       PeeksAreCut, ChannelIsClosed, lnVars
<1>3. Binds'
  BY DEF CloseChannel, Binds, Accepts, PeeksAreCut, ChannelIsClosed,
       lnVars
<1>4. Counted'
  BY DEF CloseChannel, Counted, InSession, ChannelIsClosed, lnVars
<1> QED BY <1>1, <1>2, <1>3, <1>4 DEF ListenerConstants

LEMMA HTTPShutdownKeeps ==
  ASSUME IInv, HTTPShutdown
  PROVE  IInv'
<1> USE DEF IInv
<1>1. TypeOK'
  BY DEF HTTPShutdown, Step, TypeOK, ShutdownSteps, LoopsAreDone,
       PeeksAreCut, ChannelIsClosed, lnVars, connVars
<1>2. Sockets'
  BY DEF HTTPShutdown, Step, Sockets, Accepts, LifeListens, LoopsAreDone,
       PeeksAreCut, ChannelIsClosed, lnVars, connVars
<1>3. Binds'
  BY DEF HTTPShutdown, Step, Binds, Accepts, PeeksAreCut, ChannelIsClosed,
       lnVars, connVars
<1>4. Counted'
  BY DEF HTTPShutdown, Step, Counted, InSession, ChannelIsClosed, lnVars,
       connVars
<1> QED BY <1>1, <1>2, <1>3, <1>4 DEF ListenerConstants

LEMMA AbortHijackedKeeps ==
  ASSUME IInv, AbortHijacked
  PROVE  IInv'
<1> USE DEF IInv
<1>1. TypeOK'
  BY DEF AbortHijacked, CloseBinds, Step, TypeOK, ShutdownSteps,
       LoopsAreDone, PeeksAreCut, ChannelIsClosed, lnVars
<1>2. Sockets'
  BY DEF AbortHijacked, CloseBinds, Step, Sockets, Accepts, LifeListens,
       LoopsAreDone, PeeksAreCut, ChannelIsClosed, lnVars
<1>3. Binds'
  BY DEF AbortHijacked, CloseBinds, Step, Binds, Accepts, PeeksAreCut,
       ChannelIsClosed, lnVars
<1>4. Counted'
  BY DEF AbortHijacked, CloseBinds, Step, Counted, InSession,
       ChannelIsClosed, lnVars
<1> QED BY <1>1, <1>2, <1>3, <1>4 DEF ListenerConstants

LEMMA ShutdownReturnKeeps ==
  ASSUME IInv, ShutdownReturn
  PROVE  IInv'
<1> USE DEF IInv
<1>1. TypeOK'
  BY DEF ShutdownReturn, TypeOK, ShutdownSteps, LoopsAreDone, PeeksAreCut,
       ChannelIsClosed, lnVars, connVars
<1>2. Sockets'
  BY DEF ShutdownReturn, Sockets, Accepts, LifeListens, LoopsAreDone,
       PeeksAreCut, ChannelIsClosed, lnVars, connVars
<1>3. Binds'
  BY DEF ShutdownReturn, Binds, Accepts, PeeksAreCut, ChannelIsClosed,
       lnVars, connVars
<1>4. Counted'
  BY DEF ShutdownReturn, Counted, InSession, ChannelIsClosed, lnVars,
       connVars
<1> QED BY <1>1, <1>2, <1>3, <1>4 DEF ListenerConstants

LEMMA DeadlineKeeps ==
  ASSUME IInv, Deadline
  PROVE  IInv'
<1> USE DEF IInv
<1>1. TypeOK'
  BY DEF Deadline, TypeOK, lnVars, connVars
<1>2. Sockets'
  BY DEF Deadline, Sockets, lnVars, connVars
<1>3. Binds'
  BY DEF Deadline, Binds, lnVars, connVars
<1>4. Counted'
  BY DEF Deadline, Counted, lnVars, connVars
<1> QED BY <1>1, <1>2, <1>3, <1>4 DEF ListenerConstants

-----------------------------------------------------------------------------
LEMMA LifeInitHolds == ASSUME ListenerConstants, LifecycleInit PROVE IInv
<1> USE DEF LifecycleInit
<1>1. TypeOK
  <2>1. 1 \in Listeners /\ 0 \in 0 .. MaxListener
    BY DEF ListenerConstants, Listeners
  <2>2. acceptLoop \in [Listeners -> {"off", "run"} \cup ClientConns]
    OBVIOUS
  <2>3. queue \in Seq(ClientConns)
    OBVIOUS
  <2> QED BY <2>1, <2>2, <2>3 DEF TypeOK, Stages, ShutdownSteps
<1>2. Sockets
  BY DEF Sockets, Accepts, LifeListens, LoopsAreDone, PeeksAreCut,
         ChannelIsClosed
<1>3. Binds
  BY DEF Binds, Accepts, PeeksAreCut, ChannelIsClosed
<1>4. Counted
  BY DEF Counted, InSession, ChannelIsClosed
<1> QED BY <1>1, <1>2, <1>3, <1>4 DEF IInv

LEMMA StutterKeeps == ASSUME IInv, UNCHANGED lifecycleVars PROVE IInv'
BY DEF IInv, ListenerConstants, TypeOK, Sockets, Binds, Counted, lifecycleVars,
       lnVars, connVars, stopVars

LEMMA LifeNextKeeps == ASSUME IInv, [LifecycleNext]_lifecycleVars PROVE IInv'
<1>1. CASE UNCHANGED lifecycleVars
  BY <1>1, StutterKeeps
<1>2. CASE ShutdownStep
  BY <1>2, BeginShutdownKeeps, StopAcceptingKeeps, CancelContextKeeps,
     CloseListenerKeeps, AwaitLoopsKeeps, CutPeeksKeeps, AbortDispatchKeeps,
     CloseChannelKeeps, HTTPShutdownKeeps, AbortHijackedKeeps,
     ShutdownReturnKeeps, DeadlineKeeps DEF ShutdownStep
<1>3. CASE ResetStep
  BY <1>3, PrepareListenersKeeps, CommitListenerKeeps, RollbackListenerKeeps
  DEF ResetStep
<1>4. ASSUME NEW l \in Listeners, LoopStep(l) PROVE IInv'
  BY <1>4, AcceptConnKeeps, DispatchKeeps, AcceptClosedKeeps,
     AcceptBrokenKeeps DEF LoopStep
<1>5. ASSUME NEW c \in ClientConns, ConnStep(c) PROVE IInv'
  BY <1>5, PeekFailKeeps, PeekHTTPKeeps, PeekSOCKSKeeps, HTTPDoneKeeps,
     HijackKeeps, BeginHijackedKeeps, TrackKeeps, DialOKKeeps, DialFailKeeps,
     BindFailKeeps, TrackBindKeeps, BindRecheckKeeps, BindInboundKeeps,
     BindCutKeeps, TunnelCutKeeps, SessionExpireKeeps DEF ConnStep
<1>6. CASE HTTPAccept
  BY <1>6, HTTPAcceptKeeps
<1>7. CASE Finished
  BY <1>7, StutterKeeps DEF Finished
<1> QED BY <1>1, <1>2, <1>3, <1>4, <1>5, <1>6, <1>7 DEF LifecycleNext

(* The inductive invariant holds in every reachable state.                 *)
THEOREM LifecycleInvariant == LifecycleSpec => []IInv
<1>1. LifecycleInit => IInv
  BY ListenerAssumption, LifeInitHolds
<1>2. IInv /\ [LifecycleNext]_lifecycleVars => IInv'
  BY LifeNextKeeps
<1> QED BY <1>1, <1>2, PTL DEF LifecycleSpec

(* Listeners follow the life of the process: it answers ready until told   *)
(* to stop whatever Reset does to its listener, no socket is open and no   *)
(* accept loop runs once Shutdown has waited for them, and no BIND listen  *)
(* is accepted on after closeBinds without having been closed.             *)
THEOREM ListenersHold == LifecycleSpec => []ListenersFollowLifecycle
<1>1. IInv => ListenersFollowLifecycle
  BY DEF IInv, Sockets, Binds, ListenersFollowLifecycle, Accepts, LifeListens,
         LoopsAreDone, PeeksAreCut, ChannelIsClosed
<1> QED BY <1>1, LifecycleInvariant, PTL

(* A return of Shutdown in time finds nothing counted any more: what is    *)
(* still alive has left http.Server by Hijack() and not yet reached        *)
(* beginHijacked().                                                        *)
LEMMA ReturnIsDrained ==
  ASSUME IInv, ShutdownReturn, ~late
  PROVE  \A c \in ClientConns : at'[c] \in {"new", "gone", "gap"}
<1>1. sh = "httpdone" /\ serving = {} /\ hijackWG = {} /\ at' = at
  BY DEF IInv, Counted, ShutdownReturn, connVars
<1>2. chanClosed /\ dispatchWG = {}
  BY <1>1 DEF IInv, Counted, ChannelIsClosed
<1>3. \A l \in Listeners : acceptLoop[l] = "off"
  BY <1>1 DEF IInv, Sockets, LoopsAreDone, PeeksAreCut, ChannelIsClosed
<1>4. "off" \notin ClientConns
  BY DEF IInv, ListenerConstants
<1>5. \A c \in ClientConns : at[c] \notin InSession \cup {"accepted", "peek",
                                                    "queued", "http"}
  BY <1>1, <1>2, <1>3, <1>4 DEF IInv, Counted
<1> QED
  BY <1>1, <1>5 DEF IInv, TypeOK, Stages, InSession

(* DrainedAtReturn: of the steps of Shutdown only ShutdownReturn reaches   *)
(* "returned", and it is taken with every WaitGroup at zero.               *)
THEOREM DrainedAtReturnHolds == LifecycleSpec => DrainedAtReturn
<1> DEFINE Drained ==
      sh' = "returned" /\ sh # "returned" /\ ~late =>
         \A c \in ClientConns : at'[c] \in {"new", "gone", "gap"}
<1>1. ASSUME IInv, [LifecycleNext]_lifecycleVars PROVE [Drained]_lifecycleVars
  <2>1. ASSUME LifecycleNext, sh' = "returned", sh # "returned" PROVE ShutdownReturn
    <3>1. CASE ShutdownStep
      BY <3>1, <2>1
      DEF ShutdownStep, BeginShutdown, StopAccepting, CancelContext,
          CloseListener, AwaitLoops, CutPeeks, AbortDispatch, CloseChannel,
          HTTPShutdown, AbortHijacked, Deadline, Step
    <3>2. CASE ResetStep
      BY <3>2, <2>1
      DEF ResetStep, PrepareListeners, CommitListener, RollbackListener
    <3>3. ASSUME NEW l \in Listeners, LoopStep(l) PROVE FALSE
      BY <3>3, <2>1
      DEF LoopStep, AcceptConn, Dispatch, AcceptClosed, AcceptBroken,
          stopVars
    <3>4. ASSUME NEW c \in ClientConns, ConnStep(c) PROVE FALSE
      BY <3>4, <2>1
      DEF ConnStep, PeekFail, PeekHTTP, PeekSOCKS, HTTPDone, Hijack,
          BeginHijacked, Track, DialOK, DialFail, BindFail, TrackBind,
          BindRecheck, BindInbound, BindCut, TunnelCut, SessionExpire,
          stopVars
    <3>5. CASE HTTPAccept \/ Finished
      BY <3>5, <2>1 DEF HTTPAccept, Finished, lifecycleVars, stopVars
    <3> QED BY <2>1, <3>1, <3>2, <3>3, <3>4, <3>5 DEF LifecycleNext
  <2> QED BY <1>1, <2>1, ReturnIsDrained
<1>2. IInv /\ [LifecycleNext]_lifecycleVars => [Drained]_lifecycleVars
  BY <1>1
<1> QED BY <1>2, LifecycleInvariant, PTL DEF LifecycleSpec, DrainedAtReturn
=============================================================================
