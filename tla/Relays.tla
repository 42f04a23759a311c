------------------------------- MODULE Relays -------------------------------
(***************************************************************************)
(* The two relays that look at what they carry: an inspected WebSocket,    *)
(* whose two pumps share one flow (internal/proxy/ws.go), and a SOCKS UDP  *)
(* association (internal/proxy/socks_udp.go).                              *)
(*                                                                         *)
(* ws is the inspection: pump[d] reads frames of direction d, forwards and *)
(* records them; frames, count, stored, stop, truncated, error and state   *)
(* are the flow's record, written under wsInspect.mu; open says whether    *)
(* the two connections are.  udp is the association, run by one goroutine; *)
(* sent remembers which addresses each name was sent to, and back whose    *)
(* datagrams were passed back.  The rules of an inspection are one of      *)
(* RuleLists, those of the session; whether a destination is acceptable,   *)
(* and which rule wins, is defined in TargetGuard and RuleEngine.          *)
(***************************************************************************)
EXTENDS Naturals, Sequences, FiniteSets, FiniteSetsExt, RuleEngine

CONSTANTS MaxStored, WSMaxFrames, Lengths, MaxWire, RuleLists, Snap, Words,
          Names, RelayAddresses, Strangers, Targets, MaxDatagrams, MaxOut, NoOne, Denied

RelaysConstants ==
  /\ MaxStored \in Nat \ {0} /\ WSMaxFrames \in Nat \ {0}
  /\ \A items \in RuleLists :
       Len(items) \in Nat /\ DOMAIN items = 1 .. Len(items) /\ validateRules(items)
  /\ Lengths \subseteq Nat /\ {MaxWire, MaxDatagrams, MaxOut} \subseteq Nat
  /\ Targets # {} /\ << >> \notin Names
  /\ NoOne # Denied /\ {NoOne, Denied} \cap (RelayAddresses \cup Strangers) = {}

ASSUME RelaysAssumption == RelaysConstants

VARIABLES ws, udp
relayVars == <<ws, udp>>

Directions == {"client", "origin"}
Opcodes == {"text", "close"}
Literal == << >>      \* stands for the destinations given as addresses

idlePump == [pc |-> "top", op |-> "text", len |-> 0, words |-> {}, kept |-> 0,
             read |-> FALSE, rule |-> NoHit, wire |-> 0]

Inspection(items, pc, flow) ==
  [pump |-> [d \in Directions |-> [idlePump EXCEPT !.pc = pc]], rules |-> items,
   frames |-> << >>, count |-> 0, stored |-> 0, stop |-> FALSE, truncated |-> FALSE,
   error |-> FALSE, state |-> "completed", open |-> flow = "none", flow |-> flow]

Association(targets, v4, open) ==
  [client |-> NoOne, pins |-> [n \in Names |-> NoOne], origins |-> {}, out |-> 0, in |-> 0,
   truncated |-> FALSE, back |-> {}, open |-> open, targets |-> targets, v4 |-> v4,
   sent |-> [n \in Names \cup {Literal} |-> {}]]

\* The two share nothing: a behaviour runs one of them.
RelayInit ==
  \/ /\ \E items \in RuleLists : ws = Inspection(items, "top", "none")
     /\ udp = Association(CHOOSE t \in Targets : TRUE, TRUE, FALSE)
  \/ /\ ws = Inspection(<< >>, "done", "recorded")
     /\ \E t \in Targets, v4 \in BOOLEAN : udp = Association(t, v4, TRUE)

-----------------------------------------------------------------------------
(* The WebSocket pumps.                                                    *)

P(d) == ws.pump[d]
Pump(d, p) == ws' = [ws EXCEPT !.pump = [ws.pump EXCEPT ![d] = p]] /\ UNCHANGED udp

\* The pump returns; its destination is half-closed.
Returns(d) == Pump(d, [idlePump EXCEPT !.pc = "done"])

\* The top of the loop: an error of the other pump ends this one.
pump(d) ==
  /\ P(d).pc = "top"
  /\ IF ws.error THEN Returns(d) ELSE Pump(d, [P(d) EXCEPT !.pc = "read"])

\* The connection is closed under the read.
readClosed(d) == P(d).pc = "read" /\ ~ws.open /\ Returns(d)

\* The peer has ended its side, or the deadline passes.
readEnds(d) == P(d).pc = "read" /\ ws.open /\ Returns(d)

rulesPath == HasEnabledWebSocket(ws.rules)

ReadHeader(d, op, len, words) ==
  /\ P(d).pc = "read" /\ ws.open /\ P(d).wire < MaxWire
  /\ Pump(d, [P(d) EXCEPT !.op = op, !.len = len, !.words = words,
                !.wire = P(d).wire + 1, !.pc = IF rulesPath THEN "match" ELSE "tee"])

\* A header that breaks the protocol.
malformed(d) ==
  /\ P(d).pc = "read" /\ ws.open
  /\ Pump(d, [P(d) EXCEPT !.pc = "fail"])

min(a, b) == IF a < b THEN a ELSE b

storeRemain == IF ws.stop \/ ws.stored > MaxStored THEN 0 ELSE MaxStored - ws.stored

afterCopy(rule) == IF rule = NoHit THEN "capture" ELSE "stamp"

\* The header is written and the payload copied; as much of it is kept as
\* there was room when the copy began.  A frame that a rule omits is read and
\* not written.  Any of it may fail, unless all has been read and nothing is
\* written.
tee(d) ==
  /\ P(d).pc = "tee"
  /\ \/ /\ ws.open \/ P(d).read
        /\ Pump(d, [P(d) EXCEPT !.kept = IF P(d).read THEN P(d).len ELSE min(P(d).len, storeRemain),
                                !.pc = afterCopy(P(d).rule)])
     \/ (P(d).read => P(d).rule = NoHit) /\ Returns(d)

frame(d, words) ==
  [host |-> Snap.host, path |-> Snap.path, method |-> Snap.method, headers |-> Snap.headers,
   opcode |-> P(d).op, direction |-> d, words |-> words]

\* pumpRules: a payload a rule has to see is read first, if it fits the cap.
readPayload(d) ==
  /\ P(d).pc = "match"
  /\ IF P(d).op = "close" /\ P(d).len = 1
     THEN Pump(d, [P(d) EXCEPT !.pc = "fail"])
     ELSE LET reads == P(d).len > 0 /\ NeedsFramePayload(ws.rules, frame(d, {}), P(d).len, MaxStored)
          IN  \/ Pump(d, [P(d) EXCEPT !.read = reads, !.pc = "decide"])
              \/ reads /\ Returns(d)

pumpRules(d) ==
  /\ P(d).pc = "decide"
  /\ Pump(d, [P(d) EXCEPT !.pc = "tee", !.rule =
       Match(ws.rules, "websocket", frame(d, IF P(d).read THEN P(d).words ELSE {}))])

stampRule(d) ==
  /\ P(d).pc = "stamp"
  /\ ws' = [ws EXCEPT !.pump[d].pc = "capture",
             !.state = IF P(d).rule = "block" THEN "completed" ELSE ws.state]
  /\ UNCHANGED udp

\* Mutant: what the copy kept is stored without looking at the room again.
appendCapturedFrameStale(kept, declared) ==
  IF ws.stop \/ Len(ws.frames) >= WSMaxFrames
  THEN [ws EXCEPT !.count = @ + 1, !.truncated = TRUE, !.stop = TRUE]
  ELSE [ws EXCEPT !.count = @ + 1, !.stored = @ + kept,
          !.truncated = @ \/ declared > kept, !.stop = @ \/ declared > kept,
          !.frames = Append(@, [size |-> kept, whole |-> declared = kept])]

\* One frame is counted, and stored if there is room for it and for another
\* entry; the first one that is cut short is the last.
appendCapturedFrame(kept, declared) ==
  LET remain == MaxStored - ws.stored
      size == min(kept, remain)
      cut == declared > size
  IN  IF ws.stop \/ Len(ws.frames) >= WSMaxFrames \/ remain = 0
      THEN [ws EXCEPT !.count = ws.count + 1, !.truncated = TRUE, !.stop = TRUE]
      ELSE [ws EXCEPT !.count = ws.count + 1, !.stored = ws.stored + size,
              !.truncated = ws.truncated \/ cut, !.stop = cut,
              !.frames = Append(ws.frames, [size |-> size, whole |-> ~cut])]

captureFrame(d) ==
  /\ P(d).pc = "capture"
  /\ LET p == P(d)
         short == ~rulesPath /\ p.op = "close" /\ p.len = 1
         pc == CASE short -> "fail"
                 [] p.rule = "block" -> "closeBoth"
                 [] p.rule = "drop" -> "top"
                 [] p.op = "close" -> "end"
                 [] OTHER -> "top"
     IN  ws' = [(IF short THEN ws ELSE appendCapturedFrame(p.kept, p.len))
                 EXCEPT !.pump[d] = [idlePump EXCEPT !.pc = pc, !.wire = p.wire]]
  /\ UNCHANGED udp

\* A close frame has been forwarded.
closeForwarded(d) == P(d).pc = "end" /\ Returns(d)

protocolError(d) ==
  /\ P(d).pc = "fail"
  /\ ws' = [ws EXCEPT !.error = TRUE, !.state = "error", !.pump[d].pc = "closeBoth"]
  /\ UNCHANGED udp

closeBoth(d) ==
  /\ P(d).pc = "closeBoth"
  /\ ws' = [ws EXCEPT !.open = FALSE, !.pump[d] = [idlePump EXCEPT !.pc = "done"]]
  /\ UNCHANGED udp

\* Both pumps are done: the flow is completed and recorded.
inspectUpgrade ==
  /\ ws.flow = "none" /\ \A d \in Directions : P(d).pc = "done"
  /\ ws' = [ws EXCEPT !.flow = "recorded", !.open = FALSE]
  /\ UNCHANGED udp

-----------------------------------------------------------------------------
(* The UDP association.                                                    *)

Udp(v) == udp' = v /\ UNCHANGED ws

\* pickUDPIP: the first address of the family the relay listens on.
pickUDPIP(all) ==
  LET fit == {k \in DOMAIN all : all[k].v4 = udp.v4}
  IN  IF fit = {} THEN Denied ELSE all[Min(fit)]

\* Mutant: a name is looked up again for every datagram.
selectUDPDestAgain(n, looked) == pickUDPIP(resolvedAndGuarded(udp.targets, n, looked))

\* A name is looked up once; what came of it, a refusal too, stays.
selectUDPDest(n, looked) ==
  IF udp.pins[n] = NoOne THEN pickUDPIP(resolvedAndGuarded(udp.targets, n, looked)) ELSE udp.pins[n]

udpFamilyMismatch(a) == a.v4 # udp.v4

\* A destination given as an address is not pinned.
selectUDPLiteral(a) == IF denyIP(udp.targets, a) \/ udpFamilyMismatch(a) THEN Denied ELSE a

\* The datagram goes out unless its destination is denied or the proxy itself,
\* or the write fails.  The name stays pinned all the same.
Outgoing(v, key, dest, goes) ==
  IF ~goes \/ dest = Denied \/ isHairpin(udp.targets.listeners, dest) THEN v
  ELSE [v EXCEPT !.origins = v.origins \cup {dest},
                 !.sent = [v.sent EXCEPT ![key] = v.sent[key] \cup {dest}]]

\* Answers of the resolver, empty when it fails; the order is its own.
Lookups == SeqOf(RelayAddresses, 2)

\* The first datagram, malformed or not, decides who the client is.
forwardSOCKSUDPClient(from) ==
  /\ udp.open /\ udp.client \in {NoOne, from} /\ udp.out < MaxOut
  /\ LET v == [udp EXCEPT !.client = from, !.out = udp.out + 1] IN
     \E goes \in BOOLEAN :
       \/ \E n \in Names, looked \in Lookups :
            LET dest == selectUDPDest(n, looked)
            IN  Udp(Outgoing([v EXCEPT !.pins = [udp.pins EXCEPT ![n] = dest]], n, dest, goes))
       \/ \E a \in RelayAddresses : Udp(Outgoing(v, Literal, selectUDPLiteral(a), goes))
       \/ Udp(v)

\* Someone other than the client: only a destination that was written to.
relayFrom(from) == udp.client # NoOne /\ from # udp.client /\ from \in udp.origins

relaySOCKSUDP(from) ==
  /\ udp.open /\ relayFrom(from)
  /\ IF udp.in >= MaxDatagrams
     THEN Udp([udp EXCEPT !.truncated = TRUE])
     ELSE Udp([udp EXCEPT !.in = udp.in + 1, !.back = udp.back \cup {from}])

\* A deadline, the end of the control connection, or shutdown.
UDPEnds == udp.open /\ Udp([udp EXCEPT !.open = FALSE])

-----------------------------------------------------------------------------
Inspect(d) ==
  \/ pump(d) \/ readClosed(d) \/ readPayload(d) \/ pumpRules(d) \/ tee(d) \/ stampRule(d) \/ captureFrame(d)
  \/ closeForwarded(d) \/ protocolError(d) \/ closeBoth(d)

Peer(d) ==
  \/ readEnds(d) \/ malformed(d)
  \/ \E op \in Opcodes, len \in Lengths, words \in SUBSET Words :
       (len = 0 => words = {}) /\ ReadHeader(d, op, len, words)

Associate ==
  \/ \E from \in Strangers : forwardSOCKSUDPClient(from)
  \/ \E from \in RelayAddresses \cup Strangers : relaySOCKSUDP(from)
  \/ UDPEnds

RelayNext == inspectUpgrade \/ (\E d \in Directions : Inspect(d) \/ Peer(d)) \/ Associate

RelaySpec == RelayInit /\ [][RelayNext]_relayVars

-----------------------------------------------------------------------------
\* The recorded frames never exceed the caps although each pump measures the
\* room before it copies and stores afterwards; and unless the flow says it is
\* truncated, every frame that passed is recorded in full.
FramesAreExact ==
  /\ ws.stored <= MaxStored /\ Len(ws.frames) <= WSMaxFrames
  /\ ws.stored = SumFunctionOnSet([k \in DOMAIN ws.frames |-> ws.frames[k].size], DOMAIN ws.frames)
  /\ ws.truncated \/ (Len(ws.frames) = ws.count /\ \A k \in DOMAIN ws.frames : ws.frames[k].whole)

\* A rule is applied to a frame exactly when it is the first to match the frame
\* with its payload in view, though the pump reads a payload only if it thinks a
\* rule will ask for it, and none over the cap (NeedsFramePayload, Match).
FirstMatchWins ==
  \A d \in Directions :
    P(d).pc \in {"tee", "stamp", "capture"} /\ rulesPath =>
      P(d).rule = Match(ws.rules, "websocket",
                        frame(d, IF P(d).len <= MaxStored THEN P(d).words ELSE {}))

\* An association sends every datagram for a name to the one address that the
\* name was first found to have, never to an address the targets deny, to the
\* proxy itself nor to the other family, and passes back only what comes from where something was sent.
RelayIsPinned ==
  /\ \A n \in Names : udp.sent[n] \subseteq {udp.pins[n]} \ {NoOne, Denied}
  /\ \A a \in udp.origins :
       ~denyIP(udp.targets, a) /\ ~isHairpin(udp.targets.listeners, a) /\ a.v4 = udp.v4
  /\ udp.back \subseteq udp.origins
=============================================================================
