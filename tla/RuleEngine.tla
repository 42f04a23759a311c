----------------------------- MODULE RuleEngine -----------------------------
(***************************************************************************)
(* Which rule wins (internal/rules/engine.go, match.go), and which lists   *)
(* of rules a configuration may hold (internal/config/validate.go).  A     *)
(* rule is a record; Unset in a field, or the empty sequence, asks for     *)
(* nothing.  A payload is the set of the words it contains, so that an     *)
(* unread one contains none; headers are a set likewise.  The host, path   *)
(* and method of a request are those of its pseudo headers when it has     *)
(* them.                                                                   *)
(***************************************************************************)
EXTENDS Naturals, Sequences, FiniteSets, FiniteSetsExt, TargetGuard

Unset == ""
NoHit == "none"
Phases == {"request", "response", "websocket"}
KnownActions == {"breakpoint", "drop", "delay", "status", "header", "body", "silent",
                 "hang", "redirect", "block", "throttle"}

\* What a rule may ask and do in its phase.
validateRulePhaseAction(item) ==
  /\ item.phase = "websocket" => item.action \in {"drop", "block"}
  /\ item.phase # "websocket" =>
       item.action # "block" /\ {item.opcode, item.direction, item.payload} = {Unset}

\* A list that validation accepts.
validateRules(items) ==
  /\ \A i, j \in DOMAIN items : items[i].id = items[j].id => i = j
  /\ \A i \in DOMAIN items :
       /\ items[i].phase \in Phases /\ items[i].action \in KnownActions
       /\ validateRulePhaseAction(items[i])

matchANDExceptPayload(m, in) ==
  /\ m.host.name = << >> \/ matchHost(m.host, in.host)
  /\ m.pathExact = << >> \/ m.pathExact = in.path
  /\ IsPrefix(m.pathPrefix, in.path)
  /\ m.method \in {Unset, in.method}
  /\ m.header = Unset \/ m.header \in in.headers
  /\ m.opcode \in {Unset, in.opcode}
  /\ m.direction \in {Unset, in.direction}

matchAND(m, in) == matchANDExceptPayload(m, in) /\ (m.payload = Unset \/ m.payload \in in.words)

\* The action of the first enabled rule of the phase that matches.
Match(items, phase, in) ==
  LET hits == {k \in DOMAIN items :
                 items[k].enabled /\ items[k].phase = phase /\ matchAND(items[k], in)}
  IN  IF hits = {} THEN NoHit ELSE items[Min(hits)].action

Live(items) == {k \in DOMAIN items : items[k].enabled /\ items[k].phase = "websocket"}

HasEnabledWebSocket(items) == Live(items) # {}

\* Mutant: only the first rule is asked, whether it could match or not.
NeedsFirstPayload(items, in, declared, cap) ==
  Live(items) # {} /\ items[Min(Live(items))].payload # Unset /\ declared <= cap

\* Whether a frame's payload has to be read before the rules are matched: the
\* first rule that could win asks for it.  A payload over the cap is not read,
\* and a rule that asks for it cannot win.
NeedsFramePayload(items, in, declared, cap) ==
  LET may == {k \in Live(items) : /\ matchANDExceptPayload(items[k], in)
                                  /\ items[k].payload = Unset \/ declared <= cap}
  IN  may # {} /\ items[Min(may)].payload # Unset
=============================================================================
