------------------------------- MODULE MCInbox -------------------------------
(* A small inbox: two flows fit, three are inserted, one page holds one.    *)
EXTENDS Inbox

CONSTANTS w1, r1

SmallOrPaused == {[big |-> {}, paused |-> "no"], [big |-> {"req", "resp"}, paused |-> "req"]}
=============================================================================
