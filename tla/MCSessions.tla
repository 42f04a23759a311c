----------------------------- MODULE MCSessions -----------------------------
EXTENDS Sessions

CONSTANTS c1, a1

\* The second session may also come from an address that does not parse.
MCIPs(i) == IF i = c1 THEN {a1} ELSE {a1, NoIP}

\* The first session comes in by every door, the second competes with it for the
\* gate and runs plain exchanges and upgrades.
MCDoors(i) ==
  IF i = c1 THEN {"http", "socks", "origTLS", "origHTTP", "h2c", "replay"} ELSE {"origHTTP"}

\* Its exchanges meet no response rule; those of the first meet every kind.
MCReqActions(i) == IF i = c1 THEN {"none", "hang", "breakpoint"} ELSE {"none", "breakpoint"}
MCRespActions(i) == IF i = c1 THEN {"none", "hang", "breakpoint"} ELSE {"none"}

MCLimits ==
  { [sessions |-> 1, perIP |-> 0, inflight |-> 0],
    [sessions |-> 0, perIP |-> 1, inflight |-> 2] }
=============================================================================
