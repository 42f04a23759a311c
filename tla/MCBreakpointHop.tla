--------------------------- MODULE MCBreakpointHop ---------------------------
(***************************************************************************)
(* Small instances of BreakpointHop for TLC.                               *)
(***************************************************************************)
EXTENDS BreakpointHop

\* One row fits, so that one hop's insert evicts the other's paused row.
MCEvictCap ==
  {[maxFlows |-> 1, maxBytes |-> 4, maxBody |-> 3, policy |-> "evict_oldest"]}

MCOneCap ==
  {[maxFlows |-> 2, maxBytes |-> 4, maxBody |-> 3, policy |-> "reject"]}

=============================================================================
