---------------------------- MODULE MCFlowStore ----------------------------
(***************************************************************************)
(* A small instance of FlowStore for TLC.                                  *)
(***************************************************************************)
EXTENDS FlowStore

\* Two small rows fit the first caps and one large row fills them, so that an
\* insert or a patch evicts; the others hold one row, and a row prepared under
\* the first is too large for the last.
MCCapSet ==
  {[maxFlows |-> 2, maxBytes |-> 4, maxBody |-> 3, policy |-> "evict_oldest"],
   [maxFlows |-> 1, maxBytes |-> 4, maxBody |-> 2, policy |-> "reject"],
   [maxFlows |-> 1, maxBytes |-> 3, maxBody |-> 2, policy |-> "evict_oldest"]}

ClientSymmetry == Permutations(Clients)

\* What earlier calls returned and how many rows were ever evicted are read by
\* no action, and the generation only up to its bound: states that differ only
\* there have the same behaviours.
WithoutHistory ==
  <<caps, epoch, Min({generation, MaxGen}), bytes, rows, order, paused, nextId, now,
    pc, prep, want, chan>>

=============================================================================
