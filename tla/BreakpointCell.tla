--------------------------- MODULE BreakpointCell ---------------------------
(***************************************************************************)
(* What WaitPaused / Resume / Drop / ExpireBreakpoint / Wipe promise about *)
(* a breakpoint, without mutex, map of waiters, channels or stored         *)
(* results.  A row is armed while it is paused.  One step decides any      *)
(* number of armed rows and answers everybody who is held by them.         *)
(***************************************************************************)
EXTENDS Naturals

CONSTANTS Ids, Clients, Verdicts, None

VARIABLES
  armed,   \* ids whose breakpoint is undecided
  busy,    \* the clients inside WaitPaused
  held,    \* the id a client is held by, 0 when it is not held
  out      \* the answer a client has, None while it is held

cellVars == <<armed, busy, held, out>>

Init ==
  /\ armed = {} /\ busy = {}
  /\ held = [c \in Clients |-> 0]
  /\ out = [c \in Clients |-> None]

\* The rows in D get their verdicts, the rows in N become paused.
Decide(D, N, v) ==
  /\ armed' = (armed \ D) \cup N
  /\ held' = [c \in Clients |-> IF held[c] \in D THEN 0 ELSE held[c]]
  /\ out' = [c \in Clients |-> IF held[c] \in D THEN v[held[c]] ELSE out[c]]
  /\ UNCHANGED busy

\* A client arrives while the row is undecided.
Hold(c, id) ==
  /\ c \notin busy
  /\ busy' = busy \cup {c}
  /\ held' = [held EXCEPT ![c] = id]
  /\ out' = [out EXCEPT ![c] = None]
  /\ UNCHANGED armed

\* A client arrives too late, or at a row that has no breakpoint.
Miss(c, answer) ==
  /\ c \notin busy
  /\ out' = [out EXCEPT ![c] = answer]
  /\ UNCHANGED <<armed, busy, held>>

\* A client that was answered returns with that answer and no other.
Return(c) ==
  /\ c \in busy /\ held[c] = 0
  /\ busy' = busy \ {c}
  /\ UNCHANGED <<armed, held, out>>

\* The context of a client ends before the row is decided.
GiveUp(c) ==
  /\ held[c] \in armed
  /\ busy' = busy \ {c}
  /\ held' = [held EXCEPT ![c] = 0]
  /\ out' = [out EXCEPT ![c] = "ctx"]
  /\ UNCHANGED armed

Next ==
  \/ \E D \in SUBSET armed, N \in SUBSET (Ids \ armed) :
       \E v \in [D -> Verdicts] : Decide(D, N, v)
  \/ \E c \in Clients :
       \/ \E id \in armed : Hold(c, id)
       \/ \E a \in Verdicts \cup {"inactive"} : Miss(c, a)
       \/ Return(c)
       \/ GiveUp(c)

Spec == Init /\ [][Next]_cellVars

=============================================================================
