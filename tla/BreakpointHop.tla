---------------------------- MODULE BreakpointHop ----------------------------
(***************************************************************************)
(* A proxied hop that stops at a breakpoint: waitBreakpoint of             *)
(* internal/proxy/rules.go composed with the flow store, with operators    *)
(* that resume, drop or delete the paused row, caps that change and the    *)
(* store being wiped at any moment.  waitBreakpoint takes the store's      *)
(* mutex five times (twice in Insert, up to twice in WaitPaused, then Get  *)
(* and ExpireBreakpoint) and holds nothing in between.                     *)
(***************************************************************************)
EXTENDS FlowStore

\* What an operator was told: the verb that succeeded, and whether its patch had
\* a body.
Acks == [verb : {"resumed", "dropped"}, body : BOOLEAN]

ASSUME NoneAssumption == None \notin Acks /\ None \notin States

VARIABLES
  stage,     \* "new", "insert", "stored", "wait", "lookup", "expire", "done"
  tid,       \* the id Insert returned, 0 before
  ack,       \* the verb an operator was told succeeded, per id
  late,      \* ids decided after their hop looked the row up for the last time
  outcome,   \* bpResult: "resumed", "dropped" or "timedout"
  forward    \* the message sent on: "original", "patched", "prefix", None when none

hopVars == <<stage, tid, ack, late, outcome, forward>>
allVars == <<vars, hopVars>>

Bodyless(id) == ack[id] # None /\ ~ack[id].body

HopInit ==
  /\ Init
  /\ stage = [c \in Clients |-> "new"]
  /\ tid = [c \in Clients |-> 0]
  /\ ack = [i \in 1 .. MaxId |-> None]
  /\ late = {}
  /\ outcome = [c \in Clients |-> None]
  /\ forward = [c \in Clients |-> None]

GoTo(c, s) == stage' = [stage EXCEPT ![c] = s]

\* The hop has its bpResult.  A patch replaces the body only when it carries one.
Finished(c, o, f) ==
  /\ GoTo(c, "done")
  /\ outcome' = [outcome EXCEPT ![c] = o]
  /\ forward' = [forward EXCEPT ![c] = f]

\* The hop inserts its paused flow with the epoch it pinned when it began.
HopInsert(c) ==
  /\ stage[c] = "new"
  /\ \E phase \in Phases, hdr \in Hdrs, raw \in Bodies, e \in 1 .. epoch :
       InsertBegin(c, "paused", phase, hdr, raw, now, e)
  /\ IF pc'[c] = "insert"
       THEN GoTo(c, "insert") /\ UNCHANGED <<outcome, forward>>
       ELSE Finished(c, "timedout", "original")
  /\ UNCHANGED <<tid, ack, late>>

HopStored(c) ==
  /\ stage[c] = "insert"
  /\ InsertCommit(c)
  /\ IF ins'[c] = "inserted"
       THEN /\ GoTo(c, "stored")
            /\ tid' = [tid EXCEPT ![c] = prep[c].id]
            /\ UNCHANGED <<outcome, forward>>
       ELSE /\ Finished(c, "timedout", "original")
            /\ UNCHANGED tid
  /\ UNCHANGED <<ack, late>>

HopWaitEnter(c) ==
  /\ stage[c] = "stored"
  /\ WaitEnter(c, tid[c])
  /\ GoTo(c, IF pc'[c] = "wait" THEN "wait" ELSE "lookup")
  /\ UNCHANGED <<tid, ack, late, outcome, forward>>

HopWaitForever(c) ==
  /\ stage[c] = "wait"
  /\ WaitWake(c)
  /\ GoTo(c, "lookup")
  /\ UNCHANGED <<tid, ack, late, outcome, forward>>

HopWaitReturnBlind(c) ==
  /\ stage[c] = "wait"
  /\ WaitWake(c) \/ WaitCtxDone(c)
  /\ GoTo(c, "expire")
  /\ UNCHANGED <<tid, ack, late, outcome, forward>>

\* WaitPaused returns: an answer arrived, or the breakpoint's timeout or the
\* client's disconnect ended the context.
HopWaitReturn(c) ==
  /\ stage[c] = "wait"
  /\ WaitWake(c) \/ WaitCtxDone(c)
  /\ GoTo(c, "lookup")
  /\ UNCHANGED <<tid, ack, late, outcome, forward>>

\* What the patch WaitPaused returned makes of the message: a body that was
\* truncated and not replaced stays nil, so prefix and tail are forwarded.
Patched(c) == IF Bodyless(tid[c]) THEN "original" ELSE "patched"

\* What patchFromFlow may make of it: always the stored body, which is only the
\* captured prefix when the message was longer than that.
FromFlow(c) == IF Bodyless(tid[c]) THEN {"original", "prefix"} ELSE {"patched"}

\* The second look at the row decides, in this order.
HopLookup(c) ==
  LET id == tid[c]
      state == IF id \in DOMAIN rows THEN rows[id].state ELSE None
  IN  /\ stage[c] = "lookup"
      /\ IF state = "dropped" THEN Finished(c, "dropped", None)
         ELSE IF state \in {"open", "completed"} THEN
           \E f \in IF ret[c] = "resumed" THEN {Patched(c)} ELSE FromFlow(c) :
             Finished(c, "resumed", f)
         ELSE IF ret[c] = "resumed" THEN Finished(c, "resumed", Patched(c))
         ELSE IF ret[c] = "dropped" THEN Finished(c, "dropped", None)
         ELSE GoTo(c, "expire") /\ UNCHANGED <<outcome, forward>>
      /\ UNCHANGED <<vars, tid, ack, late>>

\* ExpireBreakpoint's own error (row gone or no longer paused) is ignored.
HopExpire(c) ==
  /\ stage[c] = "expire"
  /\ IF tid[c] \in DOMAIN rows /\ rows[tid[c]].state = "paused"
       THEN ExpireBreakpoint(tid[c])
       ELSE UNCHANGED vars
  /\ Finished(c, "timedout", "original")
  /\ UNCHANGED <<tid, ack, late>>

HopStep(c) ==
  \/ HopInsert(c) \/ HopStored(c) \/ HopWaitEnter(c)
  \/ HopWaitReturn(c) \/ HopLookup(c) \/ HopExpire(c)

-----------------------------------------------------------------------------
\* An operator's verb succeeds on the row id.
Acknowledge(id, verb, body) ==
  /\ ack' = [ack EXCEPT ![id] = [verb |-> verb, body |-> body]]
  /\ late' = IF \E c \in Clients : tid[c] = id /\ stage[c] = "expire"
               THEN late \cup {id} ELSE late
  /\ UNCHANGED <<stage, tid, outcome, forward>>

Operator ==
  \E id \in DOMAIN rows :
    \/ \E body \in Bodies \cup {None} :
         Resume(id, None, body) /\ Acknowledge(id, "resumed", body # None)
    \/ Drop(id) /\ Acknowledge(id, "dropped", FALSE)
    \/ Delete(id) /\ UNCHANGED hopVars

Environment ==
  /\ \/ \E o \in CapSet : ReplaceCaps(o, TRUE) \/ ResetTo(o)
     \/ Tick
  /\ UNCHANGED hopVars

HopNext ==
  \/ \E c \in Clients : HopStep(c)
  \/ Operator
  \/ Environment
  \/ (\A c \in Clients : stage[c] = "done") /\ UNCHANGED allVars

\* Each goroutine is scheduled, and every breakpoint context has a deadline:
\* ClampBreakpointTimeout is at most a minute.
HopSpec ==
  /\ HopInit /\ [][HopNext]_allVars
  /\ \A c \in Clients : WF_allVars(HopStep(c))

-----------------------------------------------------------------------------
\* A hop that went on and its row agree.  It was dropped or patched only because
\* an operator did that to its row: eviction, deletion, wipes and timeouts never
\* look like a verdict.  A verdict acknowledged before the hop's last look at the
\* row is its outcome, however it races the timeout.  And the row cannot be
\* resumed any more, so a late operator is told so instead of a false success.
HopAgreesWithRow ==
  \A c \in Clients : stage[c] = "done" =>
    LET id == tid[c] IN
    /\ outcome[c] \in {"resumed", "dropped"} =>
         id # 0 /\ ack[id] # None /\ ack[id].verb = outcome[c]
    /\ id \in DOMAIN rows =>
         /\ rows[id].state # "paused"
         /\ ack[id] # None /\ id \notin late => outcome[c] = ack[id].verb

\* "If a Resume raced the ctx timeout, honor the applied patch."
EveryVerdictHonored ==
  \A c \in Clients :
    stage[c] = "done" /\ tid[c] \in DOMAIN rows /\ ack[tid[c]] # None
      => outcome[c] = ack[tid[c]].verb

\* What docs/04 says of a Resume without a body: the proxy forwards the captured
\* prefix and the unread tail rather than only the prefix.
TailIsForwarded == \A c \in Clients : forward[c] # "prefix"

\* No hop hangs at a breakpoint.
HopTerminates ==
  \A c \in Clients : stage[c] # "new" ~> stage[c] = "done"

=============================================================================
