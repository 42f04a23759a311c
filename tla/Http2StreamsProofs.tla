------------------------- MODULE Http2StreamsProofs -------------------------
(***************************************************************************)
(* Proofs about the HTTP/2 streams that clients open on the proxy, for     *)
(* every value of the constants:                                           *)
(*   InnerStreams   those of an intercepted connection, and the origin     *)
(*                  connection they share: OriginIsReserved,               *)
(*                  AnsweredIsRecorded;                                    *)
(*   Http2Serve     the connection under them: AccountsBalance,            *)
(*                  UploadOutlivesResponse.                                *)
(* The two do not interact: each has variables and a specification of its  *)
(* own.                                                                    *)
(***************************************************************************)
EXTENDS InnerStreams, Http2Serve, IndexLemmas

-----------------------------------------------------------------------------
(* InnerStreams.  OriginIsReserved says when a stream must hold originMu.  *)
(* It is kept because the converse holds too: nobody holds originMu who is *)
(* not about to use the origin or has its response open (Reserves).  What  *)
(* a stream's body can be at each point is Bodies, and what has been       *)
(* recorded and answered there is Written.                                 *)

Pcs ==
  {"idle", "match", "reqSleep", "reqPaused", "forward", "roundTrip", "awaitResponse", "drain",
   "respond", "respSleep", "respPaused", "write", "copy", "finish", "upgrade", "tunnel",
   "inspect", "synthesize", "silentClose", "abort", "done", "continue", "failed"}
Lefts == {"none", "tail", "all"}
Bodys == {"none", "open", "closed"}
KindNames == {"http", "ws"}
Answers == {"none", "headers", "end", "reset"}
Links == {"fresh", "shared", "busy", "idle", "dead"}

StreamRecords ==
  [pc : Pcs, req : Actions, resp : Actions, size : Sizes, rsize : Sizes, left : Lefts,
   from : Bodys, rows : Nat, resumed : BOOLEAN, skip : BOOLEAN, wrote : Nat,
   kind : KindNames, gone : BOOLEAN, unsent : Nat, queue : Seq({"chunk", "eof"}),
   drained : BOOLEAN, answer : Answers]

TypeOK ==
  /\ s \in [Streams -> StreamRecords]
  /\ originMu \in Streams \cup {Nobody} /\ conn \in Links /\ originH2 \in BOOLEAN

\* Before the origin has answered; and where its connection is in use by then.
Using == {"roundTrip", "awaitResponse", "drain"}
Early == {"idle", "match", "reqSleep", "reqPaused", "forward"} \cup Using

\* Where the client has not been answered.
Unanswered ==
  Early \cup {"respond", "respSleep", "respPaused", "write", "copy", "finish", "upgrade",
              "silentClose", "abort"}

\* Where the flow of the exchange has still to be recorded, unless a breakpoint
\* stored it, and where it has been.
Unrecorded ==
  (Early \ {"reqPaused"}) \cup {"respond", "respSleep", "write", "copy", "finish", "upgrade",
                                "inspect"}
Recorded == {"tunnel", "synthesize", "silentClose", "reqPaused", "respPaused"}

Bodies(e) ==
  /\ e.pc \in Early => e.from = "none"
  /\ e.pc = "finish" => e.from = "closed"
  /\ e.pc = "respPaused" /\ e.from = "open" => e.rsize = "over"

Written(e) ==
  /\ e.wrote <= 1
  /\ e.pc \in Unanswered => e.wrote = 0
  /\ e.rows > 1 => e.resumed \/ e.skip
  /\ e.pc \in Unrecorded /\ e.rows > 0 => e.resumed \/ e.skip
  /\ e.pc \in Recorded => e.rows > 0
  /\ e.skip => e.rows > 0
  /\ e.pc \in {"match", "reqSleep", "reqPaused"} => ~e.skip
  /\ e.pc = "done" /\ e.wrote > 0 => e.rows > 0

Stream(e) == e \in StreamRecords /\ Bodies(e) /\ Written(e)

\* Who needs the origin's connection, and the reservation mu of it.
Needs(e) == e.pc \in Using \/ e.from = "open"
Reserves(t, mu, h2) == \A i \in Streams : mu = i <=> ~h2 /\ Needs(t[i])

StreamsInv ==
  /\ TypeOK
  /\ \A i \in Streams : Stream(s[i])
  /\ Reserves(s, originMu, originH2)

-----------------------------------------------------------------------------
(* One stream moves.                                                       *)

\* The values the actions write are of their fields' types.
LEMMA Literals ==
  /\ Unanswered \cup Unrecorded \cup Recorded \cup {"done", "continue", "failed"} \subseteq Pcs
  /\ "none" \in Actions /\ "none" \in Sizes
  /\ "none" \in Lefts /\ "tail" \in Lefts /\ "all" \in Lefts
  /\ "none" \in Bodys /\ "open" \in Bodys /\ "closed" \in Bodys
  /\ "http" \in KindNames /\ "ws" \in KindNames
  /\ "none" \in Answers /\ "headers" \in Answers /\ "end" \in Answers /\ "reset" \in Answers
BY DEF Pcs, Unanswered, Unrecorded, Recorded, Early, Using, Actions, Sizes, Lefts, Bodys,
       KindNames, Answers

LEMMA StreamAt ==
  ASSUME StreamsInv, NEW i \in Streams
  PROVE  /\ s \in [Streams -> StreamRecords] /\ s[i] \in StreamRecords
         /\ Bodies(s[i]) /\ Written(s[i]) /\ conn \in Links /\ originH2 \in BOOLEAN
BY DEF StreamsInv, TypeOK, Stream

\* A stream goes on and the reservation stays with whom it is.
LEMMA Moves ==
  ASSUME StreamsInv, NEW i \in Streams, NEW e, Stream(e), Set(i, e),
         originMu' = originMu, originH2' = originH2, conn' \in Links, Needs(e) <=> Needs(s[i])
  PROVE  StreamsInv'
<1>1. s \in [Streams -> StreamRecords] /\ e \in StreamRecords /\ s' = [s EXCEPT ![i] = e]
  BY DEF StreamsInv, TypeOK, Stream, Set
<1>2. TypeOK'
  BY <1>1 DEF StreamsInv, TypeOK
<1>3. \A j \in Streams : Stream(s'[j])
  BY <1>1 DEF StreamsInv
<1>4. \A j \in Streams : Needs(s'[j]) <=> Needs(s[j])
  BY <1>1
<1>5. Reserves(s', originMu', originH2')
  BY <1>4 DEF StreamsInv, Reserves
<1> QED BY <1>2, <1>3, <1>5 DEF StreamsInv

\* A stream is done with the origin and gives the reservation back.
LEMMA Frees ==
  ASSUME StreamsInv, NEW i \in Streams, NEW e, Stream(e), Set(i, e), Release(i),
         originH2' = originH2, conn' \in Links, ~Needs(e)
  PROVE  StreamsInv'
<1>1. s \in [Streams -> StreamRecords] /\ e \in StreamRecords /\ s' = [s EXCEPT ![i] = e]
  BY DEF StreamsInv, TypeOK, Stream, Set
<1>2. originMu' = (IF originMu = i THEN Nobody ELSE originMu) /\ Nobody \notin Streams
  BY StreamsAssumption DEF Release
<1>3. TypeOK'
  BY <1>1, <1>2 DEF StreamsInv, TypeOK
<1>4. \A j \in Streams : Stream(s'[j])
  BY <1>1 DEF StreamsInv
<1>5. \A j \in Streams : Needs(s'[j]) <=> (j # i /\ Needs(s[j]))
  BY <1>1
<1>6. Reserves(s', originMu', originH2')
  BY <1>2, <1>5 DEF StreamsInv, Reserves
<1> QED BY <1>3, <1>4, <1>6 DEF StreamsInv

\* Lock: the stream takes the reservation that nobody has.
LEMMA LockKeeps ==
  ASSUME StreamsInv, NEW i \in Streams, Lock(i)
  PROVE  StreamsInv'
<1> DEFINE e == [s[i] EXCEPT !.pc = "roundTrip"]
<1>1. s \in [Streams -> StreamRecords] /\ s[i] \in StreamRecords /\ Bodies(s[i]) /\ Written(s[i])
  BY StreamAt
<1>2. /\ s[i].pc = "forward" /\ (originH2 \/ originMu = Nobody)
      /\ originMu' = (IF originH2 THEN originMu ELSE i)
      /\ s' = [s EXCEPT ![i] = e] /\ conn' = conn /\ originH2' = originH2
  BY DEF Lock, Set
<1>3. e \in StreamRecords
  BY <1>1, Literals DEF StreamRecords, Unrecorded, Early, Using
<1>4. /\ e.pc = "roundTrip" /\ e.from = s[i].from /\ e.rsize = s[i].rsize
      /\ e.rows = s[i].rows /\ e.resumed = s[i].resumed /\ e.skip = s[i].skip
      /\ e.wrote = s[i].wrote
  BY <1>1 DEF StreamRecords
<1> HIDE DEF e
<1>5. Stream(e)
  BY <1>1, <1>2, <1>3, <1>4 DEF Stream, Bodies, Written, Early, Using, Unanswered, Unrecorded,
     Recorded
<1>6. TypeOK'
  BY <1>1, <1>2, <1>3 DEF StreamsInv, TypeOK
<1>7. \A j \in Streams : Stream(s'[j])
  BY <1>1, <1>2, <1>5 DEF StreamsInv
<1>8. \A j \in Streams : Needs(s'[j]) <=> (j = i \/ Needs(s[j]))
  BY <1>1, <1>2, <1>4 DEF Needs, Using
<1>9. ~Needs(s[i])
  BY <1>1, <1>2 DEF Needs, Using, Bodies, Early
<1>10. Reserves(s', originMu', originH2')
  BY <1>2, <1>8, <1>9, StreamsAssumption DEF StreamsInv, Reserves
<1> QED BY <1>6, <1>7, <1>10 DEF StreamsInv

\* What a stream must be like for its exchange to be over.
Ready(e) ==
  /\ e \in StreamRecords
  /\ e.wrote <= 1
  /\ e.rows > 1 => e.resumed \/ e.skip
  /\ e.skip => e.rows > 0
  /\ e.wrote > 0 => e.rows > 0

LEMMA OverIsDone ==
  ASSUME NEW e, Ready(e)
  PROVE  LET d == [e EXCEPT !.pc = "done", !.req = "none", !.resp = "none", !.rsize = "none",
                     !.from = "closed", !.unsent = 0, !.drained = FALSE, !.kind = "http"]
         IN  Stream(d) /\ ~Needs(d)
<1> DEFINE d == [e EXCEPT !.pc = "done", !.req = "none", !.resp = "none", !.rsize = "none",
                   !.from = "closed", !.unsent = 0, !.drained = FALSE, !.kind = "http"]
<1>1. d \in StreamRecords
  BY Literals DEF Ready, StreamRecords
<1>2. /\ d.pc = "done" /\ d.from = "closed" /\ d.rows = e.rows /\ d.resumed = e.resumed
      /\ d.skip = e.skip /\ d.wrote = e.wrote
  BY DEF Ready, StreamRecords
<1> HIDE DEF d
<1>3. Stream(d) /\ ~Needs(d)
  BY <1>1, <1>2 DEF Stream, Needs, Bodies, Written, Ready, Early, Using, Unanswered, Unrecorded,
     Recorded
<1> QED BY <1>3 DEF d

\* The end of a stream that holds the origin, or that does not.
LEMMA OversFree ==
  ASSUME StreamsInv, NEW i \in Streams, NEW e, Ready(e), Over(i, e), Release(i),
         originH2' = originH2, conn' \in Links
  PROVE  StreamsInv'
BY OverIsDone, Frees DEF Over

LEMMA OversKeep ==
  ASSUME StreamsInv, NEW i \in Streams, NEW e, Ready(e), Over(i, e), ~Needs(s[i]),
         originMu' = originMu, originH2' = originH2, conn' \in Links
  PROVE  StreamsInv'
BY OverIsDone, Moves DEF Over

\* closeOrigin gives the reservation back.
LEMMA Closes ==
  ASSUME StreamsInv, NEW i, NEW drained, closeOrigin(i, drained)
  PROVE  Release(i) /\ conn' \in Links
BY DEF StreamsInv, TypeOK, closeOrigin, Links

-----------------------------------------------------------------------------
(* The rules of an exchange (RulePipeline).                                *)

\* d is e with another state of its exchange, and the same response.
Carries(e, d) == d \in StreamRecords /\ d.rsize = e.rsize /\ d.from = e.from

\* d is e at another point, as far as what was recorded and answered goes.
Counted(e, d) ==
  d.rows = e.rows /\ d.resumed = e.resumed /\ d.skip = e.skip /\ d.wrote = e.wrote
Same(e, d) == Carries(e, d) /\ Counted(e, d)

\* capture: an insert of the exchange's flow, and nothing else.
Captures(e, d) ==
  /\ d.rows = e.rows + 1
  /\ d.pc = e.pc /\ d.wrote = e.wrote /\ d.resumed = e.resumed /\ d.skip = e.skip
  /\ d.rsize = e.rsize /\ d.from = e.from

LEMMA Captured ==
  ASSUME NEW e \in StreamRecords
  PROVE  capture(e) \in StreamRecords /\ Captures(e, capture(e))
<1>1. capture(e) \in StreamRecords
  BY DEF capture, StreamRecords
<1>2. Captures(e, capture(e))
  BY DEF capture, Captures, StreamRecords
<1> QED BY <1>1, <1>2

Exchanging ==
  {"match", "reqSleep", "reqPaused", "forward", "respond", "respSleep", "respPaused", "write",
   "synthesize", "silentClose", "abort"}

LEMMA StepsTo ==
  ASSUME NEW e \in StreamRecords, NEW pc \in Pcs
  PROVE  LET d == [e EXCEPT !.pc = pc] IN Same(e, d) /\ d.pc = pc
<1>1. [e EXCEPT !.pc = pc] \in StreamRecords
  BY DEF StreamRecords
<1> QED BY <1>1 DEF Same, Counted, Carries, StreamRecords

LEMMA CapturesTo ==
  ASSUME NEW e \in StreamRecords, NEW pc \in Pcs
  PROVE  LET d == [capture(e) EXCEPT !.pc = pc] IN
         /\ Carries(e, d) /\ d.pc = pc /\ d.rows = e.rows + 1
         /\ d.resumed = e.resumed /\ d.skip = e.skip /\ d.wrote = e.wrote
<1> DEFINE c == capture(e)
<1>1. c \in StreamRecords /\ Captures(e, c)
  BY Captured
<1> HIDE DEF c
<1>2. Same(c, [c EXCEPT !.pc = pc]) /\ [c EXCEPT !.pc = pc].pc = pc
  BY <1>1, StepsTo
<1>3. LET d == [c EXCEPT !.pc = pc] IN
      /\ Carries(e, d) /\ d.pc = pc /\ d.rows = e.rows + 1
      /\ d.resumed = e.resumed /\ d.skip = e.skip /\ d.wrote = e.wrote
  BY <1>1, <1>2 DEF Same, Counted, Carries, Captures
<1> QED BY <1>3 DEF c

LEMMA Synthesizes ==
  ASSUME NEW e \in StreamRecords
  PROVE  LET d == synthesize(e) IN
         /\ Carries(e, d) /\ d.pc = "synthesize" /\ d.rows = e.rows + 1
         /\ d.resumed = e.resumed /\ d.skip = e.skip /\ d.wrote = e.wrote + 1
<1> DEFINE c == capture(e)
           d == [c EXCEPT !.wrote = @ + 1, !.pc = "synthesize"]
<1>1. c \in StreamRecords /\ Captures(e, c)
  BY Captured
<1> HIDE DEF c
<1>2. d \in StreamRecords
  <2>1. c.wrote + 1 \in Nat
    BY <1>1 DEF StreamRecords
  <2> QED BY <1>1, <2>1, Literals DEF StreamRecords, Recorded
<1>3. /\ d.pc = "synthesize" /\ d.rows = c.rows /\ d.resumed = c.resumed /\ d.skip = c.skip
      /\ d.wrote = c.wrote + 1 /\ d.rsize = c.rsize /\ d.from = c.from
  BY <1>1 DEF StreamRecords
<1>4. synthesize(e) = d
  BY DEF synthesize, c
<1> HIDE DEF d
<1>5. Carries(e, d)
  BY <1>1, <1>2, <1>3 DEF Carries, Captures
<1> QED BY <1>1, <1>3, <1>4, <1>5 DEF Captures

\* The result of a step whose skip flag is set.
LEMMA SkipsTo ==
  ASSUME NEW e \in StreamRecords, NEW pc \in Pcs
  PROVE  LET d == [e EXCEPT !.skip = TRUE, !.pc = pc] IN
         /\ Carries(e, d) /\ d.pc = pc /\ d.rows = e.rows
         /\ d.skip = TRUE /\ d.wrote = e.wrote
<1>1. [e EXCEPT !.skip = TRUE, !.pc = pc] \in StreamRecords
  BY DEF StreamRecords
<1> QED BY <1>1 DEF Carries, StreamRecords

\* The answer to an operator's drop: the row is there already.
LEMMA Drops ==
  ASSUME NEW e \in StreamRecords
  PROVE  LET d == [e EXCEPT !.wrote = @ + 1, !.pc = "synthesize"] IN
         /\ Carries(e, d) /\ d.pc = "synthesize" /\ d.rows = e.rows
         /\ d.resumed = e.resumed /\ d.skip = e.skip /\ d.wrote = e.wrote + 1
<1>1. [e EXCEPT !.wrote = @ + 1, !.pc = "synthesize"] \in StreamRecords
  <2>1. e.wrote + 1 \in Nat
    BY DEF StreamRecords
  <2> QED BY <2>1, Literals DEF StreamRecords, Recorded
<1> QED BY <1>1 DEF Carries, StreamRecords

\* The body of the request is read up to the cap.
LEMMA Prepares ==
  ASSUME NEW e \in StreamRecords
  PROVE  Same(e, prepareRequestBody(e))
<1>1. (IF e.size = "over" THEN "tail" ELSE "none") \in Lefts
  BY Literals
<1>2. \A x \in Lefts : Same(e, [e EXCEPT !.left = x])
  <2> SUFFICES ASSUME NEW x \in Lefts PROVE Same(e, [e EXCEPT !.left = x])
    OBVIOUS
  <2>1. [e EXCEPT !.left = x] \in StreamRecords
    BY DEF StreamRecords
  <2> QED BY <2>1 DEF Same, Counted, Carries, StreamRecords
<1>3. Same(e, e)
  BY DEF Same, Counted, Carries
<1> QED BY <1>1, <1>2, <1>3 DEF prepareRequestBody

\* The body of the response is buffered or thrown away.
LEMMA Buffers ==
  ASSUME NEW e \in StreamRecords
  PROVE  /\ LET d == bufferResponse(e) IN
            /\ d \in StreamRecords /\ Counted(e, d) /\ d.rsize = e.rsize
            /\ d.from = IF e.rsize = "over" THEN e.from ELSE "closed"
         /\ LET d == drainDiscard(e) IN
            /\ d \in StreamRecords /\ Counted(e, d) /\ d.rsize = e.rsize /\ d.from = "closed"
<1>1. (IF e.rsize = "over" THEN e.from ELSE "closed") \in Bodys /\ "closed" \in Bodys
  BY Literals DEF StreamRecords
<1>2. \A x \in Bodys :
        LET d == [e EXCEPT !.from = x]
        IN  d \in StreamRecords /\ Counted(e, d) /\ d.rsize = e.rsize /\ d.from = x
  <2> SUFFICES ASSUME NEW x \in Bodys
               PROVE  LET d == [e EXCEPT !.from = x]
                      IN  d \in StreamRecords /\ Counted(e, d) /\ d.rsize = e.rsize /\ d.from = x
    OBVIOUS
  <2>1. [e EXCEPT !.from = x] \in StreamRecords
    BY DEF StreamRecords
  <2> QED BY <2>1 DEF Counted, StreamRecords
<1> QED BY <1>1, <1>2 DEF bufferResponse, drainDiscard

\* Where an exchange stands decides what Written asks of it.
LEMMA WrittenAt ==
  ASSUME NEW e \in StreamRecords, e.wrote <= 1, e.skip => e.rows > 0,
         e.rows > 1 => e.resumed \/ e.skip,
         \/ e.pc \in {"forward", "respond", "respSleep", "write"}
              /\ e.wrote = 0 /\ (e.rows > 0 => e.resumed \/ e.skip)
         \/ e.pc = "reqSleep" /\ e.wrote = 0 /\ ~e.skip
              /\ (e.rows > 0 => e.resumed \/ e.skip)
         \/ e.pc = "reqPaused" /\ e.wrote = 0 /\ ~e.skip /\ e.rows > 0
         \/ e.pc \in {"silentClose", "respPaused"} /\ e.wrote = 0 /\ e.rows > 0
         \/ e.pc = "synthesize" /\ e.rows > 0
         \/ e.pc = "abort" /\ e.wrote = 0
  PROVE  Written(e) /\ e.pc \in Exchanging
BY DEF Written, Exchanging, Unanswered, Unrecorded, Recorded, Early, Using

\* What Written says of an exchange whose flow is not recorded yet.
LEMMA WrittenBefore ==
  ASSUME NEW e \in StreamRecords, Written(e),
         e.pc \in {"match", "reqSleep", "forward", "respond", "respSleep", "write"}
  PROVE  /\ e.wrote = 0 /\ (e.rows > 0 => e.resumed \/ e.skip) /\ (e.skip => e.rows > 0)
         /\ e.rows \in Nat
         /\ e.pc \in {"match", "reqSleep"} => ~e.skip
BY DEF Written, Unanswered, Unrecorded, Early, Using, StreamRecords

LEMMA RequestRuleStep ==
  ASSUME NEW e \in StreamRecords, Written(e), e.pc = "match", NEW d \in runRequestRules(e)
  PROVE  Carries(e, d) /\ Written(d) /\ d.pc \in Exchanging
<1> DEFINE b == prepareRequestBody(e)
           on == [b EXCEPT !.pc = "forward"]
           stored == [capture(on) EXCEPT !.skip = TRUE]
<1>1. Same(e, b) /\ b \in StreamRecords
  BY Prepares DEF Same, Counted, Carries
<1>2. /\ e.wrote = 0 /\ (e.rows > 0 => e.resumed) /\ e.rows \in Nat
      /\ ~e.skip
  BY WrittenBefore
<1>p. {"forward", "reqSleep", "reqPaused", "silentClose", "synthesize"} \subseteq Pcs
  BY Literals DEF Unrecorded, Unanswered, Recorded, Early
<1> HIDE DEF b
<1>3. Same(b, on) /\ on.pc = "forward" /\ on \in StreamRecords
  BY <1>1, <1>p, StepsTo DEF Same, Counted, Carries
<1>4. CASE d = on
  <2>1. Carries(e, d)
    BY <1>1, <1>3, <1>4 DEF Same, Counted, Carries
  <2>2. d.wrote = 0 /\ (d.rows > 0 => d.resumed) /\ ~d.skip /\ d.pc = "forward"
    BY <1>1, <1>2, <1>3, <1>4 DEF Same, Counted
  <2> QED BY <2>1, <2>2, WrittenAt DEF Carries, StreamRecords
<1>5. CASE d = [b EXCEPT !.pc = "reqSleep"]
  <2>1. Same(b, d) /\ d.pc = "reqSleep"
    BY <1>1, <1>5, <1>p, StepsTo
  <2>2. Carries(e, d)
    BY <1>1, <2>1 DEF Same, Counted, Carries
  <2>3. d.wrote = 0 /\ (d.rows > 0 => d.resumed) /\ ~d.skip
    BY <1>1, <1>2, <2>1 DEF Same, Counted
  <2> QED BY <2>1, <2>2, <2>3, WrittenAt DEF Carries, StreamRecords
<1>6. CASE d = synthesize(b)
  <2>1. /\ Carries(b, d) /\ d.pc = "synthesize" /\ d.rows = b.rows + 1
        /\ d.resumed = b.resumed /\ d.skip = b.skip /\ d.wrote = b.wrote + 1
    BY <1>1, <1>6, Synthesizes
  <2>2. Carries(e, d)
    BY <1>1, <2>1 DEF Same, Counted, Carries
  <2>3. d.wrote = 1 /\ d.rows > 0 /\ (d.rows > 1 => d.resumed) /\ ~d.skip
    BY <1>1, <1>2, <2>1 DEF Same, Counted
  <2> QED BY <2>1, <2>2, <2>3, WrittenAt DEF Carries, StreamRecords
<1>7. ASSUME NEW pc \in {"silentClose", "reqPaused"}, d = [capture(b) EXCEPT !.pc = pc]
      PROVE  Carries(e, d) /\ Written(d) /\ d.pc \in Exchanging
  <2>1. /\ Carries(b, d) /\ d.pc = pc /\ d.rows = b.rows + 1
        /\ d.resumed = b.resumed /\ d.skip = b.skip /\ d.wrote = b.wrote
    BY <1>1, <1>7, <1>p, CapturesTo
  <2>2. Carries(e, d)
    BY <1>1, <2>1 DEF Same, Counted, Carries
  <2>3. d.wrote = 0 /\ d.rows > 0 /\ (d.rows > 1 => d.resumed) /\ ~d.skip
    BY <1>1, <1>2, <2>1 DEF Same, Counted
  <2> QED BY <2>1, <2>2, <2>3, WrittenAt DEF Carries, StreamRecords
<1>8. CASE d = stored
  <2> DEFINE c == capture(on)
  <2>1. c \in StreamRecords /\ Captures(on, c)
    BY <1>3, Captured
  <2>2. d = [c EXCEPT !.skip = TRUE]
    BY <1>8
  <2> HIDE DEF c, on
  <2>3. d \in StreamRecords
    BY <2>1, <2>2 DEF StreamRecords
  <2>4. /\ d.pc = c.pc /\ d.rows = c.rows /\ d.resumed = c.resumed /\ d.skip = TRUE
        /\ d.wrote = c.wrote /\ d.rsize = c.rsize /\ d.from = c.from
    BY <2>1, <2>2 DEF StreamRecords
  <2>5. Carries(e, d)
    BY <1>1, <1>3, <2>1, <2>3, <2>4 DEF Same, Counted, Carries, Captures
  <2>6. d.pc = "forward" /\ d.wrote = 0 /\ d.rows > 0
    BY <1>1, <1>2, <1>3, <2>1, <2>4 DEF Same, Counted, Captures
  <2> QED BY <2>3, <2>4, <2>5, <2>6, WrittenAt DEF StreamRecords
<1>9. \/ d = on \/ d = [b EXCEPT !.pc = "reqSleep"] \/ d = synthesize(b)
      \/ d = [capture(b) EXCEPT !.pc = "silentClose"]
      \/ d = [capture(b) EXCEPT !.pc = "reqPaused"] \/ d = stored
  BY DEF runRequestRules, captureSilentRequest, pausedOr, b, StreamRecords, Actions
<1> QED BY <1>4, <1>5, <1>6, <1>7, <1>8, <1>9
\* A step of the request phase leaves the origin alone.
LEMMA RequestStep ==
  ASSUME StreamsInv, NEW i \in Streams, s[i].pc \in {"match", "reqSleep", "reqPaused"},
         NEW d, Carries(s[i], d), Written(d), d.pc \in Exchanging, Set(i, d),
         originMu' = originMu, conn' = conn, originH2' = originH2
  PROVE  StreamsInv'
<1>1. s[i].from = "none" /\ ~(s[i].pc \in Using) /\ conn' \in Links
  BY StreamAt DEF Bodies, Early, Using
<1>2. Bodies(d) /\ ~Needs(d) /\ ~Needs(s[i])
  BY <1>1 DEF Carries, Exchanging, Bodies, Needs, Using, Early
<1> QED BY <1>1, <1>2, Moves DEF Stream, Carries

LEMMA RequestRulesKeep ==
  ASSUME StreamsInv, NEW i \in Streams, RequestRules(i)
  PROVE  StreamsInv'
<1> DEFINE e == s[i]
<1>1. e \in StreamRecords /\ Written(e)
  BY StreamAt
<1>p. {"forward", "abort", "silentClose"} \subseteq Pcs
  BY Literals DEF Unrecorded, Unanswered, Early, Using
<1>u. originMu' = originMu /\ conn' = conn /\ originH2' = originH2
  BY DEF RequestRules
<1>2. CASE e.pc = "match"
  <2>1. PICK d \in runRequestRules(e) : Set(i, d)
    BY <1>2 DEF RequestRules
  <2>2. Carries(e, d) /\ Written(d) /\ d.pc \in Exchanging
    BY <1>1, <1>2, <2>1, RequestRuleStep
  <2> QED BY <1>2, <1>u, <2>1, <2>2, RequestStep
<1>3. CASE e.pc = "reqSleep"
  <2>1. PICK d : d \in {requestSlept(e), requestCancelled(e)} /\ Set(i, d)
    BY <1>3 DEF RequestRules
  <2>2. /\ e.wrote = 0 /\ (e.rows > 0 => e.resumed) /\ ~e.skip /\ e.rows \in Nat
    BY <1>1, <1>3, WrittenBefore
  <2>3. CASE \E pc \in {"forward", "abort"} : d = [e EXCEPT !.pc = pc]
    <3>1. PICK pc \in {"forward", "abort"} : d = [e EXCEPT !.pc = pc]
      BY <2>3
    <3>2. Same(e, d) /\ d.pc = pc
      BY <1>1, <1>p, <3>1, StepsTo
    <3>3. Written(d) /\ d.pc \in Exchanging
      BY <2>2, <3>2, WrittenAt DEF Same, Counted, Carries, StreamRecords
    <3> QED BY <1>3, <1>u, <2>1, <3>2, <3>3, RequestStep DEF Same
  <2>4. CASE d = [capture(e) EXCEPT !.pc = "silentClose"]
    <3>1. /\ Carries(e, d) /\ d.pc = "silentClose" /\ d.rows = e.rows + 1
          /\ d.resumed = e.resumed /\ d.skip = e.skip /\ d.wrote = e.wrote
      BY <1>1, <1>p, <2>4, CapturesTo
    <3>2. Written(d) /\ d.pc \in Exchanging
      BY <2>2, <3>1, WrittenAt DEF Carries, StreamRecords
    <3> QED BY <1>3, <1>u, <2>1, <3>1, <3>2, RequestStep
  <2> QED BY <2>1, <2>3, <2>4 DEF requestSlept, requestCancelled, captureSilentRequest
<1>4. CASE e.pc = "reqPaused"
  <2>1. PICK d \in requestVerdicts(e) : Set(i, d)
    BY <1>4 DEF RequestRules
  <2>2. e.wrote = 0 /\ e.rows > 0 /\ (e.rows > 1 => e.resumed) /\ ~e.skip /\ e.rows \in Nat
    BY <1>1, <1>4 DEF Written, Unanswered, Recorded, Early, StreamRecords
  <2>3. CASE d = [e EXCEPT !.wrote = @ + 1, !.pc = "synthesize"]
    <3>1. /\ Carries(e, d) /\ d.pc = "synthesize" /\ d.rows = e.rows
          /\ d.resumed = e.resumed /\ d.skip = e.skip /\ d.wrote = e.wrote + 1
      BY <1>1, <2>3, Drops
    <3>2. Written(d) /\ d.pc \in Exchanging
      BY <2>2, <3>1, WrittenAt DEF Carries, StreamRecords
    <3> QED BY <1>4, <1>u, <2>1, <3>1, <3>2, RequestStep
  <2>4. CASE d = [e EXCEPT !.resumed = TRUE, !.pc = "forward"]
    <3>1. d \in StreamRecords
      BY <1>1, <1>p, <2>4 DEF StreamRecords
    <3>2. /\ Carries(e, d) /\ d.pc = "forward" /\ d.rows = e.rows
          /\ d.resumed = TRUE /\ d.skip = e.skip /\ d.wrote = e.wrote
      BY <1>1, <2>4, <3>1 DEF StreamRecords, Carries
    <3>3. Written(d) /\ d.pc \in Exchanging
      BY <2>2, <3>2, WrittenAt DEF Carries, StreamRecords
    <3> QED BY <1>4, <1>u, <2>1, <3>2, <3>3, RequestStep
  <2>5. CASE d = [e EXCEPT !.skip = TRUE, !.pc = "forward"]
    <3>1. /\ Carries(e, d) /\ d.pc = "forward" /\ d.rows = e.rows
          /\ d.skip = TRUE /\ d.wrote = e.wrote
      BY <1>1, <1>p, <2>5, SkipsTo
    <3>2. Written(d) /\ d.pc \in Exchanging
      BY <2>2, <3>1, WrittenAt DEF Carries, StreamRecords
    <3> QED BY <1>4, <1>u, <2>1, <3>1, <3>2, RequestStep
  <2> QED BY <2>1, <2>3, <2>4, <2>5 DEF requestVerdicts
<1> QED BY <1>2, <1>3, <1>4 DEF RequestRules
-----------------------------------------------------------------------------
(* The response.                                                           *)

\* Where the response phase can leave an exchange.
Responding == {"write", "respSleep", "abort", "silentClose", "respPaused", "synthesize"}

\* The forms a step of the response phase takes, on a buffered response or not.
LEMMA ResponseForms ==
  ASSUME NEW e \in StreamRecords, Written(e), e.pc \in {"respond", "respSleep"},
         NEW b \in StreamRecords, Counted(e, b), NEW d,
         \/ \E pc \in {"write", "respSleep", "abort"} : d = [b EXCEPT !.pc = pc]
         \/ \E pc \in {"silentClose", "respPaused"} : d = [capture(b) EXCEPT !.pc = pc]
         \/ d = synthesize(b)
         \/ d = [capture(b) EXCEPT !.skip = TRUE, !.pc = "write"]
  PROVE  Carries(b, d) /\ Written(d) /\ d.pc \in Responding
<1>1. /\ e.wrote = 0 /\ (e.rows > 0 => e.resumed \/ e.skip) /\ (e.skip => e.rows > 0)
      /\ e.rows \in Nat
  BY WrittenBefore
<1>p. {"write", "respSleep", "abort", "silentClose", "respPaused"} \subseteq Pcs
  BY Literals DEF Unrecorded, Unanswered, Recorded
<1>3. CASE \E pc \in {"write", "respSleep", "abort"} : d = [b EXCEPT !.pc = pc]
  <2>1. PICK pc \in {"write", "respSleep", "abort"} : d = [b EXCEPT !.pc = pc]
    BY <1>3
  <2>2. Same(b, d) /\ d.pc = pc
    BY <1>p, <2>1, StepsTo
  <2>3. d \in StreamRecords /\ Carries(b, d) /\ d.pc \in {"write", "respSleep", "abort"}
    BY <2>2 DEF Same, Carries
  <2>4. /\ d.wrote = 0 /\ (d.rows > 0 => d.resumed \/ d.skip) /\ (d.skip => d.rows > 0)
        /\ d.rows \in Nat
    BY <1>1, <2>2, <2>3 DEF Same, Counted
  <2>5. Written(d)
    BY <2>3, <2>4, WrittenAt
  <2> QED BY <2>3, <2>5 DEF Responding
<1>4. CASE \E pc \in {"silentClose", "respPaused"} : d = [capture(b) EXCEPT !.pc = pc]
  <2>1. PICK pc \in {"silentClose", "respPaused"} : d = [capture(b) EXCEPT !.pc = pc]
    BY <1>4
  <2>2. /\ Carries(b, d) /\ d.pc = pc /\ d.rows = b.rows + 1
        /\ d.resumed = b.resumed /\ d.skip = b.skip /\ d.wrote = b.wrote
    BY <1>p, <2>1, CapturesTo
  <2>3. d.wrote = 0 /\ d.rows > 0 /\ (d.rows > 1 => d.resumed \/ d.skip)
    BY <1>1, <2>2 DEF Counted
  <2> QED BY <2>2, <2>3, WrittenAt DEF Carries, StreamRecords, Responding
<1>5. CASE d = synthesize(b)
  <2>1. /\ Carries(b, d) /\ d.pc = "synthesize" /\ d.rows = b.rows + 1
        /\ d.resumed = b.resumed /\ d.skip = b.skip /\ d.wrote = b.wrote + 1
    BY <1>5, Synthesizes
  <2>2. d \in StreamRecords /\ d.wrote <= 1 /\ d.rows > 0 /\ (d.rows > 1 => d.resumed \/ d.skip)
    BY <1>1, <2>1 DEF Counted, Carries
  <2>3. Written(d)
    BY <2>1, <2>2, WrittenAt
  <2> QED BY <2>1, <2>3 DEF Responding
<1>6. CASE d = [capture(b) EXCEPT !.skip = TRUE, !.pc = "write"]
  <2> DEFINE c == capture(b)
  <2>1. c \in StreamRecords /\ Captures(b, c)
    BY Captured
  <2>2. d = [c EXCEPT !.skip = TRUE, !.pc = "write"]
    BY <1>6
  <2> HIDE DEF c
  <2>3. /\ Carries(c, d) /\ d.pc = "write" /\ d.rows = c.rows
        /\ d.skip = TRUE /\ d.wrote = c.wrote
    BY <1>p, <2>1, <2>2, SkipsTo
  <2>4. Carries(b, d)
    BY <2>1, <2>3 DEF Carries, Captures
  <2>5. d.wrote = 0 /\ d.rows > 0
    BY <1>1, <2>1, <2>3 DEF Counted, Captures
  <2> QED BY <2>3, <2>4, <2>5, WrittenAt DEF Carries, StreamRecords, Responding
<1> QED BY <1>3, <1>4, <1>5, <1>6

\* A step of the response phase leaves the origin's body as it is or closes it,
\* and then bodyStep gives the reservation back.
LEMMA BodySteps ==
  ASSUME StreamsInv, NEW i \in Streams, s[i].pc \in {"respond", "respSleep", "respPaused"},
         NEW d \in StreamRecords, Written(d), d.pc \in Responding,
         d.from \in {s[i].from, "closed"},
         d.pc = "respPaused" /\ d.from = "open" => d.rsize = "over",
         bodyStep(i, d), originH2' = originH2
  PROVE  StreamsInv'
<1> DEFINE n == IF d.from = "closed" /\ d.pc \notin {"write", "respPaused"} THEN 0 ELSE d.unsent
           f == [d EXCEPT !.unsent = n]
<1>1. n \in Nat
  BY DEF StreamRecords
<1>2. Set(i, f)
  BY DEF bodyStep
<1> HIDE DEF n
<1>3. f \in StreamRecords
  BY <1>1 DEF StreamRecords
<1>4. /\ f.pc = d.pc /\ f.from = d.from /\ f.rsize = d.rsize /\ f.rows = d.rows
      /\ f.resumed = d.resumed /\ f.skip = d.skip /\ f.wrote = d.wrote
  BY DEF StreamRecords
<1> HIDE DEF f
<1>5. Stream(f)
  <2>1. Bodies(f)
    BY <1>4 DEF Bodies, Responding, Early, Using
  <2>2. Written(f)
    BY <1>4 DEF Written
  <2> QED BY <1>3, <2>1, <2>2 DEF Stream
<1>6. /\ Needs(f) <=> d.from = "open"
      /\ Needs(s[i]) <=> s[i].from = "open"
  BY <1>4 DEF Needs, Using, Responding
<1>7. CASE d.from = "closed" /\ s[i].from = "open"
  <2>1. Release(i) /\ conn' \in Links
    BY <1>7, Closes DEF bodyStep
  <2> QED BY <1>2, <1>5, <1>6, <1>7, <2>1, Frees
<1>8. CASE ~(d.from = "closed" /\ s[i].from = "open")
  <2>1. originMu' = originMu /\ conn' = conn /\ conn \in Links
    BY <1>8, StreamAt DEF bodyStep, keepOrigin
  <2> QED BY <1>2, <1>5, <1>6, <1>8, <2>1, Moves
<1> QED BY <1>7, <1>8

LEMMA ResponseRulesKeep ==
  ASSUME StreamsInv, NEW i \in Streams, ResponseRules(i)
  PROVE  StreamsInv'
<1> DEFINE e == s[i]
<1>1. e \in StreamRecords /\ Written(e) /\ Bodies(e)
  BY StreamAt
<1>2. /\ Counted(e, e)
      /\ LET b == bufferResponse(e) IN
         /\ b \in StreamRecords /\ Counted(e, b) /\ b.rsize = e.rsize
         /\ b.from = IF e.rsize = "over" THEN e.from ELSE "closed"
      /\ LET b == drainDiscard(e) IN
         /\ b \in StreamRecords /\ Counted(e, b) /\ b.rsize = e.rsize /\ b.from = "closed"
  BY <1>1, Buffers DEF Counted
<1>u. originH2' = originH2
  BY DEF ResponseRules
<1>3. CASE e.pc = "respond"
  <2>1. PICK d \in runResponseRules(e) : bodyStep(i, d)
    BY <1>3 DEF ResponseRules
  <2>2. PICK b \in {e, bufferResponse(e), drainDiscard(e)} :
         /\ \/ \E pc \in {"write", "respSleep", "abort"} : d = [b EXCEPT !.pc = pc]
            \/ \E pc \in {"silentClose", "respPaused"} : d = [capture(b) EXCEPT !.pc = pc]
            \/ d = synthesize(b)
            \/ d = [capture(b) EXCEPT !.skip = TRUE, !.pc = "write"]
         /\ d.pc = "respPaused" => b = bufferResponse(e)
    <3>1. e.resp \in Actions
      BY <1>1 DEF StreamRecords
    <3>2. /\ e \in StreamRecords /\ drainDiscard(e) \in StreamRecords
          /\ "respPaused" \in Pcs /\ "write" \in Pcs /\ "silentClose" \in Pcs
          /\ "respSleep" \in Pcs
      BY <1>1, <1>2, Literals DEF Recorded, Unrecorded
    <3>3. /\ [e EXCEPT !.pc = "write"].pc = "write"
          /\ [e EXCEPT !.pc = "respSleep"].pc = "respSleep"
          /\ [capture(drainDiscard(e)) EXCEPT !.pc = "silentClose"].pc = "silentClose"
      <4> HIDE DEF e
      <4> QED BY <3>2, StepsTo, CapturesTo
    <3> HIDE DEF e
    <3> QED BY <2>1, <3>1, <3>3 DEF runResponseRules, silentResponse, pausedOr, Actions
  <2>3. Carries(b, d) /\ Written(d) /\ d.pc \in Responding
    BY <1>1, <1>2, <1>3, <2>2, ResponseForms
  <2>4. /\ d \in StreamRecords /\ d.from \in {e.from, "closed"}
        /\ d.pc = "respPaused" /\ d.from = "open" => d.rsize = "over"
    BY <1>2, <2>2, <2>3 DEF Carries
  <2> QED BY <1>3, <1>u, <2>1, <2>3, <2>4, BodySteps
<1>4. CASE e.pc = "respSleep"
  <2>1. PICK d \in {responseSlept(e), responseCancelled(e)} : bodyStep(i, d)
    BY <1>4 DEF ResponseRules
  <2>2. PICK b \in {e, drainDiscard(e)} :
         \/ \E pc \in {"write", "abort"} : d = [b EXCEPT !.pc = pc]
         \/ d = [capture(b) EXCEPT !.pc = "silentClose"]
    <3> HIDE DEF e
    <3> QED BY <2>1 DEF responseSlept, responseCancelled, silentResponse
  <2>3. Carries(b, d) /\ Written(d) /\ d.pc \in Responding
    BY <1>1, <1>2, <1>4, <2>2, ResponseForms
  <2>4. d.pc # "respPaused"
    <3>1. b \in StreamRecords /\ {"write", "abort", "silentClose"} \subseteq Pcs
      BY <1>1, <1>2, Literals DEF Unanswered
    <3>2. \A pc \in {"write", "abort"} : [b EXCEPT !.pc = pc].pc = pc
      BY <3>1, StepsTo
    <3>3. [capture(b) EXCEPT !.pc = "silentClose"].pc = "silentClose"
      BY <3>1, CapturesTo
    <3> QED BY <2>2, <3>2, <3>3
  <2>5. d \in StreamRecords /\ d.from \in {e.from, "closed"}
    BY <1>2, <2>2, <2>3 DEF Carries
  <2> QED BY <1>4, <1>u, <2>1, <2>3, <2>4, <2>5, BodySteps
<1>5. CASE e.pc = "respPaused"
  <2>1. PICK d \in responseVerdicts(e) : bodyStep(i, d)
    BY <1>5 DEF ResponseRules
  <2>2. /\ e.wrote = 0 /\ e.rows > 0 /\ (e.rows > 1 => e.resumed \/ e.skip)
        /\ e.rows \in Nat
    BY <1>1, <1>5 DEF Written, Unanswered, Recorded, StreamRecords
  <2>3. CASE d = [e EXCEPT !.wrote = @ + 1, !.pc = "synthesize"]
    <3>1. /\ Carries(e, d) /\ d.pc = "synthesize" /\ d.rows = e.rows
          /\ d.resumed = e.resumed /\ d.skip = e.skip /\ d.wrote = e.wrote + 1
      BY <1>1, <2>3, Drops
    <3>2. Written(d) /\ d.pc \in Responding
      BY <2>2, <3>1, WrittenAt DEF Carries, StreamRecords, Responding
    <3> QED BY <1>5, <1>u, <2>1, <3>1, <3>2, BodySteps DEF Carries
  <2>4. CASE d = [e EXCEPT !.skip = TRUE, !.pc = "write"]
    <3>1. /\ Carries(e, d) /\ d.pc = "write" /\ d.rows = e.rows
          /\ d.skip = TRUE /\ d.wrote = e.wrote
      <4>1. "write" \in Pcs
        BY Literals DEF Unrecorded
      <4> QED BY <1>1, <2>4, <4>1, SkipsTo
    <3>2. Written(d) /\ d.pc \in Responding
      BY <2>2, <3>1, WrittenAt DEF Carries, StreamRecords, Responding
    <3> QED BY <1>5, <1>u, <2>1, <3>1, <3>2, BodySteps DEF Carries
  <2> QED BY <2>1, <2>3, <2>4 DEF responseVerdicts
<1> QED BY <1>3, <1>4, <1>5 DEF ResponseRules
-----------------------------------------------------------------------------
(* A stream comes to its end.                                              *)

LEMMA AnswerIsReady ==
  ASSUME NEW e, Ready(e), NEW a \in Answers
  PROVE  Ready([e EXCEPT !.answer = a])
<1>1. [e EXCEPT !.answer = a] \in StreamRecords
  BY DEF Ready, StreamRecords
<1> QED BY <1>1 DEF Ready, StreamRecords

LEMMA QueueIsReady ==
  ASSUME NEW e, Ready(e), NEW q \in Seq({"chunk", "eof"})
  PROVE  Ready([e EXCEPT !.queue = q])
<1>1. [e EXCEPT !.queue = q] \in StreamRecords
  BY DEF Ready, StreamRecords
<1> QED BY <1>1 DEF Ready, StreamRecords

\* The flow is recorded and the client answered.
LEMMA AnsweredIsReady ==
  ASSUME NEW e \in StreamRecords, Written(e), e.pc \in Unrecorded \ {"inspect"}
  PROVE  /\ Ready(upstreamFailed(e)) /\ upstreamFailed(e).answer = e.answer
         /\ \A a \in Answers : Ready([capture(e) EXCEPT !.wrote = @ + 1, !.answer = a])
<1> DEFINE c == capture(e)
<1>1. c \in StreamRecords /\ Captures(e, c) /\ c.answer = e.answer
  <2>1. c.answer = e.answer
    BY DEF capture, StreamRecords
  <2> QED BY <2>1, Captured
<1>2. /\ e.wrote = 0 /\ (e.rows > 0 => e.resumed \/ e.skip) /\ e.rows \in Nat
  BY DEF Written, Unanswered, Unrecorded, StreamRecords
<1>3. upstreamFailed(e) = [c EXCEPT !.wrote = @ + 1, !.pc = "failed"]
  BY DEF upstreamFailed
<1> HIDE DEF c
<1>4. c.wrote + 1 \in Nat /\ "failed" \in Pcs
  BY <1>1, Literals DEF StreamRecords
<1>5. Ready(upstreamFailed(e)) /\ upstreamFailed(e).answer = e.answer
  <2> DEFINE d == [c EXCEPT !.wrote = @ + 1, !.pc = "failed"]
  <2>1. d \in StreamRecords
    BY <1>1, <1>4 DEF StreamRecords
  <2>2. /\ d.wrote = c.wrote + 1 /\ d.rows = c.rows /\ d.resumed = c.resumed
        /\ d.skip = c.skip /\ d.answer = c.answer
    BY <1>1 DEF StreamRecords
  <2> HIDE DEF d
  <2>3. Ready(d) /\ d.answer = e.answer
    BY <1>1, <1>2, <2>1, <2>2 DEF Ready, Captures
  <2> QED BY <1>3, <2>3 DEF d
<1>6. ASSUME NEW a \in Answers
      PROVE  Ready([c EXCEPT !.wrote = @ + 1, !.answer = a])
  <2> DEFINE d == [c EXCEPT !.wrote = @ + 1, !.answer = a]
  <2>1. d \in StreamRecords
    BY <1>1, <1>4 DEF StreamRecords
  <2>2. /\ d.wrote = c.wrote + 1 /\ d.rows = c.rows /\ d.resumed = c.resumed /\ d.skip = c.skip
    BY <1>1 DEF StreamRecords
  <2> HIDE DEF d
  <2>3. Ready(d)
    BY <1>1, <1>2, <2>1, <2>2 DEF Ready, Captures
  <2> QED BY <2>3 DEF d
<1> QED BY <1>5, <1>6 DEF c

\* finishResponse: the row is inserted unless a breakpoint stored it.
LEMMA FinishIsReady ==
  ASSUME NEW e \in StreamRecords, Written(e), e.pc = "finish"
  PROVE  Ready(finishResponse(e)) /\ finishResponse(e).queue = e.queue
<1> DEFINE f == [e EXCEPT !.wrote = @ + 1, !.pc = "continue"]
<1>1. /\ e.wrote = 0 /\ (e.rows > 0 => e.resumed \/ e.skip) /\ (e.skip => e.rows > 0)
      /\ e.rows \in Nat
  BY DEF Written, Unanswered, Unrecorded, StreamRecords
<1>2. f \in StreamRecords
  <2>1. e.wrote + 1 \in Nat
    BY <1>1
  <2> QED BY <2>1, Literals DEF StreamRecords
<1>3. /\ f.wrote = 1 /\ f.rows = e.rows /\ f.resumed = e.resumed /\ f.skip = e.skip
      /\ f.queue = e.queue
  BY <1>1 DEF StreamRecords
<1>4. finishResponse(e) = IF e.skip THEN f ELSE capture(f)
  BY DEF finishResponse
<1> HIDE DEF f
<1>5. capture(f) \in StreamRecords /\ Captures(f, capture(f)) /\ capture(f).queue = f.queue
  <2>1. capture(f).queue = f.queue
    BY <1>2 DEF capture, StreamRecords
  <2> QED BY <1>2, <2>1, Captured
<1>6. CASE e.skip
  <2>1. Ready(f)
    BY <1>1, <1>2, <1>3, <1>6 DEF Ready
  <2>2. finishResponse(e) = f
    BY <1>4, <1>6
  <2> QED BY <1>3, <2>1, <2>2
<1>7. CASE ~e.skip
  <2> DEFINE d == capture(f)
  <2>1. finishResponse(e) = d
    BY <1>4, <1>7
  <2>2. d \in StreamRecords /\ Captures(f, d) /\ d.queue = f.queue
    BY <1>5
  <2> HIDE DEF d
  <2>3. Ready(d) /\ d.queue = e.queue
    BY <1>1, <1>3, <1>7, <2>2 DEF Ready, Captures
  <2> QED BY <2>1, <2>3
<1> QED BY <1>6, <1>7

\* What a rule answered is recorded, and what was cut short is not answered.
LEMMA RuledIsReady ==
  ASSUME StreamsInv, NEW i \in Streams,
         s[i].pc \in {"synthesize", "silentClose", "abort", "tunnel"}
  PROVE  Ready(s[i])
<1>1. s[i] \in StreamRecords /\ Written(s[i])
  BY StreamAt
<1>2. s[i].wrote > 0 => s[i].rows > 0
  BY <1>1 DEF Written, Unanswered, Recorded, StreamRecords
<1> QED BY <1>1, <1>2 DEF Written, Ready

LEMMA AnswersKeep ==
  ASSUME StreamsInv, NEW i \in Streams, AnswerEarly(i) \/ AnswerRule(i)
  PROVE  StreamsInv'
<1> DEFINE a == IF s[i].answer = "reset" \/ s[i].pc = "silentClose" THEN "reset" ELSE "end"
           e == [s[i] EXCEPT !.answer = a]
<1>1. s[i].pc \in {"synthesize", "silentClose", "abort"} /\ Over(i, e) /\ originH2' = originH2
  BY DEF AnswerEarly, AnswerRule
<1>2. a \in Answers
  BY Literals
<1> HIDE DEF a
<1>3. Ready(e)
  BY <1>1, <1>2, RuledIsReady, AnswerIsReady
<1> HIDE DEF e
<1>4. CASE AnswerEarly(i)
  <2>1. originMu' = originMu /\ conn' \in Links /\ s[i].from = "none"
    BY <1>4, StreamAt DEF AnswerEarly
  <2>2. ~Needs(s[i])
    BY <1>1, <2>1 DEF Needs, Using
  <2> QED BY <1>1, <1>3, <2>1, <2>2, OversKeep
<1>5. CASE AnswerRule(i)
  <2>1. Release(i) /\ conn' \in Links
    BY <1>5, Closes DEF AnswerRule
  <2> QED BY <1>1, <1>3, <2>1, OversFree
<1> QED BY <1>4, <1>5

LEMMA UpstreamErrorFrees ==
  ASSUME StreamsInv, NEW i \in Streams, UpstreamError(i)
  PROVE  StreamsInv'
<1> DEFINE d == upstreamFailed(s[i])
           a == IF d.answer = "reset" \/ s[i].kind = "ws" THEN "reset" ELSE "end"
           e == [d EXCEPT !.answer = a]
<1>1. /\ s[i].pc = "drain" /\ Over(i, e) /\ Release(i) /\ originH2' = originH2
      /\ conn' = IF originH2 THEN conn ELSE "dead"
  BY DEF UpstreamError
<1>2. a \in Answers /\ conn' \in Links
  BY <1>1, Literals, StreamAt DEF Links
<1>3. Ready(d)
  BY <1>1, AnsweredIsReady, StreamAt DEF Unrecorded, Early, Using
<1> HIDE DEF d, a
<1>4. Ready(e)
  BY <1>2, <1>3, AnswerIsReady
<1> QED BY <1>1, <1>2, <1>4, OversFree

LEMMA UpgradeRefusedKeeps ==
  ASSUME StreamsInv, NEW i \in Streams, UpgradeRefused(i)
  PROVE  StreamsInv'
<1> DEFINE a == IF capture(s[i]).answer = "none" THEN "end" ELSE capture(s[i]).answer
           e == [capture(s[i]) EXCEPT !.wrote = @ + 1, !.answer = a]
<1>1. /\ s[i].pc = "upgrade" /\ Over(i, e) /\ closeOrigin(i, TRUE) /\ originH2' = originH2
  BY DEF UpgradeRefused
<1>2. Release(i) /\ conn' \in Links
  BY <1>1, Closes
<1>3. a \in Answers
  BY Literals, StreamAt, Captured DEF StreamRecords
<1> HIDE DEF a
<1>4. Ready(e)
  BY <1>1, <1>3, AnsweredIsReady, StreamAt DEF Unrecorded
<1> QED BY <1>1, <1>2, <1>4, OversFree

LEMMA TunnelEndsKeeps ==
  ASSUME StreamsInv, NEW i \in Streams, TunnelEnds(i)
  PROVE  StreamsInv'
<1> DEFINE a == IF s[i].answer = "headers" THEN "end" ELSE s[i].answer
           e == [s[i] EXCEPT !.answer = a]
           d == IF s[i].pc = "inspect" THEN capture(e) ELSE e
<1>1. /\ s[i].pc \in {"tunnel", "inspect"} /\ Over(i, d) /\ closeOrigin(i, FALSE)
      /\ originH2' = originH2
  BY DEF TunnelEnds
<1>2. Release(i) /\ conn' \in Links
  BY <1>1, Closes
<1>3. a \in Answers /\ s[i] \in StreamRecords /\ Written(s[i])
  BY Literals, StreamAt DEF StreamRecords
<1> HIDE DEF a
<1>4. CASE s[i].pc = "tunnel"
  <2>1. Ready(e)
    BY <1>3, <1>4, RuledIsReady, AnswerIsReady
  <2> QED BY <1>1, <1>2, <1>4, <2>1, OversFree
<1>5. CASE s[i].pc = "inspect"
  <2>1. e \in StreamRecords
    BY <1>3 DEF StreamRecords
  <2>2. /\ e.wrote = s[i].wrote /\ e.rows = s[i].rows /\ e.resumed = s[i].resumed
        /\ e.skip = s[i].skip
    BY <1>3 DEF StreamRecords
  <2>3. s[i].wrote <= 1 /\ (s[i].rows > 0 => s[i].resumed \/ s[i].skip) /\ s[i].rows \in Nat
    BY <1>3, <1>5 DEF Written, Unrecorded, StreamRecords
  <2> DEFINE c == capture(e)
  <2> HIDE DEF e
  <2>4. c \in StreamRecords /\ Captures(e, c)
    BY <2>1, Captured
  <2>5. Over(i, c)
    BY <1>1, <1>5
  <2> HIDE DEF c
  <2>6. Ready(c)
    BY <2>2, <2>3, <2>4 DEF Ready, Captures
  <2> QED BY <1>1, <1>2, <2>5, <2>6, OversFree
<1> QED BY <1>1, <1>4, <1>5

LEMMA FinishKeeps ==
  ASSUME StreamsInv, NEW i \in Streams, Finish(i)
  PROVE  StreamsInv'
<1> DEFINE d == finishResponse(s[i])
           q == IF s[i].gone THEN << >> ELSE Append(d.queue, "eof")
           e == [d EXCEPT !.queue = q]
<1>1. /\ s[i].pc = "finish" /\ Over(i, e)
      /\ originMu' = originMu /\ conn' = conn /\ originH2' = originH2
  BY DEF Finish
<1>2. s[i] \in StreamRecords /\ Written(s[i]) /\ conn \in Links /\ s[i].from = "closed"
  BY <1>1, StreamAt DEF Bodies
<1>3. Ready(d) /\ d.queue \in Seq({"chunk", "eof"})
  BY <1>1, <1>2, FinishIsReady DEF StreamRecords
<1> HIDE DEF d
<1>4. q \in Seq({"chunk", "eof"})
  BY <1>3
<1> HIDE DEF q
<1>5. Ready(e)
  BY <1>3, <1>4, QueueIsReady
<1>6. ~Needs(s[i])
  BY <1>1, <1>2 DEF Needs, Using
<1> QED BY <1>1, <1>2, <1>5, <1>6, OversKeep
-----------------------------------------------------------------------------
(* A stream begins, meets the origin and copies its response.              *)

LEMMA FreshStream ==
  /\ newStream \in StreamRecords
  /\ newStream.pc = "idle" /\ newStream.from = "none" /\ newStream.rows = 0
  /\ newStream.skip = FALSE /\ newStream.wrote = 0
<1>1. "idle" \in Pcs
  BY Literals DEF Unrecorded, Early
<1>2. << >> \in Seq({"chunk", "eof"})
  OBVIOUS
<1>3. newStream \in StreamRecords
  BY <1>1, <1>2, Literals DEF newStream, StreamRecords
<1> QED BY <1>3 DEF newStream

LEMMA OpenKeeps ==
  ASSUME StreamsInv, NEW i \in Streams, NEW kind \in KindNames, NEW req \in Actions,
         Open(i, kind, req)
  PROVE  StreamsInv'
<1> DEFINE e == [newStream EXCEPT !.pc = "match", !.kind = kind, !.req = req]
<1>1. /\ s[i].pc = "idle" /\ Set(i, e)
      /\ originMu' = originMu /\ conn' = conn /\ originH2' = originH2
  BY DEF Open
<1>2. s[i].from = "none" /\ conn \in Links
  BY <1>1, StreamAt DEF Bodies, Early
<1>3. e \in StreamRecords
  <2>1. "match" \in Pcs
    BY Literals DEF Unrecorded, Early
  <2> QED BY <2>1, FreshStream DEF StreamRecords
<1>4. e.pc = "match" /\ e.from = "none" /\ e.rows = 0 /\ e.skip = FALSE /\ e.wrote = 0
  BY FreshStream DEF StreamRecords
<1> HIDE DEF e
<1>5. Stream(e) /\ ~Needs(e) /\ ~Needs(s[i])
  BY <1>1, <1>2, <1>3, <1>4 DEF Stream, Needs, Bodies, Written, Early, Using, Unanswered,
     Unrecorded, Recorded
<1> QED BY <1>1, <1>2, <1>5, Moves

LEMMA ForbiddenKeeps ==
  ASSUME StreamsInv, NEW i \in Streams, Forbidden(i)
  PROVE  StreamsInv'
<1> DEFINE e == [newStream EXCEPT !.pc = "done", !.answer = "reset", !.gone = TRUE]
<1>1. /\ s[i].pc = "idle" /\ Set(i, e)
      /\ originMu' = originMu /\ conn' = conn /\ originH2' = originH2
  BY DEF Forbidden
<1>2. s[i].from = "none" /\ conn \in Links
  BY <1>1, StreamAt DEF Bodies, Early
<1>3. e \in StreamRecords
  BY FreshStream, Literals DEF StreamRecords
<1>4. e.pc = "done" /\ e.from = "none" /\ e.rows = 0 /\ e.skip = FALSE /\ e.wrote = 0
  BY FreshStream DEF StreamRecords
<1> HIDE DEF e
<1>5. Stream(e) /\ ~Needs(e) /\ ~Needs(s[i])
  BY <1>1, <1>2, <1>3, <1>4 DEF Stream, Needs, Bodies, Written, Early, Using, Unanswered,
     Unrecorded, Recorded
<1> QED BY <1>1, <1>2, <1>5, Moves

\* The stream has the reservation and meets the origin's connection.
LEMMA RoundTripsKeep ==
  ASSUME StreamsInv, NEW i \in Streams,
         RoundTripStart(i) \/ RefusesRedial(i) \/ OriginFails(i)
  PROVE  StreamsInv'
<1>1. s[i] \in StreamRecords /\ Bodies(s[i]) /\ Written(s[i]) /\ conn \in Links
  BY StreamAt
<1>2. PICK pc \in {"awaitResponse", "drain"} :
        /\ s[i].pc \in {"roundTrip", "awaitResponse"} /\ Set(i, [s[i] EXCEPT !.pc = pc])
        /\ originMu' = originMu /\ originH2' = originH2
  BY DEF RoundTripStart, RefusesRedial, OriginFails
<1>3. conn' \in Links
  BY <1>1 DEF RoundTripStart, RefusesRedial, OriginFails, Links
<1> DEFINE e == [s[i] EXCEPT !.pc = pc]
<1>4. Same(s[i], e) /\ e.pc = pc
  <2>1. pc \in Pcs
    BY Literals DEF Unrecorded, Early, Using
  <2> QED BY <1>1, <2>1, StepsTo
<1> HIDE DEF e
<1>5. Stream(e)
  BY <1>1, <1>2, <1>4 DEF Same, Counted, Carries, Stream, Bodies, Written, Early, Using,
     Unanswered, Unrecorded, Recorded
<1>6. Needs(e) /\ Needs(s[i])
  BY <1>2, <1>4 DEF Needs, Using
<1> QED BY <1>2, <1>3, <1>5, <1>6, Moves DEF e

LEMMA OriginAnswersKeeps ==
  ASSUME StreamsInv, NEW i \in Streams, NEW resp \in Actions, NEW rsize \in Sizes,
         OriginAnswers(i, resp, rsize)
  PROVE  StreamsInv'
<1> DEFINE from == IF rsize = "none" THEN "closed" ELSE "open"
           n == IF rsize = "none" THEN 0 ELSE MaxChunks
           e == [s[i] EXCEPT !.pc = "respond", !.resp = resp, !.rsize = rsize, !.from = from,
                   !.unsent = n]
<1>1. s[i] \in StreamRecords /\ Bodies(s[i]) /\ Written(s[i]) /\ conn \in Links
  BY StreamAt
<1>2. s[i].pc = "awaitResponse" /\ Set(i, e) /\ originH2' = originH2
  BY DEF OriginAnswers
<1>3. from \in Bodys /\ n \in Nat /\ "respond" \in Pcs
  BY Literals, StreamsAssumption DEF Unrecorded
<1>4. from = "open" <=> rsize # "none"
  OBVIOUS
<1> HIDE DEF from, n
<1>5. e \in StreamRecords
  BY <1>1, <1>3 DEF StreamRecords
<1>6. /\ e.pc = "respond" /\ e.from = from /\ e.rows = s[i].rows
      /\ e.resumed = s[i].resumed /\ e.skip = s[i].skip /\ e.wrote = s[i].wrote
  BY <1>1 DEF StreamRecords
<1> HIDE DEF e
<1>7. Stream(e)
  BY <1>1, <1>2, <1>5, <1>6 DEF Stream, Bodies, Written, Early, Using, Unanswered, Unrecorded,
     Recorded
<1>8. Needs(s[i]) /\ (Needs(e) <=> rsize # "none")
  BY <1>2, <1>4, <1>6 DEF Needs, Using
<1>9. CASE rsize = "none"
  <2>1. Release(i) /\ conn' \in Links
    BY <1>1, <1>9 DEF OriginAnswers, Links
  <2> QED BY <1>2, <1>7, <1>8, <1>9, <2>1, Frees
<1>10. CASE rsize # "none"
  <2>1. originMu' = originMu /\ conn' = conn
    BY <1>10 DEF OriginAnswers
  <2> QED BY <1>1, <1>2, <1>7, <1>8, <1>10, <2>1, Moves
<1> QED BY <1>9, <1>10

LEMMA OriginUpgradesKeeps ==
  ASSUME StreamsInv, NEW i \in Streams, OriginUpgrades(i)
  PROVE  StreamsInv'
<1> DEFINE e == [s[i] EXCEPT !.pc = "upgrade", !.from = "open"]
<1>1. s[i] \in StreamRecords /\ Bodies(s[i]) /\ Written(s[i]) /\ conn \in Links
  BY StreamAt
<1>2. /\ s[i].pc = "awaitResponse" /\ Set(i, e)
      /\ originMu' = originMu /\ conn' = conn /\ originH2' = originH2
  BY DEF OriginUpgrades
<1>3. e \in StreamRecords
  <2>1. "upgrade" \in Pcs
    BY Literals DEF Unrecorded
  <2> QED BY <1>1, <2>1, Literals DEF StreamRecords
<1>4. /\ e.pc = "upgrade" /\ e.from = "open" /\ e.rows = s[i].rows
      /\ e.resumed = s[i].resumed /\ e.skip = s[i].skip /\ e.wrote = s[i].wrote
  BY <1>1 DEF StreamRecords
<1> HIDE DEF e
<1>5. Stream(e)
  BY <1>1, <1>2, <1>3, <1>4 DEF Stream, Bodies, Written, Early, Using, Unanswered, Unrecorded,
     Recorded
<1>6. Needs(s[i]) /\ Needs(e)
  BY <1>2, <1>4 DEF Needs, Using
<1> QED BY <1>1, <1>2, <1>5, <1>6, Moves
\* A step that moves neither the exchange nor the origin.
LEMMA Stands ==
  ASSUME StreamsInv, NEW i \in Streams, NEW e, Same(s[i], e), e.pc = s[i].pc, Set(i, e),
         originMu' = originMu, conn' = conn, originH2' = originH2
  PROVE  StreamsInv'
<1>1. Bodies(s[i]) /\ Written(s[i]) /\ conn \in Links
  BY StreamAt
<1>2. Stream(e)
  BY <1>1 DEF Same, Counted, Carries, Stream, Bodies, Written
<1>3. Needs(e) <=> Needs(s[i])
  BY DEF Same, Carries, Needs
<1> QED BY <1>1, <1>2, <1>3, Moves

LEMMA PublishKeeps ==
  ASSUME StreamsInv, NEW i \in Streams, Publish(i)
  PROVE  StreamsInv'
<1> DEFINE a == IF s[i].answer = "none" THEN "headers" ELSE s[i].answer
           e == [s[i] EXCEPT !.pc = "copy", !.answer = a]
<1>1. s[i] \in StreamRecords /\ Bodies(s[i]) /\ Written(s[i]) /\ conn \in Links
  BY StreamAt
<1>2. /\ s[i].pc = "write" /\ Set(i, e)
      /\ originMu' = originMu /\ conn' = conn /\ originH2' = originH2
  BY DEF Publish
<1>3. a \in Answers /\ "copy" \in Pcs
  BY <1>1, Literals DEF StreamRecords, Unrecorded
<1> HIDE DEF a
<1>4. e \in StreamRecords
  BY <1>1, <1>3 DEF StreamRecords
<1>5. /\ e.pc = "copy" /\ e.from = s[i].from /\ e.rows = s[i].rows
      /\ e.resumed = s[i].resumed /\ e.skip = s[i].skip /\ e.wrote = s[i].wrote
  BY <1>1 DEF StreamRecords
<1> HIDE DEF e
<1>6. Stream(e)
  BY <1>1, <1>2, <1>4, <1>5 DEF Stream, Bodies, Written, Early, Using, Unanswered, Unrecorded,
     Recorded
<1>7. Needs(e) <=> Needs(s[i])
  BY <1>2, <1>5 DEF Needs, Using
<1> QED BY <1>1, <1>2, <1>6, <1>7, Moves

LEMMA CopyChunkKeeps ==
  ASSUME StreamsInv, NEW i \in Streams, CopyChunk(i)
  PROVE  StreamsInv'
<1> DEFINE q == Append(s[i].queue, "chunk")
           n == s[i].unsent - 1
           e == [s[i] EXCEPT !.queue = q, !.unsent = n]
<1>1. s[i] \in StreamRecords
  BY StreamAt
<1>2. /\ s[i].unsent > 0 /\ Set(i, e)
      /\ originMu' = originMu /\ conn' = conn /\ originH2' = originH2
  BY DEF CopyChunk
<1>3. q \in Seq({"chunk", "eof"}) /\ n \in Nat
  BY <1>1, <1>2 DEF StreamRecords
<1> HIDE DEF q, n
<1>4. e \in StreamRecords
  BY <1>1, <1>3 DEF StreamRecords
<1>5. Same(s[i], e) /\ e.pc = s[i].pc
  BY <1>1, <1>4 DEF Same, Counted, Carries, StreamRecords
<1> QED BY <1>2, <1>5, Stands

LEMMA ClientReadsKeeps ==
  ASSUME StreamsInv, NEW i \in Streams, ClientReads(i)
  PROVE  StreamsInv'
<1> DEFINE q == Tail(s[i].queue)
           a == IF Head(s[i].queue) = "eof" THEN "end" ELSE s[i].answer
           e == [s[i] EXCEPT !.queue = q, !.answer = a]
<1>1. s[i] \in StreamRecords
  BY StreamAt
<1>2. /\ s[i].queue # << >> /\ Set(i, e)
      /\ originMu' = originMu /\ conn' = conn /\ originH2' = originH2
  BY DEF ClientReads
<1>3. q \in Seq({"chunk", "eof"}) /\ a \in Answers
  BY <1>1, <1>2, Literals DEF StreamRecords
<1> HIDE DEF q, a
<1>4. e \in StreamRecords
  BY <1>1, <1>3 DEF StreamRecords
<1>5. Same(s[i], e) /\ e.pc = s[i].pc
  BY <1>1, <1>4 DEF Same, Counted, Carries, StreamRecords
<1> QED BY <1>2, <1>5, Stands

LEMMA ClientEndsUploadKeeps ==
  ASSUME StreamsInv, NEW i \in Streams, ClientEndsUpload(i)
  PROVE  StreamsInv'
<1> DEFINE e == [s[i] EXCEPT !.drained = TRUE]
<1>1. s[i] \in StreamRecords
  BY StreamAt
<1>2. Set(i, e) /\ originMu' = originMu /\ conn' = conn /\ originH2' = originH2
  BY DEF ClientEndsUpload
<1>3. e \in StreamRecords
  BY <1>1 DEF StreamRecords
<1>4. Same(s[i], e) /\ e.pc = s[i].pc
  BY <1>1, <1>3 DEF Same, Counted, Carries, StreamRecords
<1> QED BY <1>2, <1>4, Stands

LEMMA ClientResetsKeeps ==
  ASSUME StreamsInv, NEW i \in Streams, ClientResets(i)
  PROVE  StreamsInv'
<1> DEFINE e == [s[i] EXCEPT !.gone = TRUE, !.answer = "reset", !.queue = << >>]
<1>1. s[i] \in StreamRecords
  BY StreamAt
<1>2. Set(i, e) /\ originMu' = originMu /\ conn' = conn /\ originH2' = originH2
  BY DEF ClientResets
<1>3. e \in StreamRecords
  <2>1. << >> \in Seq({"chunk", "eof"})
    OBVIOUS
  <2> QED BY <1>1, <2>1, Literals DEF StreamRecords
<1>4. Same(s[i], e) /\ e.pc = s[i].pc
  BY <1>1, <1>3 DEF Same, Counted, Carries, StreamRecords
<1> QED BY <1>2, <1>4, Stands

\* The origin's body comes to its end: the copy found it, the write failed, or
\* the stream's context ended.
LEMMA CopyEndsKeep ==
  ASSUME StreamsInv, NEW i \in Streams, CopyEnds(i) \/ CopyFails(i) \/ CancelClosesBody(i)
  PROVE  StreamsInv'
<1>1. s[i] \in StreamRecords /\ Bodies(s[i]) /\ Written(s[i])
  BY StreamAt
<1>2. Release(i) /\ conn' \in Links /\ originH2' = originH2
  BY Closes DEF CopyEnds, CopyFails, CancelClosesBody
<1>3. CASE CopyEnds(i) \/ CopyFails(i)
  <2>1. PICK n \in Nat : s[i].pc = "copy" /\ Set(i, [s[i] EXCEPT !.pc = "finish",
                                                         !.from = "closed", !.unsent = n])
    <3>1. CASE CopyFails(i)
      BY <3>1 DEF CopyFails
    <3>2. CASE CopyEnds(i)
      <4>1. [s[i] EXCEPT !.pc = "finish", !.from = "closed"]
              = [s[i] EXCEPT !.pc = "finish", !.from = "closed", !.unsent = s[i].unsent]
        BY <1>1 DEF StreamRecords
      <4>2. s[i].unsent \in Nat
        BY <1>1 DEF StreamRecords
      <4> QED BY <3>2, <4>1, <4>2 DEF CopyEnds
    <3> QED BY <1>3, <3>1, <3>2
  <2> DEFINE e == [s[i] EXCEPT !.pc = "finish", !.from = "closed", !.unsent = n]
  <2>2. e \in StreamRecords
    <3>1. "finish" \in Pcs
      BY Literals DEF Unrecorded
    <3> QED BY <1>1, <3>1, Literals DEF StreamRecords
  <2>3. /\ e.pc = "finish" /\ e.from = "closed" /\ e.rows = s[i].rows
        /\ e.resumed = s[i].resumed /\ e.skip = s[i].skip /\ e.wrote = s[i].wrote
    BY <1>1 DEF StreamRecords
  <2> HIDE DEF e
  <2>4. Stream(e) /\ ~Needs(e)
    BY <1>1, <2>1, <2>2, <2>3 DEF Stream, Needs, Bodies, Written, Early, Using, Unanswered,
       Unrecorded, Recorded
  <2> QED BY <1>2, <2>1, <2>4, Frees DEF e
<1>4. CASE CancelClosesBody(i)
  <2> DEFINE e == [s[i] EXCEPT !.from = "closed", !.unsent = 0]
  <2>1. Set(i, e) /\ s[i].pc \in {"respond", "respSleep", "respPaused", "write", "copy"}
    BY <1>4 DEF CancelClosesBody
  <2>2. e \in StreamRecords
    BY <1>1, Literals DEF StreamRecords
  <2>3. /\ e.pc = s[i].pc /\ e.from = "closed" /\ e.rows = s[i].rows
        /\ e.resumed = s[i].resumed /\ e.skip = s[i].skip /\ e.wrote = s[i].wrote
    BY <1>1 DEF StreamRecords
  <2> HIDE DEF e
  <2>4. Stream(e) /\ ~Needs(e)
    BY <1>1, <2>1, <2>2, <2>3 DEF Stream, Needs, Bodies, Written, Early, Using
  <2> QED BY <1>2, <2>1, <2>4, Frees
<1> QED BY <1>3, <1>4

LEMMA UpgradeAcceptedKeeps ==
  ASSUME StreamsInv, NEW i \in Streams, NEW inspect \in BOOLEAN, UpgradeAccepted(i, inspect)
  PROVE  StreamsInv'
<1> DEFINE a == IF s[i].answer = "none" THEN "headers" ELSE s[i].answer
           e == [s[i] EXCEPT !.wrote = @ + 1, !.answer = a]
<1>1. s[i] \in StreamRecords /\ Bodies(s[i]) /\ Written(s[i]) /\ conn \in Links
  BY StreamAt
<1>2. /\ s[i].pc = "upgrade"
      /\ Set(i, IF inspect THEN [e EXCEPT !.pc = "inspect"]
                ELSE [capture(e) EXCEPT !.pc = "tunnel"])
      /\ originMu' = originMu /\ conn' = conn /\ originH2' = originH2
  BY DEF UpgradeAccepted
<1>3. a \in Answers /\ s[i].wrote + 1 \in Nat /\ {"inspect", "tunnel"} \subseteq Pcs
  BY <1>1, Literals DEF StreamRecords, Unrecorded, Recorded
<1>4. /\ s[i].wrote = 0 /\ (s[i].rows > 0 => s[i].resumed \/ s[i].skip) /\ s[i].rows \in Nat
      /\ (s[i].skip => s[i].rows > 0)
  BY <1>1, <1>2 DEF Written, Unanswered, Unrecorded, StreamRecords
<1> HIDE DEF a
<1>5. e \in StreamRecords
  BY <1>1, <1>3 DEF StreamRecords
<1>6. /\ e.from = s[i].from /\ e.rows = s[i].rows /\ e.resumed = s[i].resumed
      /\ e.skip = s[i].skip /\ e.wrote = 1
  BY <1>1, <1>4 DEF StreamRecords
<1> HIDE DEF e
<1>7. CASE inspect
  <2> DEFINE d == [e EXCEPT !.pc = "inspect"]
  <2>1. Same(e, d) /\ d.pc = "inspect"
    BY <1>3, <1>5, StepsTo
  <2>2. Set(i, d)
    BY <1>2, <1>7
  <2> HIDE DEF d
  <2>3. Stream(d) /\ (Needs(d) <=> Needs(s[i]))
    BY <1>2, <1>4, <1>6, <2>1 DEF Same, Counted, Carries, Stream, Needs, Bodies, Written, Early,
       Using, Unanswered, Unrecorded, Recorded
  <2> QED BY <1>1, <1>2, <2>2, <2>3, Moves
<1>8. CASE ~inspect
  <2> DEFINE d == [capture(e) EXCEPT !.pc = "tunnel"]
  <2>1. /\ Carries(e, d) /\ d.pc = "tunnel" /\ d.rows = e.rows + 1
        /\ d.resumed = e.resumed /\ d.skip = e.skip /\ d.wrote = e.wrote
    BY <1>3, <1>5, CapturesTo
  <2>2. Set(i, d)
    BY <1>2, <1>8
  <2> HIDE DEF d
  <2>3. Stream(d) /\ (Needs(d) <=> Needs(s[i]))
    BY <1>2, <1>4, <1>6, <2>1 DEF Carries, Stream, Needs, Bodies, Written, Early, Using,
       Unanswered, Unrecorded, Recorded
  <2> QED BY <1>1, <1>2, <2>2, <2>3, Moves
<1> QED BY <1>7, <1>8

-----------------------------------------------------------------------------
LEMMA NextKeeps ==
  ASSUME StreamsInv, [Next]_vars
  PROVE  StreamsInv'
<1>1. CASE UNCHANGED vars
  BY <1>1 DEF vars, StreamsInv, TypeOK
<1>2. ASSUME NEW i \in Streams, Worker(i) PROVE StreamsInv'
  <2>1. RespActions(i) \subseteq Actions
    BY StreamsAssumption
  <2> QED BY <1>2, <2>1, RequestRulesKeep, AnswersKeep, LockKeeps, RoundTripsKeep,
             OriginAnswersKeeps, OriginUpgradesKeeps, UpstreamErrorFrees, ResponseRulesKeep,
             PublishKeeps, CopyChunkKeeps, CopyEndsKeep, FinishKeeps, UpgradeRefusedKeeps,
             UpgradeAcceptedKeeps, TunnelEndsKeeps, Zenon DEF Worker
<1>3. ASSUME NEW i \in Streams, NEW kind \in {"http", "ws"}, NEW req \in ReqActions(i),
             Open(i, kind, req)
      PROVE  StreamsInv'
  BY <1>3, StreamsAssumption, OpenKeeps DEF KindNames
<1>4. ASSUME NEW i \in Streams,
             Forbidden(i) \/ CancelClosesBody(i) \/ Client(i) \/ ClientResets(i)
      PROVE  StreamsInv'
  BY <1>4, ForbiddenKeeps, CopyEndsKeep, ClientReadsKeeps, ClientEndsUploadKeeps,
     ClientResetsKeeps, Zenon DEF Client
<1> QED BY <1>1, <1>2, <1>3, <1>4 DEF Next

LEMMA InitKeeps ==
  ASSUME Init
  PROVE  StreamsInv
<1>1. s = [i \in Streams |-> newStream] /\ originMu = Nobody /\ conn = "fresh"
      /\ originH2 \in BOOLEAN
  BY DEF Init
<1>2. TypeOK
  BY <1>1, FreshStream DEF TypeOK, Links
<1>3. Stream(newStream) /\ ~Needs(newStream)
  BY FreshStream DEF Stream, Needs, Bodies, Written, Early, Using, Unanswered, Unrecorded, Recorded
<1>4. Reserves(s, originMu, originH2)
  BY <1>1, <1>3, StreamsAssumption DEF Reserves
<1> QED BY <1>1, <1>2, <1>3, <1>4 DEF StreamsInv

\* The inductive invariant of the streams of one connection: what each holds of
\* the origin, what it recorded and what it answered follow from where it is.
THEOREM StreamsInvariant == Spec => []StreamsInv
<1>1. Init => StreamsInv
  BY InitKeeps
<1>2. StreamsInv /\ [Next]_vars => StreamsInv'
  BY NextKeeps
<1> QED BY <1>1, <1>2, PTL DEF Spec

\* OriginIsReserved, for any number of streams and chunks and every rule: the one
\* HTTP/1.1 connection to the origin belongs to the stream whose request or
\* response is on it, until that response has ended on whichever path, and a
\* stream that waits for an operator keeps it from nobody.
THEOREM OriginStaysReserved == Spec => []OriginIsReserved
<1>1. StreamsInv => OriginIsReserved
  <2> SUFFICES ASSUME StreamsInv, NEW i \in Streams
               PROVE  /\ ~originH2 /\ (s[i].pc = "awaitResponse" \/ s[i].from = "open")
                           => originMu = i
                      /\ s[i].pc = "reqPaused" \/ (s[i].pc = "respPaused" /\ s[i].rsize # "over")
                           => originMu # i
    BY DEF OriginIsReserved
  <2>1. originMu = i <=> ~originH2 /\ (s[i].pc \in Using \/ s[i].from = "open")
    BY DEF StreamsInv, Reserves, Needs
  <2>2. Bodies(s[i])
    BY StreamAt
  <2> QED BY <2>1, <2>2 DEF Bodies, Early, Using
<1> QED BY <1>1, StreamsInvariant, PTL

\* AnsweredIsRecorded, likewise: a stream that was answered, by its origin, a
\* rule, an operator or an error, was answered once and has its flow, and two
\* only past a breakpoint.
THEOREM AnswersAreRecorded == Spec => []AnsweredIsRecorded
<1>1. StreamsInv => AnsweredIsRecorded
  <2> SUFFICES ASSUME StreamsInv, NEW i \in Streams, s[i].pc = "done", s[i].wrote > 0
               PROVE  /\ s[i].rows > 0 /\ s[i].wrote = 1
                      /\ s[i].rows > 1 => s[i].resumed \/ s[i].skip
    BY DEF AnsweredIsRecorded
  <2>1. s[i] \in StreamRecords /\ Written(s[i])
    BY StreamAt
  <2> QED BY <2>1 DEF Written, StreamRecords
<1> QED BY <1>1, StreamsInvariant, PTL

-----------------------------------------------------------------------------
(* Http2Serve.                                                             *)

ServeBodyRecord == [buf : Nat, closed : BOOLEAN, released : BOOLEAN]
HandlerRecord ==
  [at : {"none", "run", "write", "take", "data", "finish"}, want : Nat, has : Nat, writes : Nat]
LoopRecord == [at : {"frame", "data", "ended", "fatal"}, id : Ids \cup {0}, n : Nat, end : BOOLEAN]
ServeTearRecord == [id : Ids, by : {"loop", "handler"}, step : {"remove", "credit"}, unread : Nat]
ServeStreamWindows == UNION {[D -> Int] : D \in SUBSET Ids}
ServeOutRecord == [conn : Nat, stream : ServeStreamWindows, init : Nat, closed : BOOLEAN]
ServeInRecord == [conn : Nat, stream : ServeStreamWindows]

ServeTypes ==
  /\ over \in BOOLEAN /\ lastID \in Nat /\ open \in Nat
  /\ streams \in SUBSET Ids /\ done \in SUBSET Ids /\ ended \in SUBSET Ids
  /\ body \in [Ids -> ServeBodyRecord] /\ h \in [Ids -> HandlerRecord] /\ rd \in [Ids -> Nat]
  /\ loop \in LoopRecord /\ tear \in SUBSET ServeTearRecord /\ IsFiniteSet(tear)
  /\ out \in ServeOutRecord /\ inb \in ServeInRecord
  /\ wire \in Nat /\ sent \in Nat

Removing(T, i) == \E t \in T : t.step = "remove" /\ t.id = i

\* finish holds mu from the release of the body's window to the removal.
RemovalInv ==
  /\ \A p, t \in tear : p.step = "remove" /\ t.step = "remove" => p = t
  /\ \A i \in Ids : Removing(tear, i) => i \in streams /\ i \in ended
  /\ \A i \in streams : body[i].released => Removing(tear, i)

EndedInv ==
  /\ \A i \in Ids : body[i].closed => i \in ended
  /\ loop.at \in {"data", "ended"} => loop.id \in Ids
  /\ loop.at = "ended" => loop.id \in ended
  /\ loop.at # "data" => loop.n = 0

\* What a stream, and what the connection, has received and not given back.
ServeHeld(b, r) == [i \in Ids |-> unreleased(b[i]) + r[i]]
ServeKept(T) == [t \in T |-> t.unread]
UnreadOf(b, r, n, T) == SumFunctionOnSet(ServeHeld(b, r), Ids) + n + SumFunctionOnSet(ServeKept(T), T)
InHand(l, i) == IF l.id = i THEN l.n ELSE 0

ServeReceiveInv ==
  ~over =>
    /\ open = Cardinality(streams) /\ open <= MaxStreams
    /\ DOMAIN inb.stream = streams
    /\ inb.conn + UnreadOf(body, rd, loop.n, tear) <= RecvWin
    /\ \A i \in streams :
         \/ Removing(tear, i)
         \/ inb.stream[i] + ServeHeld(body, rd)[i] + InHand(loop, i) >= RecvWin

ServeTaken(x) == [i \in Ids |-> x[i].has]

ServeSendInv ==
  /\ out.conn + wire + SumFunctionOnSet(ServeTaken(h), Ids) <= SendWin
  /\ \A i \in Ids : h[i].at # "data" => h[i].has = 0
  /\ \A i \in Ids : h[i].at # "none" => i <= lastID

ServeInv ==
  ServeConstants /\ ServeTypes /\ RemovalInv /\ EndedInv /\ ServeReceiveInv /\ ServeSendInv

-----------------------------------------------------------------------------
(* The windows.                                                            *)

LEMMA ServeWindowsShape ==
  ASSUME NEW g \in ServeStreamWindows
  PROVE  DOMAIN g \in SUBSET Ids /\ g \in [DOMAIN g -> Int]
BY DEF ServeStreamWindows

LEMMA ServeWindowsMember ==
  ASSUME NEW D \in SUBSET Ids, NEW g \in [D -> Int]
  PROVE  g \in ServeStreamWindows
BY DEF ServeStreamWindows

LEMMA ServeNoWindows == << >> \in ServeStreamWindows /\ DOMAIN << >> = {}
<1>1. << >> \in [{} -> Int]
  OBVIOUS
<1> QED BY <1>1, ServeWindowsMember

LEMMA ServeDropWindow ==
  ASSUME NEW g \in ServeStreamWindows, NEW id
  PROVE  /\ Drop(g, id) \in ServeStreamWindows /\ DOMAIN Drop(g, id) = DOMAIN g \ {id}
         /\ \A i \in DOMAIN g \ {id} : Drop(g, id)[i] = g[i]
<1>1. Drop(g, id) \in [DOMAIN g \ {id} -> Int]
  BY ServeWindowsShape DEF Drop
<1>2. DOMAIN g \ {id} \in SUBSET Ids
  BY ServeWindowsShape
<1> QED BY <1>1, <1>2, ServeWindowsMember DEF Drop

IsOut(f) == f = [conn |-> f.conn, stream |-> f.stream, init |-> f.init, closed |-> f.closed]

\* What each operation does to the connection's send window.
LEMMA OutOperations ==
  ASSUME NEW f \in ServeOutRecord, NEW id
  PROVE  /\ id \in Ids => outOpen(f, id) \in ServeOutRecord /\ outOpen(f, id).conn = f.conn
         /\ outForget(f, id) \in ServeOutRecord /\ outForget(f, id).conn = f.conn
         /\ \A n \in Nat : outAddConn(f, n) \in ServeOutRecord /\ outAddConn(f, n).conn = f.conn + n
         /\ \A v \in Nat : /\ applyInitialWindow(f, v) \in ServeOutRecord
                           /\ applyInitialWindow(f, v).conn = f.conn
         /\ [outClose(f) EXCEPT !.stream = << >>] \in ServeOutRecord
         /\ [outClose(f) EXCEPT !.stream = << >>].conn = f.conn
<1>1. /\ f.conn \in Nat /\ f.init \in Nat /\ f.closed \in BOOLEAN /\ f.stream \in ServeStreamWindows
      /\ IsOut(f)
  BY DEF ServeOutRecord, IsOut
<1>2. DOMAIN f.stream \in SUBSET Ids /\ f.stream \in [DOMAIN f.stream -> Int]
  BY <1>1, ServeWindowsShape
<1>3. ASSUME NEW c \in Nat, NEW win \in ServeStreamWindows, NEW v \in Nat, NEW b \in BOOLEAN
      PROVE  [conn |-> c, stream |-> win, init |-> v, closed |-> b] \in ServeOutRecord
  BY DEF ServeOutRecord
<1>4. ASSUME id \in Ids PROVE outOpen(f, id) \in ServeOutRecord /\ outOpen(f, id).conn = f.conn
  <2> DEFINE win == [i \in DOMAIN f.stream \cup {id} |-> IF i = id THEN f.init ELSE f.stream[i]]
  <2>1. win \in [DOMAIN f.stream \cup {id} -> Int] /\ DOMAIN f.stream \cup {id} \in SUBSET Ids
    BY <1>1, <1>2, <1>4
  <2>2. win \in ServeStreamWindows
    BY <2>1, ServeWindowsMember
  <2> HIDE DEF win
  <2>3. [f EXCEPT !.stream = win] = [conn |-> f.conn, stream |-> win, init |-> f.init,
                                   closed |-> f.closed]
    BY <1>1 DEF IsOut
  <2>4. [f EXCEPT !.stream = win] \in ServeOutRecord /\ [f EXCEPT !.stream = win].conn = f.conn
    BY <1>1, <1>3, <2>2, <2>3
  <2>5. outOpen(f, id) = f \/ outOpen(f, id) = [f EXCEPT !.stream = win]
    BY DEF outOpen, win
  <2> QED BY <2>4, <2>5
<1>5. outForget(f, id) \in ServeOutRecord /\ outForget(f, id).conn = f.conn
  <2>1. Drop(f.stream, id) \in ServeStreamWindows
    BY <1>1, ServeDropWindow
  <2>2. outForget(f, id) = [conn |-> f.conn, stream |-> Drop(f.stream, id), init |-> f.init,
                            closed |-> f.closed]
    BY <1>1 DEF outForget, IsOut
  <2> QED BY <1>1, <1>3, <2>1, <2>2
<1>6. ASSUME NEW n \in Nat
      PROVE  outAddConn(f, n) \in ServeOutRecord /\ outAddConn(f, n).conn = f.conn + n
  <2>1. outAddConn(f, n) = [conn |-> f.conn + n, stream |-> f.stream, init |-> f.init,
                            closed |-> f.closed]
    BY <1>1 DEF outAddConn, IsOut
  <2> QED BY <1>1, <1>3, <2>1
<1>8. ASSUME NEW v \in Nat
      PROVE  applyInitialWindow(f, v) \in ServeOutRecord /\ applyInitialWindow(f, v).conn = f.conn
  <2> DEFINE win == [i \in DOMAIN f.stream |-> f.stream[i] + (v - f.init)]
  <2>1. win \in [DOMAIN f.stream -> Int]
    BY <1>1, <1>2
  <2>2. win \in ServeStreamWindows
    BY <1>2, <2>1, ServeWindowsMember
  <2> HIDE DEF win
  <2> DEFINE p == [f EXCEPT !.init = v]
  <2>3. p = [conn |-> f.conn, stream |-> f.stream, init |-> v, closed |-> f.closed]
    BY <1>1 DEF IsOut
  <2>4. applyInitialWindow(f, v) = [p EXCEPT !.stream = win]
    BY DEF applyInitialWindow, win
  <2> HIDE DEF p
  <2>5. [p EXCEPT !.stream = win] = [conn |-> f.conn, stream |-> win, init |-> v,
                                   closed |-> f.closed]
    BY <2>3
  <2> QED BY <1>1, <1>3, <2>2, <2>4, <2>5
<1>9. outClose(f) \in ServeOutRecord /\ outClose(f).conn = f.conn
  BY DEF outClose, ServeOutRecord
<1>10. /\ [outClose(f) EXCEPT !.stream = << >>] \in ServeOutRecord
       /\ [outClose(f) EXCEPT !.stream = << >>].conn = f.conn
  <2> DEFINE p == outClose(f)
  <2> HIDE DEF p
  <2>1. p \in ServeOutRecord /\ p.conn = f.conn
    BY <1>9 DEF p
  <2>2. [p EXCEPT !.stream = << >>] \in ServeOutRecord
    BY <2>1, ServeNoWindows DEF ServeOutRecord
  <2>3. [p EXCEPT !.stream = << >>].conn = f.conn
    BY <2>1 DEF ServeOutRecord
  <2> QED BY <2>2, <2>3 DEF p
<1> QED BY <1>4, <1>5, <1>6, <1>8, <1>10

LEMMA ServeOutAdded ==
  ASSUME NEW f \in ServeOutRecord, NEW id, NEW n \in Nat
  PROVE  outAdd(f, id, n) \in ServeOutRecord /\ outAdd(f, id, n).conn = f.conn
<1>1. /\ f.conn \in Nat /\ f.init \in Nat /\ f.closed \in BOOLEAN /\ f.stream \in ServeStreamWindows
      /\ IsOut(f)
  BY DEF ServeOutRecord, IsOut
<1>2. DOMAIN f.stream \in SUBSET Ids /\ f.stream \in [DOMAIN f.stream -> Int]
  BY <1>1, ServeWindowsShape
<1> DEFINE win == [f.stream EXCEPT ![id] = f.stream[id] + n]
<1>3. ASSUME id \in DOMAIN f.stream PROVE win \in ServeStreamWindows
  <2>1. win \in [DOMAIN f.stream -> Int]
    BY <1>2, <1>3
  <2> QED BY <1>2, <2>1, ServeWindowsMember
<1> HIDE DEF win
<1>4. win \in ServeStreamWindows => [f EXCEPT !.stream = win] \in ServeOutRecord
  BY DEF ServeOutRecord
<1>5. [f EXCEPT !.stream = win].conn = f.conn
  BY DEF ServeOutRecord
<1>6. outAdd(f, id, n) = IF id \in DOMAIN f.stream THEN [f EXCEPT !.stream = win] ELSE f
  BY DEF outAdd, win
<1> QED BY <1>3, <1>4, <1>5, <1>6

LEMMA ServeOutTaken ==
  ASSUME NEW f \in ServeOutRecord, NEW id \in DOMAIN f.stream, NEW n \in Nat, n <= f.conn
  PROVE  outTake(f, id, n) \in ServeOutRecord /\ outTake(f, id, n).conn = f.conn - n
<1>1. /\ f.conn \in Nat /\ f.init \in Nat /\ f.closed \in BOOLEAN /\ f.stream \in ServeStreamWindows
      /\ IsOut(f)
  BY DEF ServeOutRecord, IsOut
<1>2. DOMAIN f.stream \in SUBSET Ids /\ f.stream \in [DOMAIN f.stream -> Int]
  BY <1>1, ServeWindowsShape
<1> DEFINE win == [f.stream EXCEPT ![id] = f.stream[id] - n]
<1>3. win \in [DOMAIN f.stream -> Int]
  BY <1>2
<1>4. win \in ServeStreamWindows
  BY <1>2, <1>3, ServeWindowsMember
<1>5. f.conn - n \in Nat
  BY <1>1
<1> HIDE DEF win
<1>6. outTake(f, id, n) = [conn |-> f.conn - n, stream |-> win, init |-> f.init,
                           closed |-> f.closed]
  <2> DEFINE p == [f EXCEPT !.conn = f.conn - n]
  <2>1. p = [conn |-> f.conn - n, stream |-> f.stream, init |-> f.init, closed |-> f.closed]
    BY <1>1 DEF IsOut
  <2>2. outTake(f, id, n) = [p EXCEPT !.stream = win]
    BY DEF outTake, win
  <2> HIDE DEF p
  <2>3. [p EXCEPT !.stream = win] = [conn |-> f.conn - n, stream |-> win, init |-> f.init,
                                   closed |-> f.closed]
    BY <2>1
  <2> QED BY <2>2, <2>3
<1> QED BY <1>1, <1>4, <1>5, <1>6 DEF ServeOutRecord

\* The same for the receive windows.
LEMMA ServeInShape ==
  ASSUME NEW f \in ServeInRecord
  PROVE  /\ f.conn \in Nat /\ f.stream \in ServeStreamWindows
         /\ DOMAIN f.stream \in SUBSET Ids /\ f.stream \in [DOMAIN f.stream -> Int]
<1>1. f.conn \in Nat /\ f.stream \in ServeStreamWindows
  BY DEF ServeInRecord
<1> QED BY <1>1, ServeWindowsShape

LEMMA ServeInOpened ==
  ASSUME ServeConstants, NEW f \in ServeInRecord, NEW id \in Ids
  PROVE  /\ inOpen(f, id) \in ServeInRecord /\ inOpen(f, id).conn = f.conn
         /\ DOMAIN inOpen(f, id).stream = DOMAIN f.stream \cup {id}
         /\ inOpen(f, id).stream[id] = RecvWin
         /\ \A i \in DOMAIN f.stream \ {id} : inOpen(f, id).stream[i] = f.stream[i]
<1> DEFINE win == [i \in DOMAIN f.stream \cup {id} |-> IF i = id THEN RecvWin ELSE f.stream[i]]
<1>1. win \in [DOMAIN f.stream \cup {id} -> Int]
  BY ServeInShape DEF ServeConstants, FlowConstants
<1>2. DOMAIN f.stream \cup {id} \in SUBSET Ids
  BY ServeInShape
<1>3. win \in ServeStreamWindows
  BY <1>1, <1>2, ServeWindowsMember
<1>4. inOpen(f, id) = [f EXCEPT !.stream = win]
  BY DEF inOpen
<1>5. /\ DOMAIN win = DOMAIN f.stream \cup {id} /\ win[id] = RecvWin
      /\ \A i \in DOMAIN f.stream \ {id} : win[i] = f.stream[i]
  OBVIOUS
<1> HIDE DEF win
<1>6. [f EXCEPT !.stream = win] \in ServeInRecord
  BY <1>3 DEF ServeInRecord
<1>7. [f EXCEPT !.stream = win].stream = win /\ [f EXCEPT !.stream = win].conn = f.conn
  BY DEF ServeInRecord
<1> QED BY <1>4, <1>5, <1>6, <1>7

LEMMA ServeInForgotten ==
  ASSUME NEW f \in ServeInRecord, NEW id
  PROVE  /\ inForget(f, id) \in ServeInRecord /\ inForget(f, id).conn = f.conn
         /\ DOMAIN inForget(f, id).stream = DOMAIN f.stream \ {id}
         /\ \A i \in DOMAIN f.stream \ {id} : inForget(f, id).stream[i] = f.stream[i]
<1> DEFINE win == Drop(f.stream, id)
<1>1. /\ win \in ServeStreamWindows /\ DOMAIN win = DOMAIN f.stream \ {id}
      /\ \A i \in DOMAIN f.stream \ {id} : win[i] = f.stream[i]
  BY ServeInShape, ServeDropWindow
<1>2. inForget(f, id) = [f EXCEPT !.stream = win]
  BY DEF inForget
<1> HIDE DEF win
<1>3. [f EXCEPT !.stream = win] \in ServeInRecord
  BY <1>1 DEF ServeInRecord
<1>4. [f EXCEPT !.stream = win].stream = win /\ [f EXCEPT !.stream = win].conn = f.conn
  BY DEF ServeInRecord
<1> QED BY <1>1, <1>2, <1>3, <1>4

LEMMA ServeInCredited ==
  ASSUME NEW f \in ServeInRecord, NEW id, NEW n \in Int, f.conn + n >= 0
  PROVE  /\ inCredit(f, id, n) \in ServeInRecord /\ inCredit(f, id, n).conn = f.conn + n
         /\ DOMAIN inCredit(f, id, n).stream = DOMAIN f.stream
         /\ \A i \in DOMAIN f.stream :
              inCredit(f, id, n).stream[i] = IF i = id THEN f.stream[i] + n ELSE f.stream[i]
<1> DEFINE win == [i \in DOMAIN f.stream |-> IF i = id THEN f.stream[i] + n ELSE f.stream[i]]
           c == f.conn + n
           p == [f EXCEPT !.conn = c]
<1>1. win \in [DOMAIN f.stream -> Int]
  BY ServeInShape
<1>2. win \in ServeStreamWindows
  BY <1>1, ServeInShape, ServeWindowsMember
<1>3. c \in Nat
  BY ServeInShape
<1>4. /\ DOMAIN win = DOMAIN f.stream
      /\ \A i \in DOMAIN f.stream : win[i] = IF i = id THEN f.stream[i] + n ELSE f.stream[i]
  OBVIOUS
<1>5. inCredit(f, id, n) = [p EXCEPT !.stream = win]
  BY DEF inCredit
<1> HIDE DEF win, c
<1>6. p \in ServeInRecord /\ p.conn = c
  BY <1>3 DEF ServeInRecord
<1> HIDE DEF p
<1>7. [p EXCEPT !.stream = win] \in ServeInRecord
  BY <1>2, <1>6 DEF ServeInRecord
<1>8. [p EXCEPT !.stream = win].stream = win /\ [p EXCEPT !.stream = win].conn = c
  BY <1>6 DEF ServeInRecord
<1> QED BY <1>4, <1>5, <1>7, <1>8 DEF c

\* A frame that fits is charged to the connection, and at most once to its stream.
LEMMA ServeInTaken ==
  ASSUME NEW f \in ServeInRecord, NEW id, NEW n \in Nat, ~inTakeConnError(f, n)
  PROVE  /\ inTake(f, id, n) \in ServeInRecord /\ inTake(f, id, n).conn = f.conn - n
         /\ DOMAIN inTake(f, id, n).stream = DOMAIN f.stream
         /\ \A i \in DOMAIN f.stream :
              inTake(f, id, n).stream[i] >= IF i = id THEN f.stream[i] - n ELSE f.stream[i]
<1>1. -n \in Int /\ f.conn + (-n) >= 0 /\ f.conn + (-n) = f.conn - n /\ f.conn - n \in Nat
  BY ServeInShape DEF inTakeConnError
<1>2. CASE inTakeStreamError(f, id, n)
  <2> DEFINE c == f.conn - n
             p == [f EXCEPT !.conn = c]
  <2> HIDE DEF c
  <2>1. p \in ServeInRecord /\ p.conn = c /\ p.stream = f.stream
    BY <1>1 DEF ServeInRecord, c
  <2>2. inTake(f, id, n) = p
    BY <1>2 DEF inTake, c
  <2> HIDE DEF p
  <2>3. \A i \in DOMAIN f.stream : f.stream[i] >= IF i = id THEN f.stream[i] - n ELSE f.stream[i]
    BY ServeInShape
  <2> QED BY <2>1, <2>2, <2>3 DEF c
<1>3. CASE ~inTakeStreamError(f, id, n)
  <2> DEFINE m == -n
  <2>1. inTake(f, id, n) = inCredit(f, id, m)
    BY <1>3 DEF inTake
  <2>2. m \in Int /\ f.conn + m >= 0 /\ f.conn + m = f.conn - n
    BY <1>1
  <2> HIDE DEF m
  <2>3. /\ inCredit(f, id, m) \in ServeInRecord /\ inCredit(f, id, m).conn = f.conn + m
        /\ DOMAIN inCredit(f, id, m).stream = DOMAIN f.stream
        /\ \A i \in DOMAIN f.stream :
             inCredit(f, id, m).stream[i] = IF i = id THEN f.stream[i] + m ELSE f.stream[i]
    BY <2>2, ServeInCredited
  <2>4. ASSUME NEW i \in DOMAIN f.stream
        PROVE  (IF i = id THEN f.stream[i] + m ELSE f.stream[i])
                 >= IF i = id THEN f.stream[i] - n ELSE f.stream[i]
    BY ServeInShape DEF m
  <2> QED BY <2>1, <2>2, <2>3, <2>4
<1> QED BY <1>2, <1>3

LEMMA ServeInEmptied ==
  ASSUME NEW f \in ServeInRecord
  PROVE  /\ [f EXCEPT !.stream = << >>] \in ServeInRecord
         /\ [f EXCEPT !.stream = << >>].conn = f.conn
<1>1. [f EXCEPT !.stream = << >>] \in ServeInRecord
  BY ServeNoWindows DEF ServeInRecord
<1>2. [f EXCEPT !.stream = << >>].conn = f.conn
  BY DEF ServeInRecord
<1> QED BY <1>1, <1>2

-----------------------------------------------------------------------------
(* The bodies, and the sums over streams and teardowns.                    *)

LEMMA ServeBodyShape ==
  ASSUME NEW b \in ServeBodyRecord
  PROVE  /\ b.buf \in Nat /\ b.closed \in BOOLEAN /\ b.released \in BOOLEAN
         /\ unreleased(b) \in Nat /\ unreleased(b) <= b.buf
BY DEF ServeBodyRecord, unreleased

LEMMA ServeBodyOperations ==
  ASSUME NEW b \in ServeBodyRecord
  PROVE  /\ bodyClose(b) \in ServeBodyRecord /\ bodyClose(b).closed
         /\ bodyClose(b).released = b.released /\ unreleased(bodyClose(b)) = unreleased(b)
         /\ released(b) \in ServeBodyRecord /\ released(b).closed = b.closed
         /\ released(b).released /\ unreleased(released(b)) = 0
         /\ \A n \in Nat :
              /\ bodyWrite(b, n) \in ServeBodyRecord /\ bodyWrite(b, n).closed = b.closed
              /\ bodyWrite(b, n).released = b.released
              /\ unreleased(bodyWrite(b, n)) = IF b.released THEN 0 ELSE unreleased(b) + n
         /\ newBodyBuf \in ServeBodyRecord /\ ~newBodyBuf.closed /\ ~newBodyBuf.released
         /\ unreleased(newBodyBuf) = 0
<1>1. /\ bodyClose(b) \in ServeBodyRecord /\ bodyClose(b).closed
      /\ bodyClose(b).released = b.released /\ unreleased(bodyClose(b)) = unreleased(b)
  BY DEF bodyClose, ServeBodyRecord, unreleased
<1>2. /\ released(b) \in ServeBodyRecord /\ released(b).closed = b.closed
      /\ released(b).released /\ unreleased(released(b)) = 0
  BY DEF released, ServeBodyRecord, unreleased
<1>3. ASSUME NEW n \in Nat
      PROVE  /\ bodyWrite(b, n) \in ServeBodyRecord /\ bodyWrite(b, n).closed = b.closed
             /\ bodyWrite(b, n).released = b.released
             /\ unreleased(bodyWrite(b, n)) = IF b.released THEN 0 ELSE unreleased(b) + n
  BY DEF bodyWrite, ServeBodyRecord, unreleased
<1>5. /\ newBodyBuf \in ServeBodyRecord /\ ~newBodyBuf.closed /\ ~newBodyBuf.released
      /\ unreleased(newBodyBuf) = 0
  BY DEF newBodyBuf, ServeBodyRecord, unreleased
<1> QED BY <1>1, <1>2, <1>3, <1>5

LEMMA ServeBodyReads ==
  ASSUME NEW b \in ServeBodyRecord, NEW n \in 1 .. b.buf
  PROVE  /\ bodyRead(b, n) \in ServeBodyRecord /\ bodyRead(b, n).closed = b.closed
         /\ bodyRead(b, n).released = b.released
         /\ unreleased(bodyRead(b, n)) = IF b.released THEN 0 ELSE unreleased(b) - n
<1>1. b.buf \in Nat /\ b.buf - n \in Nat
  BY DEF ServeBodyRecord
<1>2. bodyRead(b, n) \in ServeBodyRecord
  BY <1>1 DEF bodyRead, ServeBodyRecord
<1>3. /\ bodyRead(b, n).closed = b.closed /\ bodyRead(b, n).released = b.released
      /\ bodyRead(b, n).buf = b.buf - n
  BY <1>1 DEF bodyRead, ServeBodyRecord
<1> QED BY <1>2, <1>3 DEF unreleased

LEMMA ServeHeldShape ==
  ASSUME NEW b \in [Ids -> ServeBodyRecord], NEW r \in [Ids -> Nat]
  PROVE  \A i \in Ids : ServeHeld(b, r)[i] = unreleased(b[i]) + r[i] /\ ServeHeld(b, r)[i] \in Nat
<1> TAKE i \in Ids
<1>1. unreleased(b[i]) \in Nat /\ r[i] \in Nat
  BY ServeBodyShape
<1> QED BY <1>1 DEF ServeHeld

\* What one stream holds changes.
LEMMA ServeHeldChanges ==
  ASSUME ServeConstants, NEW b \in [Ids -> ServeBodyRecord], NEW r \in [Ids -> Nat],
         NEW c \in [Ids -> ServeBodyRecord], NEW left \in [Ids -> Nat], NEW id \in Ids,
         \A i \in Ids \ {id} : unreleased(c[i]) = unreleased(b[i]) /\ left[i] = r[i]
  PROVE  /\ SumFunctionOnSet(ServeHeld(b, r), Ids) \in Nat
         /\ SumFunctionOnSet(ServeHeld(c, left), Ids) \in Nat
         /\ SumFunctionOnSet(ServeHeld(c, left), Ids) + unreleased(b[id]) + r[id] =
              SumFunctionOnSet(ServeHeld(b, r), Ids) + unreleased(c[id]) + left[id]
         /\ \A i \in Ids \ {id} : ServeHeld(c, left)[i] = ServeHeld(b, r)[i]
<1> DEFINE f == ServeHeld(b, r)
           g == ServeHeld(c, left)
<1>1. \A i \in Ids : f[i] = unreleased(b[i]) + r[i] /\ f[i] \in Nat
  BY ServeHeldShape
<1>2. \A i \in Ids : g[i] = unreleased(c[i]) + left[i] /\ g[i] \in Nat
  BY ServeHeldShape
<1>3. \A i \in Ids \ {id} : g[i] = f[i]
  BY <1>1, <1>2
<1>4. IsFiniteSet(Ids)
  BY DEF ServeConstants
<1>5. unreleased(b[id]) \in Nat /\ r[id] \in Nat /\ unreleased(c[id]) \in Nat /\ left[id] \in Nat
  BY ServeBodyShape
<1> HIDE DEF f, g
<1>6. \A i \in Ids : f[i] \in Nat /\ g[i] \in Nat
  BY <1>1, <1>2
<1>7. /\ SumFunctionOnSet(f, Ids) \in Nat /\ SumFunctionOnSet(g, Ids) \in Nat
      /\ SumFunctionOnSet(g, Ids) + f[id] = SumFunctionOnSet(f, Ids) + g[id]
  BY <1>3, <1>4, <1>6, SumUpdate
<1>8. f[id] = unreleased(b[id]) + r[id] /\ g[id] = unreleased(c[id]) + left[id]
  BY <1>1, <1>2
<1>9. SumFunctionOnSet(g, Ids) + unreleased(b[id]) + r[id] =
        SumFunctionOnSet(f, Ids) + unreleased(c[id]) + left[id]
  BY <1>5, <1>7, <1>8
<1> QED BY <1>3, <1>7, <1>9 DEF f, g

\* The reader of a stream gives back what it has read.
LEMMA HeldReturns ==
  ASSUME ServeConstants, NEW b \in [Ids -> ServeBodyRecord], NEW r \in [Ids -> Nat],
         NEW left \in [Ids -> Nat], NEW id \in Ids, left[id] = 0, \A i \in Ids \ {id} : left[i] = r[i]
  PROVE  /\ SumFunctionOnSet(ServeHeld(b, r), Ids) \in Nat
         /\ SumFunctionOnSet(ServeHeld(b, left), Ids) \in Nat
         /\ SumFunctionOnSet(ServeHeld(b, left), Ids) + r[id] = SumFunctionOnSet(ServeHeld(b, r), Ids)
         /\ \A i \in Ids \ {id} : ServeHeld(b, left)[i] = ServeHeld(b, r)[i]
<1>1. \A i \in Ids \ {id} : unreleased(b[i]) = unreleased(b[i]) /\ left[i] = r[i]
  OBVIOUS
<1>2. /\ SumFunctionOnSet(ServeHeld(b, r), Ids) \in Nat
      /\ SumFunctionOnSet(ServeHeld(b, left), Ids) \in Nat
      /\ SumFunctionOnSet(ServeHeld(b, left), Ids) + unreleased(b[id]) + r[id] =
           SumFunctionOnSet(ServeHeld(b, r), Ids) + unreleased(b[id]) + left[id]
      /\ \A i \in Ids \ {id} : ServeHeld(b, left)[i] = ServeHeld(b, r)[i]
  BY <1>1, ServeHeldChanges
<1>3. unreleased(b[id]) \in Nat /\ r[id] \in Nat
  BY ServeBodyShape
<1> QED BY <1>2, <1>3

\* A stream holds at most what all hold together.
LEMMA HeldBelow ==
  ASSUME ServeConstants, NEW b \in [Ids -> ServeBodyRecord], NEW r \in [Ids -> Nat], NEW id \in Ids
  PROVE  /\ SumFunctionOnSet(ServeHeld(b, r), Ids) \in Nat
         /\ ServeHeld(b, r)[id] <= SumFunctionOnSet(ServeHeld(b, r), Ids)
<1> DEFINE f == ServeHeld(b, r)
<1>1. \A i \in Ids : f[i] \in Nat
  BY ServeHeldShape
<1>2. IsFiniteSet(Ids)
  BY DEF ServeConstants
<1> HIDE DEF f
<1>3. SumFunctionOnSet(f, Ids) \in Nat /\ f[id] <= SumFunctionOnSet(f, Ids)
  BY <1>1, <1>2, SumUpdate
<1> QED BY <1>3 DEF f

\* Teardowns come and go with the unread bytes they carry.
LEMMA ServeKeptSums ==
  ASSUME NEW T \in SUBSET ServeTearRecord, IsFiniteSet(T), NEW t \in ServeTearRecord
  PROVE  /\ SumFunctionOnSet(ServeKept(T), T) \in Nat /\ t.unread \in Nat
         /\ T \cup {t} \in SUBSET ServeTearRecord /\ IsFiniteSet(T \cup {t})
         /\ SumFunctionOnSet(ServeKept(T \cup {t}), T \cup {t}) \in Nat
         /\ SumFunctionOnSet(ServeKept(T \cup {t}), T \cup {t}) <=
              SumFunctionOnSet(ServeKept(T), T) + t.unread
         /\ T \ {t} \in SUBSET ServeTearRecord /\ IsFiniteSet(T \ {t})
         /\ SumFunctionOnSet(ServeKept(T \ {t}), T \ {t}) \in Nat
         /\ t \in T => SumFunctionOnSet(ServeKept(T), T) =
                         SumFunctionOnSet(ServeKept(T \ {t}), T \ {t}) + t.unread
<1> DEFINE R == T \ {t}
           W == T \cup {t}
           f == ServeKept(W)
           S == SumFunctionOnSet(f, T)
           Q == SumFunctionOnSet(f, R)
<1>1. \A x \in W : f[x] = x.unread /\ f[x] \in Nat
  BY DEF ServeKept, ServeTearRecord
<1>2. t \in W /\ T \subseteq W /\ R \subseteq T
  OBVIOUS
<1>3. IsFiniteSet(R) /\ IsFiniteSet(W)
  BY FS_RemoveElement, FS_AddElement
<1>4. (\A x \in T : ServeKept(T)[x] = f[x]) /\ (\A x \in R : ServeKept(R)[x] = f[x])
  BY DEF ServeKept
<1> HIDE DEF f
<1>5. S \in Nat /\ SumFunctionOnSet(ServeKept(T), T) = S
  BY <1>1, <1>4, SumProps
<1>6. Q \in Nat /\ SumFunctionOnSet(ServeKept(R), R) = Q
  <2>1. \A x \in R : f[x] \in Nat /\ ServeKept(R)[x] = f[x]
    BY <1>1, <1>2, <1>4
  <2> HIDE DEF R
  <2> QED BY <1>3, <2>1, SumProps
<1>7. f[t] = t.unread /\ t.unread \in Nat
  BY <1>1
<1>8. t \notin T => SumFunctionOnSet(f, W) = S + f[t]
  BY <1>1, <1>2, SumProps
<1>9. t \in T => W = T
  OBVIOUS
<1>10. t \in T => S = Q + f[t]
  BY <1>1, SumWithout
<1>11. SumFunctionOnSet(f, W) \in Nat /\ SumFunctionOnSet(f, W) <= S + t.unread
  <2>1. CASE t \in T
    <3>1. SumFunctionOnSet(f, W) = S
      BY <1>9, <2>1
    <3> HIDE DEF S
    <3> QED BY <1>5, <1>7, <3>1
  <2>2. CASE t \notin T
    <3> HIDE DEF S
    <3> QED BY <1>5, <1>7, <1>8, <2>2
  <2> QED BY <2>1, <2>2
<1>12. SumFunctionOnSet(ServeKept(W), W) = SumFunctionOnSet(f, W)
  BY DEF f
<1> HIDE DEF S, Q
<1>13. W \in SUBSET ServeTearRecord /\ R \in SUBSET ServeTearRecord
  OBVIOUS
<1> QED BY <1>3, <1>5, <1>6, <1>7, <1>10, <1>11, <1>12, <1>13

\* finish marks the stream, or begins its removal: its unread bytes pass from the
\* body to the teardown, and the stream is on its way out.
LEMMA FinishProps ==
  ASSUME ServeInv, MuFree, NEW id \in Ids, NEW force, NEW by \in {"loop", "handler"},
         finish(id, force, by)
  PROVE  /\ done' \in SUBSET Ids /\ body' \in [Ids -> ServeBodyRecord]
         /\ tear' \in SUBSET ServeTearRecord /\ IsFiniteSet(tear')
         /\ \A i \in Ids : body'[i].closed = body[i].closed
         /\ \A p, t \in tear' : p.step = "remove" /\ t.step = "remove" => p = t
         /\ \A i \in Ids : Removing(tear', i) =>
              i = id /\ i \in streams /\ (force \/ body[i].closed)
         /\ \A i \in streams : body'[i].released => Removing(tear', i)
         /\ force /\ id \in streams => Removing(tear', id)
         /\ \A r \in [Ids -> Nat] :
              /\ SumFunctionOnSet(ServeHeld(body', r), Ids) + SumFunctionOnSet(ServeKept(tear'), tear') <=
                   SumFunctionOnSet(ServeHeld(body, r), Ids) + SumFunctionOnSet(ServeKept(tear), tear)
              /\ \A i \in Ids : Removing(tear', i) \/ ServeHeld(body', r)[i] = ServeHeld(body, r)[i]
<1> DEFINE Sum(r) == SumFunctionOnSet(ServeHeld(body, r), Ids)
           Old == SumFunctionOnSet(ServeKept(tear), tear)
<1>1. /\ ServeConstants /\ streams \in SUBSET Ids /\ done \in SUBSET Ids
      /\ body \in [Ids -> ServeBodyRecord] /\ tear \in SUBSET ServeTearRecord /\ IsFiniteSet(tear)
  BY DEF ServeInv, ServeTypes
<1>2. \A t \in tear : t.step # "remove"
  BY DEF MuFree
<1>3. \A i \in Ids : ~Removing(tear, i)
  BY <1>2 DEF Removing
<1>4. \A i \in streams : ~body[i].released
  BY <1>1, <1>3 DEF ServeInv, RemovalInv
<1>5. Old \in Nat
  <2>1. CASE tear = {}
    <3>1. \A i \in tear : ServeKept(tear)[i] \in Nat
      BY <2>1
    <3> QED BY <1>1, <3>1, SumProps
  <2>2. CASE tear # {}
    BY <1>1, <2>2, ServeKeptSums
  <2> QED BY <2>1, <2>2
<1>6. \A r \in [Ids -> Nat] : Sum(r) \in Nat
  BY <1>1, HeldBelow
<1>7. CASE /\ UNCHANGED <<tear, body>> /\ done' \in SUBSET Ids
           /\ id \notin streams \/ ~force
  <2>1. \A r \in [Ids -> Nat] : Sum(r) + Old <= Sum(r) + Old
    BY <1>5, <1>6
  <2> HIDE DEF Sum, Old
  <2>2. \A r : SumFunctionOnSet(ServeHeld(body', r), Ids) = Sum(r)
    BY <1>7 DEF Sum
  <2>3. SumFunctionOnSet(ServeKept(tear'), tear') = Old
    BY <1>7 DEF Old
  <2> QED BY <1>1, <1>2, <1>3, <1>4, <1>7, <2>1, <2>2, <2>3 DEF Sum, Old
<1>8. CASE id \in streams /\ (force \/ body[id].closed) /\ done' = done
           /\ body' = [body EXCEPT ![id] = released(body[id])]
           /\ tear' = tear \cup {[id |-> id, by |-> by, step |-> "remove",
                                  unread |-> unreleased(body[id])]}
  <2> DEFINE t == [id |-> id, by |-> by, step |-> "remove", unread |-> unreleased(body[id])]
             b == released(body[id])
  <2>1. body[id] \in ServeBodyRecord
    BY <1>1
  <2>2. b \in ServeBodyRecord /\ b.closed = body[id].closed /\ unreleased(b) = 0
    BY <2>1, ServeBodyOperations
  <2>3. t \in ServeTearRecord /\ t.step = "remove" /\ t.id = id /\ t.unread = unreleased(body[id])
    BY <2>1, ServeBodyShape DEF ServeTearRecord
  <2> HIDE DEF t, b
  <2>4. tear' = tear \cup {t} /\ body' = [body EXCEPT ![id] = b]
    BY <1>8 DEF t, b
  <2>5. body' \in [Ids -> ServeBodyRecord] /\ body'[id] = b /\ \A i \in Ids \ {id} : body'[i] = body[i]
    BY <1>1, <2>2, <2>4
  <2>6. /\ tear' \in SUBSET ServeTearRecord /\ IsFiniteSet(tear')
        /\ SumFunctionOnSet(ServeKept(tear'), tear') <= Old + t.unread
        /\ SumFunctionOnSet(ServeKept(tear'), tear') \in Nat
    BY <1>1, <2>3, <2>4, ServeKeptSums
  <2>7. \A i \in Ids : body'[i].closed = body[i].closed
    <3> TAKE i \in Ids
    <3>1. CASE i = id
      BY <2>2, <2>5, <3>1
    <3>2. CASE i # id
      <4>1. body'[i] = body[i]
        BY <2>5, <3>2
      <4> QED BY <4>1
    <3> QED BY <3>1, <3>2
  <2>8. \A p \in tear' : p.step = "remove" => p = t
    BY <1>2, <2>4
  <2>9. \A i \in Ids : Removing(tear', i) <=> i = id
    BY <2>3, <2>4, <2>8 DEF Removing
  <2>10. \A i \in streams : body'[i].released => Removing(tear', i)
    BY <1>1, <1>4, <2>5, <2>9
  <2>11. ASSUME NEW r \in [Ids -> Nat]
         PROVE  /\ SumFunctionOnSet(ServeHeld(body', r), Ids) + SumFunctionOnSet(ServeKept(tear'), tear')
                     <= Sum(r) + Old
                /\ \A i \in Ids : Removing(tear', i) \/ ServeHeld(body', r)[i] = ServeHeld(body, r)[i]
    <3>1. \A i \in Ids \ {id} : unreleased(body'[i]) = unreleased(body[i]) /\ r[i] = r[i]
      BY <2>5
    <3>2. /\ SumFunctionOnSet(ServeHeld(body', r), Ids) \in Nat
          /\ SumFunctionOnSet(ServeHeld(body', r), Ids) + unreleased(body[id]) + r[id] =
               Sum(r) + unreleased(body'[id]) + r[id]
          /\ \A i \in Ids \ {id} : ServeHeld(body', r)[i] = ServeHeld(body, r)[i]
      <4>1. /\ ServeConstants /\ body \in [Ids -> ServeBodyRecord] /\ id \in Ids
            /\ body' \in [Ids -> ServeBodyRecord]
        BY <1>1, <2>5
      <4>2. ASSUME NEW c \in [Ids -> ServeBodyRecord],
                   \A i \in Ids \ {id} :
                     unreleased(c[i]) = unreleased(body[i]) /\ r[i] = r[i]
            PROVE  /\ SumFunctionOnSet(ServeHeld(c, r), Ids) \in Nat
                   /\ SumFunctionOnSet(ServeHeld(c, r), Ids) + unreleased(body[id]) + r[id] =
                        Sum(r) + unreleased(c[id]) + r[id]
                   /\ \A i \in Ids \ {id} : ServeHeld(c, r)[i] = ServeHeld(body, r)[i]
        BY <4>1, <4>2, ServeHeldChanges, SMTT(20)
      <4> QED BY <3>1, <4>1, <4>2
    <3>3. unreleased(body'[id]) = 0 /\ unreleased(body[id]) \in Nat /\ r[id] \in Nat
      BY <2>1, <2>2, <2>5, ServeBodyShape
    <3> HIDE DEF Sum, Old
    <3>4. SumFunctionOnSet(ServeHeld(body', r), Ids) + SumFunctionOnSet(ServeKept(tear'), tear')
            <= Sum(r) + Old
      BY <1>5, <1>6, <2>3, <2>6, <3>2, <3>3 DEF Sum, Old
    <3> QED BY <2>9, <3>2, <3>4
  <2>12. \A r \in [Ids -> Nat] :
           /\ SumFunctionOnSet(ServeHeld(body', r), Ids) + SumFunctionOnSet(ServeKept(tear'), tear')
                <= SumFunctionOnSet(ServeHeld(body, r), Ids) + SumFunctionOnSet(ServeKept(tear), tear)
           /\ \A i \in Ids : Removing(tear', i) \/ ServeHeld(body', r)[i] = ServeHeld(body, r)[i]
    BY <2>11
  <2>13. \A i \in Ids : Removing(tear', i) => i = id /\ i \in streams /\ (force \/ body[i].closed)
    BY <1>8, <2>9
  <2> HIDE DEF Sum, Old
  <2>14. \A x, y \in tear' : x.step = "remove" /\ y.step = "remove" => x = y
    BY <2>8
  <2>15. force /\ id \in streams => Removing(tear', id)
    BY <1>1, <2>9
  <2>16. done' \in SUBSET Ids
    BY <1>1, <1>8
  <2> QED BY <2>5, <2>6, <2>7, <2>10, <2>12, <2>13, <2>14, <2>15, <2>16
<1> QED BY <1>1, <1>7, <1>8 DEF finish

-----------------------------------------------------------------------------
(* What a step that leaves a part of the state alone keeps.                *)

LEMMA ServeShape ==
  ASSUME ServeInv
  PROVE  /\ ServeConstants /\ ServeTypes
         /\ SumFunctionOnSet(ServeHeld(body, rd), Ids) \in Nat
         /\ SumFunctionOnSet(ServeKept(tear), tear) \in Nat
         /\ SumFunctionOnSet(ServeTaken(h), Ids) \in Nat
         /\ loop.n \in Nat /\ out.conn \in Nat /\ inb.conn \in Nat /\ RecvWin \in Nat
<1>1. ServeConstants /\ ServeTypes
  BY DEF ServeInv
<1>2. \A i \in Ids : ServeHeld(body, rd)[i] \in Nat
  BY <1>1, ServeHeldShape DEF ServeTypes
<1>3. \A t \in tear : ServeKept(tear)[t] \in Nat
  BY <1>1 DEF ServeKept, ServeTypes, ServeTearRecord
<1>4. \A i \in Ids : ServeTaken(h)[i] \in Nat
  BY <1>1 DEF ServeTaken, ServeTypes, HandlerRecord
<1>5. IsFiniteSet(Ids) /\ IsFiniteSet(tear)
  BY <1>1 DEF ServeTypes, ServeConstants
<1>6. /\ SumFunctionOnSet(ServeHeld(body, rd), Ids) \in Nat
      /\ SumFunctionOnSet(ServeKept(tear), tear) \in Nat
      /\ SumFunctionOnSet(ServeTaken(h), Ids) \in Nat
  BY <1>2, <1>3, <1>4, <1>5, SumProps
<1>7. loop.n \in Nat /\ out.conn \in Nat /\ inb.conn \in Nat /\ RecvWin \in Nat
  BY <1>1 DEF ServeTypes, LoopRecord, ServeOutRecord, ServeInRecord, ServeConstants, FlowConstants
<1> QED BY <1>1, <1>6, <1>7

LEMMA RemovalStays ==
  ASSUME ServeInv, UNCHANGED <<streams, body, tear>>, ended \subseteq ended'
  PROVE  RemovalInv'
BY DEF ServeInv, RemovalInv, Removing

LEMMA EndedStays ==
  ASSUME ServeInv, UNCHANGED loop, ended \subseteq ended',
         \A i \in Ids : body'[i].closed = body[i].closed
  PROVE  EndedInv'
BY DEF ServeInv, EndedInv

LEMMA ServeReceiveStays ==
  ASSUME ServeInv, UNCHANGED <<over, open, streams, body, rd, loop, tear, inb>>
  PROVE  ServeReceiveInv'
BY DEF ServeInv, ServeReceiveInv, UnreadOf, ServeHeld, ServeKept, Removing, InHand

LEMMA ServeSendStays ==
  ASSUME ServeInv, UNCHANGED <<h, lastID>>, out'.conn + wire' = out.conn + wire
  PROVE  ServeSendInv'
<1>1. ServeTaken(h') = ServeTaken(h)
  BY DEF ServeTaken
<1>2. SumFunctionOnSet(ServeTaken(h'), Ids) = SumFunctionOnSet(ServeTaken(h), Ids)
  BY <1>1
<1> QED BY <1>2 DEF ServeInv, ServeSendInv

LEMMA ServeTakenChanges ==
  ASSUME ServeConstants, NEW x \in [Ids -> HandlerRecord], NEW y \in [Ids -> HandlerRecord],
         NEW id \in Ids, \A i \in Ids \ {id} : y[i] = x[i]
  PROVE  /\ SumFunctionOnSet(ServeTaken(x), Ids) \in Nat /\ SumFunctionOnSet(ServeTaken(y), Ids) \in Nat
         /\ SumFunctionOnSet(ServeTaken(y), Ids) + x[id].has =
              SumFunctionOnSet(ServeTaken(x), Ids) + y[id].has
<1> DEFINE f == ServeTaken(x)
           g == ServeTaken(y)
<1>1. \A i \in Ids : f[i] = x[i].has /\ g[i] = y[i].has
  BY DEF ServeTaken
<1>2. \A i \in Ids : x[i].has \in Nat /\ y[i].has \in Nat
  BY DEF HandlerRecord
<1>3. \A i \in Ids \ {id} : g[i] = f[i]
  BY <1>1
<1>4. IsFiniteSet(Ids)
  BY DEF ServeConstants
<1> HIDE DEF f, g
<1>5. \A i \in Ids : f[i] \in Nat /\ g[i] \in Nat
  BY <1>1, <1>2
<1>6. /\ SumFunctionOnSet(f, Ids) \in Nat /\ SumFunctionOnSet(g, Ids) \in Nat
      /\ SumFunctionOnSet(g, Ids) + f[id] = SumFunctionOnSet(f, Ids) + g[id]
  BY <1>3, <1>4, <1>5, SumUpdate
<1>7. f[id] = x[id].has /\ g[id] = y[id].has
  BY <1>1
<1> QED BY <1>6, <1>7 DEF f, g

\* The handler goroutine of one stream becomes now: the bytes it holds are in the
\* connection's account, with the window and the wire.
LEMMA HandlerSets ==
  ASSUME ServeInv, NEW id \in Ids, NEW now \in HandlerRecord, h' = [h EXCEPT ![id] = now],
         now.at # "data" => now.has = 0, id <= lastID', lastID <= lastID',
         out'.conn \in Int, wire' \in Int, lastID' \in Nat,
         out'.conn + wire' + now.has = out.conn + wire + h[id].has
  PROVE  h' \in [Ids -> HandlerRecord] /\ ServeSendInv'
<1> DEFINE S == SumFunctionOnSet(ServeTaken(h), Ids)
           R == SumFunctionOnSet(ServeTaken(h'), Ids)
<1>1. /\ h \in [Ids -> HandlerRecord] /\ h[id] \in HandlerRecord /\ ServeConstants
      /\ out.conn \in Nat /\ wire \in Nat /\ lastID \in Nat /\ Ids \subseteq Nat /\ SendWin \in Nat
  BY ServeShape DEF ServeTypes, ServeConstants, FlowConstants
<1>2. h' \in [Ids -> HandlerRecord] /\ h'[id] = now /\ \A i \in Ids \ {id} : h'[i] = h[i]
  BY <1>1
<1>3. S \in Nat /\ R \in Nat /\ R + h[id].has = S + h'[id].has
  BY <1>1, <1>2, ServeTakenChanges
<1>4. out.conn + wire + S <= SendWin
  BY DEF ServeInv, ServeSendInv
<1>5. now.has \in Nat /\ h[id].has \in Nat
  BY <1>1 DEF HandlerRecord
<1> HIDE DEF S, R
<1>8. out'.conn + wire' + R <= SendWin
  BY <1>1, <1>2, <1>3, <1>4, <1>5
<1>9. /\ \A i \in Ids : h[i].at # "data" => h[i].has = 0
      /\ \A i \in Ids : h[i].at # "none" => i <= lastID
  BY DEF ServeInv, ServeSendInv
<1>10. ASSUME NEW i \in Ids
       PROVE  (h'[i].at # "data" => h'[i].has = 0) /\ (h'[i].at # "none" => i <= lastID')
  <2>1. CASE i = id
    BY <1>2, <2>1
  <2>2. CASE i # id
    <3>1. h'[i] = h[i]
      BY <1>2, <2>2
    <3> QED BY <1>1, <1>9, <3>1
  <2> QED BY <2>1, <2>2
<1> QED BY <1>2, <1>8, <1>10 DEF ServeSendInv, R

\* The handler goroutine of one stream moves.
LEMMA HandlerMoves ==
  ASSUME ServeInv, UNCHANGED <<lastID, wire>>, out'.conn = out.conn, NEW id \in Ids,
         NEW p \in {"none", "run", "write", "take", "finish"},
         h[id].at \notin {"none", "data"}, At(id, p)
  PROVE  h' \in [Ids -> HandlerRecord] /\ ServeSendInv'
<1> DEFINE now == [h[id] EXCEPT !.at = p]
<1>1. /\ h[id] \in HandlerRecord /\ out.conn \in Nat /\ wire \in Nat /\ lastID \in Nat
      /\ h[id].has = 0 /\ id <= lastID
  BY ServeShape DEF ServeInv, ServeTypes, ServeSendInv
<1>2. now \in HandlerRecord /\ now.at = p /\ now.has = h[id].has /\ now.at # "data" /\ now.has = 0
  BY <1>1 DEF HandlerRecord
<1> HIDE DEF now
<1>3. h' = [h EXCEPT ![id] = now]
  BY DEF At, now
<1>4. /\ id <= lastID' /\ lastID <= lastID' /\ lastID' \in Nat /\ out'.conn \in Int
      /\ wire' \in Int /\ out'.conn + wire' + now.has = out.conn + wire + h[id].has
  BY <1>1, <1>2
<1> QED BY <1>2, <1>3, <1>4, HandlerSets

-----------------------------------------------------------------------------
(* The steps.                                                              *)

LEMMA RecvWindowUpdateKeeps ==
  ASSUME ServeInv, NEW id \in Ids, NEW n \in DataSizes, RecvWindowUpdate(id, n)
  PROVE  ServeInv'
<1>1. ServeConstants /\ ServeTypes /\ n \in Nat /\ out \in ServeOutRecord /\ out.conn \in Nat
  BY ServeShape DEF ServeConstants, ServeTypes
<1>2. UNCHANGED <<over, lastID, open, streams, body, done, tear, inb, h, rd, loop, sent, ended>>
  BY DEF RecvWindowUpdate
<1>3. out' \in ServeOutRecord /\ wire' \in Nat /\ out'.conn + wire' = out.conn + wire
  <2>1. CASE n <= wire /\ wire' = wire - n /\ out' = outAddConn(out, n)
    <3>1. outAddConn(out, n) \in ServeOutRecord /\ outAddConn(out, n).conn = out.conn + n
      BY <1>1, OutOperations
    <3> QED BY <1>1, <2>1, <3>1 DEF ServeTypes
  <2>2. CASE out' = outAdd(out, id, n) /\ UNCHANGED wire
    <3>1. outAdd(out, id, n) \in ServeOutRecord /\ outAdd(out, id, n).conn = out.conn
      BY <1>1, ServeOutAdded
    <3> QED BY <1>1, <2>2, <3>1 DEF ServeTypes
  <2> QED BY <2>1, <2>2 DEF RecvWindowUpdate
<1>4. ServeTypes'
  BY <1>1, <1>2, <1>3 DEF ServeTypes
<1> QED BY <1>1, <1>2, <1>3, <1>4, RemovalStays, EndedStays, ServeReceiveStays, ServeSendStays
        DEF ServeInv

LEMMA RecvSettingsKeeps ==
  ASSUME ServeInv, NEW v \in {1, SendWin}, RecvSettings(v)
  PROVE  ServeInv'
<1>1. ServeConstants /\ ServeTypes /\ v \in Nat /\ out \in ServeOutRecord
  BY ServeShape DEF ServeConstants, ServeTypes, FlowConstants
<1>2. /\ UNCHANGED <<over, lastID, open, streams, body, done, tear, inb, h, rd, loop, wire, sent,
                     ended>>
      /\ out' = applyInitialWindow(out, v)
  BY DEF RecvSettings
<1>3. out' \in ServeOutRecord /\ out'.conn = out.conn
  BY <1>1, <1>2, OutOperations
<1>4. ServeTypes'
  BY <1>1, <1>2, <1>3 DEF ServeTypes
<1> QED BY <1>1, <1>2, <1>3, <1>4, RemovalStays, EndedStays, ServeReceiveStays, ServeSendStays
        DEF ServeInv

LEMMA IdleType == Idle \in LoopRecord /\ Idle.n = 0 /\ Idle.id = 0 /\ Idle.at = "frame"
BY DEF Idle, LoopRecord

\* A step that finishes a stream and leaves the windows and the frame in hand alone.
LEMMA ServeFinishKeeps ==
  ASSUME ServeInv, MuFree, NEW id \in Ids, NEW force, NEW by \in {"loop", "handler"},
         finish(id, force, by), UNCHANGED <<over, open, streams, inb, rd>>,
         loop' = loop \/ (loop' = Idle /\ loop.n = 0),
         ended \subseteq ended', force => id \in ended'
  PROVE  /\ done' \in SUBSET Ids /\ body' \in [Ids -> ServeBodyRecord] /\ loop' \in LoopRecord
         /\ tear' \in SUBSET ServeTearRecord /\ IsFiniteSet(tear')
         /\ RemovalInv' /\ EndedInv' /\ ServeReceiveInv'
<1>1. /\ done' \in SUBSET Ids /\ body' \in [Ids -> ServeBodyRecord]
      /\ tear' \in SUBSET ServeTearRecord /\ IsFiniteSet(tear')
      /\ \A i \in Ids : body'[i].closed = body[i].closed
      /\ \A p, t \in tear' : p.step = "remove" /\ t.step = "remove" => p = t
      /\ \A i \in Ids : Removing(tear', i) => i = id /\ i \in streams /\ (force \/ body[i].closed)
      /\ \A i \in streams : body'[i].released => Removing(tear', i)
  BY FinishProps
<1>2. ServeTypes /\ RemovalInv /\ EndedInv /\ ServeReceiveInv
  BY DEF ServeInv
<1>3. loop' \in LoopRecord
  BY <1>2, IdleType DEF ServeTypes
<1>4. RemovalInv'
  <2>1. \A i \in Ids : Removing(tear', i) => i \in streams /\ i \in ended'
    BY <1>1, <1>2 DEF EndedInv
  <2> QED BY <1>1, <2>1 DEF RemovalInv
<1>5. EndedInv'
  <2>1. \A i \in Ids : body'[i].closed => i \in ended'
    BY <1>1, <1>2 DEF EndedInv
  <2> QED BY <1>2, <2>1 DEF EndedInv, Idle
<1>6. loop'.n = loop.n /\ (\A i \in Ids : InHand(loop', i) = InHand(loop, i))
  <2>1. \A i \in Ids : i # 0
    BY <1>2 DEF ServeInv, ServeConstants
  <2>2. loop'.n = loop.n
    BY DEF Idle
  <2> QED BY <2>1, <2>2 DEF InHand, Idle
<1>7. ServeReceiveInv'
  <2> SUFFICES ASSUME ~over PROVE ServeReceiveInv'
    BY DEF ServeReceiveInv
  <2>1. rd \in [Ids -> Nat] /\ streams \in SUBSET Ids
    BY <1>2 DEF ServeTypes
  <2>2. /\ open = Cardinality(streams) /\ open <= MaxStreams /\ DOMAIN inb.stream = streams
        /\ inb.conn + UnreadOf(body, rd, loop.n, tear) <= RecvWin
        /\ \A i \in streams :
             \/ Removing(tear, i)
             \/ inb.stream[i] + ServeHeld(body, rd)[i] + InHand(loop, i) >= RecvWin
    BY <1>2 DEF ServeReceiveInv
  <2>3. /\ SumFunctionOnSet(ServeHeld(body', rd), Ids) + SumFunctionOnSet(ServeKept(tear'), tear') <=
             SumFunctionOnSet(ServeHeld(body, rd), Ids) + SumFunctionOnSet(ServeKept(tear), tear)
        /\ \A i \in Ids : Removing(tear', i) \/ ServeHeld(body', rd)[i] = ServeHeld(body, rd)[i]
    BY <2>1, FinishProps
  <2>4. /\ SumFunctionOnSet(ServeHeld(body', rd), Ids) \in Nat
        /\ SumFunctionOnSet(ServeKept(tear'), tear') \in Nat
    <3>1. \A i \in Ids : ServeHeld(body', rd)[i] \in Nat
      BY <1>1, <2>1, ServeHeldShape
    <3>2. \A t \in tear' : ServeKept(tear')[t] \in Nat
      BY <1>1 DEF ServeKept, ServeTearRecord
    <3>3. IsFiniteSet(Ids)
      BY DEF ServeInv, ServeConstants
    <3> QED BY <1>1, <3>1, <3>2, <3>3, SumProps
  <2>5. inb.conn + UnreadOf(body', rd, loop.n, tear') <= RecvWin
    BY <2>2, <2>3, <2>4, ServeShape DEF UnreadOf
  <2>6. ASSUME NEW i \in streams
        PROVE  \/ Removing(tear', i)
               \/ inb.stream[i] + ServeHeld(body', rd)[i] + InHand(loop', i) >= RecvWin
    <3>1. ~Removing(tear, i)
      BY DEF MuFree, Removing
    <3> QED BY <1>6, <2>1, <2>2, <2>3, <3>1
  <2> QED BY <1>6, <2>2, <2>5, <2>6 DEF ServeReceiveInv
<1> QED BY <1>1, <1>3, <1>4, <1>5, <1>7

\* A handler that finishes its stream, and goes to p.
LEMMA HandlerFinishes ==
  ASSUME ServeInv, MuFree, NEW id \in Ids, NEW force,
         NEW p \in {"none", "run", "write", "take", "finish"},
         h[id].at \notin {"none", "data"}, At(id, p), finish(id, force, "handler"),
         UNCHANGED <<over, lastID, open, streams, out, inb, rd, loop, wire, sent>>,
         ended' = ended \/ ended' = ended \cup {id}, force => id \in ended'
  PROVE  ServeInv'
<1>1. ServeConstants /\ ServeTypes /\ ended' \in SUBSET Ids /\ ended \subseteq ended'
  BY ServeShape DEF ServeTypes
<1>2. /\ done' \in SUBSET Ids /\ body' \in [Ids -> ServeBodyRecord]
      /\ tear' \in SUBSET ServeTearRecord /\ IsFiniteSet(tear')
      /\ RemovalInv' /\ EndedInv' /\ ServeReceiveInv'
  BY <1>1, ServeFinishKeeps
<1>3. h' \in [Ids -> HandlerRecord] /\ ServeSendInv'
  BY HandlerMoves
<1>4. ServeTypes'
  BY <1>1, <1>2, <1>3 DEF ServeTypes
<1> QED BY <1>1, <1>2, <1>3, <1>4 DEF ServeInv

\* A handler that only moves.
LEMMA HandlerOnlyMoves ==
  ASSUME ServeInv, NEW id \in Ids, NEW p \in {"none", "run", "write", "take", "finish"},
         h[id].at \notin {"none", "data"}, At(id, p),
         UNCHANGED <<over, lastID, open, streams, body, done, tear, out, inb, rd, loop, wire, sent,
                     ended>>
  PROVE  ServeInv'
<1>1. ServeConstants /\ ServeTypes
  BY ServeShape
<1>2. h' \in [Ids -> HandlerRecord] /\ ServeSendInv'
  BY HandlerMoves
<1>3. ServeTypes'
  BY <1>1, <1>2 DEF ServeTypes
<1> QED BY <1>1, <1>2, <1>3, RemovalStays, EndedStays, ServeReceiveStays DEF ServeInv

LEMMA HandlerReturnsKeeps ==
  ASSUME ServeInv, NEW id \in Ids, HandlerReturns(id)
  PROVE  ServeInv'
<1>1. CASE At(id, "write") /\ UNCHANGED <<body, done, tear, ended>>
  BY <1>1, HandlerOnlyMoves DEF HandlerReturns
<1>2. CASE At(id, "none") /\ finish(id, TRUE, "handler") /\ ended' = ended \cup {id}
  BY <1>2, HandlerFinishes DEF HandlerReturns
<1> QED BY <1>1, <1>2 DEF HandlerReturns

LEMMA HandlerTooLateKeeps ==
  ASSUME ServeInv, NEW id \in Ids, HandlerTooLate(id)
  PROVE  ServeInv'
BY HandlerFinishes DEF HandlerTooLate

LEMMA ServeTunnelKeeps ==
  ASSUME ServeInv, NEW id \in Ids, serveTunnel(id)
  PROVE  ServeInv'
BY HandlerFinishes DEF serveTunnel

LEMMA ResponseFailsKeeps ==
  ASSUME ServeInv, NEW id \in Ids, ResponseFails(id)
  PROVE  ServeInv'
BY HandlerFinishes DEF ResponseFails

LEMMA HandlerFinishKeeps ==
  ASSUME ServeInv, NEW id \in Ids, HandlerFinish(id)
  PROVE  ServeInv'
BY HandlerFinishes DEF HandlerFinish

LEMMA endRequestBodyKeeps ==
  ASSUME ServeInv, endRequestBody
  PROVE  ServeInv'
<1>1. /\ ServeConstants /\ ServeTypes /\ EndedInv
      /\ MuFree /\ loop.at = "ended" /\ loop' = Idle
      /\ UNCHANGED <<over, lastID, open, streams, out, inb, h, rd, wire, sent, ended>>
  BY DEF ServeInv, endRequestBody
<1>2. loop.n = 0 /\ loop.id \in Ids /\ loop.id \in ended
  BY <1>1 DEF EndedInv
<1>3. ServeSendInv'
  BY <1>1, ServeSendStays
<1>4. CASE finish(loop.id, TRUE, "loop")
  <2>1. /\ done' \in SUBSET Ids /\ body' \in [Ids -> ServeBodyRecord] /\ loop' \in LoopRecord
        /\ tear' \in SUBSET ServeTearRecord /\ IsFiniteSet(tear')
        /\ RemovalInv' /\ EndedInv' /\ ServeReceiveInv'
    BY <1>1, <1>2, <1>4, ServeFinishKeeps
  <2>2. ServeTypes'
    BY <1>1, <2>1 DEF ServeTypes
  <2> QED BY <1>1, <1>3, <2>1, <2>2 DEF ServeInv
<1>5. CASE UNCHANGED <<done, tear, body>>
  <2>1. ServeTypes'
    BY <1>1, <1>5, IdleType DEF ServeTypes
  <2>2. RemovalInv'
    BY <1>1, <1>5, RemovalStays
  <2>3. EndedInv'
    BY <1>1, <1>5, IdleType DEF EndedInv
  <2>4. \A i \in Ids : i # 0
    BY <1>1 DEF ServeConstants
  <2>5. \A i \in Ids : InHand(loop', i) = InHand(loop, i)
    BY <1>1, <1>2, <2>4, IdleType DEF InHand
  <2>6. ServeReceiveInv'
    BY <1>1, <1>2, <1>5, <2>5, IdleType
       DEF ServeInv, ServeTypes, ServeReceiveInv, UnreadOf, ServeHeld, ServeKept, Removing
  <2> QED BY <1>1, <1>3, <2>1, <2>2, <2>3, <2>6 DEF ServeInv
<1> QED BY <1>4, <1>5 DEF endRequestBody

LEMMA RecvRSTKeeps ==
  ASSUME ServeInv, NEW id \in Ids, RecvRST(id)
  PROVE  ServeInv'
<1>1. /\ ServeConstants /\ ServeTypes /\ MuFree /\ finish(id, TRUE, "loop")
      /\ ended' = ended \cup {id}
      /\ UNCHANGED <<over, lastID, open, streams, out, inb, h, rd, loop, wire, sent>>
  BY DEF ServeInv, RecvRST, Reading
<1>2. /\ done' \in SUBSET Ids /\ body' \in [Ids -> ServeBodyRecord]
      /\ tear' \in SUBSET ServeTearRecord /\ IsFiniteSet(tear')
      /\ RemovalInv' /\ EndedInv' /\ ServeReceiveInv'
  BY <1>1, ServeFinishKeeps
<1>3. ServeTypes'
  BY <1>1, <1>2 DEF ServeTypes
<1>4. ServeSendInv'
  BY <1>1, ServeSendStays
<1> QED BY <1>1, <1>2, <1>3, <1>4 DEF ServeInv

LEMMA ResponseReadKeeps ==
  ASSUME ServeInv, NEW id \in Ids, ResponseRead(id)
  PROVE  ServeInv'
<1>1. /\ ServeConstants /\ ServeTypes /\ h[id].at = "write" /\ h[id] \in HandlerRecord
      /\ UNCHANGED <<over, lastID, open, streams, body, done, tear, out, inb, rd, loop, wire, sent,
                     ended>>
  BY ServeShape DEF ServeTypes, ResponseRead
<1>2. ASSUME NEW n \in DataSizes,
             h' = [h EXCEPT ![id] = [at |-> "take", want |-> n, has |-> 0,
                                     writes |-> h[id].writes + 1]]
      PROVE  ServeInv'
  <2> DEFINE now == [at |-> "take", want |-> n, has |-> 0, writes |-> h[id].writes + 1]
  <2>1. now \in HandlerRecord /\ now.at = "take" /\ now.has = 0
    BY <1>1 DEF HandlerRecord, ServeConstants
  <2> HIDE DEF now
  <2>2. h' = [h EXCEPT ![id] = now]
    BY <1>2 DEF now
  <2>3. h' \in [Ids -> HandlerRecord] /\ ServeSendInv'
    <3>1. /\ h[id].has = 0 /\ id <= lastID /\ lastID \in Nat
          /\ out.conn \in Nat /\ wire \in Nat
      BY <1>1 DEF ServeInv, ServeTypes, ServeSendInv, ServeOutRecord
    <3>2. /\ id <= lastID' /\ lastID <= lastID' /\ lastID' \in Nat /\ out'.conn \in Int
          /\ wire' \in Int /\ out'.conn + wire' + now.has = out.conn + wire + h[id].has
      BY <1>1, <2>1, <3>1
    <3> QED BY <2>1, <2>2, <3>2, HandlerSets
  <2>4. ServeTypes'
    BY <1>1, <2>3 DEF ServeTypes
  <2> QED BY <1>1, <2>3, <2>4, RemovalStays, EndedStays, ServeReceiveStays DEF ServeInv
<1>3. CASE At(id, "finish")
  BY <1>1, <1>3, HandlerOnlyMoves
<1> QED BY <1>2, <1>3 DEF ResponseRead

LEMMA ResponseTakeKeeps ==
  ASSUME ServeInv, NEW id \in Ids, ResponseTake(id)
  PROVE  ServeInv'
<1>1. /\ ServeConstants /\ ServeTypes /\ h[id].at = "take" /\ h[id] \in HandlerRecord
      /\ UNCHANGED <<over, lastID, open, streams, inb, rd, loop, wire, sent>>
  BY ServeShape DEF ServeTypes, ResponseTake
<1>2. CASE takeFails(out, id)
  BY <1>1, <1>2, HandlerFinishes DEF ResponseTake
<1>3. CASE ~takeFails(out, id)
  <2> DEFINE n == Least(outAvail(out, id), h[id].want)
             now == [h[id] EXCEPT !.at = "data", !.has = n, !.want = h[id].want - n]
  <2>1. /\ outAvail(out, id) > 0 /\ out' = outTake(out, id, n) /\ h' = [h EXCEPT ![id] = now]
        /\ UNCHANGED <<body, done, tear, ended>> /\ id \in DOMAIN out.stream
    BY <1>3 DEF ResponseTake, takeFails
  <2>2. /\ out \in ServeOutRecord /\ out.conn \in Nat /\ out.stream[id] \in Int
        /\ h[id].want \in Nat /\ MaxFrame \in Nat
    <3>1. out \in ServeOutRecord /\ out.conn \in Nat /\ out.stream \in ServeStreamWindows
      BY <1>1 DEF ServeTypes, ServeOutRecord
    <3>2. out.stream[id] \in Int
      BY <2>1, <3>1, ServeWindowsShape
    <3> QED BY <1>1, <3>1, <3>2 DEF HandlerRecord, ServeConstants, FlowConstants
  <2>3. n \in Nat /\ n <= out.conn /\ n <= h[id].want
    BY <2>1, <2>2 DEF outAvail, Least
  <2> HIDE DEF n
  <2>4. outTake(out, id, n) \in ServeOutRecord /\ outTake(out, id, n).conn = out.conn - n
    BY <2>1, <2>2, <2>3, ServeOutTaken
  <2>5. h[id].want - n \in Nat
    BY <2>2, <2>3
  <2>6. now \in HandlerRecord /\ now.at = "data" /\ now.has = n
    BY <1>1, <2>3, <2>5 DEF HandlerRecord
  <2> HIDE DEF now
  <2>7. h[id].has = 0 /\ id <= lastID /\ lastID \in Nat /\ wire \in Nat
    BY <1>1 DEF ServeInv, ServeTypes, ServeSendInv
  <2>8. h' \in [Ids -> HandlerRecord] /\ ServeSendInv'
    <3>1. /\ id <= lastID' /\ lastID <= lastID' /\ lastID' \in Nat /\ out'.conn \in Int
          /\ wire' \in Int /\ out'.conn + wire' + now.has = out.conn + wire + h[id].has
      BY <1>1, <2>1, <2>2, <2>3, <2>4, <2>6, <2>7
    <3> QED BY <2>1, <2>6, <3>1, HandlerSets
  <2>9. ServeTypes'
    BY <1>1, <2>1, <2>4, <2>8 DEF ServeTypes
  <2> QED BY <1>1, <2>1, <2>8, <2>9, RemovalStays, EndedStays, ServeReceiveStays DEF ServeInv
<1> QED BY <1>2, <1>3

LEMMA ResponseWriteKeeps ==
  ASSUME ServeInv, NEW id \in Ids, ResponseWrite(id)
  PROVE  ServeInv'
<1> DEFINE p == IF h[id].want > 0 THEN "take" ELSE "write"
           now == [h[id] EXCEPT !.has = 0, !.at = p]
<1>1. /\ ServeConstants /\ ServeTypes /\ h[id].at = "data" /\ h[id] \in HandlerRecord
      /\ h' = [h EXCEPT ![id] = now] /\ wire' = wire + h[id].has
      /\ UNCHANGED <<over, lastID, open, streams, body, done, tear, out, inb, rd, loop, sent, ended>>
  BY ServeShape DEF ServeTypes, ResponseWrite
<1>2. p \in {"take", "write"}
  OBVIOUS
<1> HIDE DEF p
<1>3. now \in HandlerRecord /\ now.at = p /\ now.has = 0
  BY <1>1, <1>2 DEF HandlerRecord
<1> HIDE DEF now
<1>4. /\ h[id].has \in Nat /\ wire \in Nat /\ wire' \in Nat
      /\ id <= lastID /\ lastID \in Nat /\ out.conn \in Nat
  BY <1>1 DEF HandlerRecord, ServeTypes, ServeInv, ServeSendInv, ServeOutRecord
<1>5. h' \in [Ids -> HandlerRecord] /\ ServeSendInv'
  <2>1. /\ id <= lastID' /\ lastID <= lastID' /\ lastID' \in Nat /\ out'.conn \in Int
        /\ wire' \in Int /\ out'.conn + wire' + now.has = out.conn + wire + h[id].has
    BY <1>1, <1>3, <1>4
  <2>2. now.at # "data"
    BY <1>2, <1>3
  <2> QED BY <1>1, <1>3, <2>1, <2>2, HandlerSets
<1>6. ServeTypes'
  BY <1>1, <1>4, <1>5 DEF ServeTypes
<1> QED BY <1>1, <1>5, <1>6, RemovalStays, EndedStays, ServeReceiveStays DEF ServeInv

\* The reader takes bytes from the body, or gives their window back.
LEMMA ServeReadBodyKeeps ==
  ASSUME ServeInv, NEW id \in Ids, ReadBody(id)
  PROVE  ServeInv'
<1>1. /\ ServeConstants /\ ServeTypes /\ rd[id] = 0
      /\ UNCHANGED <<over, lastID, open, streams, done, tear, out, inb, h, loop, wire, sent, ended>>
  BY ServeShape DEF ReadBody
<1>2. PICK n \in 1 .. body[id].buf :
        /\ body' = [body EXCEPT ![id] = bodyRead(body[id], n)]
        /\ rd' = [rd EXCEPT ![id] = IF body[id].released THEN 0 ELSE n]
  BY DEF ReadBody
<1> DEFINE b == bodyRead(body[id], n)
           m == IF body[id].released THEN 0 ELSE n
<1>3. /\ body \in [Ids -> ServeBodyRecord] /\ body[id] \in ServeBodyRecord /\ rd \in [Ids -> Nat]
      /\ body[id].buf \in Nat /\ n \in Nat
  BY <1>1 DEF ServeTypes, ServeBodyRecord
<1>4. /\ b \in ServeBodyRecord /\ b.closed = body[id].closed /\ b.released = body[id].released
      /\ unreleased(b) + m = unreleased(body[id]) /\ m \in Nat
  <2>1. /\ b \in ServeBodyRecord /\ b.closed = body[id].closed /\ b.released = body[id].released
        /\ unreleased(b) = IF body[id].released THEN 0 ELSE unreleased(body[id]) - n
    BY <1>3, ServeBodyReads
  <2>2. body[id].released => unreleased(body[id]) = 0
    BY DEF unreleased
  <2>3. unreleased(body[id]) \in Nat
    BY <1>3, ServeBodyShape
  <2> HIDE DEF b
  <2> QED BY <1>3, <2>1, <2>2, <2>3
<1> HIDE DEF b, m
<1>5. body' = [body EXCEPT ![id] = b] /\ rd' = [rd EXCEPT ![id] = m]
  BY <1>2 DEF b, m
<1>6. /\ body' \in [Ids -> ServeBodyRecord] /\ body'[id] = b /\ (\A i \in Ids \ {id} : body'[i] = body[i])
      /\ rd' \in [Ids -> Nat] /\ rd'[id] = m /\ (\A i \in Ids \ {id} : rd'[i] = rd[i])
  BY <1>3, <1>4, <1>5
<1>7. \A i \in Ids : /\ body'[i].closed = body[i].closed /\ body'[i].released = body[i].released
                     /\ unreleased(body'[i]) + rd'[i] = unreleased(body[i]) + rd[i]
  <2> TAKE i \in Ids
  <2>1. CASE i = id
    <3>1. unreleased(body[id]) \in Nat
      BY <1>3, ServeBodyShape
    <3> QED BY <1>1, <1>4, <1>6, <2>1, <3>1
  <2>2. CASE i # id
    <3>1. body'[i] = body[i] /\ rd'[i] = rd[i]
      BY <1>6, <2>2
    <3> QED BY <3>1
  <2> QED BY <2>1, <2>2
<1>8. ServeHeld(body', rd') = ServeHeld(body, rd)
  BY <1>7 DEF ServeHeld
<1>9. ServeTypes'
  BY <1>1, <1>6 DEF ServeTypes
<1>10. RemovalInv'
  <2>1. RemovalInv /\ streams \in SUBSET Ids
    BY <1>1 DEF ServeInv, ServeTypes
  <2> QED BY <1>1, <1>7, <2>1 DEF RemovalInv, Removing
<1>11. EndedInv'
  BY <1>1, <1>7, EndedStays
<1>12. ServeReceiveInv'
  BY <1>1, <1>8 DEF ServeInv, ServeReceiveInv, UnreadOf, ServeKept, Removing, InHand
<1>13. ServeSendInv'
  BY <1>1, ServeSendStays
<1> QED BY <1>1, <1>9, <1>10, <1>11, <1>12, <1>13 DEF ServeInv

LEMMA ServeReadCreditKeeps ==
  ASSUME ServeInv, NEW id \in Ids, ReadCredit(id)
  PROVE  ServeInv'
<1>1. /\ ServeConstants /\ ServeTypes
      /\ inb' = inCredit(inb, id, rd[id]) /\ rd' = [rd EXCEPT ![id] = 0]
      /\ UNCHANGED <<over, lastID, open, streams, body, done, tear, out, h, loop, wire, sent, ended>>
  BY ServeShape DEF ReadCredit
<1>2. /\ body \in [Ids -> ServeBodyRecord] /\ rd \in [Ids -> Nat] /\ rd[id] \in Nat /\ inb \in ServeInRecord
      /\ inb.conn \in Nat /\ streams \in SUBSET Ids
  BY <1>1, ServeInShape DEF ServeTypes
<1>3. /\ inb' \in ServeInRecord /\ inb'.conn = inb.conn + rd[id]
      /\ DOMAIN inb'.stream = DOMAIN inb.stream
      /\ \A i \in DOMAIN inb.stream :
           inb'.stream[i] = IF i = id THEN inb.stream[i] + rd[id] ELSE inb.stream[i]
  BY <1>1, <1>2, ServeInCredited
<1>4. rd' \in [Ids -> Nat] /\ rd'[id] = 0 /\ (\A i \in Ids \ {id} : rd'[i] = rd[i])
  BY <1>1, <1>2
<1>5. ServeTypes'
  BY <1>1, <1>3, <1>4 DEF ServeTypes
<1>6. ServeReceiveInv'
  <2> SUFFICES ASSUME ~over PROVE ServeReceiveInv'
    BY <1>1 DEF ServeReceiveInv
  <2> DEFINE S == SumFunctionOnSet(ServeHeld(body, rd), Ids)
             R == SumFunctionOnSet(ServeHeld(body, rd'), Ids)
             K == SumFunctionOnSet(ServeKept(tear), tear)
  <2>1. /\ open = Cardinality(streams) /\ open <= MaxStreams /\ DOMAIN inb.stream = streams
        /\ inb.conn + (S + loop.n + K) <= RecvWin
        /\ \A i \in streams :
             \/ Removing(tear, i)
             \/ inb.stream[i] + ServeHeld(body, rd)[i] + InHand(loop, i) >= RecvWin
    BY DEF ServeInv, ServeReceiveInv, UnreadOf
  <2>3. /\ S \in Nat /\ R \in Nat /\ R + rd[id] = S
        /\ \A i \in Ids \ {id} : ServeHeld(body, rd')[i] = ServeHeld(body, rd)[i]
    <3>1. ServeConstants /\ body \in [Ids -> ServeBodyRecord] /\ rd \in [Ids -> Nat]
      BY <1>1, <1>2
    <3> QED BY <1>4, <3>1, HeldReturns
  <2>4. K \in Nat /\ loop.n \in Nat /\ RecvWin \in Nat
    BY ServeShape
  <2>5. ASSUME NEW i \in streams, ~Removing(tear, i)
        PROVE  inb'.stream[i] + ServeHeld(body, rd')[i] + InHand(loop, i) >= RecvWin
    <3>1. /\ inb.stream[i] + ServeHeld(body, rd)[i] + InHand(loop, i) >= RecvWin
          /\ inb.stream[i] \in Int /\ InHand(loop, i) \in Nat /\ i \in Ids
      BY <1>2, <2>1, <2>4, <2>5, ServeInShape DEF InHand
    <3>2. CASE i = id
      <4>1. /\ ServeHeld(body, rd)[i] = unreleased(body[i]) + rd[i] /\ unreleased(body[i]) \in Nat
            /\ ServeHeld(body, rd')[i] = unreleased(body[i]) + rd'[i]
        BY <1>2, <1>4, <3>1, ServeHeldShape, ServeBodyShape
      <4> QED BY <1>2, <1>3, <1>4, <2>1, <3>1, <3>2, <4>1
    <3>3. CASE i # id
      BY <1>3, <2>1, <2>3, <3>1, <3>3
    <3> QED BY <3>2, <3>3
  <2> HIDE DEF S, R, K
  <2>6. inb'.conn + (R + loop.n + K) <= RecvWin
    BY <1>2, <1>3, <1>4, <2>1, <2>3, <2>4
  <2> QED BY <1>1, <1>3, <2>1, <2>5, <2>6, SMTT(20)
          DEF ServeReceiveInv, UnreadOf, R, K, ServeHeld, ServeKept, Removing, InHand
<1> QED BY <1>1, <1>5, <1>6, RemovalStays, EndedStays, ServeSendStays DEF ServeInv

\* The second half of finish: unread bytes go back to the connection.
LEMMA FinishCreditKeeps ==
  ASSUME ServeInv, NEW t \in tear, FinishCredit(t)
  PROVE  ServeInv'
<1> DEFINE S == SumFunctionOnSet(ServeHeld(body, rd), Ids)
           K == SumFunctionOnSet(ServeKept(tear), tear)
           R == SumFunctionOnSet(ServeKept(tear'), tear')
<1>1. /\ ServeConstants /\ ServeTypes /\ t.step = "credit"
      /\ inb' = inCredit(inb, 0, t.unread) /\ out' = outForget(out, t.id) /\ tear' = tear \ {t}
      /\ UNCHANGED <<over, lastID, open, streams, body, done, h, rd, loop, wire, sent, ended>>
  BY ServeShape DEF FinishCredit
<1>2. /\ tear \in SUBSET ServeTearRecord /\ t \in ServeTearRecord /\ IsFiniteSet(tear) /\ inb \in ServeInRecord
      /\ out \in ServeOutRecord /\ inb.conn \in Nat /\ streams \in SUBSET Ids
  BY <1>1, ServeInShape DEF ServeTypes
<1>3. /\ t.unread \in Nat /\ K \in Nat /\ R \in Nat /\ K = R + t.unread
      /\ tear' \in SUBSET ServeTearRecord /\ IsFiniteSet(tear')
  BY <1>1, <1>2, ServeKeptSums
<1>4. /\ inb' \in ServeInRecord /\ inb'.conn = inb.conn + t.unread
      /\ DOMAIN inb'.stream = DOMAIN inb.stream
      /\ \A i \in DOMAIN inb.stream :
           inb'.stream[i] = IF i = 0 THEN inb.stream[i] + t.unread ELSE inb.stream[i]
  BY <1>1, <1>2, <1>3, ServeInCredited
<1>5. out' \in ServeOutRecord /\ out'.conn = out.conn
  BY <1>1, <1>2, OutOperations
<1>6. ServeTypes'
  BY <1>1, <1>3, <1>4, <1>5 DEF ServeTypes
<1>7. \A i : Removing(tear', i) <=> Removing(tear, i)
  BY <1>1 DEF Removing
<1>8. RemovalInv'
  <2>1. RemovalInv
    BY DEF ServeInv
  <2> QED BY <1>1, <1>7, <2>1 DEF RemovalInv
<1>9. ServeReceiveInv'
  <2> SUFFICES ASSUME ~over PROVE ServeReceiveInv'
    BY <1>1 DEF ServeReceiveInv
  <2>1. /\ open = Cardinality(streams) /\ open <= MaxStreams /\ DOMAIN inb.stream = streams
        /\ inb.conn + (S + loop.n + K) <= RecvWin
        /\ \A i \in streams :
             \/ Removing(tear, i)
             \/ inb.stream[i] + ServeHeld(body, rd)[i] + InHand(loop, i) >= RecvWin
    BY DEF ServeInv, ServeReceiveInv, UnreadOf
  <2>2. S \in Nat /\ loop.n \in Nat /\ RecvWin \in Nat
    BY ServeShape
  <2>3. \A i \in streams : inb'.stream[i] = inb.stream[i]
    BY <1>1, <1>2, <1>4, <2>1 DEF ServeConstants
  <2> HIDE DEF S, K, R
  <2>4. inb'.conn + (S + loop.n + R) <= RecvWin
    BY <1>2, <1>3, <1>4, <2>1, <2>2
  <2> QED BY <1>1, <1>4, <1>7, <2>1, <2>3, <2>4
          DEF ServeReceiveInv, UnreadOf, S, R, ServeHeld, ServeKept, InHand
<1>10. ServeSendInv'
  BY <1>1, <1>2, <1>5, ServeSendStays
<1> QED BY <1>1, <1>6, <1>8, <1>9, <1>10, EndedStays DEF ServeInv

\* What the accounts of a running connection say.
LEMMA ReceiveFacts ==
  ASSUME ServeInv, ~over
  PROVE  /\ open = Cardinality(streams) /\ open <= MaxStreams /\ DOMAIN inb.stream = streams
         /\ inb.conn + (SumFunctionOnSet(ServeHeld(body, rd), Ids) + loop.n
                          + SumFunctionOnSet(ServeKept(tear), tear)) <= RecvWin
         /\ \A i \in streams :
              \/ Removing(tear, i)
              \/ inb.stream[i] + ServeHeld(body, rd)[i] + InHand(loop, i) >= RecvWin
         /\ \A i \in streams : i \in Ids /\ inb.stream[i] \in Int /\ ServeHeld(body, rd)[i] \in Nat
                               /\ InHand(loop, i) \in Nat
<1>1. ServeReceiveInv /\ ServeTypes /\ loop.n \in Nat
  BY ServeShape DEF ServeInv
<1>2. streams \in SUBSET Ids /\ inb \in ServeInRecord /\ body \in [Ids -> ServeBodyRecord]
      /\ rd \in [Ids -> Nat]
  BY <1>1 DEF ServeTypes
<1>3. \A i \in Ids : ServeHeld(body, rd)[i] \in Nat
  BY <1>2, ServeHeldShape
<1>4. inb.stream \in [DOMAIN inb.stream -> Int]
  BY <1>2, ServeInShape
<1>5. DOMAIN inb.stream = streams
  BY <1>1 DEF ServeReceiveInv
<1> QED BY <1>1, <1>2, <1>3, <1>4, <1>5 DEF ServeReceiveInv, UnreadOf, InHand

\* One body changes, and the stream holds no more or less than before.
LEMMA BodyOnly ==
  ASSUME ServeInv, NEW id \in Ids, NEW b \in ServeBodyRecord, body' = [body EXCEPT ![id] = b],
         unreleased(b) = unreleased(body[id]), b.released = body[id].released
  PROVE  /\ body' \in [Ids -> ServeBodyRecord] /\ body'[id] = b
         /\ \A i \in Ids \ {id} : body'[i] = body[i]
         /\ \A i \in Ids : body'[i].released = body[i].released
         /\ ServeHeld(body', rd) = ServeHeld(body, rd)
<1>1. body \in [Ids -> ServeBodyRecord]
  BY DEF ServeInv, ServeTypes
<1>2. /\ body' \in [Ids -> ServeBodyRecord] /\ body'[id] = b
      /\ \A i \in Ids \ {id} : body'[i] = body[i]
  BY <1>1
<1>3. \A i \in Ids : body'[i].released = body[i].released
                     /\ unreleased(body'[i]) = unreleased(body[i])
  <2> TAKE i \in Ids
  <2>1. CASE i = id
    BY <1>2, <2>1
  <2>2. CASE i # id
    <3>1. body'[i] = body[i]
      BY <1>2, <2>2
    <3> QED BY <3>1
  <2> QED BY <2>1, <2>2
<1> QED BY <1>2, <1>3 DEF ServeHeld

\* The first half of finish: the stream leaves the map, whoever finishes it.
LEMMA FinishRemoveKeeps ==
  ASSUME ServeInv, NEW t \in tear, FinishRemove(t)
  PROVE  ServeInv'
<1> DEFINE id == t.id
           rest == [t EXCEPT !.step = "credit"]
           b == bodyClose(body[id])
           K == SumFunctionOnSet(ServeKept(tear), tear)
           R == SumFunctionOnSet(ServeKept(tear'), tear')
           S == SumFunctionOnSet(ServeHeld(body, rd), Ids)
<1>1. /\ ServeConstants /\ ServeTypes /\ t.step = "remove"
      /\ body' = [body EXCEPT ![id] = b] /\ streams' = streams \ {id}
      /\ open' = (IF open > 0 THEN open - 1 ELSE open) /\ inb' = inForget(inb, id)
      /\ tear' = (tear \ {t}) \cup {rest}
      /\ UNCHANGED <<over, lastID, done, out, h, rd, loop, wire, sent, ended>>
  BY ServeShape DEF FinishRemove
<1>2. /\ tear \in SUBSET ServeTearRecord /\ t \in ServeTearRecord /\ IsFiniteSet(tear) /\ inb \in ServeInRecord
      /\ streams \in SUBSET Ids /\ id \in Ids /\ body \in [Ids -> ServeBodyRecord]
      /\ body[id] \in ServeBodyRecord /\ open \in Nat /\ IsFiniteSet(Ids)
  BY <1>1 DEF ServeTypes, ServeTearRecord, ServeConstants
<1>3. rest \in ServeTearRecord /\ rest.step = "credit" /\ rest.id = id /\ rest.unread = t.unread
  BY <1>2 DEF ServeTearRecord
<1>4. /\ Removing(tear, id) /\ id \in streams /\ id \in ended
      /\ \A i \in Ids : Removing(tear, i) => i = id
      /\ \A x \in tear : x.step = "remove" => x = t
  BY <1>1, <1>2 DEF ServeInv, RemovalInv, Removing
<1>5. /\ b \in ServeBodyRecord /\ b.released = body[id].released
      /\ unreleased(b) = unreleased(body[id])
  BY <1>2, ServeBodyOperations
<1>6. /\ inb' \in ServeInRecord /\ inb'.conn = inb.conn /\ DOMAIN inb'.stream = DOMAIN inb.stream \ {id}
      /\ \A i \in DOMAIN inb.stream \ {id} : inb'.stream[i] = inb.stream[i]
  BY <1>1, <1>2, ServeInForgotten
<1> HIDE DEF id, rest, b
<1>7. /\ body' \in [Ids -> ServeBodyRecord] /\ body'[id] = b
      /\ \A i \in Ids \ {id} : body'[i] = body[i]
      /\ \A i \in Ids : body'[i].released = body[i].released
      /\ ServeHeld(body', rd) = ServeHeld(body, rd)
  BY <1>1, <1>2, <1>5, BodyOnly
<1>8. /\ tear' \in SUBSET ServeTearRecord /\ IsFiniteSet(tear') /\ K \in Nat /\ R \in Nat /\ R <= K
  <2> DEFINE T == tear \ {t}
             Q == SumFunctionOnSet(ServeKept(T), T)
  <2>1. /\ K \in Nat /\ t.unread \in Nat /\ T \in SUBSET ServeTearRecord /\ IsFiniteSet(T)
        /\ Q \in Nat /\ K = Q + t.unread
    BY <1>2, ServeKeptSums
  <2> HIDE DEF T, Q
  <2>2. tear' = T \cup {rest}
    BY <1>1 DEF T
  <2>3. tear' \in SUBSET ServeTearRecord /\ IsFiniteSet(tear') /\ R \in Nat /\ R <= Q + rest.unread
    BY <1>3, <2>1, <2>2, ServeKeptSums DEF Q
  <2> QED BY <1>3, <2>1, <2>3
<1>9. \A x \in tear' : x.step # "remove"
  BY <1>1, <1>3, <1>4
<1>10. ServeTypes'
  BY <1>1, <1>2, <1>6, <1>7, <1>8 DEF ServeTypes
<1>11. RemovalInv'
  <2>1. \A i \in Ids : ~Removing(tear', i)
    BY <1>9 DEF Removing
  <2>2. \A i \in streams' : ~body'[i].released
    BY <1>1, <1>2, <1>4, <1>7 DEF ServeInv, RemovalInv
  <2> QED BY <1>9, <2>1, <2>2 DEF RemovalInv
<1>12. EndedInv'
  <2>1. EndedInv
    BY DEF ServeInv
  <2>2. \A i \in Ids : body'[i].closed => i \in ended
    <3> TAKE i \in Ids
    <3>1. CASE i = id
      BY <1>4, <3>1
    <3>2. CASE i # id
      <4>1. body'[i] = body[i]
        BY <1>7, <3>2
      <4> QED BY <2>1, <4>1 DEF EndedInv
    <3> QED BY <3>1, <3>2
  <2> QED BY <1>1, <2>1, <2>2 DEF EndedInv
<1>13. ServeReceiveInv'
  <2> SUFFICES ASSUME ~over PROVE ServeReceiveInv'
    BY <1>1 DEF ServeReceiveInv
  <2>1. /\ open = Cardinality(streams) /\ open <= MaxStreams /\ DOMAIN inb.stream = streams
        /\ inb.conn + (S + loop.n + K) <= RecvWin
        /\ \A i \in streams :
             \/ Removing(tear, i)
             \/ inb.stream[i] + ServeHeld(body, rd)[i] + InHand(loop, i) >= RecvWin
    BY ReceiveFacts
  <2>2. S \in Nat /\ loop.n \in Nat /\ RecvWin \in Nat /\ inb.conn \in Nat /\ MaxStreams \in Nat
    BY <1>1, ServeShape DEF ServeConstants
  <2>3. open' = Cardinality(streams') /\ open' <= MaxStreams
    <3>1. IsFiniteSet(streams)
      BY <1>2, FS_Subset
    <3>2. Cardinality(streams \ {id}) = Cardinality(streams) - 1 /\ Cardinality(streams) \in Nat
      BY <1>4, <3>1, FS_RemoveElement, FS_CardinalityType
    <3>3. Cardinality(streams \ {id}) \in Nat
      BY <3>1, FS_RemoveElement, FS_CardinalityType
    <3> QED BY <1>1, <2>1, <2>2, <3>2, <3>3
  <2>4. DOMAIN inb'.stream = streams' /\ \A i \in streams' : inb'.stream[i] = inb.stream[i]
    BY <1>1, <1>6, <2>1
  <2>5. \A i \in streams' : inb.stream[i] + ServeHeld(body, rd)[i] + InHand(loop, i) >= RecvWin
    BY <1>1, <1>2, <1>4, <2>1
  <2> HIDE DEF S, K, R
  <2>6. inb'.conn + (S + loop.n + R) <= RecvWin
    BY <1>6, <1>8, <2>1, <2>2
  <2> QED BY <1>1, <1>7, <2>3, <2>4, <2>5, <2>6 DEF ServeReceiveInv, UnreadOf, S, R, InHand
<1>14. ServeSendInv'
  BY <1>1, ServeSendStays
<1> QED BY <1>1, <1>10, <1>11, <1>12, <1>13, <1>14 DEF ServeInv

LEMMA LoopReturnsKeeps ==
  ASSUME ServeInv, LoopReturns
  PROVE  ServeInv'
<1>1. /\ ServeConstants /\ ServeTypes /\ MuFree /\ over' = TRUE /\ loop' = Idle
      /\ body' = [i \in Ids |-> IF i \in streams THEN bodyClose(body[i]) ELSE body[i]]
      /\ ended' = ended \cup streams /\ streams' = {}
      /\ inb' = [inb EXCEPT !.stream = << >>]
      /\ out' = [outClose(out) EXCEPT !.stream = << >>]
      /\ UNCHANGED <<lastID, open, done, h, rd, tear, wire, sent>>
  BY ServeShape DEF LoopReturns, Reading
<1>2. /\ inb \in ServeInRecord /\ out \in ServeOutRecord /\ body \in [Ids -> ServeBodyRecord]
      /\ streams \in SUBSET Ids /\ ended \in SUBSET Ids
  BY <1>1 DEF ServeTypes
<1>3. inb' \in ServeInRecord
  BY <1>1, <1>2, ServeInEmptied
<1>4. out' \in ServeOutRecord /\ out'.conn = out.conn
  BY <1>1, <1>2, OutOperations
<1>5. \A i \in Ids : bodyClose(body[i]) \in ServeBodyRecord
  BY <1>2, ServeBodyOperations
<1>6. body' \in [Ids -> ServeBodyRecord] /\ \A i \in Ids : i \notin streams => body'[i] = body[i]
  BY <1>1, <1>2, <1>5
<1>7. ServeTypes'
  BY <1>1, <1>2, <1>3, <1>4, <1>6, IdleType DEF ServeTypes
<1>8. RemovalInv'
  <2>1. \A i \in Ids : ~Removing(tear', i)
    BY <1>1 DEF MuFree, Removing
  <2> QED BY <1>1, <2>1 DEF RemovalInv, MuFree
<1>9. EndedInv'
  <2>1. \A i \in Ids : body'[i].closed => i \in ended'
    <3> TAKE i \in Ids
    <3>1. CASE i \in streams
      BY <1>1, <3>1
    <3>2. CASE i \notin streams
      BY <1>1, <1>6, <3>2 DEF ServeInv, EndedInv
    <3> QED BY <3>1, <3>2
  <2> QED BY <1>1, <2>1, IdleType DEF EndedInv
<1>10. ServeReceiveInv'
  BY <1>1 DEF ServeReceiveInv
<1>11. ServeSendInv'
  BY <1>1, <1>4, ServeSendStays
<1> QED BY <1>1, <1>7, <1>8, <1>9, <1>10, <1>11 DEF ServeInv

\* Trailers end the request body of a stream.
LEMMA TrailersKeep ==
  ASSUME ServeInv, NEW id \in Ids, Reading, id \in streams,
         body' = [body EXCEPT ![id] = bodyClose(body[id])],
         loop' = [Idle EXCEPT !.at = "ended", !.id = id], ended' = ended \cup {id},
         UNCHANGED <<over, lastID, open, streams, done, tear, out, inb, h, rd, wire, sent>>
  PROVE  ServeInv'
<1> DEFINE b == bodyClose(body[id])
           l == [Idle EXCEPT !.at = "ended", !.id = id]
<1>1. /\ ServeConstants /\ ServeTypes /\ loop = Idle /\ MuFree /\ ~over
      /\ body \in [Ids -> ServeBodyRecord] /\ body[id] \in ServeBodyRecord /\ ended \in SUBSET Ids
  BY ServeShape DEF ServeTypes, Reading
<1>2. /\ b \in ServeBodyRecord /\ b.released = body[id].released
      /\ unreleased(b) = unreleased(body[id])
  BY <1>1, ServeBodyOperations
<1>3. l \in LoopRecord /\ l.at = "ended" /\ l.id = id /\ l.n = 0
  BY DEF Idle, LoopRecord
<1> HIDE DEF b, l
<1>4. body' = [body EXCEPT ![id] = b] /\ loop' = l
  BY DEF b, l
<1>5. /\ body' \in [Ids -> ServeBodyRecord] /\ body'[id] = b
      /\ \A i \in Ids \ {id} : body'[i] = body[i]
      /\ \A i \in Ids : body'[i].released = body[i].released
      /\ ServeHeld(body', rd) = ServeHeld(body, rd)
  BY <1>2, <1>4, BodyOnly
<1>6. ServeTypes'
  BY <1>1, <1>3, <1>4, <1>5 DEF ServeTypes
<1>7. RemovalInv'
  <2>1. RemovalInv /\ streams \in SUBSET Ids
    BY <1>1 DEF ServeInv, ServeTypes
  <2> QED BY <1>5, <2>1 DEF RemovalInv, Removing
<1>8. EndedInv'
  <2>1. \A i \in Ids : body'[i].closed => i \in ended'
    BY <1>5 DEF ServeInv, EndedInv
  <2> QED BY <1>3, <1>4, <2>1 DEF EndedInv
<1>9. ServeReceiveInv'
  <2>1. loop.n = 0 /\ loop'.n = 0 /\ \A i \in Ids : InHand(loop', i) = InHand(loop, i)
    BY <1>1, <1>3, <1>4, IdleType DEF InHand
  <2>2. streams \in SUBSET Ids /\ ServeReceiveInv
    BY <1>1 DEF ServeInv, ServeTypes
  <2> HIDE DEF l
  <2> QED BY <1>1, <1>5, <2>1, <2>2 DEF ServeReceiveInv, UnreadOf, ServeKept, Removing
<1>10. ServeSendInv'
  BY ServeSendStays
<1> QED BY <1>1, <1>6, <1>7, <1>8, <1>9, <1>10 DEF ServeInv

\* A stream is admitted: it counts, and its windows are new.
LEMMA NewStreamKeeps ==
  ASSUME ServeInv, NEW id \in Ids, NEW end \in BOOLEAN, Reading,
         id \notin streams, id > lastID, open < MaxStreams, NewStream(id, end),
         UNCHANGED <<over, done, rd, tear, wire, sent>>
  PROVE  ServeInv'
<1> DEFINE b == IF end THEN bodyClose(newBodyBuf) ELSE newBodyBuf
           now == [h[id] EXCEPT !.at = "run"]
           S == SumFunctionOnSet(ServeHeld(body, rd), Ids)
           R == SumFunctionOnSet(ServeHeld(body', rd), Ids)
           K == SumFunctionOnSet(ServeKept(tear), tear)
<1>1. /\ ServeConstants /\ ServeTypes /\ loop = Idle /\ MuFree /\ ~over
      /\ lastID' = id /\ open' = open + 1 /\ body' = [body EXCEPT ![id] = b]
      /\ inb' = inOpen(inb, id) /\ streams' = streams \cup {id} /\ out' = outOpen(out, id)
      /\ h' = [h EXCEPT ![id] = now] /\ loop' = loop
      /\ ended' = (IF end THEN ended \cup {id} ELSE ended)
  BY ServeShape DEF Reading, NewStream, At
<1>2. /\ body \in [Ids -> ServeBodyRecord] /\ body[id] \in ServeBodyRecord /\ rd \in [Ids -> Nat]
      /\ inb \in ServeInRecord /\ out \in ServeOutRecord /\ out.conn \in Nat /\ wire \in Nat
      /\ h[id] \in HandlerRecord /\ streams \in SUBSET Ids /\ ended \in SUBSET Ids
      /\ lastID \in Nat /\ open \in Nat /\ id \in Nat /\ MaxStreams \in Nat /\ IsFiniteSet(Ids)
      /\ RecvWin \in Nat
  BY <1>1
     DEF ServeTypes, ServeOutRecord, ServeConstants, FlowConstants
<1>3. b \in ServeBodyRecord /\ ~b.released /\ unreleased(b) = 0 /\ (b.closed => end)
  <2>1. newBodyBuf \in ServeBodyRecord /\ ~newBodyBuf.closed /\ ~newBodyBuf.released
        /\ unreleased(newBodyBuf) = 0
    BY <1>2, ServeBodyOperations
  <2>2. /\ bodyClose(newBodyBuf) \in ServeBodyRecord /\ ~bodyClose(newBodyBuf).released
        /\ unreleased(bodyClose(newBodyBuf)) = 0
    BY <2>1, ServeBodyOperations
  <2> QED BY <2>1, <2>2
<1>4. /\ h[id].at = "none" /\ h[id].has = 0
  BY <1>2 DEF ServeInv, ServeSendInv
<1>5. now \in HandlerRecord /\ now.at = "run" /\ now.has = 0
  BY <1>2, <1>4 DEF HandlerRecord
<1> HIDE DEF b, now
<1>6. out' \in ServeOutRecord /\ out'.conn = out.conn
  BY <1>1, <1>2, OutOperations
<1>7. h' \in [Ids -> HandlerRecord] /\ ServeSendInv'
  <2>1. /\ id <= lastID' /\ lastID <= lastID' /\ lastID' \in Nat /\ out'.conn \in Int
        /\ wire' \in Int /\ out'.conn + wire' + now.has = out.conn + wire + h[id].has
        /\ h' = [h EXCEPT ![id] = now]
    BY <1>1, <1>2, <1>4, <1>5, <1>6
  <2> QED BY <1>5, <2>1, HandlerSets
<1>8. /\ inb' \in ServeInRecord /\ inb'.conn = inb.conn
      /\ DOMAIN inb'.stream = DOMAIN inb.stream \cup {id} /\ inb'.stream[id] = RecvWin
      /\ \A i \in DOMAIN inb.stream \ {id} : inb'.stream[i] = inb.stream[i]
  BY <1>1, <1>2, ServeInOpened
<1>9. /\ body' \in [Ids -> ServeBodyRecord] /\ body'[id] = b
      /\ \A i \in Ids \ {id} : body'[i] = body[i]
  BY <1>1, <1>2, <1>3
<1>10. ServeTypes'
  BY <1>1, <1>2, <1>6, <1>7, <1>8, <1>9 DEF ServeTypes
<1>11. \A i \in Ids : ~Removing(tear, i)
  BY <1>1 DEF MuFree, Removing
<1>12. RemovalInv'
  <2>1. \A i \in Ids : ~Removing(tear', i)
    BY <1>11
  <2>2. \A i \in streams' : ~body'[i].released
    BY <1>1, <1>2, <1>3, <1>9, <1>11 DEF ServeInv, RemovalInv
  <2>3. \A p, t \in tear' : p.step = "remove" /\ t.step = "remove" => p = t
    BY <1>1 DEF MuFree
  <2> QED BY <2>1, <2>2, <2>3 DEF RemovalInv
<1>13. EndedInv'
  <2>1. EndedInv
    BY DEF ServeInv
  <2>2. \A i \in Ids : body'[i].closed => i \in ended'
    <3> TAKE i \in Ids
    <3>1. CASE i = id
      BY <1>1, <1>3, <1>9, <3>1
    <3>2. CASE i # id
      <4>1. body'[i] = body[i]
        BY <1>9, <3>2
      <4> QED BY <1>1, <2>1, <4>1 DEF EndedInv
    <3> QED BY <3>1, <3>2
  <2> QED BY <1>1, <2>1, <2>2, IdleType DEF EndedInv
<1>14. ServeReceiveInv'
  <2>1. /\ open = Cardinality(streams) /\ DOMAIN inb.stream = streams
        /\ inb.conn + (S + loop.n + K) <= RecvWin
        /\ \A i \in streams :
             inb.stream[i] + ServeHeld(body, rd)[i] + InHand(loop, i) >= RecvWin
    BY <1>1, <1>2, <1>11, ReceiveFacts
  <2>2. S \in Nat /\ K \in Nat /\ loop.n \in Nat /\ inb.conn \in Nat
    BY ServeShape
  <2>3. /\ R \in Nat /\ R + unreleased(body[id]) + rd[id] = S + unreleased(body'[id]) + rd[id]
        /\ \A i \in Ids \ {id} : ServeHeld(body', rd)[i] = ServeHeld(body, rd)[i]
    <3>1. \A i \in Ids \ {id} : unreleased(body'[i]) = unreleased(body[i]) /\ rd[i] = rd[i]
      BY <1>9
    <3>2. /\ ServeConstants /\ body \in [Ids -> ServeBodyRecord] /\ rd \in [Ids -> Nat]
          /\ body' \in [Ids -> ServeBodyRecord] /\ id \in Ids
      BY <1>1, <1>2, <1>9
    <3> QED BY <3>1, <3>2, ServeHeldChanges
  <2>4. unreleased(body[id]) \in Nat /\ unreleased(body'[id]) = 0 /\ rd[id] \in Nat
    BY <1>2, <1>3, <1>9, ServeBodyShape
  <2>5. open' = Cardinality(streams') /\ open' <= MaxStreams
    <3>1. IsFiniteSet(streams)
      BY <1>2, FS_Subset
    <3>2. Cardinality(streams \cup {id}) = Cardinality(streams) + 1
      BY <3>1, FS_AddElement
    <3> QED BY <1>1, <1>2, <2>1, <3>2
  <2>6. DOMAIN inb'.stream = streams'
    BY <1>1, <1>8, <2>1
  <2>7. ASSUME NEW i \in streams'
        PROVE  inb'.stream[i] + ServeHeld(body', rd)[i] + InHand(loop, i) >= RecvWin
    <3>1. InHand(loop, i) \in Nat
      BY <2>2 DEF InHand
    <3>2. CASE i = id
      <4>1. ServeHeld(body', rd)[id] \in Nat
        BY <1>2, <1>9, ServeHeldShape
      <4> QED BY <1>2, <1>8, <3>1, <3>2, <4>1
    <3>3. CASE i # id
      <4>1. i \in streams /\ i \in Ids
        BY <1>1, <1>2, <3>3
      <4>2. inb'.stream[i] = inb.stream[i] /\ ServeHeld(body', rd)[i] = ServeHeld(body, rd)[i]
        BY <1>8, <2>1, <2>3, <3>3, <4>1
      <4> QED BY <2>1, <4>1, <4>2
    <3> QED BY <3>2, <3>3
  <2> HIDE DEF S, R, K
  <2>8. inb'.conn + (R + loop.n + K) <= RecvWin
    BY <1>2, <1>8, <2>1, <2>2, <2>3, <2>4
  <2>9. UnreadOf(body', rd, loop.n, tear) = R + loop.n + K
    BY DEF UnreadOf, R, K
  <2>10. rd' = rd /\ loop' = loop /\ tear' = tear
    BY <1>1
  <2>11. /\ UnreadOf(body', rd', loop'.n, tear') = UnreadOf(body', rd, loop.n, tear)
         /\ \A i \in streams' :
              inb'.stream[i] + ServeHeld(body', rd')[i] + InHand(loop', i) >= RecvWin
    BY <2>7, <2>10
  <2> QED BY <2>5, <2>6, <2>8, <2>9, <2>11 DEF ServeReceiveInv, UnreadOf, ServeHeld, ServeKept, InHand
<1> QED BY <1>1, <1>7, <1>10, <1>12, <1>13, <1>14 DEF ServeInv

LEMMA RecvHeadersKeeps ==
  ASSUME ServeInv, NEW id \in Ids, NEW end \in BOOLEAN, RecvHeaders(id, end)
  PROVE  ServeInv'
<1>1. CASE id \in streams
  BY <1>1, TrailersKeep DEF RecvHeaders
<1>2. CASE id \notin streams
  BY <1>2, NewStreamKeeps DEF RecvHeaders
<1> QED BY <1>1, <1>2

\* DATA for a stream: what the windows lose, the loop has in hand.
LEMMA DataTakenKeeps ==
  ASSUME ServeInv, NEW id \in Ids, NEW n \in DataSizes, NEW end \in BOOLEAN, Reading,
         id \in streams, ~inTakeConnError(inb, n), inb' = inTake(inb, id, n),
         loop' = [at |-> "data", id |-> id, n |-> n, end |-> end], sent' = sent + n,
         UNCHANGED <<over, lastID, open, streams, body, done, tear, out, h, rd, wire, ended>>
  PROVE  ServeInv'
<1> DEFINE S == SumFunctionOnSet(ServeHeld(body, rd), Ids)
           K == SumFunctionOnSet(ServeKept(tear), tear)
<1>1. /\ ServeConstants /\ ServeTypes /\ loop = Idle /\ ~over /\ MuFree /\ n \in Nat
      /\ inb \in ServeInRecord /\ inb.conn \in Nat /\ streams \in SUBSET Ids /\ sent \in Nat
  BY ServeShape DEF Reading, ServeTypes, ServeConstants
<1>2. /\ inb' \in ServeInRecord /\ inb'.conn = inb.conn - n
      /\ DOMAIN inb'.stream = DOMAIN inb.stream
      /\ \A i \in DOMAIN inb.stream :
           inb'.stream[i] >= IF i = id THEN inb.stream[i] - n ELSE inb.stream[i]
  BY <1>1, ServeInTaken
<1>3. loop' \in LoopRecord /\ loop'.at = "data" /\ loop'.id = id /\ loop'.n = n
  BY <1>1 DEF LoopRecord
<1>4. ServeTypes'
  BY <1>1, <1>2, <1>3 DEF ServeTypes
<1>5. RemovalInv'
  BY RemovalStays
<1>6. EndedInv'
  BY <1>3 DEF ServeInv, EndedInv
<1>7. ServeReceiveInv'
  <2>1. /\ open = Cardinality(streams) /\ open <= MaxStreams /\ DOMAIN inb.stream = streams
        /\ inb.conn + (S + loop.n + K) <= RecvWin
        /\ \A i \in streams :
             \/ Removing(tear, i)
             \/ inb.stream[i] + ServeHeld(body, rd)[i] + InHand(loop, i) >= RecvWin
        /\ \A i \in streams : i \in Ids /\ inb.stream[i] \in Int /\ ServeHeld(body, rd)[i] \in Nat
    BY <1>1, ReceiveFacts
  <2>2. S \in Nat /\ K \in Nat /\ RecvWin \in Nat
    BY ServeShape
  <2>3. loop.n = 0 /\ \A i \in Ids : InHand(loop, i) = 0
    BY <1>1, IdleType DEF InHand
  <2>4. \A i \in Ids : InHand(loop', i) = IF i = id THEN n ELSE 0
    BY <1>3 DEF InHand
  <2>5. ASSUME NEW i \in streams, ~Removing(tear, i)
        PROVE  inb'.stream[i] + ServeHeld(body, rd)[i] + InHand(loop', i) >= RecvWin
    <3>1. inb'.stream[i] \in Int
      BY <1>2, <2>1, ServeInShape
    <3>2. inb.stream[i] + ServeHeld(body, rd)[i] >= RecvWin
      BY <2>1, <2>3, <2>5
    <3>3. inb'.stream[i] + InHand(loop', i) >= inb.stream[i]
      BY <1>1, <1>2, <2>1, <2>4, <3>1
    <3>4. InHand(loop', i) \in Nat
      BY <1>1, <2>1, <2>4
    <3> QED BY <2>1, <2>2, <3>1, <3>2, <3>3, <3>4
  <2> HIDE DEF S, K
  <2>6. inb'.conn + (S + loop'.n + K) <= RecvWin
    BY <1>1, <1>2, <1>3, <2>1, <2>2, <2>3
  <2> QED BY <1>2, <2>1, <2>5, <2>6 DEF ServeReceiveInv, UnreadOf, S, K, ServeHeld, ServeKept, Removing
<1>8. ServeSendInv'
  BY ServeSendStays
<1> QED BY <1>1, <1>4, <1>5, <1>6, <1>7, <1>8 DEF ServeInv

\* DATA for a stream that is gone: taken and given back.
LEMMA DataReturnedKeeps ==
  ASSUME ServeInv, NEW id \in Ids, NEW n \in DataSizes, Reading,
         id \notin streams, ~inTakeConnError(inb, n),
         inb' = inCredit(inTake(inb, id, n), 0, n), sent' = sent + n,
         UNCHANGED <<over, lastID, open, streams, body, done, tear, out, h, rd, loop, wire, ended>>
  PROVE  ServeInv'
<1> DEFINE S == SumFunctionOnSet(ServeHeld(body, rd), Ids)
           K == SumFunctionOnSet(ServeKept(tear), tear)
           f == inTake(inb, id, n)
<1>1. /\ ServeConstants /\ ServeTypes /\ ~over /\ n \in Nat
      /\ inb \in ServeInRecord /\ inb.conn \in Nat /\ streams \in SUBSET Ids /\ sent \in Nat
  BY ServeShape DEF Reading, ServeTypes, ServeConstants
<1>2. /\ open = Cardinality(streams) /\ open <= MaxStreams /\ DOMAIN inb.stream = streams
      /\ inb.conn + (S + loop.n + K) <= RecvWin
      /\ \A i \in streams :
           \/ Removing(tear, i)
           \/ inb.stream[i] + ServeHeld(body, rd)[i] + InHand(loop, i) >= RecvWin
      /\ \A i \in streams : i \in Ids /\ inb.stream[i] \in Int /\ ServeHeld(body, rd)[i] \in Nat
                            /\ InHand(loop, i) \in Nat
  BY <1>1, ReceiveFacts
<1>3. /\ f \in ServeInRecord /\ f.conn = inb.conn - n /\ DOMAIN f.stream = DOMAIN inb.stream
      /\ \A i \in DOMAIN inb.stream :
           f.stream[i] >= IF i = id THEN inb.stream[i] - n ELSE inb.stream[i]
  BY <1>1, ServeInTaken
<1> HIDE DEF f
<1>4. /\ inb' \in ServeInRecord /\ inb'.conn = f.conn + n /\ DOMAIN inb'.stream = DOMAIN f.stream
      /\ \A i \in DOMAIN f.stream :
           inb'.stream[i] = IF i = 0 THEN f.stream[i] + n ELSE f.stream[i]
  <2>1. f.conn + n >= 0 /\ n \in Int
    BY <1>1, <1>3
  <2> QED BY <1>3, <2>1, ServeInCredited DEF f
<1>5. ServeTypes'
  BY <1>1, <1>4 DEF ServeTypes
<1>6. inb'.conn = inb.conn
  BY <1>1, <1>3, <1>4
<1>7. \A i \in streams : inb'.stream[i] >= inb.stream[i] /\ inb'.stream[i] \in Int
  BY <1>1, <1>2, <1>3, <1>4, ServeInShape DEF ServeConstants
<1>8. ServeReceiveInv'
  <2>1. RecvWin \in Nat
    BY ServeShape
  <2>2. ASSUME NEW i \in streams, ~Removing(tear, i)
        PROVE  inb'.stream[i] + ServeHeld(body, rd)[i] + InHand(loop, i) >= RecvWin
    BY <1>2, <1>7, <2>1, <2>2
  <2>3. DOMAIN inb'.stream = streams
    BY <1>2, <1>3, <1>4
  <2> QED BY <1>2, <1>6, <2>2, <2>3 DEF ServeReceiveInv, UnreadOf, ServeHeld, ServeKept, Removing, InHand
<1> QED BY <1>1, <1>5, <1>8, RemovalStays, EndedStays, ServeSendStays DEF ServeInv

LEMMA RecvDataKeeps ==
  ASSUME ServeInv, NEW id \in Ids, NEW n \in DataSizes, NEW end \in BOOLEAN,
         RecvData(id, n, end)
  PROVE  ServeInv'
<1>1. CASE loop' = [Idle EXCEPT !.at = "fatal"] /\ UNCHANGED <<body, inb, done, tear, ended>>
  <2>1. /\ ServeConstants /\ ServeTypes /\ loop = Idle /\ n \in Nat /\ sent' = sent + n
        /\ UNCHANGED <<over, lastID, open, streams, out, h, rd, wire>>
    BY ServeShape DEF RecvData, Reading, ServeConstants
  <2>2. loop' \in LoopRecord /\ loop'.at = "fatal" /\ loop'.id = 0 /\ loop'.n = 0
    BY <1>1 DEF Idle, LoopRecord
  <2>3. ServeTypes'
    BY <1>1, <2>1, <2>2 DEF ServeTypes
  <2>4. EndedInv'
    BY <1>1, <2>2 DEF ServeInv, EndedInv
  <2>5. loop.n = 0 /\ \A i \in Ids : InHand(loop', i) = InHand(loop, i)
    BY <2>1, <2>2, IdleType DEF InHand
  <2>6. ServeReceiveInv'
    <3>1. streams \in SUBSET Ids /\ ServeReceiveInv
      BY <2>1 DEF ServeInv, ServeTypes
    <3> QED BY <1>1, <2>1, <2>2, <2>5, <3>1 DEF ServeReceiveInv, UnreadOf, ServeHeld, ServeKept, Removing
  <2> QED BY <1>1, <2>1, <2>3, <2>4, <2>6, RemovalStays, ServeSendStays DEF ServeInv
<1>2. CASE /\ ~inTakeConnError(inb, n) /\ id \in streams /\ inb' = inTake(inb, id, n)
           /\ loop' = [at |-> "data", id |-> id, n |-> n, end |-> end]
           /\ UNCHANGED <<body, done, tear, ended>>
  BY <1>2, DataTakenKeeps DEF RecvData
<1>3. CASE /\ ~inTakeConnError(inb, n) /\ id \notin streams
           /\ inb' = inCredit(inTake(inb, id, n), 0, n)
           /\ UNCHANGED <<body, loop, done, tear, ended>>
  BY <1>3, DataReturnedKeeps DEF RecvData
<1> QED BY <1>1, <1>2, <1>3 DEF RecvData

\* A frame for a body that no longer takes bytes: given back, and the stream goes.
LEMMA DataRejectedKeeps ==
  ASSUME ServeInv, MuFree, loop.at = "data", inb' = inCredit(inb, 0, loop.n),
         finish(loop.id, TRUE, "loop"), loop' = Idle, ended' = ended \cup {loop.id},
         UNCHANGED <<over, lastID, open, streams, out, h, rd, wire, sent>>
  PROVE  ServeInv'
<1> DEFINE id == loop.id
           S == SumFunctionOnSet(ServeHeld(body, rd), Ids)
           K == SumFunctionOnSet(ServeKept(tear), tear)
           R == SumFunctionOnSet(ServeHeld(body', rd), Ids)
           Q == SumFunctionOnSet(ServeKept(tear'), tear')
<1>1. /\ ServeConstants /\ ServeTypes /\ id \in Ids /\ loop.n \in Nat
      /\ inb \in ServeInRecord /\ inb.conn \in Nat /\ streams \in SUBSET Ids /\ ended \in SUBSET Ids
      /\ rd \in [Ids -> Nat]
  BY ServeShape DEF ServeTypes, ServeInv, EndedInv
<1>2. /\ done' \in SUBSET Ids /\ body' \in [Ids -> ServeBodyRecord]
      /\ tear' \in SUBSET ServeTearRecord /\ IsFiniteSet(tear')
      /\ \A i \in Ids : body'[i].closed = body[i].closed
      /\ \A p, t \in tear' : p.step = "remove" /\ t.step = "remove" => p = t
      /\ \A i \in Ids : Removing(tear', i) => i = id /\ i \in streams /\ (TRUE \/ body[i].closed)
      /\ \A i \in streams : body'[i].released => Removing(tear', i)
      /\ TRUE /\ id \in streams => Removing(tear', id)
      /\ \A r \in [Ids -> Nat] :
           /\ SumFunctionOnSet(ServeHeld(body', r), Ids) + SumFunctionOnSet(ServeKept(tear'), tear') <=
                SumFunctionOnSet(ServeHeld(body, r), Ids) + SumFunctionOnSet(ServeKept(tear), tear)
           /\ \A i \in Ids : Removing(tear', i) \/ ServeHeld(body', r)[i] = ServeHeld(body, r)[i]
  BY <1>1, FinishProps
<1>3. R + Q <= S + K /\ \A i \in Ids : Removing(tear', i) \/ ServeHeld(body', rd)[i] = ServeHeld(body, rd)[i]
  BY <1>1, <1>2
<1>4. /\ inb' \in ServeInRecord /\ inb'.conn = inb.conn + loop.n
      /\ DOMAIN inb'.stream = DOMAIN inb.stream
      /\ \A i \in DOMAIN inb.stream :
           inb'.stream[i] = IF i = 0 THEN inb.stream[i] + loop.n ELSE inb.stream[i]
  BY <1>1, ServeInCredited
<1>5. ServeTypes'
  BY <1>1, <1>2, <1>4, IdleType DEF ServeTypes
<1>6. RemovalInv'
  BY <1>2 DEF RemovalInv
<1>7. EndedInv'
  <2>1. \A i \in Ids : body'[i].closed => i \in ended'
    BY <1>2 DEF ServeInv, EndedInv
  <2> QED BY <2>1, IdleType DEF EndedInv
<1>8. ServeReceiveInv'
  <2> SUFFICES ASSUME ~over PROVE ServeReceiveInv'
    BY DEF ServeReceiveInv
  <2>1. /\ open = Cardinality(streams) /\ open <= MaxStreams /\ DOMAIN inb.stream = streams
        /\ inb.conn + (S + loop.n + K) <= RecvWin
        /\ \A i \in streams :
             \/ Removing(tear, i)
             \/ inb.stream[i] + ServeHeld(body, rd)[i] + InHand(loop, i) >= RecvWin
    BY ReceiveFacts
  <2>2. S \in Nat /\ K \in Nat /\ RecvWin \in Nat
    BY ServeShape
  <2>3. R \in Nat /\ Q \in Nat
    <3>1. \A i \in Ids : ServeHeld(body', rd)[i] \in Nat
      BY <1>1, <1>2, ServeHeldShape
    <3>2. \A t \in tear' : ServeKept(tear')[t] \in Nat
      BY <1>2 DEF ServeKept, ServeTearRecord
    <3>3. IsFiniteSet(Ids)
      BY <1>1 DEF ServeConstants
    <3> QED BY <1>2, <3>1, <3>2, <3>3, SumProps
  <2>4. ASSUME NEW i \in streams, ~Removing(tear', i)
        PROVE  inb'.stream[i] + ServeHeld(body', rd)[i] + InHand(loop', i) >= RecvWin
    <3>1. i # id /\ i \in Ids /\ i # 0
      BY <1>1, <1>2, <2>4 DEF ServeConstants
    <3>2. InHand(loop, i) = 0 /\ InHand(loop', i) = 0
      BY <3>1, IdleType DEF InHand
    <3>3. ~Removing(tear, i)
      BY DEF MuFree, Removing
    <3> QED BY <1>3, <1>4, <2>1, <2>4, <3>1, <3>2, <3>3
  <2> HIDE DEF S, K, R, Q
  <2>5. inb'.conn + (R + 0 + Q) <= RecvWin
    BY <1>1, <1>3, <1>4, <2>1, <2>2, <2>3
  <2>6. loop'.n = 0
    BY IdleType
  <2>7. DOMAIN inb'.stream = streams
    BY <1>4, <2>1
  <2> QED BY <2>1, <2>4, <2>5, <2>6, <2>7 DEF ServeReceiveInv, UnreadOf, R, Q
<1>9. ServeSendInv'
  BY ServeSendStays
<1> QED BY <1>1, <1>5, <1>6, <1>7, <1>8, <1>9 DEF ServeInv

\* A frame for a body that takes it: the bytes pass from the loop to the body.
LEMMA DataKeptKeeps ==
  ASSUME ServeInv, loop.at = "data", NEW b \in ServeBodyRecord, NEW l \in LoopRecord,
         body' = [body EXCEPT ![loop.id] = b], loop' = l, l.n = 0,
         l.at = "frame" \/ (l.at = "ended" /\ l.id = loop.id /\ loop.id \in ended'),
         b.released = body[loop.id].released,
         unreleased(b) = IF body[loop.id].released THEN 0
                         ELSE unreleased(body[loop.id]) + loop.n,
         b.closed => loop.id \in ended', ended' = ended \/ ended' = ended \cup {loop.id},
         UNCHANGED <<over, lastID, open, streams, done, tear, inb, out, h, rd, wire, sent>>
  PROVE  ServeInv'
<1> DEFINE id == loop.id
           S == SumFunctionOnSet(ServeHeld(body, rd), Ids)
           K == SumFunctionOnSet(ServeKept(tear), tear)
           R == SumFunctionOnSet(ServeHeld(body', rd), Ids)
<1>1. /\ ServeConstants /\ ServeTypes /\ id \in Ids /\ loop.n \in Nat
      /\ streams \in SUBSET Ids /\ ended \in SUBSET Ids /\ rd \in [Ids -> Nat]
      /\ body \in [Ids -> ServeBodyRecord] /\ body[id] \in ServeBodyRecord
  BY ServeShape DEF ServeTypes, ServeInv, EndedInv
<1>2. /\ body' \in [Ids -> ServeBodyRecord] /\ body'[id] = b
      /\ \A i \in Ids \ {id} : body'[i] = body[i]
  BY <1>1
<1>3. /\ unreleased(body[id]) \in Nat /\ rd[id] \in Nat /\ unreleased(b) \in Nat
      /\ unreleased(b) <= unreleased(body[id]) + loop.n
  BY <1>1, ServeBodyShape
<1>4. ServeTypes'
  BY <1>1, <1>2 DEF ServeTypes
<1>5. RemovalInv'
  <2>1. RemovalInv
    BY DEF ServeInv
  <2>2. \A i \in Ids : body'[i].released = body[i].released
    <3> TAKE i \in Ids
    <3>1. CASE i = id
      BY <1>2, <3>1
    <3>2. CASE i # id
      <4>1. body'[i] = body[i]
        BY <1>2, <3>2
      <4> QED BY <4>1
    <3> QED BY <3>1, <3>2
  <2>3. ended \subseteq ended'
    OBVIOUS
  <2> QED BY <1>1, <2>1, <2>2, <2>3 DEF RemovalInv, Removing
<1>6. EndedInv'
  <2>1. EndedInv
    BY DEF ServeInv
  <2>2. \A i \in Ids : body'[i].closed => i \in ended'
    <3> TAKE i \in Ids
    <3>1. CASE i = id
      BY <1>2, <3>1
    <3>2. CASE i # id
      <4>1. body'[i] = body[i]
        BY <1>2, <3>2
      <4> QED BY <2>1, <4>1 DEF EndedInv
    <3> QED BY <3>1, <3>2
  <2> QED BY <1>1, <2>2 DEF EndedInv
<1>7. ServeReceiveInv'
  <2> SUFFICES ASSUME ~over PROVE ServeReceiveInv'
    BY DEF ServeReceiveInv
  <2>1. /\ open = Cardinality(streams) /\ open <= MaxStreams /\ DOMAIN inb.stream = streams
        /\ inb.conn + (S + loop.n + K) <= RecvWin
        /\ \A i \in streams :
             \/ Removing(tear, i)
             \/ inb.stream[i] + ServeHeld(body, rd)[i] + InHand(loop, i) >= RecvWin
        /\ \A i \in streams : i \in Ids /\ inb.stream[i] \in Int /\ ServeHeld(body, rd)[i] \in Nat
    BY ReceiveFacts
  <2>2. S \in Nat /\ K \in Nat /\ RecvWin \in Nat /\ inb.conn \in Nat
    BY ServeShape
  <2>3. /\ R \in Nat /\ R + unreleased(body[id]) + rd[id] = S + unreleased(body'[id]) + rd[id]
        /\ \A i \in Ids \ {id} : ServeHeld(body', rd)[i] = ServeHeld(body, rd)[i]
    <3>1. \A i \in Ids \ {id} : unreleased(body'[i]) = unreleased(body[i]) /\ rd[i] = rd[i]
      BY <1>2
    <3>2. /\ ServeConstants /\ body \in [Ids -> ServeBodyRecord] /\ rd \in [Ids -> Nat]
          /\ body' \in [Ids -> ServeBodyRecord] /\ id \in Ids
      BY <1>1, <1>2
    <3>3. ASSUME NEW c \in [Ids -> ServeBodyRecord], NEW x \in Ids,
                 \A i \in Ids \ {x} : unreleased(c[i]) = unreleased(body[i]) /\ rd[i] = rd[i]
          PROVE  /\ SumFunctionOnSet(ServeHeld(c, rd), Ids) \in Nat
                 /\ SumFunctionOnSet(ServeHeld(c, rd), Ids) + unreleased(body[x]) + rd[x] =
                      S + unreleased(c[x]) + rd[x]
                 /\ \A i \in Ids \ {x} : ServeHeld(c, rd)[i] = ServeHeld(body, rd)[i]
      BY <3>2, <3>3, ServeHeldChanges
    <3> QED BY <3>1, <3>2, <3>3
  <2>4. ASSUME NEW i \in streams, ~Removing(tear, i)
        PROVE  inb.stream[i] + ServeHeld(body', rd)[i] + InHand(loop', i) >= RecvWin
    <3>1. /\ inb.stream[i] + ServeHeld(body, rd)[i] + InHand(loop, i) >= RecvWin
          /\ inb.stream[i] \in Int /\ i \in Ids /\ ServeHeld(body, rd)[i] \in Nat
      BY <2>1, <2>4
    <3>2. InHand(loop', i) = 0
      BY DEF InHand
    <3>3. CASE i = id
      <4>1. ~body[id].released
        BY <2>4, <3>3 DEF ServeInv, RemovalInv
      <4>2. ServeHeld(body', rd)[i] = unreleased(b) + rd[id] /\ InHand(loop, i) = loop.n
        <5>1. \A j \in Ids : ServeHeld(body', rd)[j] = unreleased(body'[j]) + rd[j]
          BY DEF ServeHeld
        <5>2. InHand(loop, i) = loop.n
          BY <3>3 DEF InHand
        <5> QED BY <1>1, <1>2, <3>3, <5>1, <5>2
      <4>3. ServeHeld(body, rd)[i] = unreleased(body[id]) + rd[id]
        BY <1>1, <3>3, ServeHeldShape
      <4> QED BY <1>1, <1>3, <3>1, <3>2, <4>1, <4>2, <4>3
    <3>4. CASE i # id
      BY <2>3, <3>1, <3>2, <3>4 DEF InHand
    <3> QED BY <3>3, <3>4
  <2> HIDE DEF S, K, R
  <2>5. inb.conn + (R + 0 + K) <= RecvWin
    BY <1>1, <1>2, <1>3, <2>1, <2>2, <2>3
  <2>6. loop'.n = 0
    OBVIOUS
  <2> QED BY <2>1, <2>4, <2>5, <2>6 DEF ServeReceiveInv, UnreadOf, R, K, ServeKept, Removing
<1>8. ServeSendInv'
  BY ServeSendStays
<1> QED BY <1>1, <1>4, <1>5, <1>6, <1>7, <1>8 DEF ServeInv

LEMMA ServeDataWriteKeeps ==
  ASSUME ServeInv, DataWrite
  PROVE  ServeInv'
<1> DEFINE id == loop.id
           b == IF loop.end THEN bodyClose(bodyWrite(body[id], loop.n))
                ELSE bodyWrite(body[id], loop.n)
           l == IF loop.end THEN [Idle EXCEPT !.at = "ended", !.id = id] ELSE Idle
<1>1. /\ ServeTypes /\ id \in Ids /\ loop.at = "data" /\ loop.n \in Nat
      /\ UNCHANGED <<over, lastID, open, streams, out, h, rd, wire, sent>>
  BY ServeShape DEF ServeInv, EndedInv, DataWrite
<1>2. CASE body[id].closed
  <2>1. /\ MuFree /\ inb' = inCredit(inb, 0, loop.n) /\ finish(loop.id, TRUE, "loop")
        /\ loop' = Idle /\ ended' = ended \cup {loop.id}
    BY <1>2 DEF DataWrite
  <2> QED BY <1>1, <2>1, DataRejectedKeeps
<1>3. CASE ~body[id].closed
  <2>1. /\ body' = [body EXCEPT ![loop.id] = b] /\ loop' = l
        /\ ended' = (IF loop.end THEN ended \cup {loop.id} ELSE ended)
        /\ UNCHANGED <<done, tear, inb>>
    BY <1>3 DEF DataWrite
  <2>2. body[id] \in ServeBodyRecord /\ loop.end \in BOOLEAN
    BY <1>1 DEF ServeTypes, LoopRecord
  <2>3. /\ b \in ServeBodyRecord /\ b.released = body[id].released /\ (b.closed => loop.end)
        /\ unreleased(b) = IF body[id].released THEN 0 ELSE unreleased(body[id]) + loop.n
    <3> DEFINE x == bodyWrite(body[id], loop.n)
    <3>1. /\ x \in ServeBodyRecord /\ x.closed = body[id].closed /\ x.released = body[id].released
          /\ unreleased(x) = IF body[id].released THEN 0 ELSE unreleased(body[id]) + loop.n
      <4>1. ASSUME NEW e \in ServeBodyRecord, NEW n \in Nat
            PROVE  /\ bodyWrite(e, n) \in ServeBodyRecord /\ bodyWrite(e, n).closed = e.closed
                   /\ bodyWrite(e, n).released = e.released
                   /\ unreleased(bodyWrite(e, n)) = IF e.released THEN 0 ELSE unreleased(e) + n
        BY ServeBodyOperations
      <4>2. body[id] \in ServeBodyRecord /\ loop.n \in Nat
        BY <1>1, <2>2
      <4> HIDE DEF id
      <4> QED BY <4>1, <4>2
    <3> HIDE DEF x
    <3>2. /\ bodyClose(x) \in ServeBodyRecord /\ bodyClose(x).released = x.released
          /\ unreleased(bodyClose(x)) = unreleased(x)
      BY <3>1, ServeBodyOperations
    <3>3. b = IF loop.end THEN bodyClose(x) ELSE x
      BY DEF x
    <3> HIDE DEF b
    <3> QED BY <1>3, <3>1, <3>2, <3>3
  <2>4. /\ l \in LoopRecord /\ l.n = 0
        /\ l.at = "frame" \/ (l.at = "ended" /\ l.id = id /\ loop.end)
    BY <1>1 DEF Idle, LoopRecord
  <2> HIDE DEF b, l
  <2> QED BY <1>1, <2>1, <2>2, <2>3, <2>4, DataKeptKeeps
<1> QED BY <1>2, <1>3

-----------------------------------------------------------------------------
(* Every step, and the theorems.                                           *)

LEMMA ServeStutterKeeps ==
  ASSUME ServeInv, UNCHANGED serveVars
  PROVE  ServeInv'
<1>1. /\ UNCHANGED <<over, lastID, open, streams, body, done, out, inb>>
      /\ UNCHANGED <<h, rd, loop, tear, wire, sent, ended>>
  BY DEF serveVars
<1>2. ServeConstants /\ ServeTypes
  BY ServeShape
<1>3. ServeTypes'
  BY <1>1, <1>2 DEF ServeTypes
<1> QED BY <1>1, <1>2, <1>3, RemovalStays, EndedStays, ServeReceiveStays, ServeSendStays DEF ServeInv

LEMMA ServeInitHolds == ServeConstants /\ ServeInit => ServeInv
<1> SUFFICES ASSUME ServeConstants, ServeInit PROVE ServeInv
  OBVIOUS
<1>1. newBodyBuf \in ServeBodyRecord /\ ~newBodyBuf.closed /\ ~newBodyBuf.released
      /\ unreleased(newBodyBuf) = 0
  BY DEF newBodyBuf, ServeBodyRecord, unreleased
<1>2. /\ RecvWin \in Nat /\ SendWin \in Nat /\ MaxStreams \in Nat /\ IsFiniteSet(Ids)
  BY DEF ServeConstants, FlowConstants
<1>3. out \in ServeOutRecord /\ out.conn = SendWin
  BY <1>2, ServeNoWindows DEF ServeInit, newOutFlow, ServeOutRecord
<1>4. inb \in ServeInRecord /\ inb.conn = RecvWin /\ DOMAIN inb.stream = {}
  BY <1>2, ServeNoWindows DEF ServeInit, newInFlow, ServeInRecord
<1>5. /\ body \in [Ids -> ServeBodyRecord] /\ rd \in [Ids -> Nat]
      /\ \A i \in Ids : body[i] = newBodyBuf /\ rd[i] = 0
  BY <1>1 DEF ServeInit
<1>6. /\ h \in [Ids -> HandlerRecord]
      /\ \A i \in Ids : h[i].at = "none" /\ h[i].has = 0
  BY DEF ServeInit, HandlerRecord
<1>7. tear \in SUBSET ServeTearRecord /\ IsFiniteSet(tear) /\ streams = {}
  BY FS_EmptySet DEF ServeInit
<1>8. ServeTypes
  BY <1>3, <1>4, <1>5, <1>6, <1>7, IdleType DEF ServeInit, ServeTypes
<1>9. RemovalInv
  BY DEF ServeInit, RemovalInv, Removing
<1>10. EndedInv
  BY <1>1, <1>5, IdleType DEF ServeInit, EndedInv
<1>11. ServeReceiveInv
  <2>1. open = Cardinality(streams) /\ open <= MaxStreams
    BY <1>2, <1>7, FS_EmptySet DEF ServeInit
  <2>2. SumFunctionOnSet(ServeHeld(body, rd), Ids) = 0
    <3>1. \A i \in Ids : ServeHeld(body, rd)[i] = 0
      BY <1>1, <1>5, ServeHeldShape
    <3> QED BY <1>2, <3>1, SumZero
  <2>3. SumFunctionOnSet(ServeKept(tear), tear) = 0
    <3>1. \A t \in tear : ServeKept(tear)[t] = 0
      BY DEF ServeInit
    <3> QED BY <1>7, <3>1, SumZero
  <2>4. inb.conn + UnreadOf(body, rd, loop.n, tear) <= RecvWin
    BY <1>2, <1>4, <2>2, <2>3, IdleType DEF ServeInit, UnreadOf
  <2> QED BY <1>4, <1>7, <2>1, <2>4 DEF ServeReceiveInv
<1>12. ServeSendInv
  <2>1. \A i \in Ids : ServeTaken(h)[i] = 0
    BY <1>6 DEF ServeTaken
  <2>2. SumFunctionOnSet(ServeTaken(h), Ids) = 0
    BY <1>2, <2>1, SumZero
  <2>3. out.conn + wire + SumFunctionOnSet(ServeTaken(h), Ids) <= SendWin
    BY <1>2, <1>3, <2>2 DEF ServeInit
  <2> QED BY <1>6, <2>3 DEF ServeSendInv
<1> QED BY <1>8, <1>9, <1>10, <1>11, <1>12 DEF ServeInv

LEMMA HandlerKeeps ==
  ASSUME ServeInv, NEW id \in Ids, Handler(id) \/ ReadBody(id) \/ ReadCredit(id)
  PROVE  ServeInv'
<1>1. CASE HandlerReturns(id) \/ HandlerTooLate(id) \/ ResponseRead(id) \/ ResponseFails(id)
  BY <1>1, HandlerReturnsKeeps, HandlerTooLateKeeps, ResponseReadKeeps, ResponseFailsKeeps
<1>2. CASE serveTunnel(id) \/ ResponseTake(id) \/ ResponseWrite(id) \/ HandlerFinish(id)
  BY <1>2, ServeTunnelKeeps, ResponseTakeKeeps, ResponseWriteKeeps, HandlerFinishKeeps
<1>3. CASE ReadBody(id) \/ ReadCredit(id)
  BY <1>3, ServeReadBodyKeeps, ServeReadCreditKeeps
<1> QED BY <1>1, <1>2, <1>3 DEF Handler

LEMMA FrameKeeps ==
  ASSUME ServeInv, Frame
  PROVE  ServeInv'
<1>1. ASSUME NEW id \in Ids, NEW end \in BOOLEAN, RecvHeaders(id, end) PROVE ServeInv'
  BY <1>1, RecvHeadersKeeps
<1>2. ASSUME NEW id \in Ids, RecvRefused(id) PROVE ServeInv'
  BY <1>2, ServeStutterKeeps DEF RecvRefused
<1>3. ASSUME NEW id \in Ids, NEW n \in DataSizes, NEW end \in BOOLEAN, RecvData(id, n, end)
      PROVE  ServeInv'
  BY <1>3, RecvDataKeeps
<1>4. ASSUME NEW id \in Ids, RecvRST(id) PROVE ServeInv'
  BY <1>4, RecvRSTKeeps
<1>5. ASSUME NEW id \in Ids, NEW n \in DataSizes, RecvWindowUpdate(id, n) PROVE ServeInv'
  BY <1>5, RecvWindowUpdateKeeps
<1>6. ASSUME NEW v \in {1, SendWin}, RecvSettings(v) PROVE ServeInv'
  BY <1>6, RecvSettingsKeeps
<1> QED BY <1>1, <1>2, <1>3, <1>4, <1>5, <1>6 DEF Frame

LEMMA ServeNextKeeps == ServeInv /\ [ServeNext]_serveVars => ServeInv'
<1> SUFFICES ASSUME ServeInv, [ServeNext]_serveVars PROVE ServeInv'
  OBVIOUS
<1>1. CASE Frame
  BY <1>1, FrameKeeps
<1>2. CASE DataWrite \/ endRequestBody \/ LoopReturns
  BY <1>2, ServeDataWriteKeeps, endRequestBodyKeeps, LoopReturnsKeeps
<1>3. CASE FinishStep
  BY <1>3, FinishRemoveKeeps, FinishCreditKeeps DEF FinishStep
<1>4. ASSUME NEW id \in Ids, Handler(id) \/ ReadBody(id) \/ ReadCredit(id) PROVE ServeInv'
  BY <1>4, HandlerKeeps
<1>5. CASE UNCHANGED serveVars
  BY <1>5, ServeStutterKeeps
<1> QED BY <1>1, <1>2, <1>3, <1>4, <1>5 DEF ServeNext

\* The streams, windows and bodies of a client connection keep their accounts
\* through every interleaving of the read loop, handlers, readers and finish.
THEOREM ServeInvariant == ServeSpec => []ServeInv
<1>1. ServeInit => ServeInv
  BY ServeAssumption, ServeInitHolds
<1>2. ServeInv /\ [ServeNext]_serveVars => ServeInv'
  BY ServeNextKeeps
<1> QED BY <1>1, <1>2, PTL DEF ServeSpec

\* The library sums a function over its domain.
LEMMA UnreadIs == Unread = SumFunctionOnSet(ServeHeld(body, rd), Ids) + loop.n
                             + SumFunctionOnSet(ServeKept(tear), tear)
BY DEF Unread, ServeHeld, ServeKept, SumFunction

LEMMA AccountsFollow == ServeInv => AccountsBalance
<1> SUFFICES ASSUME ServeInv PROVE AccountsBalance
  OBVIOUS
<1> DEFINE S == SumFunctionOnSet(ServeHeld(body, rd), Ids)
           K == SumFunctionOnSet(ServeKept(tear), tear)
<1>1. /\ ServeConstants /\ ServeTypes /\ S \in Nat /\ K \in Nat /\ loop.n \in Nat
      /\ out.conn \in Nat /\ inb.conn \in Nat /\ RecvWin \in Nat
  BY ServeShape
<1>2. out.conn + wire + SumFunction([i \in Ids |-> h[i].has]) <= SendWin
  BY DEF ServeInv, ServeSendInv, ServeTaken, SumFunction
<1>3. ASSUME ~over
      PROVE  /\ open = Cardinality(streams) /\ open <= MaxStreams
             /\ inb.conn >= 0 /\ inb.conn + Unread <= RecvWin
             /\ Reading => \A i \in DOMAIN inb.stream : inb.stream[i] >= inb.conn
  <2>1. /\ open = Cardinality(streams) /\ open <= MaxStreams /\ DOMAIN inb.stream = streams
        /\ inb.conn + (S + loop.n + K) <= RecvWin
        /\ \A i \in streams :
             \/ Removing(tear, i)
             \/ inb.stream[i] + ServeHeld(body, rd)[i] + InHand(loop, i) >= RecvWin
        /\ \A i \in streams : i \in Ids /\ inb.stream[i] \in Int /\ ServeHeld(body, rd)[i] \in Nat
    BY <1>3, ReceiveFacts
  <2>2. inb.conn >= 0 /\ inb.conn + Unread <= RecvWin
    BY <1>1, <2>1, UnreadIs
  <2>3. ASSUME Reading, NEW i \in DOMAIN inb.stream PROVE inb.stream[i] >= inb.conn
    <3>1. i \in streams /\ i \in Ids /\ i # 0 /\ ~Removing(tear, i) /\ InHand(loop, i) = 0
      BY <1>1, <2>1, <2>3, IdleType DEF Reading, MuFree, Removing, InHand, ServeConstants
    <3>2. ServeHeld(body, rd)[i] <= S
      <4>1. body \in [Ids -> ServeBodyRecord] /\ rd \in [Ids -> Nat]
        BY <1>1 DEF ServeTypes
      <4> QED BY <1>1, <3>1, <4>1, HeldBelow
    <3> HIDE DEF S, K
    <3> QED BY <1>1, <2>1, <3>1, <3>2
  <2> QED BY <2>1, <2>2, <2>3
<1>4. ~over => /\ open = Cardinality(streams) /\ open <= MaxStreams
               /\ inb.conn >= 0 /\ inb.conn + Unread <= RecvWin
               /\ Reading => \A i \in DOMAIN inb.stream : inb.stream[i] >= inb.conn
  BY <1>3
<1> QED BY <1>1, <1>2, <1>4 DEF AccountsBalance

\* The stream count that admission compares with MaxConcurrentStreams is the number
\* of streams, no unread byte is credited twice, and the responses of all streams
\* stay within what the client granted.
THEOREM AccountsHold == ServeSpec => []AccountsBalance
BY ServeInvariant, AccountsFollow, PTL

\* A response that finishes early leaves the upload open: only the client, an error
\* or the end of the connection closes a request body.
THEOREM UploadOutlivesHolds == ServeSpec => []UploadOutlivesResponse
<1>1. ServeInv => UploadOutlivesResponse
  BY DEF ServeInv, EndedInv, UploadOutlivesResponse
<1> QED BY <1>1, ServeInvariant, PTL
=============================================================================
