--------------------------- MODULE PingRunProofs ---------------------------
(***************************************************************************)
(* Proofs about PingRun for every value of its constants.  The inductive   *)
(* invariant is the conjunction of the parts below; each part is proved to *)
(* be kept by a step that starts in the parts named before it.             *)
(***************************************************************************)
EXTENDS PingRefinement, FiniteSetTheorems, SequenceTheorems, TLAPS

InEcho == pc \in {"open", "send", "wait", "read", "readErr"}

\* Where the run is in its loop.
LoopInv ==
    /\ (outcome = "none") = (pc # "done")
    /\ sequence = Len(packets) + 1
    /\ pc \in {"normalise", "resolve"} => packets = <<>> /\ sent = 0
    /\ pc = "resolve" => count >= 1
    /\ pc = "head" => sent = Len(packets) /\ count >= 1 /\ sequence <= count + 1
    /\ InEcho => sent = Len(packets) + 1 /\ count >= 1 /\ sequence <= count
    /\ outcome = "report" => Len(packets) = count /\ sent = count

\* How the clock, the deadline of the socket and that of the run are related.
ClockInv ==
    /\ now <= RunTimeout
    /\ pc = "send" => sockDeadline = EchoDeadline
    /\ pc \in {"wait", "read", "readErr"} =>
         /\ start <= now /\ now <= start + PacketWait
         /\ sockDeadline = IF RunTimeout < start + PacketWait
                             THEN RunTimeout ELSE start + PacketWait
    /\ pc = "readErr" /\ readErr = "timeout" => now >= sockDeadline
    /\ \A i \in DOMAIN packets : packets[i].dur \in 0 .. PacketWait

\* What the rows say.
RowsInv ==
    /\ \A i \in DOMAIN packets : packets[i].seq = i
    /\ received = Cardinality(OkRows)

\* What can still happen once the context has ended.
EndedInv ==
    ctxErr # "nil" =>
        /\ ended.at <= now
        /\ sent = ended.sent
        /\ ended.rows <= Len(packets) /\ Len(packets) <= ended.rows + 1
        /\ InEcho => Len(packets) = ended.rows
        /\ pc = "read" => start <= ended.at
        /\ ctxErr = "canceled" => now <= ended.at + PacketWait
        /\ outcome = "report" => ended.sent = count

IInv == TypeOK /\ LoopInv /\ ClockInv /\ RowsInv /\ EndedInv

USE CountsAssumption, DefaultCountAssumption, TimesAssumption, SeqModAssumption,
    MaxPacketCapAssumption, NoiseAssumption, BoundsAssumption

(***************************************************************************)
(* The steps that end a packet with a row, and the others.                 *)
(***************************************************************************)
EndsPacket == OpenFails \/ SendFails \/ ReadReply \/ (ReadErrorClassified /\ ctxErr = "nil")

\* The record a packet's end appends is a Packet.
LEMMA PacketOfType ==
    ASSUME TypeOK, NEW status \in Status, NEW dur \in Nat,
           NEW cause \in {"none", "open", "deadline", "send", "read"}, NEW origin \in Nat
    PROVE  PacketOf(status, dur, cause, origin) \in Packet
  BY DEF TypeOK, PacketOf, Packet

\* The row carries the number of its packet and is counted exactly if it is OK; it is
\* OK only when a message was accepted, TIMEOUT only when the socket timed out.
LEMMA PacketEnds ==
    ASSUME TypeOK, ClockInv, EndsPacket
    PROVE  \E p \in Packet :
             /\ packets' = Append(packets, p)
             /\ p.seq = sequence
             /\ received' = IF p.status = "OK" THEN received + 1 ELSE received
             /\ p.dur \in 0 .. PacketWait
             /\ p.status = "OK" => ReadReply /\ p.origin = Head(rxq).origin
             /\ p.status = "TIMEOUT" => pc = "readErr" /\ readErr = "timeout"
<1>1. CASE OpenFails \/ SendFails
  <2>1. PICK cause \in {"open", "deadline", "send"} : Row("ERROR", 0, cause, 0)
    BY <1>1 DEF OpenFails, SendFails
  <2>2. PacketOf("ERROR", 0, cause, 0) \in Packet
    BY PacketOfType DEF Status
  <2>3. QED
    BY <2>1, <2>2 DEF Row, PacketOf
<1>2. CASE ReadReply
  <2>1. Head(rxq) \in Message /\ now - start \in 0 .. PacketWait
    <3>1. Head(rxq) \in Message
      BY <1>2 DEF ReadReply, TypeOK
    <3>2. pc = "read" /\ now \in Nat /\ start \in Nat
      BY <1>2 DEF ReadReply, TypeOK
    <3>3. QED
      BY <3>1, <3>2 DEF ClockInv
  <2>2. PacketOf("OK", now - start, "none", Head(rxq).origin) \in Packet
    BY <2>1, PacketOfType DEF Status, Message
  <2>3. Row("OK", now - start, "none", Head(rxq).origin)
    BY <1>2 DEF ReadReply
  <2>4. QED
    BY <1>2, <2>1, <2>2, <2>3 DEF Row, PacketOf
<1>3. CASE ReadErrorClassified /\ ctxErr = "nil"
  <2>1. /\ PacketOf("TIMEOUT", 0, "none", 0) \in Packet
        /\ PacketOf("ERROR", 0, "read", 0) \in Packet
    BY PacketOfType DEF Status
  <2>2. CASE Row("TIMEOUT", 0, "none", 0) /\ pc = "readErr" /\ readErr = "timeout"
    BY <2>1, <2>2 DEF Row, PacketOf
  <2>3. CASE Row("ERROR", 0, "read", 0)
    BY <2>1, <2>3 DEF Row, PacketOf
  <2>4. QED
    BY <1>3, <2>2, <2>3 DEF ReadErrorClassified
<1>4. QED
  BY <1>1, <1>2, <1>3 DEF EndsPacket

\* What every end of a packet does besides.
LEMMA PacketEndsFrame ==
    ASSUME EndsPacket
    PROVE  /\ pc \in {"open", "send", "read", "readErr"}
           /\ pc' = "head" /\ rxq' = <<>> /\ readErr' = "none" /\ sequence' = sequence + 1
           /\ UNCHANGED <<now, ctxErr, ended, literal, count, sent, outcome,
                          sockDeadline, start, written, deliveries>>
  BY DEF EndsPacket, OpenFails, SendFails, ReadReply, ReadErrorClassified, Row,
         contextVars, networkVars

\* Every step that ends no packet is one of these.
LEMMA OtherSteps ==
    ASSUME [Next]_vars
    PROVE  EndsPacket \/ UNCHANGED <<packets, received>>
<1> USE DEF contextVars, resultVars, socketVars, networkVars
<1>1. CASE OpenFails \/ SendFails \/ ReadReply \/ ReadErrorClassified
  BY <1>1 DEF EndsPacket, ReadErrorClassified, Abandon
<1>2. CASE \/ Normalise \/ ResolveLiteral \/ LookupAborted \/ LookupAnswer
           \/ LoopEnd \/ LoopHead \/ OpenSocket \/ Send \/ CheckContext
  BY <1>2 DEF Normalise, ResolveLiteral, LookupAborted, LookupAnswer, ResolveUnchanged,
              LoopEnd, LoopHead, OpenSocket, Send, CheckContext, Abandon
<1>3. CASE \/ ReadOther \/ ReadTimesOut \/ ReadFails \/ Cancel \/ ExpireContext
           \/ Deliver \/ Tick \/ Finished \/ UNCHANGED vars
  BY <1>3 DEF ReadOther, ReadTimesOut, ReadFails, ReadReturns, Cancel, ExpireContext,
              ContextEnds, Deliver, Tick, Finished, vars
<1>4. QED
  BY <1>1, <1>2, <1>3 DEF Next, Program, Environment

(***************************************************************************)
(* Types.                                                                  *)
(***************************************************************************)

\* A round trip is a natural number because a socket is read only after its request
\* was sent (ClockInv).
LEMMA TypeStep ==
    ASSUME TypeOK, ClockInv, [Next]_vars
    PROVE  TypeOK'
<1> USE DEF TypeOK, contextVars, resultVars, socketVars, networkVars
<1>1. CASE EndsPacket
  <2>1. packets' \in Seq(Packet) /\ received' \in Nat
    <3>1. PICK p \in Packet : /\ packets' = Append(packets, p)
                              /\ received' = IF p.status = "OK" THEN received + 1 ELSE received
      BY <1>1, PacketEnds
    <3>2. QED
      BY <3>1
  <2>2. /\ pc' = "head" /\ rxq' = <<>> /\ readErr' = "none" /\ sequence' = sequence + 1
        /\ UNCHANGED <<now, ctxErr, ended, literal, count, sent, outcome,
                       sockDeadline, start, written, deliveries>>
    BY <1>1, PacketEndsFrame
  <2>3. QED
    BY <2>1, <2>2
<1>2. CASE Normalise
  BY <1>2 DEF Normalise, Return, Outcome
<1>3. CASE ResolveLiteral
  BY <1>3 DEF ResolveLiteral, ResolveUnchanged, StartLoop, Return, Outcome
<1>4. CASE LookupAnswer
  BY <1>4 DEF LookupAnswer, ResolveUnchanged, StartLoop, Return, Outcome
<1>5. CASE LookupAborted
  BY <1>5 DEF LookupAborted, ResolveUnchanged, ContextFailure, Return, Outcome
<1>6. CASE LoopEnd
  BY <1>6 DEF LoopEnd, Return, Outcome
<1>7. CASE LoopHead
  BY <1>7 DEF LoopHead, ContextFailure, Return, Outcome
<1>8. CASE OpenSocket
  BY <1>8 DEF OpenSocket, EchoDeadline
<1>9. CASE Send
  BY <1>9 DEF Send
<1>10. CASE CheckContext
  <2>1. CASE Abandon
    BY <2>1 DEF Abandon, ContextFailure, Return, Outcome
  <2>2. CASE ~Abandon
    BY <1>10, <2>2 DEF CheckContext
  <2>3. QED
    BY <2>1, <2>2
<1>11. CASE ReadOther
  BY <1>11 DEF ReadOther
<1>12. CASE ReadTimesOut
  BY <1>12 DEF ReadTimesOut, ReadReturns
<1>13. CASE ReadFails
  BY <1>13 DEF ReadFails, ReadReturns
<1>14. CASE Cancel
  BY <1>14 DEF Cancel, ContextEnds
<1>15. CASE ExpireContext
  BY <1>15 DEF ExpireContext, ContextEnds
<1>16. CASE Deliver
  <2>1. PICK m \in {EchoReplyTo(i) : i \in written} \cup Noise : rxq' = Append(rxq, m)
    BY <1>16 DEF Deliver
  <2>2. m \in Message
    <3>1. \A i \in Nat : EchoReplyTo(i) \in Message
      BY DEF EchoReplyTo, Message
    <3>2. QED
      BY <2>1, <3>1
  <2>3. QED
    BY <1>16, <2>1, <2>2 DEF Deliver
<1>17. CASE Tick
  BY <1>17 DEF Tick, Blocked
<1>18. CASE ReadErrorClassified /\ ctxErr # "nil"
  <2>1. Abandon
    BY <1>18 DEF ReadErrorClassified
  <2>2. QED
    BY <2>1 DEF Abandon, ContextFailure, Return, Outcome
<1>19. CASE Finished \/ UNCHANGED vars
  BY <1>19 DEF Finished, vars
<1>20. QED
  BY <1>1, <1>2, <1>3, <1>4, <1>5, <1>6, <1>7, <1>8, <1>9, <1>10,
     <1>11, <1>12, <1>13, <1>14, <1>15, <1>16, <1>17, <1>18, <1>19
     DEF Next, Program, Environment, EndsPacket, ReadErrorClassified

(***************************************************************************)
(* The loop, the clock, and the end of the context.                        *)
(***************************************************************************)

\* The loop variable is one ahead of the rows, whatever way a packet ends.
LEMMA LoopStep ==
    ASSUME TypeOK, LoopInv, ClockInv, [Next]_vars
    PROVE  LoopInv'
<1> USE DEF TypeOK, LoopInv, InEcho, contextVars, resultVars, socketVars, networkVars
<1>1. CASE EndsPacket
  <2>1. Len(packets') = Len(packets) + 1
    BY <1>1, PacketEnds
  <2>2. QED
    BY <1>1, <2>1, PacketEndsFrame
<1>2. CASE Normalise
  BY <1>2 DEF Normalise, Return
<1>3. CASE ResolveLiteral
  BY <1>3 DEF ResolveLiteral, ResolveUnchanged, StartLoop, Return
<1>4. CASE LookupAnswer
  BY <1>4 DEF LookupAnswer, ResolveUnchanged, StartLoop, Return
<1>5. CASE LookupAborted
  BY <1>5 DEF LookupAborted, ResolveUnchanged, ContextFailure, Return
<1>6. CASE LoopEnd
  BY <1>6 DEF LoopEnd, Return
<1>7. CASE LoopHead
  BY <1>7 DEF LoopHead, ContextFailure, Return
<1>8. CASE OpenSocket
  BY <1>8 DEF OpenSocket
<1>9. CASE Send
  BY <1>9 DEF Send
<1>10. CASE CheckContext
  BY <1>10 DEF CheckContext, Abandon, ContextFailure, Return
<1>11. CASE ReadOther
  BY <1>11 DEF ReadOther
<1>12. CASE ReadTimesOut
  BY <1>12 DEF ReadTimesOut, ReadReturns
<1>13. CASE ReadFails
  BY <1>13 DEF ReadFails, ReadReturns
<1>14. CASE Cancel
  BY <1>14 DEF Cancel, ContextEnds
<1>15. CASE ExpireContext
  BY <1>15 DEF ExpireContext, ContextEnds
<1>16. CASE Deliver
  BY <1>16 DEF Deliver
<1>17. CASE Tick
  BY <1>17 DEF Tick, Blocked
<1>18. CASE ReadErrorClassified /\ ctxErr # "nil"
  BY <1>18 DEF ReadErrorClassified, Abandon, ContextFailure, Return
<1>19. CASE Finished \/ UNCHANGED vars
  BY <1>19 DEF Finished, vars
<1>20. QED
  BY <1>1, <1>2, <1>3, <1>4, <1>5, <1>6, <1>7, <1>8, <1>9, <1>10,
     <1>11, <1>12, <1>13, <1>14, <1>15, <1>16, <1>17, <1>18, <1>19
     DEF Next, Program, Environment, EndsPacket, ReadErrorClassified

\* The clock stops at the socket's deadline, which is never later than the run's.
LEMMA ClockStep ==
    ASSUME TypeOK, ClockInv, [Next]_vars
    PROVE  ClockInv'
<1> USE DEF TypeOK, ClockInv, EchoDeadline, contextVars, resultVars, socketVars, networkVars
<1>1. CASE EndsPacket
  <2>1. \A i \in DOMAIN packets' : packets'[i].dur \in 0 .. PacketWait
    <3>1. PICK p \in Packet : packets' = Append(packets, p) /\ p.dur \in 0 .. PacketWait
      BY <1>1, PacketEnds
    <3>2. QED
      BY <3>1
  <2>2. QED
    BY <1>1, <2>1, PacketEndsFrame
<1>2. CASE Normalise
  BY <1>2 DEF Normalise, Return
<1>3. CASE ResolveLiteral
  BY <1>3 DEF ResolveLiteral, ResolveUnchanged, StartLoop, Return
<1>4. CASE LookupAnswer
  BY <1>4 DEF LookupAnswer, ResolveUnchanged, StartLoop, Return
<1>5. CASE LookupAborted
  BY <1>5 DEF LookupAborted, ResolveUnchanged, ContextFailure, Return
<1>6. CASE LoopEnd
  BY <1>6 DEF LoopEnd, Return
<1>7. CASE LoopHead
  BY <1>7 DEF LoopHead, ContextFailure, Return
<1>8. CASE OpenSocket
  BY <1>8 DEF OpenSocket
<1>9. CASE Send
  BY <1>9 DEF Send
<1>10. CASE CheckContext
  BY <1>10 DEF CheckContext, Abandon, ContextFailure, Return
<1>11. CASE ReadOther
  BY <1>11 DEF ReadOther
<1>12. CASE ReadTimesOut
  BY <1>12 DEF ReadTimesOut, ReadReturns
<1>13. CASE ReadFails
  BY <1>13 DEF ReadFails, ReadReturns
<1>14. CASE Cancel
  BY <1>14 DEF Cancel, ContextEnds
<1>15. CASE ExpireContext
  BY <1>15 DEF ExpireContext, ContextEnds
<1>16. CASE Deliver
  BY <1>16 DEF Deliver
<1>17. CASE Tick
  BY <1>17 DEF Tick, Blocked
<1>18. CASE ReadErrorClassified /\ ctxErr # "nil"
  BY <1>18 DEF ReadErrorClassified, Abandon, ContextFailure, Return
<1>19. CASE Finished \/ UNCHANGED vars
  BY <1>19 DEF Finished, vars
<1>20. QED
  BY <1>1, <1>2, <1>3, <1>4, <1>5, <1>6, <1>7, <1>8, <1>9, <1>10,
     <1>11, <1>12, <1>13, <1>14, <1>15, <1>16, <1>17, <1>18, <1>19
     DEF Next, Program, Environment, EndsPacket, ReadErrorClassified

\* A context that ended before the read is seen before it, so only a read that had
\* begun goes on, and it has at most a packet's wait left.
LEMMA EndedStep ==
    ASSUME TypeOK, LoopInv, ClockInv, EndedInv, [Next]_vars
    PROVE  EndedInv'
<1> USE DEF TypeOK, LoopInv, ClockInv, EndedInv, InEcho, contextVars, resultVars, socketVars, networkVars
<1>1. CASE EndsPacket
  <2>1. Len(packets') = Len(packets) + 1
    BY <1>1, PacketEnds
  <2>2. QED
    BY <1>1, <2>1, PacketEndsFrame
<1>2. CASE Normalise
  BY <1>2 DEF Normalise, Return
<1>3. CASE ResolveLiteral
  BY <1>3 DEF ResolveLiteral, ResolveUnchanged, StartLoop, Return
<1>4. CASE LookupAnswer
  BY <1>4 DEF LookupAnswer, ResolveUnchanged, StartLoop, Return
<1>5. CASE LookupAborted
  BY <1>5 DEF LookupAborted, ResolveUnchanged, ContextFailure, Return
<1>6. CASE LoopEnd
  BY <1>6 DEF LoopEnd, Return
<1>7. CASE LoopHead
  BY <1>7 DEF LoopHead, ContextFailure, Return
<1>8. CASE OpenSocket
  BY <1>8 DEF OpenSocket
<1>9. CASE Send
  BY <1>9 DEF Send
<1>10. CASE CheckContext
  BY <1>10 DEF CheckContext, Abandon, ContextFailure, Return
<1>11. CASE ReadOther
  BY <1>11 DEF ReadOther
<1>12. CASE ReadTimesOut
  BY <1>12 DEF ReadTimesOut, ReadReturns
<1>13. CASE ReadFails
  BY <1>13 DEF ReadFails, ReadReturns
<1>14. CASE Cancel
  BY <1>14 DEF Cancel, ContextEnds
<1>15. CASE ExpireContext
  BY <1>15 DEF ExpireContext, ContextEnds
<1>16. CASE Deliver
  BY <1>16 DEF Deliver
<1>17. CASE Tick
  BY <1>17 DEF Tick, Blocked
<1>18. CASE ReadErrorClassified /\ ctxErr # "nil"
  BY <1>18 DEF ReadErrorClassified, Abandon, ContextFailure, Return
<1>19. CASE Finished \/ UNCHANGED vars
  BY <1>19 DEF Finished, vars
<1>20. QED
  BY <1>1, <1>2, <1>3, <1>4, <1>5, <1>6, <1>7, <1>8, <1>9, <1>10,
     <1>11, <1>12, <1>13, <1>14, <1>15, <1>16, <1>17, <1>18, <1>19
     DEF Next, Program, Environment, EndsPacket, ReadErrorClassified

(***************************************************************************)
(* The rows and their count.                                               *)
(***************************************************************************)
\* The indices of the OK rows of a result.
OkIn(s) == {i \in DOMAIN s : s[i].status = "OK"}

\* An OK row adds one index, another row adds none.
LEMMA AppendOk ==
    ASSUME NEW s \in Seq(Packet), NEW p \in Packet
    PROVE  /\ Cardinality(OkIn(s)) \in Nat
           /\ p.status = "OK" => Cardinality(OkIn(Append(s, p))) = Cardinality(OkIn(s)) + 1
           /\ p.status # "OK" => Cardinality(OkIn(Append(s, p))) = Cardinality(OkIn(s))
<1>1. IsFiniteSet(OkIn(s))
  <2>1. OkIn(s) \subseteq 1 .. Len(s) /\ Len(s) \in Nat
    BY DEF OkIn
  <2>2. IsFiniteSet(1 .. Len(s))
    BY <2>1, FS_Interval
  <2>3. QED
    BY <2>1, <2>2, FS_Subset
<1>2. Len(s) + 1 \notin OkIn(s)
  BY DEF OkIn
<1>3. CASE p.status = "OK"
  <2>1. OkIn(Append(s, p)) = OkIn(s) \cup {Len(s) + 1}
    BY <1>3 DEF OkIn
  <2>2. QED
    BY <1>1, <1>2, <1>3, <2>1, FS_AddElement, FS_CardinalityType
<1>4. CASE p.status # "OK"
  <2>1. OkIn(Append(s, p)) = OkIn(s)
    BY <1>4 DEF OkIn
  <2>2. QED
    BY <1>1, <1>4, <2>1, FS_CardinalityType
<1>5. QED
  BY <1>3, <1>4

\* Only the end of a packet touches the rows.
LEMMA RowsStep ==
    ASSUME TypeOK, LoopInv, ClockInv, RowsInv, [Next]_vars
    PROVE  RowsInv'
<1>1. packets \in Seq(Packet) /\ sequence = Len(packets) + 1
  BY DEF TypeOK, LoopInv
<1>2. CASE EndsPacket
  <2>1. PICK p \in Packet : /\ packets' = Append(packets, p)
                            /\ p.seq = sequence
                            /\ received' = IF p.status = "OK" THEN received + 1 ELSE received
    BY <1>2, PacketEnds
  <2>2. \A i \in DOMAIN packets' : packets'[i].seq = i
    BY <1>1, <2>1 DEF RowsInv
  <2>3. received' = Cardinality(OkIn(packets'))
    BY <1>1, <2>1, AppendOk DEF RowsInv, OkRows, OkIn
  <2>4. QED
    BY <2>2, <2>3 DEF RowsInv, OkRows, OkIn
<1>3. CASE UNCHANGED <<packets, received>>
  BY <1>3 DEF RowsInv, OkRows
<1>4. QED
  BY <1>2, <1>3, OtherSteps

(***************************************************************************)
(* The inductive invariant and what follows from it.                       *)
(***************************************************************************)
\* Every state a run may start in satisfies the inductive invariant.
LEMMA InitIInv == Init => IInv
<1> SUFFICES ASSUME Init PROVE IInv
  OBVIOUS
<1>1. TypeOK
  BY DEF Init, TypeOK, Outcome
<1>2. LoopInv
  BY DEF Init, LoopInv, InEcho
<1>3. ClockInv /\ EndedInv
  BY DEF Init, ClockInv, EndedInv
<1>4. RowsInv
  <2>1. OkRows = {}
    BY DEF Init, OkRows
  <2>2. QED
    BY <2>1, FS_EmptySet DEF Init, RowsInv
<1>5. QED
  BY <1>1, <1>2, <1>3, <1>4 DEF IInv

\* The inductive invariant holds throughout every run.
THEOREM Invariance == Spec => []IInv
<1>1. IInv /\ [Next]_vars => IInv'
  BY TypeStep, LoopStep, ClockStep, EndedStep, RowsStep DEF IInv
<1>2. QED
  BY InitIInv, <1>1, PTL DEF Spec
\* Every value of every variable is of its type.
THEOREM TypeCorrect == Spec => []TypeOK
  BY Invariance, PTL DEF IInv

\* The table and its summary agree, and a reported run is complete.
THEOREM AccountingHolds == Spec => []Accounting
<1>1. IInv => Accounting
  BY DEF IInv, LoopInv, RowsInv, InEcho, Accounting
<1>2. QED
  BY <1>1, Invariance, PTL

\* No run outlives its budget, no round trip a packet's wait.
THEOREM BudgetHolds == Spec => []BudgetRespected
<1>1. IInv => BudgetRespected
  BY DEF IInv, ClockInv, BudgetRespected
<1>2. QED
  BY <1>1, Invariance, PTL

\* A cancelled run ends within one packet's wait.
THEOREM CancelLatencyHolds == Spec => []CancelLatency
<1>1. IInv => CancelLatency
  BY DEF IInv, EndedInv, CancelLatency
<1>2. QED
  BY <1>1, Invariance, PTL

\* No request follows the end of the context, and a run is reported in spite of it
\* only if its last packet was under way.
THEOREM StopsWithContextHolds == Spec => []StopsWithContext
<1>1. IInv => StopsWithContext
  BY DEF IInv, EndedInv, StopsWithContext
<1>2. QED
  BY <1>1, Invariance, PTL

(***************************************************************************)
(* A packet is lost only after a full wait, or at the end of the budget.   *)
(***************************************************************************)
\* A TIMEOUT row follows a read that the socket's deadline ended.
LEMMA TimeoutStep ==
    ASSUME TypeOK, ClockInv, [Next]_vars, Len(packets') > Len(packets),
           packets'[Len(packets')].status = "TIMEOUT"
    PROVE  now >= start + PacketWait \/ now = RunTimeout
<1>1. packets \in Seq(Packet)
  BY DEF TypeOK
<1>2. EndsPacket
  BY <1>1, OtherSteps
<1>3. PICK p \in Packet : /\ packets' = Append(packets, p)
                          /\ p.status = "TIMEOUT" => pc = "readErr" /\ readErr = "timeout"
  BY <1>2, PacketEnds
<1>4. pc = "readErr" /\ readErr = "timeout"
  BY <1>1, <1>3
<1>5. QED
  BY <1>4 DEF ClockInv, TypeOK

\* No packet is given up early while the budget lasts.
THEOREM LossIsAFullWaitHolds == Spec => LossIsAFullWait
<1>1. IInv /\ [Next]_vars =>
        [(Len(packets') > Len(packets) /\ packets'[Len(packets')].status = "TIMEOUT")
          => now >= start + PacketWait \/ now = RunTimeout]_vars
  BY TimeoutStep DEF IInv
<1>2. QED
  BY <1>1, Invariance, PTL DEF Spec, LossIsAFullWait

(***************************************************************************)
(* Late, repeated and reordered replies.                                   *)
(***************************************************************************)
\* Whatever waits in a socket and looks like a reply answers a request that the run has
\* sent by now, and has 16 bits of its number.
OwnInv ==
    /\ written \subseteq 1 .. sequence
    /\ \A i \in DOMAIN rxq : rxq[i].kind = "reply" =>
         rxq[i].origin \in 1 .. sequence /\ rxq[i].seq = rxq[i].origin % SeqMod
    /\ OwnReplies

\* Of two numbers that agree modulo M, the smaller is smaller by M at least.
LEMMA ModApart ==
    ASSUME NEW M \in Nat \ {0}, NEW a \in Nat, NEW b \in Nat, a < b, a % M = b % M
    PROVE  a <= b - M
<1> DEFINE p == a \div M
           q == b \div M
<1>1. p \in Int /\ q \in Int /\ a = M * p + (a % M) /\ b = M * q + (b % M)
  OBVIOUS
<1>2. a % M \in Int
  OBVIOUS
<1>3. b - a = M * q - M * p
  BY <1>1, <1>2
<1>4. M * q - M * p = M * (q - p)
  BY <1>1
<1>5. q - p >= 1
  <2>1. SUFFICES ASSUME q - p <= 0 PROVE FALSE
    BY <1>1
  <2>2. M * (q - p) <= 0
    BY <1>1, <2>1
  <2>3. QED
    BY <1>3, <1>4, <2>2
<1>6. M * (q - p) >= M
  BY <1>1, <1>5
<1>7. QED
  BY <1>3, <1>4, <1>6

\* A step keeps what waits in the socket, and the OK rows, the run's own.
LEMMA OwnStep ==
    ASSUME \A m \in Noise : m.kind # "reply",
           TypeOK, LoopInv, ClockInv, OwnInv, [Next]_vars
    PROVE  OwnInv'
<1> USE DEF OwnInv, OwnReplies, OkRows, contextVars, resultVars, socketVars, networkVars
<1>1. CASE EndsPacket
  <2>1. PICK p \in Packet : /\ packets' = Append(packets, p)
                            /\ p.status = "OK" => ReadReply /\ p.origin = Head(rxq).origin
    BY <1>1, PacketEnds
  <2>2. packets \in Seq(Packet) /\ sequence = Len(packets) + 1
    BY DEF TypeOK, LoopInv
  <2>3. ASSUME ReadReply
        PROVE  LET answered == Head(rxq).origin IN
                 \/ answered = sequence
                 \/ answered \in 1 .. sequence - SeqMod /\ answered % SeqMod = sequence % SeqMod
    <3>1. Head(rxq) = rxq[1] /\ 1 \in DOMAIN rxq
      BY <2>3 DEF ReadReply, TypeOK
    <3>2. Head(rxq).origin \in 1 .. sequence /\ Head(rxq).origin % SeqMod = sequence % SeqMod
      BY <2>3, <3>1 DEF ReadReply, Accepts
    <3>3. sequence \in Nat
      BY DEF TypeOK
    <3>4. CASE Head(rxq).origin < sequence
      <4>1. \A o, n \in Nat : o < n /\ o % SeqMod = n % SeqMod => o <= n - SeqMod
        BY ModApart
      <4>2. Head(rxq).origin \in Nat
        BY <3>2, <3>3
      <4>3. Head(rxq).origin <= sequence - SeqMod
        BY <3>2, <3>3, <3>4, <4>1, <4>2
      <4>4. QED
        BY <3>2, <3>3, <4>3
    <3>5. QED
      BY <3>2, <3>3, <3>4
  <2>4. OwnReplies'
    <3>1. SUFFICES ASSUME NEW i \in DOMAIN packets', packets'[i].status = "OK"
                   PROVE  LET answered == packets'[i].origin IN
                            \/ answered = i
                            \/ answered \in 1 .. i - SeqMod /\ answered % SeqMod = i % SeqMod
      OBVIOUS
    <3>2. CASE i = Len(packets) + 1
      BY <2>1, <2>2, <2>3, <3>1, <3>2
    <3>3. CASE i # Len(packets) + 1
      <4>1. i \in DOMAIN packets /\ packets'[i] = packets[i]
        BY <2>1, <2>2, <3>1, <3>3
      <4>2. QED
        BY <3>1, <4>1
    <3>4. QED
      BY <3>2, <3>3
  <2>5. rxq' = <<>> /\ written' = written /\ sequence' = sequence + 1
    BY <1>1, PacketEndsFrame
  <2>6. sequence \in Nat /\ \A n \in 1 .. sequence : n \in 1 .. sequence'
    BY <2>5 DEF TypeOK
  <2>7. QED
    BY <2>4, <2>5, <2>6
<1>2. CASE Normalise
  BY <1>2 DEF Normalise, Return
<1>3. CASE ResolveLiteral
  BY <1>3 DEF ResolveLiteral, ResolveUnchanged, StartLoop, Return
<1>4. CASE LookupAnswer
  BY <1>4 DEF LookupAnswer, ResolveUnchanged, StartLoop, Return
<1>5. CASE LookupAborted
  BY <1>5 DEF LookupAborted, ResolveUnchanged, ContextFailure, Return
<1>6. CASE LoopEnd
  BY <1>6 DEF LoopEnd, Return
<1>7. CASE LoopHead
  BY <1>7 DEF LoopHead, ContextFailure, Return
<1>8. CASE OpenSocket
  BY <1>8 DEF OpenSocket
<1>9. CASE Send
  <2>1. sequence \in 1 .. sequence
    BY DEF TypeOK
  <2>2. QED
    BY <1>9, <2>1 DEF Send
<1>10. CASE CheckContext
  <2>1. CASE Abandon
    BY <2>1 DEF Abandon
  <2>2. CASE ~Abandon
    BY <1>10, <2>2 DEF CheckContext
  <2>3. QED
    BY <2>1, <2>2
<1>11. CASE ReadOther
  <2>1. rxq \in Seq(Message) /\ rxq # <<>> /\ rxq' = Tail(rxq)
    BY <1>11 DEF ReadOther, TypeOK
  <2>2. \A i \in DOMAIN rxq' : i + 1 \in DOMAIN rxq /\ rxq'[i] = rxq[i + 1]
    BY <2>1
  <2>3. QED
    BY <1>11, <2>2 DEF ReadOther
<1>12. CASE ReadTimesOut
  BY <1>12 DEF ReadTimesOut, ReadReturns
<1>13. CASE ReadFails
  BY <1>13 DEF ReadFails, ReadReturns
<1>14. CASE Cancel
  BY <1>14 DEF Cancel, ContextEnds
<1>15. CASE ExpireContext
  BY <1>15 DEF ExpireContext, ContextEnds
<1>16. CASE Deliver
  <2>1. PICK m \in {EchoReplyTo(i) : i \in written} \cup Noise : rxq' = Append(rxq, m)
    BY <1>16 DEF Deliver
  <2>2. m.kind = "reply" => m.origin \in 1 .. sequence /\ m.seq = m.origin % SeqMod
    BY <2>1 DEF EchoReplyTo
  <2>3. rxq \in Seq(Message) /\ m \in Message
    <3>1. \A i \in Nat : EchoReplyTo(i) \in Message
      BY DEF EchoReplyTo, Message
    <3>2. QED
      BY <2>1, <3>1 DEF TypeOK
  <2>4. QED
    BY <1>16, <2>1, <2>2, <2>3 DEF Deliver
<1>17. CASE Tick
  BY <1>17 DEF Tick, Blocked
<1>18. CASE ReadErrorClassified /\ ctxErr # "nil"
  <2>1. Abandon
    BY <1>18 DEF ReadErrorClassified
  <2>2. QED
    BY <2>1 DEF Abandon
<1>19. CASE Finished \/ UNCHANGED vars
  BY <1>19 DEF Finished, vars
<1>20. QED
  BY <1>1, <1>2, <1>3, <1>4, <1>5, <1>6, <1>7, <1>8, <1>9, <1>10,
     <1>11, <1>12, <1>13, <1>14, <1>15, <1>16, <1>17, <1>18, <1>19
     DEF Next, Program, Environment, EndsPacket, ReadErrorClassified

\* As long as no other program's echo replies reach the host, no late, repeated or
\* reordered reply is ever taken for the answer to another packet, but for one that is
\* late by a multiple of the sequence numbers there are.
THEOREM OwnRepliesHold ==
    ASSUME \A m \in Noise : m.kind # "reply"
    PROVE  Spec => []OwnReplies
<1>1. Init => OwnInv
  BY DEF Init, OwnInv, OwnReplies, OkRows
<1>2. IInv /\ OwnInv /\ [Next]_vars => OwnInv'
  BY OwnStep DEF IInv
<1>3. OwnInv => OwnReplies
  BY DEF OwnInv
<1>4. QED
  BY <1>1, <1>2, <1>3, Invariance, PTL DEF Spec

(***************************************************************************)
(* PingRun implements PingContract.                                        *)
(***************************************************************************)
\* The statuses of a result's packets.
StatusesOf(s) == [i \in DOMAIN s |-> s[i].status]

\* The statuses of a sequence of packets are a sequence of statuses.
LEMMA StatusesOfType ==
    ASSUME NEW s \in Seq(Packet)
    PROVE  /\ StatusesOf(s) \in Seq(Status)
           /\ Len(StatusesOf(s)) = Len(s)
           /\ \A i \in 1 .. Len(s) : StatusesOf(s)[i] = s[i].status
<1>1. Len(s) \in Nat /\ DOMAIN s = 1 .. Len(s) /\ \A i \in 1 .. Len(s) : s[i] \in Packet
  OBVIOUS
<1>2. \A p \in Packet : p.status \in Status
  BY DEF Packet
<1>3. StatusesOf(s) \in [1 .. Len(s) -> Status]
  BY <1>1, <1>2 DEF StatusesOf
<1>4. StatusesOf(s) \in Seq(Status)
  BY <1>1, <1>3, SeqDef
<1>5. Len(StatusesOf(s)) = Len(s)
  <2>1. DOMAIN StatusesOf(s) = 1 .. Len(s)
    BY <1>1 DEF StatusesOf
  <2>2. DOMAIN StatusesOf(s) = 1 .. Len(StatusesOf(s)) /\ Len(StatusesOf(s)) \in Nat
    BY <1>4, LenProperties
  <2>3. QED
    BY <1>1, <2>1, <2>2
<1>6. QED
  BY <1>1, <1>4, <1>5 DEF StatusesOf

\* A packet appended is a status appended.
LEMMA StatusesOfAppend ==
    ASSUME NEW s \in Seq(Packet), NEW p \in Packet
    PROVE  StatusesOf(Append(s, p)) = Append(StatusesOf(s), p.status)
<1>1. /\ Append(s, p) \in Seq(Packet) /\ Len(s) \in Nat
      /\ Len(Append(s, p)) = Len(s) + 1
      /\ \A i \in 1 .. Len(s) + 1 : Append(s, p)[i] = IF i <= Len(s) THEN s[i] ELSE p
  OBVIOUS
<1>2. p.status \in Status
  BY DEF Packet
<1>3. /\ StatusesOf(Append(s, p)) \in Seq(Status)
      /\ Len(StatusesOf(Append(s, p))) = Len(s) + 1
      /\ \A i \in 1 .. Len(s) + 1 :
           StatusesOf(Append(s, p))[i] = IF i <= Len(s) THEN s[i].status ELSE p.status
  <2>1. PICK t \in Seq(Packet) : t = Append(s, p)
    BY <1>1
  <2>2. /\ StatusesOf(t) \in Seq(Status) /\ Len(StatusesOf(t)) = Len(t)
        /\ \A i \in 1 .. Len(t) : StatusesOf(t)[i] = t[i].status
    BY StatusesOfType
  <2>3. /\ Len(t) = Len(s) + 1
        /\ \A i \in 1 .. Len(s) + 1 : t[i] = IF i <= Len(s) THEN s[i] ELSE p
    BY <1>1, <2>1
  <2>4. /\ StatusesOf(t) \in Seq(Status) /\ Len(StatusesOf(t)) = Len(s) + 1
        /\ \A i \in 1 .. Len(s) + 1 :
             StatusesOf(t)[i] = IF i <= Len(s) THEN s[i].status ELSE p.status
    BY <1>1, <2>2, <2>3
  <2>5. QED
    BY <2>1, <2>4
<1>4. /\ Append(StatusesOf(s), p.status) \in Seq(Status)
      /\ Len(Append(StatusesOf(s), p.status)) = Len(s) + 1
      /\ \A i \in 1 .. Len(s) + 1 :
           Append(StatusesOf(s), p.status)[i] = IF i <= Len(s) THEN s[i].status ELSE p.status
  BY <1>1, <1>2, StatusesOfType
<1>5. QED
  BY <1>1, <1>3, <1>4, SeqEqual

\* The contract is not concerned with a step that leaves these alone.
LEMMA ContractStutter ==
    ASSUME UNCHANGED <<count, ctxErr, sent, packets, outcome>>
    PROVE  UNCHANGED Contract!vars
  BY DEF Contract!vars, Wanted, Rows, Phase, Reason

\* An error of RunWith, given while it runs, is a failure of the contract.
LEMMA ContractFail ==
    ASSUME NEW o \in Outcome \ {"none", "report"}, Return(o), outcome = "none",
           UNCHANGED <<count, ctxErr, sent, packets>>
    PROVE  Contract!Fail(o)
  BY DEF Return, Contract!Fail, Wanted, Rows, Phase, Reason

\* A run given up because its context ended is an Abort of the contract.
LEMMA ContractAbort ==
    ASSUME TypeOK, ctxErr # "nil", Return(ContextFailure), outcome = "none",
           UNCHANGED <<count, ctxErr, sent, packets>>
    PROVE  Contract!Abort
<1>1. ContextFailure \in Outcome \ {"none", "report"} /\ Phase = "running"
  BY DEF ContextFailure, Outcome, Phase
<1>2. Contract!Fail(ContextFailure)
  BY <1>1, ContractFail
<1>3. QED
  BY <1>1, <1>2 DEF TypeOK, ContextFailure, Contract!Abort

\* Every step of the run is a step of the contract, seen through the mapping, or none.
LEMMA ContractStep ==
    ASSUME TypeOK, LoopInv, ClockInv, [Next]_vars
    PROVE  [Contract!Next]_(Contract!vars)
<1> USE DEF contextVars, resultVars, socketVars, networkVars
<1>1. packets \in Seq(Packet) /\ Rows = StatusesOf(packets) /\ Len(Rows) = Len(packets)
  BY StatusesOfType DEF TypeOK, Rows, StatusesOf
<1>2. outcome = "none" => Phase = "running"
  BY DEF Phase
<1>3. CASE Normalise
  <2>1. /\ Wanted' = Wanted /\ count' = Wanted /\ outcome = "none"
        /\ UNCHANGED <<ctxErr, sent, packets>> /\ sent = 0
    BY <1>3 DEF Normalise, Wanted, LoopInv
  <2>2. UNCHANGED Rows
    BY <2>1 DEF Rows
  <2>3. CASE Wanted < 1
    BY <1>2, <1>3, <2>1, <2>2, <2>3
       DEF Normalise, Return, Phase, Reason, Contract!Next, Contract!Refuse, Contract!Fail
  <2>4. CASE ~(Wanted < 1)
    BY <1>3, <2>1, <2>2, <2>4 DEF Normalise, Phase, Reason, Contract!vars
  <2>5. QED
    BY <2>3, <2>4
<1>4. CASE ResolveLiteral \/ LookupAnswer
  <2>1. /\ UNCHANGED <<count, ctxErr, sent, packets>>
        /\ sent = 0 /\ outcome = "none" /\ Wanted >= 1
    BY <1>4 DEF ResolveLiteral, LookupAnswer, ResolveUnchanged, LoopInv, Wanted, TypeOK
  <2>2. UNCHANGED outcome \/ \E o \in {"noAddress", "lookupFailed", "panicked"} : Return(o)
    BY <1>4 DEF ResolveLiteral, LookupAnswer, StartLoop
  <2>3. ASSUME NEW o \in {"noAddress", "lookupFailed", "panicked"}, Return(o)
        PROVE  Contract!Next
    <3>1. Contract!Fail(o)
      BY <2>1, <2>3, ContractFail DEF Outcome
    <3>2. QED
      BY <1>2, <2>1, <3>1 DEF Contract!Next, Contract!Refuse
  <2>4. QED
    BY <2>1, <2>2, <2>3, ContractStutter
<1>5. CASE \/ LookupAborted \/ (LoopHead /\ ctxErr # "nil")
           \/ pc \in {"wait", "readErr"} /\ ctxErr # "nil" /\ Abandon
  <2>1. ctxErr # "nil" /\ outcome = "none"
    BY <1>5 DEF LookupAborted, LoopHead, LoopInv
  <2>2. Return(ContextFailure) /\ UNCHANGED <<count, ctxErr, sent, packets>>
    BY <1>5, <2>1 DEF LookupAborted, ResolveUnchanged, LoopHead, Abandon
  <2>3. QED
    BY <2>1, <2>2, ContractAbort DEF Contract!Next
<1>6. CASE LoopEnd
  <2>1. UNCHANGED <<count, ctxErr, sent, packets>> /\ outcome = "none" /\ outcome' = "report"
    BY <1>6 DEF LoopEnd, Return, LoopInv
  <2>2. Wanted >= 1 /\ Len(packets) = Wanted
    BY <1>6 DEF LoopEnd, LoopInv, TypeOK, Wanted
  <2>3. UNCHANGED Rows
    BY <2>1 DEF Rows
  <2>4. QED
    BY <1>1, <2>1, <2>2, <2>3 DEF Phase, Reason, Wanted, Contract!Next, Contract!Report
<1>7. CASE LoopHead /\ ctxErr = "nil"
  <2>1. /\ UNCHANGED <<count, ctxErr, packets, outcome>>
        /\ outcome = "none" /\ sent' = sent + 1
    BY <1>7 DEF LoopHead, LoopInv
  <2>2. Len(packets) = sent /\ sent < Wanted
    BY <1>7 DEF LoopHead, LoopInv, TypeOK, Wanted
  <2>3. UNCHANGED Rows
    BY <2>1 DEF Rows
  <2>4. QED
    BY <1>1, <1>7, <2>1, <2>2, <2>3 DEF Phase, Reason, Wanted, Contract!Next, Contract!Request
<1>8. CASE EndsPacket
  <2>1. PICK p \in Packet : packets' = Append(packets, p)
    BY <1>8, PacketEnds
  <2>2. Rows' = Append(Rows, p.status) /\ p.status \in Status
    BY <1>1, <2>1, StatusesOfAppend DEF Rows, StatusesOf, Packet
  <2>3. UNCHANGED <<count, ctxErr, sent, outcome>> /\ outcome = "none" /\ Len(Rows) < sent
    BY <1>1, <1>8, PacketEndsFrame DEF LoopInv, InEcho, TypeOK
  <2>4. QED
    BY <2>2, <2>3 DEF Phase, Reason, Wanted, Status, Contract!Next, Contract!Answer
<1>9. CASE Cancel \/ ExpireContext
  <2>1. /\ UNCHANGED <<count, sent, packets, outcome>> /\ outcome = "none"
        /\ ctxErr = "nil" /\ ctxErr' \in {"canceled", "deadline"}
    BY <1>9 DEF Cancel, ExpireContext, ContextEnds, LoopInv
  <2>2. UNCHANGED Rows
    BY <2>1 DEF Rows
  <2>3. QED
    BY <2>1, <2>2 DEF Phase, Reason, Wanted, Contract!Next, Contract!EndContext
<1>10. CASE \/ OpenSocket \/ Send \/ (CheckContext /\ ctxErr = "nil") \/ ReadOther
            \/ ReadTimesOut \/ ReadFails \/ Deliver \/ Tick \/ Finished \/ UNCHANGED vars
  <2>1. UNCHANGED <<count, ctxErr, sent, packets, outcome>>
    BY <1>10 DEF OpenSocket, Send, CheckContext, ReadOther, ReadTimesOut, ReadFails,
                 ReadReturns, Deliver, Tick, Finished, vars
  <2>2. QED
    BY <2>1, ContractStutter
<1>11. QED
  BY <1>3, <1>4, <1>5, <1>6, <1>7, <1>8, <1>9, <1>10
     DEF Next, Program, Environment, EndsPacket, CheckContext, ReadErrorClassified, LoopHead

\* A run starts as the contract does.
LEMMA ContractInit == Init => Contract!Init
<1> SUFFICES ASSUME Init PROVE Contract!Init
  OBVIOUS
<1>1. Wanted \in Int \ {0}
  BY DEF Init, Wanted
<1>2. Rows = <<>>
  BY DEF Init, Rows
<1>3. QED
  BY <1>1, <1>2 DEF Init, Phase, Reason, Contract!Init

\* RunWith keeps the safety part of PingContract's promise for every count, every
\* timeout and every behaviour of the network.
THEOREM ContractHolds == Spec => ImplementsContract
<1>1. IInv /\ [Next]_vars => [Contract!Next]_(Contract!vars)
  BY ContractStep DEF IInv
<1>2. QED
  BY <1>1, ContractInit, Invariance, PTL DEF Spec, ImplementsContract, Contract!Safety

=============================================================================
