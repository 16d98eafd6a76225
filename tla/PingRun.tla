------------------------------ MODULE PingRun ------------------------------
(***************************************************************************)
(* One run of "nselecttrace ping": RunWith of internal/ping/ping.go, the   *)
(* echoer of internal/ping/source.go it calls for every packet, the run's  *)
(* context (a deadline set by runPing of internal/cli/ping.go under a      *)
(* parent that Ctrl-C cancels), the clock, and the ICMP messages that reach *)
(* a raw socket.                                                           *)
(*                                                                         *)
(* Steps of the program take no time: the clock advances only while the run *)
(* is blocked in the resolver or in ReadFrom.  Two timers due at the same  *)
(* instant fire in either order, and a timer that is due fires before the  *)
(* clock advances.  The context may end between any two steps.             *)
(***************************************************************************)
EXTENDS Integers, Sequences, FiniteSets

CONSTANTS
    Counts,         \* the values of Options.Count a caller may pass
    DefaultCount,   \* ping.DefaultCount
    PacketWait,     \* packetWait, the longest wait for one reply
    RunTimeout,     \* the --timeout of the run, its context's deadline
    SeqMod,         \* 2^16: the header's sequence number is taken modulo SeqMod
    MaxPacketCap,   \* the largest capacity make([]Packet, ..) accepts
    Noise,          \* ICMP messages for the host that answer no request of the run
    MaxDeliveries,  \* bound: messages delivered to the sockets of one run
    QueueLimit      \* the receive buffer of a socket; what does not fit is lost

Message == [kind : {"reply", "other", "short"}, seq : Nat, origin : Nat]

ASSUME CountsAssumption == Counts \subseteq Int
ASSUME DefaultCountAssumption == DefaultCount \in Nat \ {0}
ASSUME TimesAssumption == PacketWait \in Nat \ {0} /\ RunTimeout \in Nat \ {0}
ASSUME SeqModAssumption == SeqMod \in Nat \ {0}
ASSUME MaxPacketCapAssumption == MaxPacketCap \in Nat
ASSUME NoiseAssumption == Noise \subseteq {m \in Message : m.origin = 0}
ASSUME BoundsAssumption == MaxDeliveries \in Nat /\ QueueLimit \in Nat \ {0}

VARIABLES
    now,            \* the clock
    ctxErr,         \* ctx.Err(); once set it never changes
    ended,          \* history: clock, requests and rows when the context ended
    pc,             \* where the run is
    literal,        \* the host is an IP address, which needs no lookup
    count,          \* opts.Count
    sequence,       \* the loop variable of RunWith
    sent,           \* result.Sent
    received,       \* result.Received
    packets,        \* result.Packets
    sockDeadline,   \* the deadline set on the socket of the current packet
    start,          \* when the current request was sent
    rxq,            \* the messages waiting in the current socket
    readErr,        \* the error ReadFrom returned
    written,        \* the sequence numbers of the requests put on the wire
    deliveries,     \* how many messages were delivered so far
    outcome         \* what RunWith returned

contextVars == <<ctxErr, ended>>
resultVars  == <<literal, count, sequence, sent, received, packets, outcome>>
socketVars  == <<sockDeadline, start, rxq, readErr>>
networkVars == <<written, deliveries>>

vars == <<now, contextVars, pc, resultVars, socketVars, networkVars>>

(***************************************************************************)
(* Data.                                                                   *)
(***************************************************************************)
Status == {"OK", "TIMEOUT", "ERROR"}

\* A Packet.  "cause" says which call of Echo failed (Packet.Err).  "origin" is
\* history: the request that the accepted reply answers, 0 for none of ours.
Packet == [seq : Nat, status : Status, dur : Nat,
           cause : {"none", "open", "deadline", "send", "read"}, origin : Nat]

Outcome == {"none", "report", "badCount", "noAddress", "lookupFailed",
            "timedOut", "cancelled", "panicked"}

\* The socket exists from ListenPacket until the deferred close of Echo.
SocketOpen == pc \in {"send", "wait", "read", "readErr"}

\* How contextError and ResolveError classify the error of an ended context.
ContextFailure == IF ctxErr = "deadline" THEN "timedOut" ELSE "cancelled"

\* What the probed host sends back for request i: the header holds 16 bits of i.
EchoReplyTo(i) == [kind |-> "reply", seq |-> i % SeqMod, origin |-> i]

\* Mutants of EchoDeadline: the context's deadline forgotten, and the comparison
\* of the two deadlines turned round.
EchoDeadlineIgnoresContext == now + PacketWait
EchoDeadlineLater == IF RunTimeout < now + PacketWait THEN now + PacketWait ELSE RunTimeout

\* The earlier of packetWait from now and the context's deadline.
EchoDeadline == IF RunTimeout < now + PacketWait THEN RunTimeout ELSE now + PacketWait

\* Mutant of Accepts: the sequence number is not looked at.
AcceptsAnyReply(m) == m.kind = "reply"

\* waitForReply takes a message by its type and its sequence number alone.
Accepts(m) == m.kind = "reply" /\ m.seq = sequence % SeqMod

Init ==
    /\ now = 0
    /\ ctxErr = "nil"
    /\ ended = [at |-> 0, sent |-> 0, rows |-> 0]
    /\ pc = "normalise"
    /\ literal \in BOOLEAN
    /\ count \in Counts
    /\ sequence = 1
    /\ sent = 0
    /\ received = 0
    /\ packets = <<>>
    /\ sockDeadline = 0
    /\ start = 0
    /\ rxq = <<>>
    /\ readErr = "none"
    /\ written = {}
    /\ deliveries = 0
    /\ outcome = "none"

(***************************************************************************)
(* RunWith before its loop.                                                *)
(***************************************************************************)
Return(o) == pc' = "done" /\ outcome' = o

Normalise ==
    /\ pc = "normalise"
    /\ count' = IF count = 0 THEN DefaultCount ELSE count
    /\ IF count' < 1 THEN Return("badCount")
                     ELSE pc' = "resolve" /\ UNCHANGED outcome
    /\ UNCHANGED <<now, contextVars, literal, sequence, sent, received, packets,
                   socketVars, networkVars>>

\* With an address the result is allocated for all its packets at once.
StartLoop == IF count > MaxPacketCap THEN Return("panicked")
                                     ELSE pc' = "head" /\ UNCHANGED outcome

ResolveUnchanged == UNCHANGED <<now, contextVars, literal, count, sequence, sent,
                                received, packets, socketVars, networkVars>>

ResolveLiteral == pc = "resolve" /\ literal /\ StartLoop /\ ResolveUnchanged

\* The resolver answers with addresses, with none that is usable, or fails.
LookupAnswer ==
    /\ pc = "resolve" /\ ~literal
    /\ StartLoop \/ Return("noAddress") \/ Return("lookupFailed")
    /\ ResolveUnchanged

\* Mutant of LookupAborted: the lookup is not given the run's context.
LookupNeverAborted == FALSE

\* The resolver gives up because the context ended.
LookupAborted ==
    /\ pc = "resolve" /\ ~literal
    /\ ctxErr # "nil"
    /\ Return(ContextFailure)
    /\ ResolveUnchanged

(***************************************************************************)
(* The loop of RunWith.                                                    *)
(***************************************************************************)
LoopEnd ==
    /\ pc = "head" /\ sequence > count
    /\ Return("report")
    /\ UNCHANGED <<now, contextVars, literal, count, sequence, sent, received,
                   packets, socketVars, networkVars>>

\* Mutant of LoopHead: the context is not looked at before the next request.
LoopHeadUnchecked ==
    /\ pc = "head" /\ sequence <= count
    /\ pc' = "open" /\ sent' = sent + 1
    /\ UNCHANGED <<now, contextVars, literal, count, sequence, received, packets,
                   outcome, socketVars, networkVars>>

LoopHead ==
    /\ pc = "head" /\ sequence <= count
    /\ \/ ctxErr # "nil" /\ Return(ContextFailure) /\ UNCHANGED sent
       \/ ctxErr = "nil" /\ pc' = "open" /\ sent' = sent + 1 /\ UNCHANGED outcome
    /\ UNCHANGED <<now, contextVars, literal, count, sequence, received, packets,
                   socketVars, networkVars>>

PacketOf(status, dur, cause, origin) ==
    [seq |-> sequence, status |-> status, dur |-> dur, cause |-> cause, origin |-> origin]

\* Mutant of Row: a failed packet skips the append at the end of the loop body.
RowSkipsErrors(status, dur, cause, origin) ==
    /\ packets' = IF status = "ERROR" THEN packets
                  ELSE Append(packets, PacketOf(status, dur, cause, origin))
    /\ received' = IF status = "OK" THEN received + 1 ELSE received
    /\ sequence' = sequence + 1
    /\ pc' = "head"
    /\ rxq' = <<>>
    /\ readErr' = "none"
    /\ UNCHANGED <<now, contextVars, literal, count, sent, outcome, sockDeadline,
                   start, networkVars>>

\* Echo returned for a packet that gets a row; its deferred close drops the
\* socket with what it still holds.
Row(status, dur, cause, origin) ==
    /\ packets' = Append(packets, PacketOf(status, dur, cause, origin))
    /\ received' = IF status = "OK" THEN received + 1 ELSE received
    /\ sequence' = sequence + 1
    /\ pc' = "head"
    /\ rxq' = <<>>
    /\ readErr' = "none"
    /\ UNCHANGED <<now, contextVars, literal, count, sent, outcome, sockDeadline,
                   start, networkVars>>

\* Mutant of Abandon: the rows so far are returned as a report.
AbandonReportsRows ==
    /\ Return("report")
    /\ rxq' = <<>>
    /\ readErr' = "none"
    /\ UNCHANGED <<now, contextVars, literal, count, sequence, sent, received,
                   packets, sockDeadline, start, networkVars>>

\* Echo returned the error of the ended context: no row, and the run is over.
Abandon ==
    /\ Return(ContextFailure)
    /\ rxq' = <<>>
    /\ readErr' = "none"
    /\ UNCHANGED <<now, contextVars, literal, count, sequence, sent, received,
                   packets, sockDeadline, start, networkVars>>

(***************************************************************************)
(* Echo and waitForReply.                                                  *)
(***************************************************************************)
OpenSocket ==
    /\ pc = "open"
    /\ pc' = "send"
    /\ sockDeadline' = EchoDeadline
    /\ UNCHANGED <<now, contextVars, resultVars, start, rxq, readErr, networkVars>>

\* ListenPacket or SetDeadline fails: an ordinary error, hence an ERROR row.
OpenFails ==
    /\ pc = "open"
    /\ \E cause \in {"open", "deadline"} : Row("ERROR", 0, cause, 0)

Send ==
    /\ pc = "send"
    /\ start' = now
    /\ written' = written \cup {sequence}
    /\ pc' = "wait"
    /\ UNCHANGED <<now, contextVars, resultVars, sockDeadline, rxq, readErr, deliveries>>

\* WriteTo fails, on an expired deadline too: never ErrTimeout.
SendFails ==
    /\ pc = "send"
    /\ Row("ERROR", 0, "send", 0)

\* The context is looked at before every read.
CheckContext ==
    /\ pc = "wait"
    /\ \/ ctxErr # "nil" /\ Abandon
       \/ /\ ctxErr = "nil"
          /\ pc' = "read"
          /\ UNCHANGED <<now, contextVars, resultVars, socketVars, networkVars>>

\* Mutant of ReadReply: the round trip is start minus now.
ReadReplyBackwards ==
    /\ pc = "read" /\ rxq # <<>>
    /\ Accepts(Head(rxq))
    /\ Row("OK", start - now, "none", Head(rxq).origin)

ReadReply ==
    /\ pc = "read" /\ rxq # <<>>
    /\ Accepts(Head(rxq))
    /\ Row("OK", now - start, "none", Head(rxq).origin)

\* A short message, another type or another sequence number: keep reading.
ReadOther ==
    /\ pc = "read" /\ rxq # <<>>
    /\ ~Accepts(Head(rxq))
    /\ rxq' = Tail(rxq)
    /\ pc' = "wait"
    /\ UNCHANGED <<now, contextVars, resultVars, sockDeadline, start, readErr, networkVars>>

ReadReturns(err) ==
    /\ pc = "read"
    /\ readErr' = err
    /\ pc' = "readErr"
    /\ UNCHANGED <<now, contextVars, resultVars, sockDeadline, start, rxq, networkVars>>

ReadTimesOut == now >= sockDeadline /\ ReadReturns("timeout")

ReadFails == ReadReturns("io")

\* Mutant of ReadErrorClassified: every error of ReadFrom counts as a timeout.
ReadErrorIsTimeout ==
    /\ pc = "readErr"
    /\ \/ ctxErr # "nil" /\ Abandon
       \/ ctxErr = "nil" /\ Row("TIMEOUT", 0, "none", 0)

\* The context is looked at again before the error is classified.
ReadErrorClassified ==
    /\ pc = "readErr"
    /\ \/ ctxErr # "nil" /\ Abandon
       \/ ctxErr = "nil" /\ readErr = "timeout" /\ Row("TIMEOUT", 0, "none", 0)
       \/ ctxErr = "nil" /\ readErr # "timeout" /\ Row("ERROR", 0, "read", 0)

(***************************************************************************)
(* The environment: Ctrl-C, the context's timer, the network, the clock.   *)
(***************************************************************************)
ContextEnds(err) ==
    /\ pc # "done" /\ ctxErr = "nil"
    /\ ctxErr' = err
    /\ ended' = [at |-> now, sent |-> sent, rows |-> Len(packets)]
    /\ UNCHANGED <<now, pc, resultVars, socketVars, networkVars>>

Cancel == ContextEnds("canceled")

ExpireContext == now >= RunTimeout /\ ContextEnds("deadline")

\* A raw socket gets every ICMP message for the host: replies to any request of
\* the run, late, repeated or out of order, and messages of no concern to it.
Deliver ==
    /\ SocketOpen
    /\ deliveries < MaxDeliveries /\ Len(rxq) < QueueLimit
    /\ \E m \in {EchoReplyTo(i) : i \in written} \cup Noise : rxq' = Append(rxq, m)
    /\ deliveries' = deliveries + 1
    /\ UNCHANGED <<now, contextVars, pc, resultVars, sockDeadline, start, readErr, written>>

Blocked == \/ pc = "resolve" /\ ~literal /\ ctxErr = "nil"
           \/ pc = "read" /\ rxq = <<>> /\ now < sockDeadline

Tick ==
    /\ Blocked
    /\ ~(ctxErr = "nil" /\ now >= RunTimeout)
    /\ now' = now + 1
    /\ UNCHANGED <<contextVars, pc, resultVars, socketVars, networkVars>>

(***************************************************************************)
(* The specification.                                                      *)
(***************************************************************************)
\* The steps the run always goes on to take by itself.
Program == \/ Normalise \/ ResolveLiteral \/ LookupAborted \/ LoopEnd \/ LoopHead
           \/ OpenSocket \/ OpenFails \/ Send \/ SendFails
           \/ CheckContext \/ ReadReply \/ ReadOther \/ ReadTimesOut
           \/ ReadErrorClassified

Environment == LookupAnswer \/ ReadFails \/ Cancel \/ ExpireContext \/ Deliver \/ Tick

Finished == pc = "done" /\ UNCHANGED vars

Next == Program \/ Environment \/ Finished

\* The scheduler runs the program, the context's timer fires when it is due and
\* the clock advances.  Nothing is assumed of the resolver, of the network or of
\* the user.
Fairness == WF_vars(Program) /\ WF_vars(ExpireContext) /\ WF_vars(Tick)

Spec == Init /\ [][Next]_vars /\ Fairness

(***************************************************************************)
(* Invariants.                                                             *)
(***************************************************************************)
TypeOK ==
    /\ now \in Nat
    /\ ctxErr \in {"nil", "canceled", "deadline"}
    /\ ended \in [at : Nat, sent : Nat, rows : Nat]
    /\ pc \in {"normalise", "resolve", "head", "open", "send", "wait", "read",
               "readErr", "done"}
    /\ literal \in BOOLEAN
    /\ count \in Int
    /\ sequence \in Nat \ {0}
    /\ sent \in Nat /\ received \in Nat
    /\ packets \in Seq(Packet)
    /\ sockDeadline \in Nat /\ start \in Nat
    /\ rxq \in Seq(Message)
    /\ readErr \in {"none", "timeout", "io"}
    /\ written \subseteq Nat
    /\ deliveries \in Nat
    /\ outcome \in Outcome

OkRows == {i \in DOMAIN packets : packets[i].status = "OK"}

\* What the table and the summary print agrees: the rows are the packets 1, 2, ..
\* in order, every request has its row but the one in flight, "received" counts
\* the OK rows, and a run that is reported has a row for every packet asked for.
\* So Result.Lost, sent - received, counts the rows that are not OK.
Accounting ==
    /\ \A i \in DOMAIN packets : packets[i].seq = i
    /\ received = Cardinality(OkRows)
    /\ outcome = "report" => Len(packets) = count /\ sent = count
    /\ pc = "head" => sent = Len(packets)
    /\ pc \in {"open", "send", "wait", "read", "readErr"} => sent = Len(packets) + 1

\* A reply that is late, repeated or out of order is taken for the answer to a later
\* packet only if it is late by as many packets as there are sequence numbers: in a
\* shorter run an OK row was answered by the reply to its own request.
OwnReplies ==
    \A i \in OkRows : LET answered == packets[i].origin IN
      \/ answered = i
      \/ answered \in 1 .. i - SeqMod /\ answered % SeqMod = i % SeqMod

\* The run never outlives its budget, whatever the replies do (source.go: "a
\* stalled reply cannot outlive the run's budget"), and no round trip is longer
\* than the wait for one packet.
BudgetRespected ==
    /\ now <= RunTimeout
    /\ \A i \in DOMAIN packets : packets[i].dur \in 0 .. PacketWait

\* A cancelled run that is still waiting ends within one packet's wait.
CancelLatency == ctxErr = "canceled" => now <= ended.at + PacketWait

\* Once the context has ended no other request is counted and at most the packet
\* in flight still gets a row; the run is reported all the same only if that
\* was the last packet.
StopsWithContext ==
    ctxErr # "nil" => /\ sent = ended.sent
                      /\ Len(packets) <= ended.rows + 1
                      /\ outcome = "report" => ended.sent = count

(***************************************************************************)
(* Action and liveness properties.                                         *)
(***************************************************************************)
\* A packet is called lost only after the full wait for its reply, except at the
\* instant the budget of the whole run is used up.
LossIsAFullWait ==
    [][(Len(packets') > Len(packets) /\ packets'[Len(packets')].status = "TIMEOUT")
         => now >= start + PacketWait \/ now = RunTimeout]_vars

(***************************************************************************)
(* What the comments and the README say and the code does not do.          *)
(***************************************************************************)
\* source.go:89-91: the identifier is there "so replies to a different process
\* are not mistaken for ours".
ForeignRepliesIgnored == \A i \in OkRows : packets[i].origin # 0

\* ping.go:350-352: a cancelled parent "aborts a pending read", so no time passes
\* in a cancelled run.
CancelAbortsRead == [][ctxErr = "canceled" => now' = now]_vars

\* ping.go:180-181: when "the run's budget ran out" that is not "a lost packet, so
\* the partial result is not reported as one".
BudgetExpiryIsNotLoss ==
    outcome = "report" /\ packets[count].status = "TIMEOUT" => now >= start + PacketWait

\* README.md:228-230: "When the socket cannot be opened the error says so and
\* stdout stays empty", so no run with such a packet is reported.
OpenFailureIsAnError ==
    outcome = "report" => \A i \in DOMAIN packets : packets[i].cause # "open"

=============================================================================
