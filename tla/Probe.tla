------------------------------- MODULE Probe -------------------------------
(***************************************************************************)
(* The data of one echo from end to end: the resolver's answer, the records *)
(* that the dns command shows of it, the address that ping probes, the bytes*)
(* sent there and the message that arrives on the raw socket.               *)
(***************************************************************************)
EXTENDS Lookup, EchoMessage

CONSTANTS
    Answers,        \* the answers of the resolver
    Identifiers,    \* the process ID xor the sequence: any 16-bit numbers
    SequenceNumbers \* the numbers of the packets

Address == [form : Forms, text : Nat]

ASSUME AnswersAssumption == Answers \subseteq Seq(Address)
ASSUME IdentifiersAssumption == Identifiers \subseteq Word
ASSUME SequenceNumbersAssumption == SequenceNumbers \subseteq Nat

VARIABLES
    answer,     \* what the resolver said
    pc,
    records,    \* what dns shows
    target,     \* the address that ping probes: at most one
    sequence,   \* the number of the packet
    request,    \* the bytes sent
    arrived,    \* the bytes received
    origin,     \* history: the type and the packet number of what arrived
    accepted    \* whether waitForReply takes it for the reply

vars == <<answer, pc, records, target, sequence, request, arrived, origin, accepted>>

Nothing == [kind |-> "none", sequence |-> 0]

Init ==
    /\ answer \in Answers
    /\ pc = "lookup"
    /\ records = <<>> /\ target = {}
    /\ sequence = 0
    /\ request = <<>> /\ arrived = <<>>
    /\ origin = Nothing
    /\ accepted = FALSE

Resolve ==
    /\ pc = "lookup"
    /\ records' = RecordsFromAddrs(answer)
    /\ target' = Choice(answer)
    /\ pc' = IF target' = {} THEN "done" ELSE "send"
    /\ UNCHANGED <<answer, sequence, request, arrived, origin, accepted>>

\* icmpNetwork.
FamilyOf(addr) == IF To4(addr) THEN "v4" ELSE "v6"

Send ==
    /\ pc = "send"
    /\ \E a \in target, n \in SequenceNumbers, id \in Identifiers :
          /\ sequence' = n
          /\ request' = BuildEchoRequest(FamilyOf(a), id, n)
    /\ pc' = "wait"
    /\ UNCHANGED <<answer, records, target, arrived, origin, accepted>>

\* A host answers a request with its bytes under another type.
ReplyTo(msg, family) == [msg EXCEPT ![1] = EchoReply[family]]

\* What arrives: the reply to a request of this family, such a request itself, both cut
\* short, or a message of another type.
Receive ==
    /\ pc = "wait"
    /\ \E a \in target, n \in SequenceNumbers, id \in Identifiers :
       \E size \in {0, HeaderSize - 1, HeaderSize, HeaderSize + PayloadSize} :
       LET family == FamilyOf(a)
           sent == BuildEchoRequest(family, id, n)
           kinds == [reply |-> ReplyTo(sent, family), request |-> sent,
                     unreachable |-> [sent EXCEPT ![1] = 3]]
       IN \E kind \in DOMAIN kinds :
          /\ arrived' = SubSeq(kinds[kind], 1, size)
          /\ origin' = [kind |-> IF size < HeaderSize THEN "short" ELSE kind, sequence |-> n]
          /\ accepted' = Accepts(arrived', family, sequence)
    /\ pc' = "done"
    /\ UNCHANGED <<answer, records, target, sequence, request>>

Finished == pc = "done" /\ UNCHANGED vars

Next == Resolve \/ Send \/ Receive \/ Finished

Spec == Init /\ [][Next]_vars

(***************************************************************************)
(* Invariants.                                                              *)
(***************************************************************************)
TypeOK ==
    /\ answer \in Answers
    /\ pc \in {"lookup", "send", "wait", "done"}
    /\ records \in Seq([type : {TypeA, TypeAAAA}, text : Nat])
    /\ target \in SUBSET Address
    /\ sequence \in Nat
    /\ request \in Seq(Byte) /\ arrived \in Seq(Byte)
    /\ origin.kind \in {"none", "short", "reply", "request", "unreachable"}
    /\ origin.sequence \in Nat
    /\ accepted \in BOOLEAN

Answered == pc # "lookup"

Times(type, text) ==
    Cardinality({i \in DOMAIN answer : /\ answer[i].text = text
                                       /\ answer[i].form \in IF type = TypeA THEN {"4", "mapped"}
                                                             ELSE {"16"}})

\* dns.go:138-140: "it does not deduplicate": each usable address of the answer is a
\* record of its family as often as the resolver said it, and nothing else is; the
\* summary's counts are those of the records.
RecordsAreTheAnswer ==
    Answered =>
        /\ \A i \in DOMAIN records :
             Cardinality({j \in DOMAIN records : records[j] = records[i]})
                = Times(records[i].type, records[i].text)
        /\ Len(records) = Cardinality({i \in DOMAIN answer : answer[i].form # "none"})
        /\ Counts(records)[TypeA] + Counts(records)[TypeAAAA] = Len(records)

\* ping probes the address that dns lists first, whatever the order of the resolver's
\* answer, and fails for want of an address exactly if dns has no record.
PingTakesTheFirstRecord ==
    Answered => IF records = <<>> THEN target = {}
                ELSE {RecordOf(a) : a \in target} = {records[1]}

\* RFC 1071, and the test of icmp_test.go:30-44: the words of an ICMPv4 request add up
\* to a multiple of 65535 that is not 0, so the receiver accepts the checksum.
ChecksumHolds ==
    request # <<>> /\ request[1] = EchoRequest["v4"] =>
        LET sum == Total(Words(request)) IN sum > 0 /\ sum % 65535 = 0

\* What is accepted is an echo reply to a request of that number, modulo 2^16, that is
\* long enough to have a number; and every such reply is.
AcceptedIsTheReply ==
    origin # Nothing =>
        (accepted <=> origin.kind = "reply" /\ (origin.sequence - sequence) % 65536 = 0)
=============================================================================
