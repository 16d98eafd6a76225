---------------------------- MODULE EchoMessage ----------------------------
(***************************************************************************)
(* internal/ping/icmp.go: the bytes of an echo request and what is read of *)
(* a message that arrives.                                                  *)
(***************************************************************************)
EXTENDS Integers, Sequences

Byte == 0 .. 255
Word == 0 .. 65535

\* What fits into a byte and into 16 bits.
LowByte(n) == n % 256
Uint16(n) == n % 65536

Families == {"v4", "v6"}
EchoRequest == [v4 |-> 8, v6 |-> 128]
EchoReply == [v4 |-> 0, v6 |-> 129]

HeaderSize == 8
PayloadSize == 56

\* The 16-bit words of a message; an odd last byte is padded with a zero.
Words(msg) ==
    [k \in 1 .. (Len(msg) + 1) \div 2 |->
        256 * msg[2 * k - 1] + IF 2 * k <= Len(msg) THEN msg[2 * k] ELSE 0]

\* The sum of a sequence of numbers.
Total(words) ==
    LET sum[k \in 0 .. Len(words)] == IF k = 0 THEN 0 ELSE sum[k - 1] + words[k]
    IN  sum[Len(words)]

\* The carries are added until there are none.  A message has too few words for the
\* sum to leave its 32 bits.
Folded(n) ==
    LET fold[s \in Nat] == IF s = Uint16(s) THEN s ELSE fold[Uint16(s) + s \div 65536]
    IN  fold[n]

Checksum(msg) == 65535 - Folded(Total(Words(msg)))

\* Mutant of Header: the upper byte is not cut to a byte.
HeaderWide(family, sum, identifier, sequence) ==
    <<EchoRequest[family], 0, sum \div 256, LowByte(sum),
      identifier \div 256, LowByte(identifier), sequence \div 256, LowByte(sequence)>>

Header(family, sum, identifier, sequence) ==
    <<EchoRequest[family], 0, sum \div 256, LowByte(sum),
      identifier \div 256, LowByte(identifier), Uint16(sequence) \div 256, LowByte(sequence)>>

Payload == [k \in 1 .. PayloadSize |-> LowByte(k - 1)]

\* Mutant of ChecksumOf: the payload is written after the sum.
ChecksumOfHeader(family, identifier, sequence) ==
    IF family = "v4" THEN Checksum(Header(family, 0, identifier, sequence)) ELSE 0

\* The kernel computes the checksum of ICMPv6.
ChecksumOf(family, identifier, sequence) ==
    IF family = "v4" THEN Checksum(Header(family, 0, identifier, sequence) \o Payload) ELSE 0

BuildEchoRequest(family, identifier, sequence) ==
    Header(family, ChecksumOf(family, identifier, sequence), identifier, sequence) \o Payload

\* Mutant of ReplySequence: the lower byte alone.
ReplySequenceByte(msg) == IF Len(msg) < HeaderSize THEN 0 ELSE msg[8]

ReplySequence(msg) == IF Len(msg) < HeaderSize THEN 0 ELSE 256 * msg[7] + msg[8]

\* The tests of waitForReply.
Accepts(msg, family, sequence) ==
    /\ Len(msg) >= HeaderSize
    /\ msg[1] = EchoReply[family]
    /\ ReplySequence(msg) = Uint16(sequence)
=============================================================================
