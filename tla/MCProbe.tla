------------------------------ MODULE MCProbe ------------------------------
(* Small instances of Probe for TLC. *)
EXTENDS Probe

Addr(form, text) == [form |-> form, text |-> text]

\* Two IPv4 addresses, one of them in both forms, two IPv6 addresses and none.
Said == {Addr("4", 5), Addr("mapped", 2), Addr("4", 2), Addr("16", 1), Addr("16", 7),
         Addr("none", 0)}

MCAnswers == UNION {[1 .. n -> Said] : n \in 0 .. 2}
             \cup [1 .. 3 -> {Addr("mapped", 2), Addr("4", 2), Addr("16", 1)}]

MCIdentifiers == {4660, 65535}

\* Around the limits of a byte and of 16 bits.
MCSequenceNumbers == {1, 256, 257, 65537}
=============================================================================
