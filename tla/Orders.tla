------------------------------- MODULE Orders -------------------------------
(***************************************************************************)
(* The stable sorts and the selections of internal/ports, connections,     *)
(* interfaces and dns.  A less function of the code compares a sequence of *)
(* keys, one after the other.                                              *)
(***************************************************************************)
EXTENDS Integers, Sequences, FiniteSets

LexLess(a, b) ==
    \E i \in DOMAIN a : a[i] < b[i] /\ \A j \in 1 .. i - 1 : a[j] = b[j]

\* The elements of the finite set I in the strict total order R, a set of pairs.
Ranked(I, R) ==
    [n \in 1 .. Cardinality(I) |->
        CHOOSE i \in I : Cardinality({j \in I : <<j, i>> \in R}) = n - 1]

\* The elements of s at the indexes in I, in the order of s.
Kept(s, I) ==
    LET at == Ranked(I, {p \in I \X I : p[1] < p[2]})
    IN  [n \in 1 .. Cardinality(I) |-> s[at[n]]]

\* sort.SliceStable, with the key of each element: equal keys keep their order.
StableSort(s, keys) ==
    LET before(i, j) == \/ LexLess(keys[i], keys[j])
                        \/ keys[i] = keys[j] /\ i < j
        at == Ranked(DOMAIN s, {p \in (DOMAIN s) \X (DOMAIN s) : before(p[1], p[2])})
    IN  [n \in DOMAIN s |-> s[at[n]]]
=============================================================================
