------------------------------- MODULE Lookup -------------------------------
(***************************************************************************)
(* What becomes of a resolver's answer: the records of internal/dns and the *)
(* address that internal/ping probes.  An address has a form - 4 bytes, the *)
(* 16 bytes of a mapped IPv4 address, other 16 bytes, or none - and a text, *)
(* a number in the order of the texts.                                      *)
(***************************************************************************)
EXTENDS Orders

Forms == {"none", "4", "mapped", "16"}

TypeA == 1
TypeAAAA == 2

To4(addr) == addr.form \in {"4", "mapped"}

RecordOf(addr) == [type |-> IF To4(addr) THEN TypeA ELSE TypeAAAA, text |-> addr.text]

Sort(records) ==
    StableSort(records, [i \in DOMAIN records |-> <<records[i].type, records[i].text>>])

\* Mutant of RecordsFromAddrs: what the resolver says twice is kept once.
RecordsDistinct(addrs) ==
    LET usable == Kept(addrs, {i \in DOMAIN addrs :
                                 /\ addrs[i].form # "none"
                                 /\ \A j \in 1 .. i - 1 : addrs[j] # addrs[i]})
    IN  Sort([i \in DOMAIN usable |-> RecordOf(usable[i])])

RecordsFromAddrs(addrs) ==
    LET usable == Kept(addrs, {i \in DOMAIN addrs : addrs[i].form # "none"})
    IN  Sort([i \in DOMAIN usable |-> RecordOf(usable[i])])

Counts(records) == [type \in {TypeA, TypeAAAA} |->
    Cardinality({i \in DOMAIN records : records[i].type = type})]

\* Mutant of Lowest: the resolver's first address.
First(ips) == ips[1]

Lowest(ips) == ips[CHOOSE i \in DOMAIN ips : \A j \in DOMAIN ips : ips[i].text <= ips[j].text]

\* resolveOne: the address to probe, or none if none is usable.
Choice(addrs) ==
    LET v4 == Kept(addrs, {i \in DOMAIN addrs : To4(addrs[i])})
        v6 == Kept(addrs, {i \in DOMAIN addrs : addrs[i].form # "none" /\ ~To4(addrs[i])})
    IN  IF v4 # <<>> THEN {[form |-> "4", text |-> Lowest(v4).text]}
        ELSE IF v6 # <<>> THEN {Lowest(v6)} ELSE {}
=============================================================================
