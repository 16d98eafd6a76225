----------------------------- MODULE Interfaces -----------------------------
(***************************************************************************)
(* interfaces.List: readSystemInterfaces asks the system for its interfaces *)
(* and then for the addresses of each, one call at a time, while interfaces *)
(* come, go, change their names and addresses, and leave their index to     *)
(* others.  FromSystem converts what was read.  Names are numbers in the    *)
(* order of their text.                                                     *)
(***************************************************************************)
EXTENDS Orders

CONSTANTS
    Indexes,        \* the indexes an interface can have
    Links,          \* what an interface may look like
    CIDRs,          \* the addresses that ParseAddress understands
    InitLinks,      \* the interfaces there may be when the run begins
    MaxChanges      \* bound: changes of the system during the run

SystemFlags == {"up", "loopback", "pointToPoint", "multicast"}
ShownFlags == {"up", "loopback", "pointToPoint"}

Octet == 0 .. 255

Link == [name : Nat, mac : Seq(Octet), flags : SUBSET SystemFlags, addrs : Seq(STRING)]

NoLink == [name |-> 0, mac |-> <<>>, flags |-> {}, addrs |-> <<>>]

ASSUME IndexesAssumption == Indexes \subseteq Nat
ASSUME FinitenessAssumption == IsFiniteSet(Indexes)
ASSUME LinksAssumption == Links \subseteq Link \ {NoLink}
ASSUME InitLinksAssumption == InitLinks \subseteq [Indexes -> Links \cup {NoLink}]
ASSUME BoundsAssumption == MaxChanges \in Nat

VARIABLES
    links,      \* the interface at each index, or NoLink
    changes,    \* how often they changed
    pc,
    sys,        \* what net.Interfaces returned
    raws,       \* the interfaces whose addresses were asked for
    result,     \* what List returns
    outcome,    \* how it ended
    listed,     \* history: the interfaces when net.Interfaces was called
    held        \* history: the addresses each index had since then

vars == <<links, changes, pc, sys, raws, result, outcome, listed, held>>

Present(l) == {n \in Indexes : l[n] # NoLink}

System(n, l) == [index |-> n, name |-> l.name, mac |-> l.mac, flags |-> l.flags]

Raw(s, addrs) ==
    [index |-> s.index, name |-> s.name, mac |-> s.mac, flags |-> s.flags, addrs |-> addrs]

(***************************************************************************)
(* FromSystem.                                                              *)
(***************************************************************************)
\* An address made of zeros only is none.
FormatHardwareAddr(mac) == IF \A i \in DOMAIN mac : mac[i] = 0 THEN <<>> ELSE mac

\* Mutant of ParseAddresses: the first address that cannot be parsed ends the list.
ParseAddressesUntilError(addrs) ==
    Kept(addrs, {i \in DOMAIN addrs : \A j \in 1 .. i : addrs[j] \in CIDRs})

\* An address that cannot be parsed is skipped.
ParseAddresses(addrs) == Kept(addrs, {i \in DOMAIN addrs : addrs[i] \in CIDRs})

\* Mutant of NewInterface: the flags of the system are handed on.
NewInterfaceAllFlags(raw) ==
    [index |-> raw.index, name |-> raw.name, mac |-> FormatHardwareAddr(raw.mac),
     flags |-> raw.flags, addrs |-> ParseAddresses(raw.addrs)]

NewInterface(raw) ==
    [index |-> raw.index, name |-> raw.name, mac |-> FormatHardwareAddr(raw.mac),
     flags |-> raw.flags \cap ShownFlags, addrs |-> ParseAddresses(raw.addrs)]

\* Mutant of Sort: by name alone.
SortByName(ifs) == StableSort(ifs, [i \in DOMAIN ifs |-> <<ifs[i].name>>])

Sort(ifs) == StableSort(ifs, [i \in DOMAIN ifs |-> <<ifs[i].index, ifs[i].name>>])

FromSystem(rs) == Sort([i \in DOMAIN rs |-> NewInterface(rs[i])])

(***************************************************************************)
(* List and readSystemInterfaces.                                           *)
(***************************************************************************)
Init ==
    /\ links \in InitLinks
    /\ changes = 0
    /\ pc = "list"
    /\ sys = <<>> /\ raws = <<>> /\ result = <<>>
    /\ outcome = "none"
    /\ listed = links
    /\ held = [n \in Indexes |-> {}]

\* The orders in which a system may enumerate the indexes.
Enumerations(S) ==
    {e \in [1 .. Cardinality(S) -> S] : \A i, j \in DOMAIN e : e[i] = e[j] => i = j}

ListSystem ==
    /\ pc = "list"
    /\ \E e \in Enumerations(Present(links)) :
          sys' = [i \in DOMAIN e |-> System(e[i], links[e[i]])]
    /\ listed' = links
    /\ held' = [n \in Indexes |-> {links[n].addrs}]
    /\ pc' = "addrs"
    /\ UNCHANGED <<links, changes, raws, result, outcome>>

ListFails ==
    /\ pc = "list"
    /\ pc' = "done" /\ outcome' = "failed"
    /\ UNCHANGED <<links, changes, sys, raws, result, listed, held>>

Pending == pc = "addrs" /\ Len(raws) < Len(sys)

Subject == sys[Len(raws) + 1]

Read(addrs) ==
    /\ raws' = Append(raws, Raw(Subject, addrs))
    /\ UNCHANGED <<links, changes, pc, sys, result, outcome, listed, held>>

\* The addresses are those of the interface that has the index now.
ReadAddrs == Pending /\ Read(links[Subject.index].addrs)

\* Mutant of AddrsUnreadable: the listing is given up.
AddrsUnreadableFails ==
    /\ Pending
    /\ pc' = "done" /\ outcome' = "failed"
    /\ UNCHANGED <<links, changes, sys, raws, result, listed, held>>

AddrsUnreadable == Pending /\ Read(<<>>)

\* Mutant of Converted: interfaces without addresses are left out.
ConvertedInUse == FromSystem(Kept(raws, {i \in DOMAIN raws : raws[i].addrs # <<>>}))

Converted == FromSystem(raws)

Return ==
    /\ pc = "addrs" /\ Len(raws) = Len(sys)
    /\ result' = Converted
    /\ pc' = "done" /\ outcome' = "listed"
    /\ UNCHANGED <<links, changes, sys, raws, listed, held>>

(***************************************************************************)
(* The system: an interface comes, goes or changes.                         *)
(***************************************************************************)
LinkChanges ==
    /\ pc # "done" /\ changes < MaxChanges
    /\ changes' = changes + 1
    /\ \E n \in Indexes : \E l \in (Links \cup {NoLink}) \ {links[n]} :
          /\ \A m \in Present(links) \ {n} : links[m].name # l.name
          /\ links' = [links EXCEPT ![n] = l]
          /\ held' = IF pc = "list" THEN held
                     ELSE [held EXCEPT ![n] = held[n] \cup {l.addrs}]
    /\ UNCHANGED <<pc, sys, raws, result, outcome, listed>>

Program == ListSystem \/ ListFails \/ ReadAddrs \/ AddrsUnreadable \/ Return

Finished == pc = "done" /\ UNCHANGED vars

Next == Program \/ LinkChanges \/ Finished

Spec == Init /\ [][Next]_vars /\ WF_vars(Program)

(***************************************************************************)
(* Properties.                                                              *)
(***************************************************************************)
SystemInterface ==
    [index : Indexes, name : Nat, mac : Seq(Octet), flags : SUBSET SystemFlags]

RawInterface ==
    [index : Indexes, name : Nat, mac : Seq(Octet), flags : SUBSET SystemFlags,
     addrs : Seq(STRING)]

Interface ==
    [index : Indexes, name : Nat, mac : Seq(Octet), flags : SUBSET ShownFlags,
     addrs : Seq(CIDRs)]

TypeOK ==
    /\ links \in [Indexes -> Links \cup {NoLink}]
    /\ listed \in [Indexes -> Links \cup {NoLink}]
    /\ changes \in Nat
    /\ pc \in {"list", "addrs", "done"}
    /\ sys \in Seq(SystemInterface)
    /\ raws \in Seq(RawInterface)
    /\ result \in Seq(Interface)
    /\ outcome \in {"none", "failed", "listed"}
    /\ held \in [Indexes -> SUBSET Seq(STRING)]

\* A listing has each interface that existed when it began exactly once, with the name
\* and the state it had then, whatever has become of it since, and no other: the rows
\* are one picture of the system though they were read one by one.
EveryInterfaceOnce ==
    outcome = "listed" =>
        /\ {result[i].index : i \in DOMAIN result} = Present(listed)
        /\ Len(result) = Cardinality(Present(listed))
        /\ \A i \in DOMAIN result :
             LET l == listed[result[i].index]
             IN  /\ result[i].name = l.name
                 /\ result[i].mac = FormatHardwareAddr(l.mac)
                 /\ result[i].flags = l.flags \cap ShownFlags

\* interfaces.go:45-47: the order is that of the indexes and does not depend on the
\* order in which the system enumerates its interfaces.
InIndexOrder ==
    \A i, j \in DOMAIN result : i < j => result[i].index < result[j].index

\* The addresses in addrs that can be parsed, all of them and in their order.
AreParsed(parsed, addrs) ==
    \E at \in [DOMAIN parsed -> {i \in DOMAIN addrs : addrs[i] \in CIDRs}] :
        /\ \A n \in DOMAIN parsed : parsed[n] = addrs[at[n]]
        /\ \A n, m \in DOMAIN parsed : n < m => at[n] < at[m]
        /\ \A i \in DOMAIN addrs : addrs[i] \in CIDRs => \E n \in DOMAIN parsed : at[n] = i

\* The addresses of a row are those that its index had at one time during the listing,
\* all that can be parsed, in their order; or none, if they could not be read.
AddressesWereHeld ==
    \A i \in DOMAIN result :
        \/ result[i].addrs = <<>>
        \/ \E addrs \in held[result[i].index] : AreParsed(result[i].addrs, addrs)

\* interfaces.go:49-50: "A failure to read the addresses of a single interface is not
\* fatal": once the interfaces are known the listing succeeds.
UnreadableIsNotFatal == (pc = "addrs") ~> (outcome = "listed")
=============================================================================
