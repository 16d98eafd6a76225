-------------------------- MODULE InterfacesProofs --------------------------
(***************************************************************************)
(* Proofs about Interfaces for every set of indexes, every look an          *)
(* interface may have and every change of the system.                       *)
(***************************************************************************)
EXTENDS InterfacesRefinement, OrdersProofs

\* sys has each interface that was present when it was listed once, as it was then.
IsPicture(e) ==
    /\ e \in Bijection(1 .. Len(sys), Present(listed))
    /\ \A i \in 1 .. Len(sys) : sys[i] = System(e[i], listed[e[i]])

PictureInv ==
    /\ pc = "list" => sys = <<>> /\ raws = <<>>
    /\ pc = "addrs" \/ outcome = "listed" =>
         /\ Len(sys) = Cardinality(Present(listed))
         /\ \E e : IsPicture(e)

\* What was asked about an interface is added to what was known of it.
RawsInv ==
    /\ Len(raws) <= Len(sys)
    /\ \A i \in DOMAIN raws :
         /\ raws[i].index = sys[i].index
         /\ raws[i].name = sys[i].name
         /\ raws[i].mac = sys[i].mac
         /\ raws[i].flags = sys[i].flags

ResultInv ==
    /\ outcome # "listed" => result = <<>>
    /\ outcome = "listed" => /\ pc = "done"
                             /\ Len(raws) = Len(sys)
                             /\ result = Converted

IInv == TypeOK /\ PictureInv /\ RawsInv /\ ResultInv

\* What was read of an interface its index had since the picture was taken.
HeldInv ==
    /\ (outcome = "none") = (pc # "done")
    /\ pc = "addrs" => \A n \in Indexes : links[n].addrs \in held[n]
    /\ \A i \in DOMAIN raws : raws[i].addrs \in held[raws[i].index] \cup {<<>>}

USE IndexesAssumption, LinksAssumption, InitLinksAssumption, BoundsAssumption

(***************************************************************************)
(* The conversion.                                                          *)
(***************************************************************************)
\* Only addresses that can be parsed are left.
LEMMA ParsedType ==
    ASSUME NEW addrs \in Seq(STRING)
    PROVE  ParseAddresses(addrs) \in Seq(CIDRs)
<1> DEFINE I == {i \in DOMAIN addrs : addrs[i] \in CIDRs}
           k == Kept(addrs, I)
<1>1. k \in Seq(STRING) /\ \E at \in Bijection(1 .. Len(k), I) :
                             \A n \in 1 .. Len(k) : k[n] = addrs[at[n]]
  <2>1. I \in SUBSET DOMAIN addrs
    OBVIOUS
  <2> HIDE DEF I
  <2>2. QED
    BY <2>1, KeptElements
<1>2. PICK at \in [1 .. Len(k) -> I] : \A n \in 1 .. Len(k) : k[n] = addrs[at[n]]
  BY <1>1 DEF Bijection, Injection
<1>3. k = ParseAddresses(addrs)
  BY DEF ParseAddresses
<1> HIDE DEF k
<1>4. \A n \in 1 .. Len(k) : k[n] \in CIDRs
  BY <1>2
<1>5. k \in Seq(CIDRs)
  BY <1>1, <1>4
<1>6. QED
  BY <1>3, <1>5

\* What the conversion makes of a raw interface is an interface.
LEMMA NewInterfaceType ==
    ASSUME NEW raw \in RawInterface
    PROVE  NewInterface(raw) \in Interface
<1>1. FormatHardwareAddr(raw.mac) \in Seq(Octet)
  BY DEF FormatHardwareAddr, RawInterface
<1>2. ParseAddresses(raw.addrs) \in Seq(CIDRs)
  BY ParsedType DEF RawInterface
<1>3. QED
  BY <1>1, <1>2 DEF NewInterface, RawInterface, Interface, ShownFlags, SystemFlags

\* A row has the index and the name of what it was made from.
LEMMA RowNumbers ==
    ASSUME NEW raw \in RawInterface
    PROVE  /\ raw.index \in Int /\ raw.name \in Int
           /\ NewInterface(raw).index = raw.index /\ NewInterface(raw).name = raw.name
<1>1. raw.index \in Indexes /\ raw.name \in Nat
  BY DEF RawInterface
<1>2. raw.index \in Int
  <2>1. raw.index \in Nat
    BY <1>1, IndexesAssumption, Zenon
  <2>2. QED
    BY <2>1
<1>3. NewInterface(raw).index = raw.index /\ NewInterface(raw).name = raw.name
  BY DEF NewInterface
<1>4. QED
  BY <1>1, <1>2, <1>3

\* The rows of a listing are the converted ones, each once; their indexes ascend if no
\* two of them have the same.
LEMMA Conversion ==
    ASSUME NEW rs \in Seq(RawInterface),
           \A i, j \in DOMAIN rs : rs[i].index = rs[j].index => i = j
    PROVE  /\ FromSystem(rs) \in Seq(Interface) /\ Len(FromSystem(rs)) = Len(rs)
           /\ \E at \in Bijection(1 .. Len(rs), 1 .. Len(rs)) :
                \A n \in 1 .. Len(rs) : FromSystem(rs)[n] = NewInterface(rs[at[n]])
           /\ \A n, m \in 1 .. Len(rs) :
                n < m => FromSystem(rs)[n].index < FromSystem(rs)[m].index
<1> DEFINE s == [i \in DOMAIN rs |-> NewInterface(rs[i])]
           keys == [i \in DOMAIN s |-> <<s[i].index, s[i].name>>]
           r == StableSort(s, keys)
           D == 1 .. Len(rs)
<1>1. DOMAIN rs = D /\ Len(rs) \in Nat /\ \A i \in D : rs[i] \in RawInterface
  BY LenProperties
<1>2. s \in Seq(Interface) /\ Len(s) = Len(rs) /\ DOMAIN s = D
  <2>1. \A i \in D : NewInterface(rs[i]) \in Interface
    BY <1>1, NewInterfaceType
  <2>2. QED
    BY <1>1, <2>1
<1>3. \A i \in D : s[i] = NewInterface(rs[i])
  BY <1>1
<1>4. r = FromSystem(rs)
  BY DEF FromSystem, Sort
<1>5. \A i \in D : s[i].index = rs[i].index /\ s[i].index \in Int /\ s[i].name \in Int
  <2> HIDE DEF s
  <2>1. \A i \in D : rs[i].index \in Int /\ rs[i].name \in Int
    BY <1>1, RowNumbers
  <2>2. \A i \in D : s[i].index = rs[i].index /\ s[i].name = rs[i].name
    BY <1>1, <1>3, RowNumbers
  <2>3. QED
    BY <2>1, <2>2
<1> HIDE DEF s
<1>6. keys \in [DOMAIN s -> [1 .. 2 -> Int]]
  <2>1. \A i \in D : <<s[i].index, s[i].name>> \in [1 .. 2 -> Int]
    BY <1>5
  <2>2. QED
    BY <1>2, <2>1
<1>7. \A i \in D : keys[i] = <<s[i].index, s[i].name>>
  BY <1>2
<1> HIDE DEF keys
<1>8. r \in Seq(Interface) /\ IsStableSort(r, s, keys)
  <2>1. \A k \in Nat : keys \in [DOMAIN s -> [1 .. k -> Int]] =>
          StableSort(s, keys) \in Seq(Interface) /\ IsStableSort(StableSort(s, keys), s, keys)
    BY <1>2, StableSortSorts
  <2>2. QED
    BY <1>6, <2>1
<1> HIDE DEF r
<1>9. PICK at \in Bijection(D, D) :
        /\ \A n \in D : r[n] = s[at[n]]
        /\ \A n, m \in D : n < m => \/ LexLess(keys[at[n]], keys[at[m]])
                                    \/ keys[at[n]] = keys[at[m]] /\ at[n] < at[m]
  BY <1>2, <1>8 DEF IsStableSort
<1>10. at \in [D -> D]
  BY <1>9 DEF Bijection, Injection
<1>11. ASSUME NEW n \in D, NEW m \in D, n < m
       PROVE  r[n].index < r[m].index
  <2> DEFINE a == at[n]
             b == at[m]
  <2>1. a \in D /\ b \in D
    BY <1>10
  <2>2. r[n].index = s[a].index /\ r[m].index = s[b].index
    BY <1>9
  <2>3. a # b
    <3>1. \A x, y \in D : at[x] = at[y] => x = y
      BY <1>9 DEF Bijection, Injection, IsInjective
    <3>2. n # m
      BY <1>1, <1>11
    <3>3. QED
      BY <3>1, <3>2
  <2>4. s[a].index # s[b].index
    BY <1>1, <1>5, <2>1, <2>3
  <2>5. LexLess(keys[a], keys[b]) \/ keys[a] = keys[b]
    BY <1>9, <1>11
  <2>6. LexLess(<<s[a].index, s[a].name>>, <<s[b].index, s[b].name>>)
    <3> HIDE DEF a, b
    <3>1. keys[a] = <<s[a].index, s[a].name>> /\ keys[b] = <<s[b].index, s[b].name>>
      BY <1>7, <2>1
    <3>2. keys[a][1] # keys[b][1]
      BY <2>4, <3>1
    <3>3. QED
      BY <2>5, <3>1, <3>2
  <2>7. s[a].index < s[b].index
    <3> HIDE DEF a, b
    <3>1. PICK i \in {1, 2} :
            /\ <<s[a].index, s[a].name>>[i] < <<s[b].index, s[b].name>>[i]
            /\ \A j \in 1 .. i - 1 :
                 <<s[a].index, s[a].name>>[j] = <<s[b].index, s[b].name>>[j]
      BY <2>6 DEF LexLess
    <3>2. CASE i = 1
      BY <3>1, <3>2
    <3>3. CASE i = 2
      BY <2>4, <3>1, <3>3
    <3>4. QED
      BY <3>2, <3>3
  <2>8. QED
    BY <2>2, <2>7
<1>12. \A n \in D : r[n] = NewInterface(rs[at[n]])
  BY <1>3, <1>9, <1>10
<1>13. Len(r) = Len(rs)
  BY <1>2, <1>8 DEF IsStableSort
<1>14. QED
  BY <1>4, <1>8, <1>9, <1>11, <1>12, <1>13

(***************************************************************************)
(* Steps.                                                                   *)
(***************************************************************************)
\* The interfaces of the system are links, and finitely many.
LEMMA LinkType ==
    ASSUME NEW n \in Indexes, NEW l \in [Indexes -> Links \cup {NoLink}]
    PROVE  /\ l[n] \in Link
           /\ System(n, l[n]) \in SystemInterface
           /\ l[n].addrs \in Seq(STRING)
<1>1. NoLink \in Link
  BY DEF NoLink, Link, SystemFlags
<1>2. l[n] \in Link
  BY <1>1
<1>3. QED
  BY <1>2 DEF System, SystemInterface, Link

\* Every run begins in the invariant.
LEMMA InitInv == Init => IInv
<1> SUFFICES ASSUME Init PROVE IInv
  OBVIOUS
<1>1. held \in [Indexes -> SUBSET Seq(STRING)]
  BY DEF Init
<1>2. TypeOK
  BY <1>1 DEF Init, TypeOK
<1>3. PictureInv /\ RawsInv /\ ResultInv
  BY DEF Init, PictureInv, RawsInv, ResultInv
<1>4. QED
  BY <1>2, <1>3 DEF IInv

\* The enumeration of the system is a picture of it.
LEMMA ListStep ==
    ASSUME IInv, ListSystem
    PROVE  IInv'
<1> DEFINE P == Present(links)
<1>1. PICK e \in Enumerations(P) : sys' = [i \in DOMAIN e |-> System(e[i], links[e[i]])]
  BY DEF ListSystem
<1>2. /\ listed' = links /\ pc' = "addrs"
      /\ held' = [n \in Indexes |-> {links[n].addrs}]
      /\ UNCHANGED <<links, changes, raws, result, outcome>>
  BY DEF ListSystem
<1>3. pc = "list" /\ raws = <<>> /\ result = <<>> /\ outcome # "listed"
  BY DEF IInv, PictureInv, ResultInv, ListSystem
<1>4. P \subseteq Indexes /\ IsFiniteSet(P) /\ Cardinality(P) \in Nat
  <2>1. P \subseteq Indexes
    BY DEF Present
  <2>2. QED
    BY <2>1, FinitenessAssumption, FS_Subset, FS_CardinalityType
<1> DEFINE N == Cardinality(P)
<1>5. e \in [1 .. N -> P] /\ \A i, j \in 1 .. N : e[i] = e[j] => i = j
  BY <1>1 DEF Enumerations
<1>6. e \in Bijection(1 .. N, P)
  <2>1. e \in Injection(1 .. N, P)
    BY <1>5, Fun_IsInj
  <2>2. Cardinality(1 .. N) = N
    BY <1>4, IntervalCount
  <2>3. e \in Surjection(1 .. N, P)
    BY <1>4, <2>1, <2>2, FS_Injection
  <2>4. QED
    BY <2>1, <2>3 DEF Bijection
<1>7. links \in [Indexes -> Links \cup {NoLink}]
  BY DEF IInv, TypeOK
<1>8. sys' \in Seq(SystemInterface) /\ Len(sys') = N
  <2>1. \A i \in 1 .. N : System(e[i], links[e[i]]) \in SystemInterface
    <3>1. \A i \in 1 .. N : e[i] \in Indexes
      BY <1>4, <1>5
    <3>2. QED
      BY <1>7, <3>1, LinkType
  <2>2. DOMAIN e = 1 .. N
    BY <1>5
  <2>3. QED
    BY <1>1, <1>4, <2>1, <2>2
<1>9. \A i \in 1 .. N : sys'[i] = System(e[i], links[e[i]])
  BY <1>1, <1>5
<1> HIDE DEF N
<1>10. Present(listed)' = P
  BY <1>2 DEF Present
<1> HIDE DEF P
<1>11. held' \in [Indexes -> SUBSET Seq(STRING)]
  <2>1. \A n \in Indexes : links[n].addrs \in Seq(STRING)
    BY <1>7, LinkType
  <2>2. QED
    BY <1>2, <2>1
<1>12. TypeOK'
  BY <1>2, <1>7, <1>8, <1>11 DEF IInv, TypeOK
<1>13. PictureInv'
  <2>1. IsPicture(e)'
    BY <1>2, <1>6, <1>8, <1>9, <1>10 DEF IsPicture
  <2>2. Len(sys') = Cardinality(Present(listed)')
    BY <1>8, <1>10 DEF N
  <2>3. QED
    BY <1>2, <2>1, <2>2 DEF PictureInv
<1>14. RawsInv'
  <2>1. Len(raws') = 0 /\ DOMAIN raws' = {} /\ Len(sys') \in Nat
    BY <1>2, <1>3, <1>4, <1>8 DEF N
  <2>2. QED
    BY <2>1 DEF RawsInv
<1>15. ResultInv'
  BY <1>2, <1>3 DEF ResultInv
<1>16. QED
  BY <1>12, <1>13, <1>14, <1>15 DEF IInv

\* The addresses are added to what is known of the next interface.
LEMMA ReadStep ==
    ASSUME IInv, Pending, NEW addrs \in Seq(STRING), Read(addrs)
    PROVE  IInv'
<1> DEFINE raw == Raw(Subject, addrs)
           k == Len(raws) + 1
<1>1. /\ raws' = Append(raws, raw)
      /\ UNCHANGED <<links, changes, pc, sys, result, outcome, listed, held>>
  BY DEF Read
<1>2. /\ pc = "addrs" /\ Len(raws) < Len(sys)
      /\ sys \in Seq(SystemInterface) /\ raws \in Seq(RawInterface)
  BY DEF Pending, IInv, TypeOK
<1>3. Len(raws) \in Nat /\ Len(sys) \in Nat /\ k \in 1 .. Len(sys)
  BY <1>2, LenProperties
<1>4. Subject = sys[k] /\ Subject \in SystemInterface
  BY <1>2, <1>3 DEF Subject
<1>5. raw \in RawInterface
  BY <1>4 DEF Raw, SystemInterface, RawInterface
<1>6. /\ raw.index = sys[k].index /\ raw.name = sys[k].name
      /\ raw.mac = sys[k].mac /\ raw.flags = sys[k].flags
  BY <1>4 DEF Raw
<1> HIDE DEF raw
<1>7. /\ raws' \in Seq(RawInterface) /\ Len(raws') = k
      /\ \A i \in DOMAIN raws' : \/ i \in DOMAIN raws /\ raws'[i] = raws[i]
                                 \/ i = k /\ raws'[i] = raw
  BY <1>1, <1>2, <1>5, Appended
<1>8. TypeOK'
  BY <1>1, <1>7 DEF IInv, TypeOK
<1>9. PictureInv'
  <2>1. PictureInv
    BY DEF IInv
  <2>2. \A e : IsPicture(e)' = IsPicture(e)
    BY <1>1 DEF IsPicture, Present
  <2>3. Present(listed)' = Present(listed)
    BY <1>1 DEF Present
  <2>4. QED
    BY <1>1, <1>2, <2>1, <2>2, <2>3 DEF PictureInv
<1>10. RawsInv'
  BY <1>1, <1>3, <1>6, <1>7 DEF IInv, RawsInv
<1>11. ResultInv'
  BY <1>1, <1>2 DEF IInv, ResultInv
<1>12. QED
  BY <1>8, <1>9, <1>10, <1>11 DEF IInv

\* No two interfaces of a picture have the same index.
LEMMA DistinctIndexes ==
    ASSUME IInv, pc = "addrs" \/ outcome = "listed"
    PROVE  \A i, j \in DOMAIN raws : raws[i].index = raws[j].index => i = j
<1>1. PICK e : IsPicture(e)
  BY DEF IInv, PictureInv
<1>2. DOMAIN raws \subseteq 1 .. Len(sys)
  BY LenProperties DEF IInv, TypeOK, RawsInv
<1>3. \A i \in DOMAIN raws : raws[i].index = e[i]
  <2>1. \A i \in 1 .. Len(sys) : sys[i].index = e[i]
    <3>1. \A i \in 1 .. Len(sys) : sys[i] = System(e[i], listed[e[i]])
      BY <1>1 DEF IsPicture
    <3>2. \A n, l : System(n, l).index = n
      BY DEF System
    <3>3. QED
      BY <3>1, <3>2
  <2>2. \A i \in DOMAIN raws : raws[i].index = sys[i].index
    BY DEF IInv, RawsInv
  <2>3. QED
    BY <1>2, <2>1, <2>2
<1>4. \A i, j \in 1 .. Len(sys) : e[i] = e[j] => i = j
  BY <1>1 DEF IsPicture, Bijection, Injection, IsInjective
<1>5. QED
  BY <1>2, <1>3, <1>4

\* The conversion and the sort keep the invariant.
LEMMA ReturnStep ==
    ASSUME IInv, Return
    PROVE  IInv'
<1>1. /\ pc = "addrs" /\ Len(raws) = Len(sys) /\ result' = Converted
      /\ pc' = "done" /\ outcome' = "listed"
      /\ UNCHANGED <<links, changes, sys, raws, listed, held>>
  BY DEF Return
<1>2. Converted \in Seq(Interface) /\ Converted' = Converted
  <2>1. raws \in Seq(RawInterface)
    BY DEF IInv, TypeOK
  <2>2. QED
    BY <1>1, <2>1, DistinctIndexes, Conversion DEF Converted
<1>3. TypeOK'
  BY <1>1, <1>2 DEF IInv, TypeOK
<1>4. PictureInv'
  <2>1. \A e : IsPicture(e)' = IsPicture(e)
    BY <1>1 DEF IsPicture, Present
  <2>2. Present(listed)' = Present(listed)
    BY <1>1 DEF Present
  <2>3. QED
    BY <1>1, <2>1, <2>2 DEF IInv, PictureInv
<1>5. RawsInv' /\ ResultInv'
  BY <1>1, <1>2 DEF IInv, RawsInv, ResultInv
<1>6. QED
  BY <1>3, <1>4, <1>5 DEF IInv

\* A change of the system touches neither what was read nor what is returned.
LEMMA ChangeStep ==
    ASSUME IInv, LinkChanges
    PROVE  IInv'
<1>1. PICK n \in Indexes, l \in Links \cup {NoLink} :
          /\ links' = [links EXCEPT ![n] = l]
          /\ held' = IF pc = "list" THEN held ELSE [held EXCEPT ![n] = held[n] \cup {l.addrs}]
  BY DEF LinkChanges
<1>2. changes' = changes + 1 /\ UNCHANGED <<pc, sys, raws, result, outcome, listed>>
  BY DEF LinkChanges
<1>3. links' \in [Indexes -> Links \cup {NoLink}]
  BY <1>1 DEF IInv, TypeOK
<1>4. l.addrs \in Seq(STRING)
  <2>1. links'[n] = l
    BY <1>1 DEF IInv, TypeOK
  <2>2. QED
    BY <1>3, <2>1, LinkType
<1>5. held' \in [Indexes -> SUBSET Seq(STRING)]
  BY <1>1, <1>4 DEF IInv, TypeOK
<1>6. TypeOK'
  BY <1>2, <1>3, <1>5 DEF IInv, TypeOK
<1>7. PictureInv' /\ RawsInv' /\ ResultInv'
  <2>1. \A e : IsPicture(e)' = IsPicture(e)
    BY <1>2 DEF IsPicture, Present
  <2>2. Present(listed)' = Present(listed) /\ Converted' = Converted
    BY <1>2 DEF Present, Converted
  <2>3. QED
    BY <1>2, <2>1, <2>2 DEF IInv, PictureInv, RawsInv, ResultInv
<1>8. QED
  BY <1>6, <1>7 DEF IInv

(***************************************************************************)
(* Invariance.                                                              *)
(***************************************************************************)
LEMMA NextInv == IInv /\ [Next]_vars => IInv'
<1> SUFFICES ASSUME IInv, [Next]_vars PROVE IInv'
  OBVIOUS
<1>1. CASE ReadAddrs
  <2>1. Pending /\ Read(links[Subject.index].addrs)
    BY <1>1 DEF ReadAddrs
  <2>2. Subject.index \in Indexes
    <3>1. Len(raws) + 1 \in 1 .. Len(sys) /\ sys \in Seq(SystemInterface)
      BY <2>1, LenProperties DEF Pending, IInv, TypeOK
    <3>2. Subject \in SystemInterface
      BY <3>1 DEF Subject
    <3>3. QED
      BY <3>2 DEF SystemInterface
  <2>3. links[Subject.index].addrs \in Seq(STRING)
    BY <2>2, LinkType DEF IInv, TypeOK
  <2>4. QED
    BY <2>1, <2>3, ReadStep
<1>2. CASE AddrsUnreadable
  <2>1. Pending /\ Read(<<>>)
    BY <1>2 DEF AddrsUnreadable
  <2>2. <<>> \in Seq(STRING)
    OBVIOUS
  <2>3. QED
    BY <2>1, <2>2, ReadStep
<1>3. CASE ListFails
  <2>1. pc = "list" /\ pc' = "done" /\ outcome' = "failed"
        /\ UNCHANGED <<links, changes, sys, raws, result, listed, held>>
    BY <1>3 DEF ListFails
  <2>2. result = <<>>
    BY <2>1 DEF IInv, ResultInv
  <2>3. QED
    BY <2>1, <2>2 DEF IInv, TypeOK, PictureInv, RawsInv, ResultInv
<1>4. CASE UNCHANGED vars
  <2>1. \A e : IsPicture(e)' = IsPicture(e)
    BY <1>4 DEF vars, IsPicture, Present
  <2>2. Present(listed)' = Present(listed) /\ Converted' = Converted
    BY <1>4 DEF vars, Present, Converted
  <2>3. QED
    BY <1>4, <2>1, <2>2 DEF vars, IInv, TypeOK, PictureInv, RawsInv, ResultInv
<1>5. CASE ListSystem \/ Return \/ LinkChanges
  BY <1>5, ListStep, ReturnStep, ChangeStep
<1>6. QED
  BY <1>1, <1>2, <1>3, <1>4, <1>5 DEF Next, Program, Finished

\* The inductive invariant holds in every state of every run.
THEOREM Invariance == Spec => []IInv
  BY InitInv, NextInv, PTL DEF Spec

\* What List returns are interfaces, with flags that are shown and addresses that can be
\* parsed.
THEOREM TypeCorrect == Spec => []TypeOK
<1>1. IInv => TypeOK
  BY DEF IInv
<1>2. QED
  BY <1>1, Invariance, PTL

\* The rows of a listing are the interfaces that existed when it began, each once and as
\* it was then.
THEOREM OnePicture == Spec => []EveryInterfaceOnce
<1>1. IInv => EveryInterfaceOnce
  <2> SUFFICES ASSUME IInv, outcome = "listed" PROVE EveryInterfaceOnce
    BY DEF EveryInterfaceOnce
  <2> DEFINE D == 1 .. Len(sys)
             P == Present(listed)
  <2>1. /\ raws \in Seq(RawInterface) /\ Len(raws) = Len(sys)
        /\ DOMAIN raws = D /\ Len(sys) \in Nat /\ Len(sys) = Cardinality(P)
        /\ result = FromSystem(raws)
    BY LenProperties DEF IInv, TypeOK, ResultInv, PictureInv, Converted
  <2>2. /\ result \in Seq(Interface) /\ Len(result) = Len(sys)
        /\ \E at \in Bijection(D, D) : \A n \in D : result[n] = NewInterface(raws[at[n]])
    BY <2>1, DistinctIndexes, Conversion
  <2>3. DOMAIN result = D
    BY <2>1, <2>2, LenProperties
  <2>4. PICK at \in Bijection(D, D) : \A n \in D : result[n] = NewInterface(raws[at[n]])
    BY <2>2
  <2>5. PICK e : IsPicture(e)
    BY DEF IInv, PictureInv
  <2>6. e \in [D -> P] /\ \A n \in P : \E i \in D : e[i] = n
    BY <2>5 DEF IsPicture, Bijection, Injection, Surjection
  <2>7. at \in [D -> D] /\ \A i \in D : \E n \in D : at[n] = i
    BY <2>4 DEF Bijection, Injection, Surjection
  <2>8. \A i \in D : /\ raws[i].index = e[i]
                     /\ raws[i].name = listed[e[i]].name
                     /\ raws[i].mac = listed[e[i]].mac
                     /\ raws[i].flags = listed[e[i]].flags
    BY <2>1, <2>5 DEF IInv, RawsInv, IsPicture, System
  <2>9. \A n \in D : /\ result[n].index = e[at[n]]
                     /\ result[n].name = listed[e[at[n]]].name
                     /\ result[n].mac = FormatHardwareAddr(listed[e[at[n]]].mac)
                     /\ result[n].flags = listed[e[at[n]]].flags \cap ShownFlags
    <3> TAKE n \in D
    <3> DEFINE i == at[n]
    <3>1. i \in D
      BY <2>7
    <3>2. /\ raws[i].index = e[i] /\ raws[i].name = listed[e[i]].name
          /\ raws[i].mac = listed[e[i]].mac /\ raws[i].flags = listed[e[i]].flags
      BY <2>8, <3>1
    <3>3. result[n] = NewInterface(raws[i])
      BY <2>4
    <3> HIDE DEF i
    <3>4. /\ result[n].index = e[i] /\ result[n].name = listed[e[i]].name
          /\ result[n].mac = FormatHardwareAddr(listed[e[i]].mac)
          /\ result[n].flags = listed[e[i]].flags \cap ShownFlags
      BY <3>2, <3>3 DEF NewInterface
    <3>5. QED
      BY <3>4 DEF i
  <2>10. {result[n].index : n \in D} = P
    <3>1. \A n \in D : result[n].index \in P
      BY <2>6, <2>7, <2>9
    <3>2. ASSUME NEW x \in P
          PROVE  \E n \in D : result[n].index = x
      <4>1. PICK i \in D : e[i] = x
        BY <2>6
      <4>2. PICK n \in D : at[n] = i
        BY <2>7
      <4>3. QED
        BY <2>9, <4>1, <4>2
    <3>3. QED
      BY <3>1, <3>2
  <2>11. QED
    BY <2>1, <2>2, <2>3, <2>9, <2>10 DEF EveryInterfaceOnce
<1>2. QED
  BY <1>1, Invariance, PTL

\* The order of a listing is that of the indexes alone.
THEOREM IndexOrder == Spec => []InIndexOrder
<1>1. IInv => InIndexOrder
  <2> SUFFICES ASSUME IInv PROVE InIndexOrder
    OBVIOUS
  <2>1. CASE outcome # "listed"
    BY <2>1 DEF IInv, ResultInv, InIndexOrder
  <2>2. CASE outcome = "listed"
    <3>1. raws \in Seq(RawInterface) /\ result = FromSystem(raws)
      BY <2>2 DEF IInv, TypeOK, ResultInv, Converted
    <3>2. /\ result \in Seq(Interface) /\ Len(result) = Len(raws)
          /\ \A n, m \in 1 .. Len(raws) : n < m => result[n].index < result[m].index
      BY <2>2, <3>1, DistinctIndexes, Conversion
    <3>3. DOMAIN result = 1 .. Len(raws)
      BY <3>2, LenProperties
    <3>4. QED
      BY <3>2, <3>3 DEF InIndexOrder
  <2>3. QED
    BY <2>1, <2>2
<1>2. QED
  BY <1>1, Invariance, PTL

(***************************************************************************)
(* Addresses.                                                               *)
(***************************************************************************)
\* ParseAddresses keeps what can be parsed.
LEMMA ParsedAddresses ==
    ASSUME NEW addrs \in Seq(STRING)
    PROVE  AreParsed(ParseAddresses(addrs), addrs)
<1> DEFINE I == {i \in DOMAIN addrs : addrs[i] \in CIDRs}
           k == Kept(addrs, I)
<1>1. I \in SUBSET DOMAIN addrs /\ ParseAddresses(addrs) = k
  BY DEF ParseAddresses
<1>2. PICK at \in Bijection(1 .. Len(k), I) :
        /\ \A n \in 1 .. Len(k) : k[n] = addrs[at[n]]
        /\ \A n, m \in 1 .. Len(k) : n < m => at[n] < at[m]
  <2> HIDE DEF I
  <2>1. QED
    BY <1>1, KeptElements
<1>3. DOMAIN k = 1 .. Len(k)
  <2>1. k \in Seq(STRING)
    <3> HIDE DEF I
    <3>1. QED
      BY <1>1, KeptElements
  <2>2. QED
    BY <2>1, LenProperties
<1> HIDE DEF k
<1>4. /\ at \in [1 .. Len(k) -> I]
      /\ \A i \in I : \E n \in 1 .. Len(k) : at[n] = i
  BY <1>2 DEF Bijection, Injection, Surjection
<1>5. \A i \in DOMAIN addrs : addrs[i] \in CIDRs => \E n \in DOMAIN k : at[n] = i
  BY <1>3, <1>4
<1>6. AreParsed(k, addrs)
  <2>1. /\ at \in [DOMAIN k -> I]
        /\ \A n \in DOMAIN k : k[n] = addrs[at[n]]
        /\ \A n, m \in DOMAIN k : n < m => at[n] < at[m]
    BY <1>2, <1>3, <1>4
  <2>2. QED
    BY <1>5, <2>1, Zenon DEF AreParsed
<1>7. QED
  BY <1>1, <1>6

\* Every step keeps what was read among what was held.
LEMMA HeldStep ==
    ASSUME IInv, HeldInv, [Next]_vars
    PROVE  HeldInv'
<1>1. /\ links \in [Indexes -> Links \cup {NoLink}] /\ DOMAIN held = Indexes
      /\ raws \in Seq(RawInterface) /\ sys \in Seq(SystemInterface)
  BY DEF IInv, TypeOK
<1>2. CASE ListSystem
  <2>1. /\ pc = "list" /\ pc' = "addrs" /\ held' = [n \in Indexes |-> {links[n].addrs}]
        /\ UNCHANGED <<links, raws, outcome>>
    BY <1>2 DEF ListSystem
  <2>2. DOMAIN raws = {}
    BY <2>1 DEF IInv, PictureInv
  <2>3. QED
    BY <2>1, <2>2 DEF HeldInv
<1>3. ASSUME NEW addrs \in Seq(STRING), Pending, Read(addrs),
             addrs \in held[Subject.index] \cup {<<>>}
      PROVE  HeldInv'
  <2> DEFINE raw == Raw(Subject, addrs)
  <2>1. Subject \in SystemInterface
    <3>1. Len(raws) + 1 \in 1 .. Len(sys)
      BY <1>1, <1>3, LenProperties DEF Pending
    <3>2. QED
      BY <1>1, <3>1 DEF Subject
  <2>2. raw \in RawInterface /\ raw.index = Subject.index /\ raw.addrs = addrs
    BY <2>1 DEF Raw, SystemInterface, RawInterface
  <2>3. raws' = Append(raws, raw) /\ UNCHANGED <<links, pc, outcome, held>>
    BY <1>3 DEF Read
  <2> HIDE DEF raw
  <2>4. \A i \in DOMAIN raws' : \/ i \in DOMAIN raws /\ raws'[i] = raws[i]
                                \/ raws'[i] = raw
    BY <1>1, <2>2, <2>3, Appended
  <2>5. QED
    BY <1>3, <2>2, <2>3, <2>4 DEF HeldInv
<1>4. CASE ReadAddrs
  <2>1. Pending /\ Read(links[Subject.index].addrs)
    BY <1>4 DEF ReadAddrs
  <2>2. Subject.index \in Indexes
    <3>1. Len(raws) + 1 \in 1 .. Len(sys)
      BY <1>1, <2>1, LenProperties DEF Pending
    <3>2. Subject \in SystemInterface
      BY <1>1, <3>1 DEF Subject
    <3>3. QED
      BY <3>2 DEF SystemInterface
  <2>3. links[Subject.index].addrs \in Seq(STRING)
    BY <1>1, <2>2, LinkType
  <2>4. links[Subject.index].addrs \in held[Subject.index]
    BY <2>1, <2>2 DEF Pending, HeldInv
  <2>5. QED
    BY <1>3, <2>1, <2>3, <2>4
<1>5. CASE AddrsUnreadable
  <2>1. Pending /\ Read(<<>>) /\ <<>> \in Seq(STRING)
    BY <1>5 DEF AddrsUnreadable
  <2>2. QED
    BY <1>3, <2>1
<1>6. CASE LinkChanges
  <2>1. PICK n \in Indexes, l \in Links \cup {NoLink} :
          /\ links' = [links EXCEPT ![n] = l]
          /\ held' = IF pc = "list" THEN held ELSE [held EXCEPT ![n] = held[n] \cup {l.addrs}]
    BY <1>6 DEF LinkChanges
  <2>2. UNCHANGED <<pc, raws, outcome>>
    BY <1>6 DEF LinkChanges
  <2>3. \A m \in Indexes : held[m] \subseteq held'[m]
    BY <1>1, <2>1
  <2>4. \A i \in DOMAIN raws : raws[i].index \in Indexes
    <3>1. \A i \in DOMAIN raws : raws[i] \in RawInterface
      BY <1>1, LenProperties
    <3>2. QED
      BY <3>1 DEF RawInterface
  <2>5. pc = "addrs" => \A m \in Indexes : links'[m].addrs \in held'[m]
    BY <1>1, <2>1 DEF HeldInv
  <2>6. \A i \in DOMAIN raws : raws[i].addrs \in held'[raws[i].index] \cup {<<>>}
    BY <2>3, <2>4 DEF HeldInv
  <2>7. QED
    BY <2>2, <2>5, <2>6 DEF HeldInv
<1>7. CASE ListFails \/ Return
  BY <1>7 DEF ListFails, Return, HeldInv
<1>8. CASE UNCHANGED vars
  BY <1>8 DEF vars, HeldInv
<1>9. QED
  BY <1>2, <1>4, <1>5, <1>6, <1>7, <1>8 DEF Next, Program, Finished

\* What is said of the addresses holds in every state of every run.
LEMMA HeldInvariance == Spec => []HeldInv
<1>1. Init => HeldInv
  BY DEF Init, HeldInv
<1>2. QED
  BY <1>1, HeldStep, Invariance, PTL DEF Spec

\* A row is made of an interface of the picture and of addresses that its index had.
LEMMA RowsMade ==
    ASSUME IInv, HeldInv, pc = "addrs" \/ outcome = "listed", Len(raws) = Len(sys),
           NEW i \in DOMAIN Converted
    PROVE  /\ Converted[i].index \in Present(listed)
           /\ \E addrs \in held[Converted[i].index] \cup {<<>>} :
                LET l == listed[Converted[i].index]
                IN  /\ addrs \in Seq(STRING)
                    /\ Converted[i] = NewInterface([index |-> Converted[i].index, name |-> l.name,
                                                    mac |-> l.mac, flags |-> l.flags,
                                                    addrs |-> addrs])
<1>1. /\ raws \in Seq(RawInterface) /\ DOMAIN raws = 1 .. Len(raws) /\ Len(raws) \in Nat
  BY LenProperties DEF IInv, TypeOK
<1>2. /\ Converted \in Seq(Interface) /\ Len(Converted) = Len(raws)
      /\ \E at \in Bijection(1 .. Len(raws), 1 .. Len(raws)) :
           \A n \in 1 .. Len(raws) : Converted[n] = NewInterface(raws[at[n]])
  BY <1>1, DistinctIndexes, Conversion DEF Converted
<1>3. DOMAIN Converted = 1 .. Len(raws)
  BY <1>2, LenProperties
<1>4. PICK j \in DOMAIN raws : Converted[i] = NewInterface(raws[j])
  BY <1>1, <1>2, <1>3 DEF Bijection, Injection
<1>5. PICK e : IsPicture(e)
  BY DEF IInv, PictureInv
<1>6. j \in 1 .. Len(sys)
  BY <1>1
<1>7. e[j] \in Present(listed) /\ sys[j] = System(e[j], listed[e[j]])
  BY <1>5, <1>6 DEF IsPicture, Bijection, Injection
<1>8. /\ raws[j].index = sys[j].index /\ raws[j].name = sys[j].name
      /\ raws[j].mac = sys[j].mac /\ raws[j].flags = sys[j].flags
  BY DEF IInv, RawsInv
<1> DEFINE l == listed[e[j]]
           addrs == raws[j].addrs
<1>9. /\ raws[j].index = e[j] /\ raws[j].name = l.name
      /\ raws[j].mac = l.mac /\ raws[j].flags = l.flags
  BY <1>7, <1>8 DEF System
<1>10. Converted[i].index = e[j]
  BY <1>4, <1>9 DEF NewInterface
<1>11. raws[j] \in RawInterface
  BY <1>1
<1>12. raws[j] = [index |-> e[j], name |-> l.name, mac |-> l.mac, flags |-> l.flags,
                  addrs |-> addrs]
  BY <1>9, <1>11 DEF RawInterface
<1>13. addrs \in Seq(STRING) /\ addrs \in held[e[j]] \cup {<<>>}
  BY <1>9, <1>11 DEF RawInterface, HeldInv
<1>14. QED
  BY <1>4, <1>7, <1>10, <1>12, <1>13

\* The addresses of a row are all those that can be parsed of the ones its index had at one
\* time during the listing, or none: not a mixture of two times, though the interfaces
\* are asked one by one while they change.
THEOREM AddressesReal == Spec => []AddressesWereHeld
<1>1. IInv /\ HeldInv => AddressesWereHeld
  <2> SUFFICES ASSUME IInv, HeldInv, NEW i \in DOMAIN result
               PROVE  \/ result[i].addrs = <<>>
                      \/ \E addrs \in held[result[i].index] : AreParsed(result[i].addrs, addrs)
    BY DEF AddressesWereHeld
  <2>1. CASE outcome # "listed"
    BY <2>1 DEF IInv, ResultInv
  <2>2. CASE outcome = "listed"
    <3>1. result = Converted /\ Len(raws) = Len(sys)
      BY <2>2 DEF IInv, ResultInv
    <3>2. PICK addrs \in held[result[i].index] \cup {<<>>} :
            LET l == listed[result[i].index]
            IN  /\ addrs \in Seq(STRING)
                /\ result[i] = NewInterface([index |-> result[i].index, name |-> l.name,
                                             mac |-> l.mac, flags |-> l.flags,
                                             addrs |-> addrs])
      BY <2>2, <3>1, RowsMade
    <3>3. addrs \in Seq(STRING) /\ result[i].addrs = ParseAddresses(addrs)
      BY <3>2 DEF NewInterface
    <3>4. AreParsed(result[i].addrs, addrs)
      BY <3>3, ParsedAddresses
    <3>5. CASE addrs = <<>>
      <4>1. DOMAIN result[i].addrs = {}
        BY <3>4, <3>5 DEF AreParsed
      <4>2. result[i].addrs \in Seq(CIDRs)
        BY <3>3, ParsedType
      <4>3. \A s \in Seq(CIDRs) : DOMAIN s = {} => s = <<>>
        BY EmptySeq, LenProperties
      <4>4. QED
        BY <4>1, <4>2, <4>3
    <3>6. QED
      BY <3>2, <3>4, <3>5
  <2>3. QED
    BY <2>1, <2>2
<1>2. QED
  BY <1>1, Invariance, HeldInvariance, PTL

(***************************************************************************)
(* The refinement.                                                          *)
(***************************************************************************)
\* What List returns answers with one row for each interface of the picture.
LEMMA ConversionAnswers ==
    ASSUME IInv, HeldInv, pc = "addrs", Len(raws) = Len(sys)
    PROVE  Answers("all", <<listed>>, held, Converted)
<1> DEFINE P == Present(listed)
           D == 1 .. Len(raws)
<1>1. /\ raws \in Seq(RawInterface) /\ DOMAIN raws = D /\ Len(raws) \in Nat
      /\ Len(raws) = Len(sys)
  BY LenProperties DEF IInv, TypeOK
<1>2. /\ Converted \in Seq(Interface) /\ Len(Converted) = Len(raws)
      /\ \E at \in Bijection(D, D) : \A n \in D : Converted[n] = NewInterface(raws[at[n]])
      /\ \A n, m \in D : n < m => Converted[n].index < Converted[m].index
  BY <1>1, DistinctIndexes, Conversion DEF Converted
<1>3. DOMAIN Converted = D
  BY <1>2, LenProperties
<1>4. PICK at \in Bijection(D, D) : \A n \in D : Converted[n] = NewInterface(raws[at[n]])
  BY <1>2
<1>5. at \in [D -> D] /\ \A i \in D : \E n \in D : at[n] = i
  BY <1>4 DEF Bijection, Injection, Surjection
<1>6. PICK e : IsPicture(e)
  BY DEF IInv, PictureInv
<1>7. /\ \A i \in D : e[i] \in P /\ sys[i] = System(e[i], listed[e[i]])
      /\ \A n \in P : \E i \in D : e[i] = n
  BY <1>1, <1>6 DEF IsPicture, Bijection, Injection, Surjection
<1>8. \A n \in D : Converted[n].index = e[at[n]]
  <2>1. \A i \in D : raws[i].index = e[i]
    <3>1. \A i \in D : raws[i].index = sys[i].index
      BY <1>1 DEF IInv, RawsInv
    <3>2. \A n, l : System(n, l).index = n
      BY DEF System
    <3>3. \A i \in D : sys[i].index = e[i]
      BY <1>7, <3>2
    <3>4. QED
      BY <3>1, <3>3
  <2>2. \A raw : NewInterface(raw).index = raw.index
    BY DEF NewInterface
  <2>3. \A n \in D : at[n] \in D
    BY <1>5
  <2> HIDE DEF D
  <2>4. QED
    BY <1>4, <2>1, <2>2, <2>3
<1>9. \A n, m \in D : Converted[n].index = Converted[m].index => n = m
  <2>1. \A n \in D : Converted[n].index \in Int
    <3>1. \A n \in D : Converted[n] \in Interface
      BY <1>2, <1>3, LenProperties
    <3>2. \A n \in D : Converted[n].index \in Indexes
      BY <3>1 DEF Interface
    <3>3. \A x \in Indexes : x \in Int
      BY IndexesAssumption
    <3>4. QED
      BY <3>2, <3>3
  <2>2. QED
    BY <1>1, <1>2, <2>1
<1> DEFINE At(n) == {i \in DOMAIN Converted : Converted[i].index = n}
<1>10. ASSUME NEW n \in Indexes
       PROVE  Cardinality(At(n)) = IF listed[n] = NoLink THEN 0 ELSE 1
  <2>1. CASE n \in P
    <3>1. PICK i \in D : e[i] = n
      BY <1>7, <2>1
    <3>2. PICK m \in D : at[m] = i
      BY <1>5
    <3>3. At(n) = {m}
      BY <1>3, <1>8, <1>9, <3>1, <3>2
    <3>4. listed[n] # NoLink
      BY <2>1 DEF Present
    <3>5. QED
      BY <3>3, <3>4, FS_Singleton
  <2>2. CASE n \notin P
    <3>1. listed[n] = NoLink
      BY <2>2 DEF Present
    <3>2. \A m \in D : Converted[m].index \in P
      <4>1. \A m \in D : at[m] \in D
        BY <1>5
      <4> HIDE DEF D, P
      <4>2. QED
        BY <1>7, <1>8, <4>1
    <3>3. At(n) = {}
      BY <1>3, <2>2, <3>2
    <3>4. QED
      BY <3>1, <3>3, FS_EmptySet
  <2>3. QED
    BY <2>1, <2>2
<1>11. ASSUME NEW i \in DOMAIN Converted
       PROVE  LET l == listed[Converted[i].index]
              IN  \E addrs \in held[Converted[i].index] \cup {<<>>} :
                    Converted[i] = NewInterface([index |-> Converted[i].index, name |-> l.name,
                                                 mac |-> l.mac, flags |-> l.flags,
                                                 addrs |-> addrs])
  BY RowsMade
<1>12. <<listed>>[1] = listed
  OBVIOUS
<1>13. QED
  BY <1>2, <1>3, <1>10, <1>11, <1>12 DEF Answers

\* Each step of List is one of the promise or none of its business.
LEMMA PromiseStep ==
    ASSUME IInv, HeldInv, [Next]_vars
    PROVE  [Promise!Next]_(Promise!vars)
<1> DEFINE Facts == [n \in Indexes |-> links[n].addrs]
           Pictures == IF pc = "list" \/ outcome = "failed" THEN <<>> ELSE <<listed>>
<1>1. (outcome = "none") = (pc # "done")
  BY DEF HeldInv
<1>2. pc = "list" => Pictures = <<>>
  OBVIOUS
<1>3. pc = "addrs" => Pictures = <<listed>> /\ Promise!Complete
  BY <1>1 DEF Promise!Complete
<1>4. pc = "list" => ~Promise!Complete
  BY DEF Promise!Complete
<1>5. CASE ListSystem
  <2>1. /\ pc = "list" /\ pc' = "addrs" /\ listed' = links
        /\ held' = [n \in Indexes |-> {links[n].addrs}]
        /\ UNCHANGED <<links, result, outcome>>
    BY <1>5 DEF ListSystem
  <2>2. outcome = "none" /\ ~Promise!Complete
    BY <1>1, <1>4, <2>1
  <2>3. Pictures = <<>> /\ Pictures' = <<links>>
    BY <1>1, <2>1
  <2>4. Pictures' = Append(Pictures, <<links>>[Len(Pictures) + 1])
    <3>1. <<links>> = Append(<<>>, <<links>>[Len(<<>>) + 1])
      OBVIOUS
    <3> HIDE DEF Pictures
    <3>2. QED
      BY <2>3, <3>1
  <2>5. held' = IF Len(Pictures) + 1 = 1 THEN [n \in Indexes |-> {Facts[n]}] ELSE held
    BY <2>1, <2>3
  <2>6. UNCHANGED <<<<links>>, Facts, result, outcome>>
    BY <2>1
  <2>7. Promise!Take
    BY <2>2, <2>4, <2>5, <2>6 DEF Promise!Take
  <2>8. QED
    BY <2>7 DEF Promise!Next
<1>6. CASE ListFails
  <2>1. /\ pc = "list" /\ pc' = "done" /\ outcome' = "failed"
        /\ UNCHANGED <<links, result, held, listed>>
    BY <1>6 DEF ListFails
  <2>2. outcome = "none" /\ UNCHANGED <<<<links>>, Facts, Pictures>>
    BY <1>1, <2>1
  <2>3. Promise!Refuse
    BY <2>1, <2>2 DEF Promise!Refuse
  <2>4. QED
    BY <2>3 DEF Promise!Next
<1>7. CASE Return
  <2>1. /\ pc = "addrs" /\ Len(raws) = Len(sys) /\ result' = Converted
        /\ pc' = "done" /\ outcome' = "listed"
        /\ UNCHANGED <<links, held, listed>>
    BY <1>7 DEF Return
  <2>2. outcome = "none" /\ Promise!Complete /\ Pictures = <<listed>>
    BY <1>1, <1>3, <2>1
  <2>3. UNCHANGED <<<<links>>, Facts, Pictures, held>>
    BY <1>1, <2>1
  <2>4. Answers("all", Pictures, held, result')
    BY <2>1, <2>2, ConversionAnswers
  <2>5. Promise!Deliver
    BY <2>1, <2>2, <2>3, <2>4 DEF Promise!Deliver
  <2>6. QED
    BY <2>5 DEF Promise!Next
<1>8. ASSUME UNCHANGED <<links, pc, result, outcome, listed, held>>
      PROVE  [Promise!Next]_(Promise!vars)
  <2>1. UNCHANGED <<<<links>>, Facts, Pictures, held, result, outcome>>
    BY <1>8
  <2>2. QED
    BY <2>1 DEF Promise!vars
<1>9. CASE ReadAddrs \/ AddrsUnreadable \/ UNCHANGED vars
  BY <1>8, <1>9 DEF ReadAddrs, AddrsUnreadable, Read, vars
<1>10. CASE LinkChanges
  <2>1. PICK n \in Indexes, l \in Links \cup {NoLink} :
          /\ links' = [links EXCEPT ![n] = l]
          /\ held' = IF pc = "list" THEN held ELSE [held EXCEPT ![n] = held[n] \cup {l.addrs}]
    BY <1>10 DEF LinkChanges
  <2>2. pc # "done" /\ UNCHANGED <<pc, result, outcome, listed>>
    BY <1>10 DEF LinkChanges
  <2>3. /\ links \in [Indexes -> Links \cup {NoLink}] /\ pc \in {"list", "addrs", "done"}
        /\ DOMAIN held = Indexes /\ held = [m \in Indexes |-> held[m]]
    BY DEF IInv, TypeOK
  <2>4. outcome = "none" /\ UNCHANGED Pictures
    BY <1>1, <2>2
  <2>5. CASE pc = "list"
    BY <1>4, <2>1, <2>2, <2>4, <2>5 DEF Promise!Move, Promise!Next
  <2>6. CASE pc = "addrs"
    <3>1. \A m \in Indexes : links[m].addrs \in held[m]
      BY <2>6 DEF HeldInv
    <3>2. held' = [held EXCEPT ![n] = held[n] \cup {l.addrs}]
      BY <2>1, <2>6
    <3>3. \A m \in Indexes : held'[m] = held[m] \cup {links'[m].addrs}
      BY <2>1, <2>3, <3>1, <3>2
    <3>4. held' = [m \in Indexes |-> held'[m]]
      BY <2>3, <3>2
    <3>5. held' = [m \in Indexes |-> held[m] \cup {Facts'[m]}]
      BY <3>3, <3>4
    <3>6. QED
      BY <1>3, <2>2, <2>4, <2>6, <3>5 DEF Promise!Move, Promise!Next
  <2>7. QED
    BY <2>2, <2>3, <2>5, <2>6
<1>11. QED
  BY <1>5, <1>6, <1>7, <1>9, <1>10 DEF Next, Program, Finished

\* List implements the promise of a listing: one picture of the interfaces, one row for each
\* of them in the order of the indexes, addresses that were read since or none at all - or
\* an error and no rows, however interfaces come, go and change while they are asked.
THEOREM ListImplemented == Spec => ImplementsListing
<1>1. Init => Promise!Init
  BY DEF Init, Promise!Init
<1>2. IInv /\ HeldInv /\ [Next]_vars => [Promise!Next]_(Promise!vars)
  BY PromiseStep
<1>3. QED
  BY <1>1, <1>2, Invariance, HeldInvariance, PTL DEF Spec, ImplementsListing, Promise!Safety
=============================================================================
