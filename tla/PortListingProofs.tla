------------------------- MODULE PortListingProofs -------------------------
(***************************************************************************)
(* Proofs about PortListing for every value of its constants: the tables,   *)
(* the processes and how often they change.  The inductive invariant is the *)
(* conjunction of the parts below.                                          *)
(***************************************************************************)
EXTENDS PortRefinement, OrdersProofs

\* How far a listing has come, and how much room the calls of the current table
\* have asked for: each retry was given room for what the table was before.
ReadInv ==
    /\ (outcome = "none") = (pc # "done")
    /\ pc = "read" => kind \in 1 .. Len(Kinds)
    /\ attempt = 0 => size = 0 /\ grown = 0
    /\ pc = "read" /\ attempt > 0 =>
         /\ grown >= attempt - 1
         /\ Needed <= size + (grown - (attempt - 1)) * ApiRowSize[Kinds[kind]]
    /\ outcome = "tooSmall" => grown >= Attempts - 1

\* A port has the name in the cache.
CacheInv ==
    \A i \in DOMAIN out : out[i].pid \in DOMAIN cache /\ out[i].process = cache[out[i].pid]

\* Nothing is looked up before the last table is read, and every name the run has got
\* hold of belonged to its process ID since then.
HeldInv ==
    /\ pc \in {"name", "query"} => \A p \in Pids : image[p] \in held[p]
    /\ pc = "read" => DOMAIN cache = {}
    /\ \A p \in DOMAIN cache : cache[p] # "" => cache[p] \in held[p]
    /\ pc = "query" => /\ Len(out) < Len(records)
                       /\ Next1.pid \notin DOMAIN cache
                       /\ handle \in held[Next1.pid]

\* The records are the sockets of the tables read so far, and the ports are records.
PictureInv ==
    /\ Len(seen) = kind - 1
    /\ pc \in {"name", "query"} \/ outcome = "listed" => kind = Len(Kinds) + 1
    /\ \A rec \in Record :
         /\ IsFiniteSet(Sightings(rec))
         /\ Cardinality(Places(records, {rec})) = Cardinality(Sightings(rec))
    /\ Len(out) <= Len(records)
    /\ \A i \in DOMAIN out : Bare(out[i]) = records[i]

\* What is printed is complete, and the connections are in the order of their keys.
ShownInv == ConnectionsInOneOrder /\ EverySocketOnce

IInv == TypeOK /\ ReadInv /\ CacheInv /\ HeldInv /\ PictureInv /\ ShownInv

(***************************************************************************)
(* Tables, records and the printed selection.                               *)
(***************************************************************************)

\* A table with one more row.
LEMMA Insertion ==
    ASSUME NEW S, NEW t \in Seq(S), NEW x \in S, NEW i \in 0 .. Len(t)
    PROVE  /\ SubSeq(t, 1, i) \o <<x>> \o SubSeq(t, i + 1, Len(t)) \in Seq(S)
           /\ Len(SubSeq(t, 1, i) \o <<x>> \o SubSeq(t, i + 1, Len(t))) = Len(t) + 1
<1> DEFINE a == SubSeq(t, 1, i)
           b == SubSeq(t, i + 1, Len(t))
           c == a \o <<x>>
<1>1. Len(t) \in Nat
  BY LenProperties
<1>2. a \in Seq(S) /\ Len(a) = i
  BY <1>1, SubSeqProperties
<1>3. b \in Seq(S) /\ Len(b) = Len(t) - i
  BY <1>1, SubSeqProperties
<1>4. <<x>> \in Seq(S) /\ Len(<<x>>) = 1
  OBVIOUS
<1> HIDE DEF a, b
<1>5. c \in Seq(S) /\ Len(c) = i + 1
  BY <1>2, <1>4, ConcatProperties
<1> HIDE DEF c
<1>6. c \o b \in Seq(S) /\ Len(c \o b) = Len(c) + Len(b)
  BY <1>3, <1>5, ConcatProperties
<1>7. Len(c \o b) = Len(t) + 1
  BY <1>1, <1>3, <1>5, <1>6
<1>8. QED
  BY <1>6, <1>7 DEF a, b, c

\* A table without one of its rows.
LEMMA Removal ==
    ASSUME NEW S, NEW t \in Seq(S), NEW i \in DOMAIN t
    PROVE  /\ SubSeq(t, 1, i - 1) \o SubSeq(t, i + 1, Len(t)) \in Seq(S)
           /\ Len(SubSeq(t, 1, i - 1) \o SubSeq(t, i + 1, Len(t))) = Len(t) - 1
<1> DEFINE a == SubSeq(t, 1, i - 1)
           b == SubSeq(t, i + 1, Len(t))
<1>1. Len(t) \in Nat /\ i \in 1 .. Len(t)
  BY LenProperties
<1>2. a \in Seq(S) /\ Len(a) = i - 1
  BY <1>1, SubSeqProperties
<1>3. b \in Seq(S) /\ Len(b) = Len(t) - i
  BY <1>1, SubSeqProperties
<1> HIDE DEF a, b
<1>4. a \o b \in Seq(S) /\ Len(a \o b) = Len(a) + Len(b)
  BY <1>2, <1>3, ConcatProperties
<1>5. Len(a \o b) = Len(t) - 1
  BY <1>1, <1>2, <1>3, <1>4
<1>6. QED
  BY <1>4, <1>5 DEF a, b

\* A row that can be represented becomes a Record.
LEMMA ConvertType ==
    ASSUME NEW k, NEW row \in RowType, Representable(k, row)
    PROVE  Convert(k, row) \in Record
<1>1. /\ row.lip \in Nat /\ row.lport \in Nat /\ row.rip \in Nat /\ row.rport \in Nat
      /\ row.pid \in Pids
  BY DEF RowType
<1>2. \A w \in Nat : Port16(w) \in PortNumber
  <2>1. PortCount \in Nat \ {0}
    BY DEF PortCount
  <2>2. \A n \in Nat \ {0} : \A w \in Nat : w % n \in 0 .. n - 1
    OBVIOUS
  <2>3. QED
    BY <2>1, <2>2 DEF Port16, PortNumber
<1>3. Port16(row.lport) \in PortNumber /\ Port16(row.rport) \in PortNumber
  BY <1>1, <1>2
<1>4. CASE k \in TcpKinds
  <2>1. row.state \in 0 .. 12
    BY <1>4 DEF Representable, StateDeleteTCB
  <2>2. QED
    BY <1>1, <1>3, <1>4, <2>1 DEF Convert, Record, TCP, UDP, StateNone, StateDeleteTCB
<1>5. CASE k \notin TcpKinds
  <2>1. 0 \in PortNumber
    BY DEF PortNumber, PortCount
  <2>2. QED
    BY <2>1, <1>1, <1>3, <1>5 DEF Convert, Record, TCP, UDP, StateNone, StateDeleteTCB
<1>6. QED
  BY <1>4, <1>5

\* What is read of a table are Records.
LEMMA DecodeType ==
    ASSUME NEW t \in Seq(RowType)
    PROVE  Decode(t) \in Seq(Record)
<1> DEFINE k == Kinds[kind]
           I == {i \in DOMAIN t : /\ i * RowSize[k] <= size - HeaderSize
                                  /\ Representable(k, t[i])}
           kept == Kept(t, I)
<1>1. I \in SUBSET DOMAIN t /\ \A i \in I : Representable(k, t[i])
  OBVIOUS
<1>2. Decode(t) = [n \in DOMAIN kept |-> Convert(k, kept[n])]
  BY DEF Decode
<1> HIDE DEF I, k
<1>3. /\ kept \in Seq(RowType)
      /\ \E at \in Bijection(1 .. Len(kept), I) :
           \A n \in 1 .. Len(kept) : kept[n] = t[at[n]]
  BY <1>1, KeptElements
<1> HIDE DEF kept
<1>4. PICK at \in [1 .. Len(kept) -> I] : \A n \in 1 .. Len(kept) : kept[n] = t[at[n]]
  BY <1>3 DEF Bijection, Injection
<1>5. DOMAIN kept = 1 .. Len(kept) /\ Len(kept) \in Nat /\ kept \in [1 .. Len(kept) -> RowType]
  BY <1>3, LenProperties
<1>6. \A n \in 1 .. Len(kept) : Representable(k, kept[n])
  BY <1>1, <1>4
<1>7. \A n \in 1 .. Len(kept) : Convert(k, kept[n]) \in Record
  BY <1>5, <1>6, ConvertType
<1>8. QED
  BY <1>2, <1>5, <1>7

\* The keys of ports are tuples of numbers.
LEMMA KeyTypes ==
    ASSUME NEW p \in Port
    PROVE  PortKey(p) \in [1 .. 6 -> Int] /\ ConnectionKey(p) \in [1 .. 7 -> Int]
<1>1. p.lport \in PortNumber /\ p.rport \in PortNumber /\ p.pid \in Pids
  BY DEF Port
<1>2. p.lport \in Int /\ p.rport \in Int /\ p.pid \in Int
  <2>1. PortCount \in Int
    BY DEF PortCount
  <2>2. PortNumber \subseteq Int
    BY <2>1 DEF PortNumber
  <2>3. Pids \subseteq Int
    BY PidsAssumption
  <2>4. QED
    BY <1>1, <2>2, <2>3
<1>3. p.protocol \in Int /\ p.lip \in Int /\ p.rip \in Int /\ p.state \in Int
  <2>1. p.protocol \in {TCP, UDP} /\ p.lip \in Nat /\ p.rip \in Nat
    BY DEF Port
  <2>2. p.state \in StateNone .. StateDeleteTCB
    BY DEF Port
  <2>3. QED
    BY <2>1, <2>2 DEF TCP, UDP, StateNone, StateDeleteTCB
<1>4. QED
  BY <1>2, <1>3 DEF PortKey, ConnectionKey

\* Ports of one process ID have one name.
OneNameEach(s) == \A i, j \in DOMAIN s : s[i].pid = s[j].pid => s[i].process = s[j].process

\* Rows that differ stand in the order of connections.Sort.
InOrder(s) == \A i, j \in DOMAIN s :
    i < j => s[i] = s[j] \/ LexLess(ConnectionKey(s[i]), ConnectionKey(s[j]))

\* A filter keeps the type, the agreement on names and the order of a listing.
LEMMA FilterKeeps ==
    ASSUME NEW s \in Seq(Port), NEW I \in SUBSET DOMAIN s
    PROVE  /\ Kept(s, I) \in Seq(Port)
           /\ OneNameEach(s) => OneNameEach(Kept(s, I))
           /\ InOrder(s) => InOrder(Kept(s, I))
<1> DEFINE k == Kept(s, I)
<1>1. PICK at \in Bijection(1 .. Len(k), I) :
        /\ \A n \in 1 .. Len(k) : k[n] = s[at[n]]
        /\ \A n, m \in 1 .. Len(k) : n < m => at[n] < at[m]
  BY KeptElements
<1>2. k \in Seq(Port)
  BY KeptElements
<1> HIDE DEF k
<1>3. at \in [1 .. Len(k) -> I]
  BY DEF Bijection, Injection
<1>4. DOMAIN k = 1 .. Len(k)
  BY <1>2, LenProperties
<1>5. \A n \in DOMAIN k : at[n] \in DOMAIN s /\ k[n] = s[at[n]]
  BY <1>1, <1>3, <1>4
<1>6. OneNameEach(s) => OneNameEach(k)
  BY <1>5 DEF OneNameEach
<1>7. InOrder(s) => InOrder(k)
  BY <1>1, <1>4, <1>5 DEF InOrder
<1>8. QED
  BY <1>2, <1>6, <1>7 DEF k

\* SortPorts keeps the type and the agreement on names.
LEMMA SortPortsKeeps ==
    ASSUME NEW s \in Seq(Port)
    PROVE  /\ SortPorts(s) \in Seq(Port)
           /\ OneNameEach(s) => OneNameEach(SortPorts(s))
<1> DEFINE keys == [i \in DOMAIN s |-> PortKey(s[i])]
           r == StableSort(s, keys)
<1>1. DOMAIN s = 1 .. Len(s) /\ s \in [1 .. Len(s) -> Port]
  BY LenProperties
<1>2. \A i \in DOMAIN s : PortKey(s[i]) \in [1 .. 6 -> Int]
  BY <1>1, KeyTypes
<1>3. keys \in [DOMAIN s -> [1 .. 6 -> Int]]
  BY <1>2
<1>4. r = SortPorts(s)
  BY DEF SortPorts
<1> HIDE DEF keys
<1>5. r \in Seq(Port) /\ IsStableSort(r, s, keys)
  <2>1. \A k \in Nat : keys \in [DOMAIN s -> [1 .. k -> Int]] =>
          StableSort(s, keys) \in Seq(Port) /\ IsStableSort(StableSort(s, keys), s, keys)
    BY StableSortSorts
  <2>2. QED
    BY <1>3, <2>1
<1> HIDE DEF r
<1>6. PICK at \in [DOMAIN s -> DOMAIN s] : \A n \in DOMAIN s : r[n] = s[at[n]]
  BY <1>5 DEF IsStableSort, Bijection, Injection
<1>7. DOMAIN r = DOMAIN s
  BY <1>1, <1>5, LenProperties DEF IsStableSort
<1>8. OneNameEach(s) => OneNameEach(r)
  BY <1>6, <1>7 DEF OneNameEach
<1>9. QED
  BY <1>4, <1>5, <1>8

\* Ports whose keys are equal and whose names agree are the same.
LEMMA SameConnection ==
    ASSUME NEW p \in Port, NEW q \in Port, ConnectionKey(p) = ConnectionKey(q),
           p.process = q.process
    PROVE  p = q
<1>1. /\ p.protocol = q.protocol /\ p.lip = q.lip /\ p.lport = q.lport /\ p.rip = q.rip
      /\ p.rport = q.rport /\ p.state = q.state /\ p.pid = q.pid
  BY DEF ConnectionKey
<1> DEFINE A == {TCP, UDP}
           B == StateNone .. StateDeleteTCB
           C == Names \cup {""}
<1>2. Port = [protocol : A, lip : Nat, lport : PortNumber, rip : Nat,
              rport : PortNumber, state : B, pid : Pids, process : C]
  BY DEF Port
<1> HIDE DEF A, B, C
<1>3. QED
  BY <1>1, <1>2

\* SortConnections makes one order of a listing in which the names agree.
LEMMA SortConnectionsOrders ==
    ASSUME NEW s \in Seq(Port), OneNameEach(s)
    PROVE  SortConnections(s) \in Seq(Port) /\ InOrder(SortConnections(s))
<1> DEFINE keys == [i \in DOMAIN s |-> ConnectionKey(s[i])]
           r == StableSort(s, keys)
<1>1. DOMAIN s = 1 .. Len(s) /\ s \in [1 .. Len(s) -> Port]
  BY LenProperties
<1>2. \A i \in DOMAIN s : ConnectionKey(s[i]) \in [1 .. 7 -> Int]
  BY <1>1, KeyTypes
<1>3. keys \in [DOMAIN s -> [1 .. 7 -> Int]]
  BY <1>2
<1>4. r = SortConnections(s)
  BY DEF SortConnections
<1>5. \A i \in DOMAIN s : keys[i] = ConnectionKey(s[i])
  OBVIOUS
<1> HIDE DEF keys
<1>6. r \in Seq(Port) /\ IsStableSort(r, s, keys)
  <2>1. \A k \in Nat : keys \in [DOMAIN s -> [1 .. k -> Int]] =>
          StableSort(s, keys) \in Seq(Port) /\ IsStableSort(StableSort(s, keys), s, keys)
    BY StableSortSorts
  <2>2. QED
    BY <1>3, <2>1
<1> HIDE DEF r
<1>7. PICK at \in [DOMAIN s -> DOMAIN s] :
        /\ \A n \in DOMAIN s : r[n] = s[at[n]]
        /\ \A n, m \in DOMAIN s : n < m =>
             LexLess(keys[at[n]], keys[at[m]]) \/ keys[at[n]] = keys[at[m]]
  BY <1>6 DEF IsStableSort, Bijection, Injection
<1>8. DOMAIN r = DOMAIN s
  BY <1>1, <1>6, LenProperties DEF IsStableSort
<1>9. ASSUME NEW n \in DOMAIN r, NEW m \in DOMAIN r, n < m
      PROVE  r[n] = r[m] \/ LexLess(ConnectionKey(r[n]), ConnectionKey(r[m]))
  <2>1. /\ r[n] = s[at[n]] /\ r[m] = s[at[m]]
        /\ keys[at[n]] = ConnectionKey(r[n]) /\ keys[at[m]] = ConnectionKey(r[m])
        /\ r[n] \in Port /\ r[m] \in Port
    BY <1>1, <1>5, <1>7, <1>8
  <2>2. CASE keys[at[n]] = keys[at[m]]
    <3>1. r[n].pid = r[m].pid
      BY <2>1, <2>2 DEF ConnectionKey
    <3>2. r[n].process = r[m].process
      BY <3>1, <2>1, <1>7, <1>8 DEF OneNameEach
    <3>3. QED
      BY <2>1, <2>2, <3>2, SameConnection
  <2>3. CASE LexLess(keys[at[n]], keys[at[m]])
    BY <2>1, <2>3
  <2>4. QED
    BY <1>7, <1>8, <1>9, <2>2, <2>3
<1>10. QED
  BY <1>4, <1>6, <1>9 DEF InOrder

\* What a command prints is a listing, and that of the connections in one order.
LEMMA SelectedProperties ==
    ASSUME out \in Seq(Port), OneNameEach(out)
    PROVE  /\ Selected \in Seq(Port)
           /\ CountUnknown(Selected) \in Nat
           /\ command = "connections" => InOrder(Selected)
<1> DEFINE sorted == SortPorts(out)
           remote == OnlyWithRemote(sorted)
           conns == SortConnections(remote)
<1>1. sorted \in Seq(Port) /\ OneNameEach(sorted)
  BY SortPortsKeeps
<1> HIDE DEF sorted
<1>2. remote \in Seq(Port) /\ OneNameEach(remote)
  BY <1>1, FilterKeeps DEF OnlyWithRemote
<1> HIDE DEF remote
<1>3. conns \in Seq(Port) /\ InOrder(conns)
  BY <1>2, SortConnectionsOrders
<1> HIDE DEF conns
<1>4. \A f : Apply(sorted, f) \in Seq(Port)
  BY <1>1, FilterKeeps DEF Apply
<1>5. \A f : Apply(conns, f) \in Seq(Port) /\ InOrder(Apply(conns, f))
  BY <1>3, FilterKeeps DEF Apply
<1>6. Selected = IF command = "ports" THEN Apply(sorted, filter)
                 ELSE Apply(conns, [filter EXCEPT !.remoteOnly = TRUE])
  BY DEF Selected, sorted, remote, conns, Connections
<1>7. Selected \in Seq(Port) /\ (command = "connections" => InOrder(Selected))
  BY <1>4, <1>5, <1>6
<1>8. CountUnknown(Selected) \in Nat
  <2> DEFINE n == Len(Selected)
             U == {i \in DOMAIN Selected : Selected[i].process = ""}
  <2>1. n \in Nat /\ DOMAIN Selected = 1 .. n
    BY <1>7, LenProperties
  <2>2. IsFiniteSet(1 .. n)
    BY <2>1, IntervalCount
  <2>3. IsFiniteSet(U)
    BY <2>1, <2>2, FS_Subset
  <2>4. Cardinality(U) \in Nat
    BY <2>3, FS_CardinalityType
  <2>5. QED
    BY <2>4 DEF CountUnknown
<1>9. QED
  BY <1>7, <1>8

(***************************************************************************)
(* Counting sockets.                                                        *)
(***************************************************************************)
\* A port that the command asks for.
Asked(p) == Match(filter, p) /\ (command = "connections" => HasRemote(p) /\ p.state # StateListen)

\* A filter keeps each port it matches as often as the listing has it.
LEMMA ApplyPlaces ==
    ASSUME NEW s \in Seq(Port), NEW f, NEW X
    PROVE  /\ Apply(s, f) \in Seq(Port)
           /\ Cardinality(Places(Apply(s, f), X))
                = Cardinality(Places(s, {p \in X : Match(f, p)}))
<1> DEFINE I == {i \in DOMAIN s : Match(f, s[i])}
<1>1. Apply(s, f) = Kept(s, I) /\ I \in SUBSET DOMAIN s
  BY DEF Apply
<1>2. {i \in I : s[i] \in X} = Places(s, {p \in X : Match(f, p)})
  BY DEF Places
<1> HIDE DEF I
<1>3. QED
  BY <1>1, <1>2, KeptPlaces, KeptElements

\* So does the selection of those with a remote end.
LEMMA RemotePlaces ==
    ASSUME NEW s \in Seq(Port), NEW X
    PROVE  /\ OnlyWithRemote(s) \in Seq(Port)
           /\ Cardinality(Places(OnlyWithRemote(s), X))
                = Cardinality(Places(s, {p \in X : HasRemote(p) /\ p.state # StateListen}))
<1> DEFINE I == {i \in DOMAIN s : HasRemote(s[i]) /\ s[i].state # StateListen}
<1>1. OnlyWithRemote(s) = Kept(s, I) /\ I \in SUBSET DOMAIN s
  BY DEF OnlyWithRemote
<1>2. {i \in I : s[i] \in X} = Places(s, {p \in X : HasRemote(p) /\ p.state # StateListen})
  BY DEF Places
<1> HIDE DEF I
<1>3. QED
  BY <1>1, <1>2, KeptPlaces, KeptElements

\* The two sorts are stable sorts, and keep every port as often as it was there.
LEMMA SortsSort ==
    ASSUME NEW s \in Seq(Port), NEW X
    PROVE  /\ SortPorts(s) \in Seq(Port)
           /\ IsStableSort(SortPorts(s), s, [i \in DOMAIN s |-> PortKey(s[i])])
           /\ Cardinality(Places(SortPorts(s), X)) = Cardinality(Places(s, X))
           /\ SortConnections(s) \in Seq(Port)
           /\ IsStableSort(SortConnections(s), s, [i \in DOMAIN s |-> ConnectionKey(s[i])])
           /\ Cardinality(Places(SortConnections(s), X)) = Cardinality(Places(s, X))
<1> DEFINE pk == [i \in DOMAIN s |-> PortKey(s[i])]
           ck == [i \in DOMAIN s |-> ConnectionKey(s[i])]
<1>1. \A i \in DOMAIN s : s[i] \in Port
  BY LenProperties
<1>2. pk \in [DOMAIN s -> [1 .. 6 -> Int]] /\ ck \in [DOMAIN s -> [1 .. 7 -> Int]]
  BY <1>1, KeyTypes
<1>3. SortPorts(s) = StableSort(s, pk) /\ SortConnections(s) = StableSort(s, ck)
  BY DEF SortPorts, SortConnections
<1> HIDE DEF pk, ck
<1>4. \A k \in Nat : \A keys : keys \in [DOMAIN s -> [1 .. k -> Int]] =>
        StableSort(s, keys) \in Seq(Port) /\ IsStableSort(StableSort(s, keys), s, keys)
  BY StableSortSorts
<1>5. /\ SortPorts(s) \in Seq(Port) /\ IsStableSort(SortPorts(s), s, pk)
      /\ SortConnections(s) \in Seq(Port) /\ IsStableSort(SortConnections(s), s, ck)
  BY <1>2, <1>3, <1>4
<1>6. QED
  BY <1>5, SortPlaces DEF pk, ck

\* A command prints each port it asks for as often as it was listed, and no other.
LEMMA SelectedPlaces ==
    ASSUME out \in Seq(Port), filter \in FilterType, command \in {"ports", "connections"},
           NEW X
    PROVE  Cardinality(Places(Selected, X)) = Cardinality(Places(out, {p \in X : Asked(p)}))
<1> DEFINE sorted == SortPorts(out)
           remote == OnlyWithRemote(sorted)
           conns == SortConnections(remote)
           strict == [filter EXCEPT !.remoteOnly = TRUE]
           M == {p \in X : Match(strict, p)}
           R == {p \in M : HasRemote(p) /\ p.state # StateListen}
           F == {p \in X : Match(filter, p)}
<1>1. sorted \in Seq(Port) /\ remote \in Seq(Port) /\ conns \in Seq(Port)
  BY SortsSort, RemotePlaces
<1>2. CASE command = "ports"
  <2>1. Selected = Apply(sorted, filter)
    BY <1>2 DEF Selected
  <2>2. {p \in X : Asked(p)} = F
    BY <1>2 DEF Asked
  <2> HIDE DEF F, sorted
  <2>3. Cardinality(Places(Apply(sorted, filter), X)) = Cardinality(Places(sorted, F))
    BY <1>1, ApplyPlaces DEF F
  <2>4. Cardinality(Places(sorted, F)) = Cardinality(Places(out, F))
    BY SortsSort DEF sorted
  <2>5. QED
    BY <2>1, <2>2, <2>3, <2>4
<1>3. CASE command = "connections"
  <2>1. Selected = Apply(conns, strict)
    BY <1>3 DEF Selected, Connections
  <2>2. {p \in X : Asked(p)} = R
    <3>1. /\ strict.protocol = filter.protocol /\ strict.lport = filter.lport
          /\ strict.pid = filter.pid /\ strict.process = filter.process
          /\ strict.state = filter.state /\ strict.rport = filter.rport
          /\ strict.remoteOnly
      <4> DEFINE A == {0, TCP, UDP}
                 B == StateNone .. StateDeleteTCB
                 C == SUBSET (Names \cup {""})
      <4>1. FilterType = [protocol : A, lport : PortNumber, pid : Nat, process : C, state : B,
                          remoteOnly : BOOLEAN, rport : PortNumber]
        BY DEF FilterType
      <4> HIDE DEF A, B, C
      <4>2. QED
        BY <4>1
    <3> HIDE DEF strict
    <3>2. ASSUME NEW p PROVE Asked(p) <=> Match(strict, p) /\ HasRemote(p) /\ p.state # StateListen
      BY <1>3, <3>1 DEF Asked, Match
    <3>3. QED
      BY <3>2
  <2> HIDE DEF M, R, F, strict, conns, remote, sorted
  <2>3. Cardinality(Places(Apply(conns, strict), X)) = Cardinality(Places(conns, M))
    BY <1>1, ApplyPlaces DEF M
  <2>4. Cardinality(Places(conns, M)) = Cardinality(Places(remote, M))
    BY <1>1, SortsSort DEF conns
  <2>5. Cardinality(Places(remote, M)) = Cardinality(Places(sorted, R))
    BY <1>1, RemotePlaces DEF remote, R
  <2>6. Cardinality(Places(sorted, R)) = Cardinality(Places(out, R))
    BY SortsSort DEF sorted
  <2>7. QED
    BY <2>1, <2>2, <2>3, <2>4, <2>5, <2>6
<1>4. QED
  BY <1>2, <1>3

\* With room for all its rows a table is decoded completely: each record is there as
\* often as a row that can be represented is converted to it.
LEMMA DecodePlaces ==
    ASSUME NEW t \in Seq(RowType), Kinds[kind] \in KindSet, size \in Nat,
           size >= HeaderSize + Len(t) * ApiRowSize[Kinds[kind]], NEW rec
    PROVE  Cardinality(Places(Decode(t), {rec})) =
             Cardinality({i \in DOMAIN t : /\ Representable(Kinds[kind], t[i])
                                           /\ Convert(Kinds[kind], t[i]) = rec})
<1> DEFINE k == Kinds[kind]
           I == {i \in DOMAIN t : /\ i * RowSize[k] <= size - HeaderSize
                                  /\ Representable(k, t[i])}
           X == {row \in RowType : Convert(k, row) = rec}
           kept == Kept(t, I)
<1>1. /\ Len(t) \in Nat /\ DOMAIN t = 1 .. Len(t)
      /\ \A i \in DOMAIN t : t[i] \in RowType
  BY LenProperties
<1>2. \A i \in DOMAIN t : i * RowSize[k] <= size - HeaderSize
  <2>1. \A n \in Nat : \A i \in 1 .. n : /\ i * 24 <= n * 24 /\ i * 56 <= n * 56
                                         /\ i * 12 <= n * 12 /\ i * 28 <= n * 28
    OBVIOUS
  <2>2. RowSize[k] = ApiRowSize[k] /\ RowSize[k] \in {24, 56, 12, 28}
    <3>1. k \in {"TCP4", "TCP6", "UDP4", "UDP6"}
      BY DEF KindSet, Kinds
    <3> HIDE DEF k
    <3>2. QED
      BY <3>1 DEF RowSize, ApiRowSize
  <2>3. ASSUME NEW i \in DOMAIN t PROVE i * RowSize[k] <= Len(t) * RowSize[k]
    BY <1>1, <2>1, <2>2
  <2>4. Len(t) * RowSize[k] <= size - HeaderSize
    BY <1>1, <2>2 DEF HeaderSize
  <2>5. QED
    BY <1>1, <2>2, <2>3, <2>4 DEF HeaderSize
<1>3. I \in SUBSET DOMAIN t
  OBVIOUS
<1>4. {i \in I : t[i] \in X} = {i \in DOMAIN t : Representable(k, t[i]) /\ Convert(k, t[i]) = rec}
  BY <1>1, <1>2
<1>5. Decode(t) = [n \in DOMAIN kept |-> Convert(k, kept[n])]
  BY DEF Decode
<1> HIDE DEF I
<1>6. /\ kept \in Seq(RowType)
      /\ Cardinality(Places(kept, X)) = Cardinality({i \in I : t[i] \in X})
  BY <1>3, KeptElements, KeptPlaces
<1> HIDE DEF kept
<1>7. \A n \in DOMAIN kept : kept[n] \in RowType
  BY <1>6, LenProperties
<1>8. Places(Decode(t), {rec}) = Places(kept, X)
  BY <1>5, <1>7 DEF Places
<1>9. QED
  BY <1>4, <1>6, <1>8

\* One more picture adds the sightings in it.
LEMMA SightingsMore ==
    ASSUME NEW ps \in Seq(Seq(RowType)), NEW t \in Seq(RowType), NEW k, k = Kinds[Len(ps) + 1],
           NEW rec, IsFiniteSet(SightingsIn(ps, rec))
    PROVE  /\ IsFiniteSet(SightingsIn(Append(ps, t), rec))
           /\ Cardinality(SightingsIn(Append(ps, t), rec))
                = Cardinality(SightingsIn(ps, rec))
                  + Cardinality({i \in DOMAIN t : Representable(k, t[i]) /\ Convert(k, t[i]) = rec})
<1> DEFINE n == Len(ps) + 1
           q == Append(ps, t)
           J == {i \in DOMAIN t : Representable(k, t[i]) /\ Convert(k, t[i]) = rec}
           N == {<<n, i>> : i \in J}
           at == [i \in J |-> <<n, i>>]
           In(s, l) == {j \in DOMAIN s[l] : Representable(Kinds[l], s[l][j])
                                            /\ Convert(Kinds[l], s[l][j]) = rec}
<1>1. /\ Len(ps) \in Nat /\ DOMAIN ps = 1 .. Len(ps) /\ DOMAIN q = 1 .. Len(ps) + 1
      /\ \A l \in DOMAIN ps : q[l] = ps[l]
      /\ q[n] = t
  BY Appended
<1>2. n \notin DOMAIN ps /\ DOMAIN q = DOMAIN ps \cup {n}
  BY <1>1
<1>3. \A s, x : x \in SightingsIn(s, rec) <=> \E l \in DOMAIN s : \E i \in In(s, l) : x = <<l, i>>
  BY DEF SightingsIn
<1>4. (\A l \in DOMAIN ps : In(q, l) = In(ps, l)) /\ In(q, n) = J
  BY <1>1
<1> HIDE DEF n, q, J, In
<1>5. SightingsIn(q, rec) = SightingsIn(ps, rec) \cup N
  BY <1>2, <1>3, <1>4
<1>6. SightingsIn(ps, rec) \cap N = {}
  BY <1>2, <1>3
<1>7. IsFiniteSet(J)
  BY PlacesFinite DEF J
<1>8. IsFiniteSet(N) /\ Cardinality(N) = Cardinality(J)
  <2>1. at \in [J -> N] /\ \A i, j \in J : at[i] = at[j] => i = j
    OBVIOUS
  <2>2. \A x \in N : \E i \in J : at[i] = x
    OBVIOUS
  <2> HIDE DEF at, N
  <2>3. at \in Bijection(J, N)
    BY <2>1, <2>2, Fun_IsInj, Fun_IsSurj DEF Bijection
  <2>4. QED
    BY <1>7, <2>3, FS_Bijection DEF ExistsBijection
<1> HIDE DEF N
<1>9. /\ IsFiniteSet(SightingsIn(ps, rec) \cup N)
      /\ Cardinality(SightingsIn(ps, rec) \cup N)
           = Cardinality(SightingsIn(ps, rec)) + Cardinality(N)
             - Cardinality(SightingsIn(ps, rec) \cap N)
  BY <1>8, FS_Union
<1>10. /\ Cardinality(SightingsIn(ps, rec)) \in Nat /\ Cardinality(N) \in Nat
       /\ Cardinality(SightingsIn(ps, rec) \cap N) = 0
  BY <1>6, <1>8, FS_CardinalityType, FS_EmptySet
<1>11. QED
  BY <1>5, <1>8, <1>9, <1>10 DEF q, J

(***************************************************************************)
(* Steps.                                                                   *)
(***************************************************************************)
\* The steps that end a lookup.
Lookup == IdleProcess \/ CannotOpen \/ QueryName \/ QueryFails

\* The next record to be named.
LEMMA NextRecord ==
    ASSUME TypeOK, Len(out) < Len(records)
    PROVE  Next1 \in Record /\ Next1.pid \in Pids
<1>1. Len(out) \in Nat /\ Len(records) \in Nat /\ records \in [1 .. Len(records) -> Record]
  BY LenProperties DEF TypeOK
<1>2. Len(out) + 1 \in 1 .. Len(records)
  BY <1>1
<1>3. Next1 \in Record
  BY <1>1, <1>2 DEF Next1
<1>4. QED
  BY <1>3 DEF Record

\* A lookup adds a name to the cache, one that the process ID has held, and a port
\* of that name.
LEMMA LookupStep ==
    ASSUME TypeOK, HeldInv, Lookup
    PROVE  \E name \in Names \cup {""} :
             /\ Remember(name)
             /\ Len(out) < Len(records)
             /\ Next1.pid \notin DOMAIN cache
             /\ name # "" => name \in held[Next1.pid]
<1>1. CASE IdleProcess
  BY <1>1 DEF IdleProcess, Miss
<1>2. CASE CannotOpen
  BY <1>2 DEF CannotOpen, Miss
<1>3. CASE QueryName
  BY <1>3 DEF QueryName, HeldInv, TypeOK
<1>4. CASE QueryFails
  BY <1>4 DEF QueryFails, HeldInv
<1>5. QED
  BY <1>1, <1>2, <1>3, <1>4 DEF Lookup

\* A Record with a name is a Port.
LEMMA PortType ==
    ASSUME NEW rec \in Record, NEW name \in Names \cup {""}
    PROVE  WithName(rec, name) \in Port
<1> DEFINE A == {TCP, UDP}
           B == StateNone .. StateDeleteTCB
           C == Names \cup {""}
<1>1. Port = [protocol : A, lip : Nat, lport : PortNumber, rip : Nat,
              rport : PortNumber, state : B, pid : Pids, process : C]
  BY DEF Port
<1>2. Record = [protocol : A, lip : Nat, lport : PortNumber, rip : Nat,
                rport : PortNumber, state : B, pid : Pids]
  BY DEF Record
<1>3. name \in C
  OBVIOUS
<1> HIDE DEF A, B, C
<1>4. QED
  BY <1>1, <1>2, <1>3 DEF WithName

\* Every step keeps the types: the size of a retry is a number, a decoded table holds
\* Records, a named record is a Port.
LEMMA TypeStep ==
    ASSUME TypeOK, ReadInv, CacheInv, HeldInv, [Next]_vars
    PROVE  TypeOK'
<1> USE DEF systemVars, choiceVars, readVars, nameVars, outputVars
<1>0. attempt \in 0 .. Attempts - 1 /\ changes \in Nat /\ grown \in Nat
  BY DEF TypeOK
<1>1. CASE NotImplemented \/ TableFails \/ WriteFails
  BY <1>1 DEF NotImplemented, TableFails, WriteFails, Fail, TypeOK
<1>2. CASE TooSmall
  <2>1. CASE attempt + 1 = Attempts
    BY <1>2, <2>1 DEF TooSmall, Fail, TypeOK
  <2>2. CASE attempt + 1 # Attempts
    <3>1. attempt' \in 0 .. Attempts - 1
      <4>1. attempt' = attempt + 1
        BY <1>2, <2>2 DEF TooSmall
      <4>2. QED
        BY <1>0, <2>2, <4>1 DEF Attempts
    <3>2. size' \in Nat
      <4>1. PICK extra \in 0 .. Slack : size' = Needed + extra * ApiRowSize[Kinds[kind]]
        BY <1>2, <2>2 DEF TooSmall
      <4>2. Kinds[kind] \in KindSet /\ ApiRowSize[Kinds[kind]] \in Nat
        <5>1. kind \in 1 .. 4
          BY <1>2 DEF TooSmall, ReadInv, Kinds
        <5>2. QED
          BY <5>1 DEF KindSet, Kinds, ApiRowSize
      <4>3. Len(Current) \in Nat
        BY <4>2, LenProperties DEF TypeOK, Current
      <4>4. extra \in Nat
        BY BoundsAssumption
      <4>5. QED
        BY <4>1, <4>2, <4>3, <4>4 DEF Needed, HeaderSize
    <3>3. QED
      BY <1>2, <2>2, <3>1, <3>2 DEF TooSmall, TypeOK
  <2>3. QED
    BY <2>1, <2>2
<1>3. CASE TableRead
  <2>1. Kinds[kind] \in KindSet /\ kind' \in 1 .. Len(Kinds) + 1
    <3>1. kind \in 1 .. 4
      BY <1>3 DEF TableRead, ReadInv, Kinds
    <3>2. QED
      BY <1>3, <3>1 DEF TableRead, KindSet, Kinds
  <2>2. Current \in Seq(RowType)
    BY <2>1 DEF TypeOK, Current
  <2>3. Decode(Current) \in Seq(Record)
    BY <2>2, DecodeType
  <2>4. records' \in Seq(Record)
    BY <1>3, <2>3, ConcatProperties DEF TableRead, TypeOK
  <2>5. seen' \in Seq(Seq(RowType))
    BY <1>3, <2>2, AppendProperties DEF TableRead, TypeOK
  <2>6. attempt' \in 0 .. Attempts - 1 /\ size' \in Nat /\ grown' \in Nat
    BY <1>3 DEF TableRead, Attempts
  <2>7. pc' \in {"read", "name", "query", "done"}
    BY <1>3 DEF TableRead
  <2>8. QED
    BY <1>3, <2>1, <2>4, <2>5, <2>6, <2>7 DEF TableRead, TypeOK
<1>4. CASE CacheHit
  <2>1. Next1 \in Record /\ cache[Next1.pid] \in Names \cup {""}
    BY <1>4, NextRecord DEF CacheHit, TypeOK
  <2>2. out' \in Seq(Port)
    BY <1>4, <2>1, PortType, AppendProperties DEF CacheHit, Emit, TypeOK
  <2>3. QED
    BY <1>4, <2>2 DEF CacheHit, ListUnchanged, TypeOK
<1>5. CASE Lookup
  <2>1. PICK name \in Names \cup {""} : Remember(name) /\ Len(out) < Len(records)
    BY <1>5, LookupStep
  <2>2. Next1 \in Record /\ Next1.pid \in Pids
    BY <2>1, NextRecord
  <2>3. out' \in Seq(Port)
    BY <2>1, <2>2, PortType, AppendProperties DEF Remember, Emit, TypeOK
  <2>4. DOMAIN cache' \subseteq Pids /\ \A p \in DOMAIN cache' : cache'[p] \in Names \cup {""}
    BY <2>1, <2>2 DEF Remember, TypeOK
  <2>5. QED
    BY <2>1, <2>3, <2>4 DEF Remember, ListUnchanged, TypeOK
<1>6. CASE OpenProcess
  <2>1. image[Next1.pid] \in Names \cup {""}
    BY <1>6, NextRecord DEF OpenProcess, Miss, TypeOK
  <2>2. QED
    BY <1>6, <2>1 DEF OpenProcess, ListUnchanged, TypeOK
<1>7. CASE WriteTable
  <2>1. out \in Seq(Port) /\ OneNameEach(out)
    BY DEF TypeOK, CacheInv, OneNameEach
  <2>2. Selected \in Seq(Port) /\ CountUnknown(Selected) \in Nat
    BY <2>1, SelectedProperties
  <2>3. QED
    BY <1>7, <2>2 DEF WriteTable, TypeOK
<1>8. CASE SocketAppears
  <2>1. PICK k \in KindSet : \E row \in Rows[k] : \E i \in 0 .. Len(tables[k]) :
          /\ tables' = [tables EXCEPT ![k] = SubSeq(tables[k], 1, i) \o <<row>>
                                      \o SubSeq(tables[k], i + 1, Len(tables[k]))]
          /\ grown' = grown \/ grown' = grown + 1
          /\ SystemMoves /\ UNCHANGED <<image, held>>
    BY <1>8 DEF SocketAppears
  <2> PICK row \in Rows[k] : \E i \in 0 .. Len(tables[k]) :
        tables' = [tables EXCEPT ![k] = SubSeq(tables[k], 1, i) \o <<row>>
                                      \o SubSeq(tables[k], i + 1, Len(tables[k]))]
    BY <2>1
  <2> PICK i \in 0 .. Len(tables[k]) :
        tables' = [tables EXCEPT ![k] = SubSeq(tables[k], 1, i) \o <<row>>
                                      \o SubSeq(tables[k], i + 1, Len(tables[k]))]
    OBVIOUS
  <2>2. row \in RowType
    BY RowsAssumption
  <2>3. SubSeq(tables[k], 1, i) \o <<row>> \o SubSeq(tables[k], i + 1, Len(tables[k]))
          \in Seq(RowType)
    BY <2>2, Insertion DEF TypeOK
  <2>4. tables' \in [KindSet -> Seq(RowType)]
    BY <2>3 DEF TypeOK
  <2>5. grown' \in Nat /\ changes' \in Nat
    BY <1>0, <2>1 DEF SystemMoves
  <2>6. QED
    BY <2>1, <2>4, <2>5 DEF SystemMoves, TypeOK
<1>9. CASE SocketCloses
  <2>1. PICK k \in KindSet : \E i \in DOMAIN tables[k] :
          /\ tables' = [tables EXCEPT ![k] = SubSeq(tables[k], 1, i - 1)
                                      \o SubSeq(tables[k], i + 1, Len(tables[k]))]
          /\ SystemMoves /\ UNCHANGED <<image, grown, held>>
    BY <1>9 DEF SocketCloses
  <2> PICK i \in DOMAIN tables[k] :
        tables' = [tables EXCEPT ![k] = SubSeq(tables[k], 1, i - 1)
                                      \o SubSeq(tables[k], i + 1, Len(tables[k]))]
    BY <2>1
  <2>2. SubSeq(tables[k], 1, i - 1) \o SubSeq(tables[k], i + 1, Len(tables[k]))
          \in Seq(RowType)
    BY Removal DEF TypeOK
  <2>3. tables' \in [KindSet -> Seq(RowType)]
    BY <2>2 DEF TypeOK
  <2>4. changes' \in Nat
    BY <1>0, <2>1 DEF SystemMoves
  <2>5. QED
    BY <2>1, <2>3, <2>4 DEF SystemMoves, TypeOK
<1>10. CASE ProcessChanges
  <2>1. changes' \in Nat
    <3>1. changes' = changes + 1
      BY <1>10 DEF ProcessChanges, SystemMoves
    <3>2. QED
      BY <1>0, <3>1
  <2>2. PICK p \in Pids, name \in Names \cup {""} :
          /\ image' = [image EXCEPT ![p] = name]
          /\ held' = held \/ held' = [held EXCEPT ![p] = held[p] \cup {name}]
          /\ SystemMoves /\ UNCHANGED <<tables, grown>>
    BY <1>10 DEF ProcessChanges
  <2>3. image' \in [Pids -> Names \cup {""}]
    BY <2>2 DEF TypeOK
  <2>4. held' \in [Pids -> SUBSET (Names \cup {""})]
    <3>1. held \in [Pids -> SUBSET (Names \cup {""})]
      BY DEF TypeOK
    <3>2. [held EXCEPT ![p] = held[p] \cup {name}] \in [Pids -> SUBSET (Names \cup {""})]
      BY <3>1
    <3>3. QED
      BY <2>2, <3>1, <3>2
  <2>5. QED
    BY <2>1, <2>2, <2>3, <2>4 DEF SystemMoves, TypeOK
<1>11. CASE Finished \/ UNCHANGED vars
  BY <1>11 DEF Finished, vars, TypeOK
<1>12. QED
  BY <1>1, <1>2, <1>3, <1>4, <1>5, <1>6, <1>7, <1>8, <1>9, <1>10, <1>11
     DEF Next, Program, Progress, System, Lookup

\* Rows of a table are counted by natural numbers, and sized by positive ones.
LEMMA CurrentFacts ==
    ASSUME TypeOK, kind \in 1 .. Len(Kinds)
    PROVE  /\ Kinds[kind] \in KindSet
           /\ ApiRowSize[Kinds[kind]] \in Nat \ {0}
           /\ Current \in Seq(RowType) /\ Len(Current) \in Nat
<1>1. kind \in 1 .. 4
  BY DEF Kinds
<1>2. Kinds[kind] \in KindSet /\ ApiRowSize[Kinds[kind]] \in Nat \ {0}
  BY <1>1 DEF KindSet, Kinds, ApiRowSize
<1>3. Current \in Seq(RowType)
  BY <1>2 DEF TypeOK, Current
<1>4. QED
  BY <1>2, <1>3, LenProperties

\* A multiple that does not cover a positive rest needs a positive factor.
LEMMA PositiveFactor ==
    ASSUME NEW r \in Nat \ {0}, NEW d \in Int, 0 < d * r
    PROVE  d >= 1
  OBVIOUS

\* A call that fails for want of room: the table has outgrown what was asked for, so
\* it grew once more than there were retries.
LEMMA TooSmallStep ==
    ASSUME TypeOK, ReadInv, TooSmall
    PROVE  ReadInv'
<1> DEFINE r == ApiRowSize[Kinds[kind]]
<1>1. kind \in 1 .. Len(Kinds) /\ outcome = "none"
  BY DEF TooSmall, ReadInv
<1>2. r \in Nat \ {0} /\ Len(Current) \in Nat
  BY <1>1, CurrentFacts
<1>3. attempt \in 0 .. Attempts - 1 /\ size \in Nat /\ grown \in Nat
  BY DEF TypeOK
<1>4. Needed = 4 + Len(Current) * r
  BY DEF Needed, HeaderSize
<1> HIDE DEF r
<1>5. Needed \in Nat
  BY <1>2, <1>4
<1>6. grown >= attempt
  <2>1. CASE attempt = 0
    BY <1>3, <2>1
  <2>2. CASE attempt > 0
    <3>1. Needed <= size + (grown - (attempt - 1)) * r /\ size < Needed
      BY <2>2 DEF TooSmall, ReadInv, r
    <3>2. 0 < (grown - (attempt - 1)) * r
      BY <1>2, <1>3, <1>5, <3>1
    <3>3. grown - (attempt - 1) \in Int
      BY <1>3
    <3>4. grown - (attempt - 1) >= 1
      BY <1>2, <3>2, <3>3, PositiveFactor
    <3>5. QED
      BY <1>3, <3>4
  <2>3. QED
    BY <1>3, <2>1, <2>2
<1>7. CASE attempt + 1 = Attempts
  <2>1. /\ pc' = "done" /\ outcome' = "tooSmall" /\ grown' = grown
        /\ attempt' = attempt /\ size' = size
    BY <1>7 DEF TooSmall, Fail, systemVars, readVars
  <2>2. grown >= Attempts - 1
    BY <1>3, <1>6, <1>7 DEF Attempts
  <2>3. attempt = 0 => size = 0 /\ grown = 0
    BY DEF ReadInv
  <2>4. QED
    BY <2>1, <2>2, <2>3 DEF ReadInv
<1>8. CASE attempt + 1 # Attempts
  <2>1. /\ attempt' = attempt + 1 /\ UNCHANGED <<pc, kind, grown, tables, outcome>>
        /\ \E extra \in 0 .. Slack : size' = Needed + extra * r
    BY <1>8 DEF TooSmall, systemVars, outputVars, r
  <2>2. size' >= Needed /\ size' \in Nat
    <3>1. PICK extra \in 0 .. Slack : size' = Needed + extra * r
      BY <2>1
    <3>2. extra \in Nat
      BY BoundsAssumption
    <3>3. extra * r \in Nat
      BY <1>2, <3>2
    <3>4. QED
      BY <1>5, <3>1, <3>3
  <2>3. Needed' = Needed /\ r' = r
    BY <2>1 DEF Needed, Current, r
  <2>4. (grown - attempt) * r \in Nat
    BY <1>2, <1>3, <1>6
  <2>5. Needed <= size' + (grown - attempt) * r
    BY <1>5, <2>2, <2>4
  <2>6. /\ grown' >= attempt' - 1
        /\ Needed' <= size' + (grown' - (attempt' - 1)) * r'
    <3>1. attempt' - 1 = attempt
      BY <1>3, <2>1
    <3>2. QED
      BY <1>6, <2>1, <2>3, <2>5, <3>1
  <2>7. attempt' # 0
    BY <1>3, <2>1
  <2>8. outcome' = "none" /\ pc' = "read"
    BY <1>1, <2>1 DEF TooSmall
  <2>9. QED
    BY <1>1, <2>1, <2>6, <2>7, <2>8 DEF ReadInv, r
<1>9. QED
  BY <1>7, <1>8

\* What the system does to the table being read is counted.
LEMMA SystemReadStep ==
    ASSUME TypeOK, ReadInv, System
    PROVE  ReadInv'
<1> DEFINE r == ApiRowSize[Kinds[kind]]
<1>1. /\ UNCHANGED <<pc, kind, attempt, size, outcome>> /\ pc # "done"
  BY DEF System, SocketAppears, SocketCloses, ProcessChanges, SystemMoves,
         readVars, outputVars
<1>2. attempt \in 0 .. Attempts - 1 /\ size \in Nat /\ grown \in Nat
  BY DEF TypeOK
<1>3. r' = r
  BY <1>1
<1>4. outcome = "none" /\ outcome' = "none" /\ pc' # "done"
  BY <1>1 DEF ReadInv
<1>5. CASE pc = "read"
  <2>1. kind \in 1 .. Len(Kinds) /\ kind' \in 1 .. Len(Kinds)
    BY <1>1, <1>5 DEF ReadInv
  <2>2. Kinds[kind] \in KindSet /\ r \in Nat \ {0} /\ Len(Current) \in Nat
    BY <2>1, CurrentFacts
  <2>3. \/ Len(Current') = Len(Current) /\ grown' = grown
        \/ Len(Current') = Len(Current) + 1 /\ grown' = IF attempt > 0 THEN grown + 1 ELSE grown
        \/ Len(Current') = Len(Current) - 1 /\ grown' = grown
    <3>1. CASE SocketAppears
      <4>1. PICK k \in KindSet : \E row \in Rows[k] : \E i \in 0 .. Len(tables[k]) :
              tables' = [tables EXCEPT ![k] = SubSeq(tables[k], 1, i) \o <<row>>
                                          \o SubSeq(tables[k], i + 1, Len(tables[k]))]
              /\ grown' = IF pc = "read" /\ attempt > 0 /\ k = Kinds[kind]
                            THEN grown + 1 ELSE grown
        BY <3>1 DEF SocketAppears
      <4>2. PICK row \in Rows[k], i \in 0 .. Len(tables[k]) :
              tables' = [tables EXCEPT ![k] = SubSeq(tables[k], 1, i) \o <<row>>
                                          \o SubSeq(tables[k], i + 1, Len(tables[k]))]
        BY <4>1
      <4>3. row \in RowType /\ tables[k] \in Seq(RowType)
        BY RowsAssumption DEF TypeOK
      <4>4. Len(SubSeq(tables[k], 1, i) \o <<row>>
                  \o SubSeq(tables[k], i + 1, Len(tables[k]))) = Len(tables[k]) + 1
        BY <4>3, Insertion
      <4>5. DOMAIN tables = KindSet
        BY DEF TypeOK
      <4>6. CASE k = Kinds[kind]
        <5>1. Len(Current') = Len(Current) + 1
          BY <1>1, <4>2, <4>4, <4>5, <4>6 DEF Current
        <5>2. QED
          BY <1>5, <4>1, <4>6, <5>1
      <4>7. CASE k # Kinds[kind]
        <5>1. Current' = Current
          BY <1>1, <2>2, <4>2, <4>5, <4>7 DEF Current
        <5>2. QED
          BY <4>1, <4>7, <5>1
      <4>8. QED
        BY <4>6, <4>7
    <3>2. CASE SocketCloses
      <4>1. PICK k \in KindSet : \E i \in DOMAIN tables[k] :
              tables' = [tables EXCEPT ![k] = SubSeq(tables[k], 1, i - 1)
                                          \o SubSeq(tables[k], i + 1, Len(tables[k]))]
        BY <3>2 DEF SocketCloses
      <4>2. PICK i \in DOMAIN tables[k] :
              tables' = [tables EXCEPT ![k] = SubSeq(tables[k], 1, i - 1)
                                          \o SubSeq(tables[k], i + 1, Len(tables[k]))]
        BY <4>1
      <4>3. tables[k] \in Seq(RowType) /\ DOMAIN tables = KindSet
        BY DEF TypeOK
      <4>4. Len(SubSeq(tables[k], 1, i - 1) \o SubSeq(tables[k], i + 1, Len(tables[k])))
              = Len(tables[k]) - 1
        BY <4>3, Removal
      <4>5. grown' = grown
        BY <3>2 DEF SocketCloses
      <4>6. CASE k = Kinds[kind]
        <5>1. Len(Current') = Len(Current) - 1
          BY <1>1, <4>2, <4>3, <4>4, <4>6 DEF Current
        <5>2. QED
          BY <4>5, <5>1
      <4>7. CASE k # Kinds[kind]
        <5>1. Current' = Current
          BY <1>1, <2>2, <4>2, <4>3, <4>7 DEF Current
        <5>2. QED
          BY <4>5, <5>1
      <4>8. QED
        BY <4>6, <4>7
    <3>3. CASE ProcessChanges
      BY <1>1, <3>3 DEF ProcessChanges, Current
    <3>4. QED
      BY <3>1, <3>2, <3>3 DEF System
  <2>4. attempt = 0 => size' = 0 /\ grown' = 0
    <3>1. attempt = 0 => size = 0 /\ grown = 0
      BY DEF ReadInv
    <3>2. QED
      BY <1>1, <2>3, <3>1
  <2>5. ASSUME attempt > 0
        PROVE  /\ grown' >= attempt - 1
               /\ Needed' <= size + (grown' - (attempt - 1)) * r
    <3>1. grown >= attempt - 1 /\ Needed <= size + (grown - (attempt - 1)) * r
      BY <1>5, <2>5 DEF ReadInv
    <3>2. Needed = 4 + Len(Current) * r /\ Needed' = 4 + Len(Current') * r
      BY <1>3 DEF Needed, HeaderSize
    <3> DEFINE l == Len(Current)
               g == grown - (attempt - 1)
    <3>3. l \in Nat /\ g \in Int /\ r \in Nat /\ (l + 1) * r = l * r + r
          /\ (l - 1) * r = l * r - r /\ (g + 1) * r = g * r + r
      <4>1. \A a, b \in Int : (a + 1) * b = a * b + b /\ (a - 1) * b = a * b - b
        OBVIOUS
      <4>2. l \in Nat /\ g \in Int /\ r \in Nat
        BY <1>2, <2>2
      <4> HIDE DEF l, g, r
      <4>3. QED
        BY <4>1, <4>2
    <3>4. CASE Len(Current') = l /\ grown' = grown
      BY <3>1, <3>2, <3>4
    <3>5. CASE Len(Current') = l + 1 /\ grown' = grown + 1
      <4>1. grown' - (attempt - 1) = g + 1
        BY <1>2, <3>5
      <4>2. l * r \in Int /\ g * r \in Int
        BY <3>3
      <4>3. 4 + l * r <= size + g * r
        BY <3>1, <3>2
      <4> HIDE DEF l, g, r
      <4>4. Needed' = 4 + l * r + r
        BY <3>2, <3>3, <3>5, <4>2
      <4>5. (grown' - (attempt - 1)) * r = g * r + r
        BY <3>3, <4>1
      <4>6. Needed' <= size + (grown' - (attempt - 1)) * r
        BY <1>2, <3>3, <4>2, <4>3, <4>4, <4>5
      <4>7. QED
        BY <1>2, <3>1, <3>5, <4>6
    <3>6. CASE Len(Current') = l - 1 /\ grown' = grown
      <4>1. l * r \in Int /\ g * r \in Int
        BY <3>3
      <4>2. 4 + l * r <= size + g * r
        BY <3>1, <3>2
      <4>3. grown' - (attempt - 1) = g
        BY <3>6
      <4> HIDE DEF l, g, r
      <4>4. Needed' = 4 + l * r - r
        BY <3>2, <3>3, <3>6, <4>1
      <4>5. QED
        BY <1>2, <3>1, <3>3, <3>6, <4>1, <4>2, <4>3, <4>4
    <3>7. QED
      BY <2>3, <2>5, <3>4, <3>5, <3>6
  <2> HIDE DEF r
  <2>6. attempt > 0 => /\ grown' >= attempt' - 1
                       /\ Needed' <= size' + (grown' - (attempt' - 1)) * r'
    BY <1>1, <1>3, <2>5
  <2>7. QED
    BY <1>1, <1>4, <2>1, <2>4, <2>6 DEF ReadInv, r
<1>6. CASE pc # "read"
  <2>1. grown' = grown
    BY <1>6 DEF System, SocketAppears, SocketCloses, ProcessChanges
  <2>2. QED
    BY <1>1, <1>4, <1>6, <2>1 DEF ReadInv
<1>7. QED
  BY <1>5, <1>6

\* Every step keeps the account of a table's growth.
LEMMA ReadStep ==
    ASSUME TypeOK, ReadInv, HeldInv, [Next]_vars
    PROVE  ReadInv'
<1> USE DEF systemVars, choiceVars, readVars, nameVars, outputVars
<1>1. CASE TooSmall
  BY <1>1, TooSmallStep
<1>2. CASE System
  BY <1>2, SystemReadStep
<1>3. CASE NotImplemented \/ TableFails \/ WriteFails
  BY <1>3 DEF NotImplemented, TableFails, WriteFails, Fail, ReadInv
<1>4. CASE TableRead
  <2>1. kind \in 1 .. Len(Kinds)
    BY <1>4 DEF TableRead, ReadInv
  <2>2. pc' = "read" => kind' \in 1 .. Len(Kinds)
    <3>1. Len(Kinds) = 4
      BY DEF Kinds
    <3>2. QED
      BY <1>4, <2>1, <3>1 DEF TableRead
  <2>3. pc' # "done" /\ outcome' = "none" /\ attempt' = 0 /\ size' = 0 /\ grown' = 0
    BY <1>4 DEF TableRead, ReadInv
  <2>4. QED
    BY <2>2, <2>3 DEF ReadInv
<1>5. CASE CacheHit
  BY <1>5 DEF CacheHit, ListUnchanged, ReadInv
<1>6. CASE Lookup
  <2>1. PICK name : Remember(name)
    BY <1>6 DEF Lookup, IdleProcess, CannotOpen, QueryName, QueryFails
  <2>2. pc \in {"name", "query"}
    BY <1>6 DEF Lookup, IdleProcess, CannotOpen, QueryName, QueryFails, Miss
  <2>3. QED
    BY <2>1, <2>2 DEF Remember, ListUnchanged, ReadInv
<1>7. CASE OpenProcess
  BY <1>7 DEF OpenProcess, Miss, ListUnchanged, ReadInv
<1>8. CASE WriteTable
  BY <1>8 DEF WriteTable, Listed, ReadInv
<1>9. CASE Finished \/ UNCHANGED vars
  BY <1>9 DEF Finished, vars, ReadInv, Needed, Current
<1>10. QED
  BY <1>1, <1>2, <1>3, <1>4, <1>5, <1>6, <1>7, <1>8, <1>9 DEF Next, Program, Progress, Lookup

\* Every step but a lookup and a hit leaves the ports and the cache alone.
LEMMA NamingSteps ==
    ASSUME [Next]_vars
    PROVE  CacheHit \/ Lookup \/ UNCHANGED <<out, cache>>
<1> USE DEF systemVars, choiceVars, readVars, nameVars, outputVars
<1>1. CASE NotImplemented \/ TooSmall \/ TableFails \/ WriteFails
  BY <1>1 DEF NotImplemented, TooSmall, TableFails, WriteFails, Fail
<1>2. CASE TableRead \/ OpenProcess \/ WriteTable
  BY <1>2 DEF TableRead, OpenProcess, WriteTable
<1>3. CASE System
  BY <1>3 DEF System, SocketAppears, SocketCloses, ProcessChanges, SystemMoves
<1>4. CASE Finished \/ UNCHANGED vars
  BY <1>4 DEF Finished, vars
<1>5. QED
  BY <1>1, <1>2, <1>3, <1>4 DEF Next, Program, Progress, Lookup

\* The ports after one more was emitted.
LEMMA OnePortMore ==
    ASSUME out \in Seq(Port), NEW p \in Port, out' = Append(out, p)
    PROVE  /\ DOMAIN out' = 1 .. Len(out) + 1 /\ out'[Len(out) + 1] = p
           /\ \A i \in DOMAIN out : out'[i] = out[i]
           /\ \A i \in DOMAIN out' : i \in DOMAIN out \/ i = Len(out) + 1
  BY Appended

\* A port is named from the cache, and an entry of the cache never changes.
LEMMA CacheStep ==
    ASSUME TypeOK, CacheInv, HeldInv, [Next]_vars
    PROVE  CacheInv'
<1>1. out \in Seq(Port) /\ DOMAIN out = 1 .. Len(out) /\ Len(out) \in Nat
  BY LenProperties DEF TypeOK
<1>2. ASSUME NEW name \in Names \cup {""}, Emit(name), Len(out) < Len(records)
      PROVE  /\ DOMAIN out' = 1 .. Len(out) + 1
             /\ out'[Len(out) + 1].pid = Next1.pid
             /\ out'[Len(out) + 1].process = name
             /\ \A i \in DOMAIN out : out'[i] = out[i]
             /\ \A i \in DOMAIN out' : i \in DOMAIN out \/ i = Len(out) + 1
  <2> DEFINE p == WithName(Next1, name)
  <2>1. p \in Port
    BY <1>2, NextRecord, PortType
  <2>2. p.pid = Next1.pid /\ p.process = name
    BY DEF WithName
  <2>3. out' = Append(out, p)
    BY <1>2 DEF Emit
  <2> HIDE DEF p
  <2>4. /\ DOMAIN out' = 1 .. Len(out) + 1 /\ out'[Len(out) + 1] = p
        /\ \A i \in DOMAIN out : out'[i] = out[i]
        /\ \A i \in DOMAIN out' : i \in DOMAIN out \/ i = Len(out) + 1
    BY <1>1, <2>1, <2>3, OnePortMore
  <2>5. QED
    BY <2>2, <2>4
<1>3. CASE CacheHit
  <2>1. cache[Next1.pid] \in Names \cup {""} /\ Emit(cache[Next1.pid])
        /\ Len(out) < Len(records) /\ cache' = cache /\ Next1.pid \in DOMAIN cache
    BY <1>3 DEF CacheHit, TypeOK
  <2>2. /\ DOMAIN out' = 1 .. Len(out) + 1
        /\ out'[Len(out) + 1].pid = Next1.pid
        /\ out'[Len(out) + 1].process = cache[Next1.pid]
        /\ \A i \in DOMAIN out : out'[i] = out[i]
        /\ \A i \in DOMAIN out' : i \in DOMAIN out \/ i = Len(out) + 1
    BY <1>2, <2>1
  <2>3. ASSUME NEW i \in DOMAIN out'
        PROVE  out'[i].pid \in DOMAIN cache /\ out'[i].process = cache[out'[i].pid]
    <3>1. i \in DOMAIN out \/ i = Len(out) + 1
      BY <2>2
    <3>2. QED
      BY <3>1, <2>1, <2>2 DEF CacheInv
  <2>4. QED
    BY <2>1, <2>3 DEF CacheInv
<1>4. CASE Lookup
  <2>1. PICK name \in Names \cup {""} : /\ Remember(name) /\ Len(out) < Len(records)
                                        /\ Next1.pid \notin DOMAIN cache
    BY <1>4, LookupStep
  <2>2. /\ DOMAIN cache' = DOMAIN cache \cup {Next1.pid}
        /\ cache'[Next1.pid] = name
        /\ \A p \in DOMAIN cache : cache'[p] = cache[p]
    BY <2>1 DEF Remember
  <2>3. /\ DOMAIN out' = 1 .. Len(out) + 1
        /\ out'[Len(out) + 1].pid = Next1.pid
        /\ out'[Len(out) + 1].process = name
        /\ \A i \in DOMAIN out : out'[i] = out[i]
        /\ \A i \in DOMAIN out' : i \in DOMAIN out \/ i = Len(out) + 1
    BY <1>2, <2>1 DEF Remember
  <2>4. ASSUME NEW i \in DOMAIN out'
        PROVE  out'[i].pid \in DOMAIN cache' /\ out'[i].process = cache'[out'[i].pid]
    <3>1. i \in DOMAIN out \/ i = Len(out) + 1
      BY <2>3
    <3>2. CASE i \in DOMAIN out
      <4>1. out[i].pid \in DOMAIN cache /\ out[i].process = cache[out[i].pid]
        BY <3>2 DEF CacheInv
      <4>2. out'[i] = out[i]
        BY <3>2, <2>3
      <4>3. QED
        BY <2>2, <4>1, <4>2
    <3>3. CASE i = Len(out) + 1
      BY <3>3, <2>2, <2>3
    <3>4. QED
      BY <3>1, <3>2, <3>3
  <2>5. QED
    BY <2>4 DEF CacheInv
<1>5. CASE UNCHANGED <<out, cache>>
  BY <1>5 DEF CacheInv
<1>6. QED
  BY <1>3, <1>4, <1>5, NamingSteps

\* A handle is opened on the image of the moment; once the last table is read, what a
\* process ID has held it has held for the rest of the run.
LEMMA HeldStep ==
    ASSUME TypeOK, ReadInv, HeldInv, [Next]_vars
    PROVE  HeldInv'
<1> USE DEF systemVars, choiceVars, readVars, nameVars, outputVars
<1>1. CASE NotImplemented \/ TooSmall \/ TableFails \/ WriteFails \/ WriteTable
  BY <1>1 DEF NotImplemented, TooSmall, TableFails, WriteFails, WriteTable, Fail, HeldInv
<1>2. CASE Finished \/ UNCHANGED vars
  BY <1>2 DEF Finished, vars, HeldInv, Next1
<1>3. CASE TableRead
  BY <1>3 DEF TableRead, HeldInv
<1>4. CASE OpenProcess
  BY <1>4, NextRecord DEF OpenProcess, Miss, ListUnchanged, HeldInv, Next1
<1>5. CASE CacheHit
  BY <1>5 DEF CacheHit, ListUnchanged, HeldInv
<1>6. CASE Lookup
  <2>1. PICK name \in Names \cup {""} : /\ Remember(name)
                                        /\ name # "" => name \in held[Next1.pid]
    BY <1>6, LookupStep
  <2>2. /\ DOMAIN cache' = DOMAIN cache \cup {Next1.pid}
        /\ cache'[Next1.pid] = name
        /\ \A p \in DOMAIN cache : p # Next1.pid => cache'[p] = cache[p]
        /\ pc' = "name" /\ held' = held /\ image' = image
    BY <2>1 DEF Remember, ListUnchanged
  <2> pc \in {"name", "query"}
    BY <1>6 DEF Lookup, IdleProcess, CannotOpen, Miss, QueryName, QueryFails
  <2>3. \A p \in DOMAIN cache' : cache'[p] # "" => cache'[p] \in held[p]
    BY <2>1, <2>2 DEF HeldInv
  <2>4. QED
    BY <2>2, <2>3 DEF HeldInv
<1>7. CASE SocketAppears \/ SocketCloses
  BY <1>7 DEF SocketAppears, SocketCloses, SystemMoves, HeldInv, Next1
<1>8. CASE ProcessChanges
  <2>1. PICK p \in Pids, name \in Names \cup {""} :
          /\ image' = [image EXCEPT ![p] = name]
          /\ held' = IF pc = "read" THEN held ELSE [held EXCEPT ![p] = held[p] \cup {name}]
    BY <1>8 DEF ProcessChanges
  <2>2. UNCHANGED <<pc, records, cache, handle, out>>
    BY <1>8 DEF ProcessChanges, SystemMoves
  <2>3. pc \in {"name", "query"} => \A q \in Pids : image'[q] \in held'[q]
    BY <2>1 DEF HeldInv, TypeOK
  <2>4. \A q \in Pids : \A x \in held[q] : x \in held'[q]
    BY <2>1 DEF TypeOK
  <2>5. \A q \in DOMAIN cache : q \in Pids
    BY DEF TypeOK
  <2>6. pc = "query" => Next1.pid \in Pids
    BY NextRecord DEF HeldInv
  <2>7. Next1' = Next1
    BY <2>2 DEF Next1
  <2>8. \A q \in DOMAIN cache : cache[q] # "" => cache[q] \in held'[q]
    BY <2>4, <2>5 DEF HeldInv
  <2>9. pc = "query" => handle \in held'[Next1.pid]
    BY <2>4, <2>6 DEF HeldInv
  <2>10. /\ pc' \in {"name", "query"} => \A q \in Pids : image'[q] \in held'[q]
         /\ pc' = "read" => DOMAIN cache' = {}
    BY <2>2, <2>3 DEF HeldInv
  <2>11. \A q \in DOMAIN cache' : cache'[q] # "" => cache'[q] \in held'[q]
    BY <2>2, <2>8
  <2>12. pc' = "query" => /\ Len(out') < Len(records')
                          /\ Next1'.pid \notin DOMAIN cache'
                          /\ handle' \in held'[Next1'.pid]
    BY <2>2, <2>7, <2>9 DEF HeldInv
  <2>13. QED
    BY <2>10, <2>11, <2>12 DEF HeldInv
<1>9. QED
  BY <1>1, <1>2, <1>3, <1>4, <1>5, <1>6, <1>7, <1>8 DEF Next, Program, Progress, System, Lookup

\* Without its name a named record is what it was.
LEMMA BareRecord ==
    ASSUME NEW rec \in Record, NEW name
    PROVE  Bare(WithName(rec, name)) = rec
<1> DEFINE A == {TCP, UDP}
           B == StateNone .. StateDeleteTCB
<1>1. Record = [protocol : A, lip : Nat, lport : PortNumber, rip : Nat,
                rport : PortNumber, state : B, pid : Pids]
  BY DEF Record
<1>2. Bare(WithName(rec, name)) =
        [protocol |-> rec.protocol, lip |-> rec.lip, lport |-> rec.lport, rip |-> rec.rip,
         rport |-> rec.rport, state |-> rec.state, pid |-> rec.pid]
  BY DEF Bare, WithName
<1> HIDE DEF A, B
<1>3. QED
  BY <1>1, <1>2

\* What is emitted for the next record is that record with a name.
LEMMA NamedRecord ==
    ASSUME TypeOK, Len(out) < Len(records), NEW name \in Names \cup {""}, Emit(name)
    PROVE  \E p \in Port : out' = Append(out, p) /\ Bare(p) = Next1
<1> DEFINE p == WithName(Next1, name)
<1>1. p \in Port /\ Bare(p) = Next1
  BY NextRecord, PortType, BareRecord
<1>2. out' = Append(out, p)
  BY DEF Emit
<1>3. QED
  BY <1>1, <1>2

\* A table that was read adds its sockets to the pictures and to the records alike, and a
\* port is the next record with a name.
LEMMA PictureStep ==
    ASSUME TypeOK, ReadInv, HeldInv, PictureInv, [Next]_vars
    PROVE  PictureInv'
<1> USE DEF systemVars, choiceVars, readVars, nameVars, outputVars
<1>1. /\ Len(records) \in Nat /\ DOMAIN records = 1 .. Len(records)
      /\ Len(out) \in Nat /\ DOMAIN out = 1 .. Len(out)
  BY LenProperties DEF TypeOK
<1>2. CASE TableRead
  <2>1. kind \in 1 .. Len(Kinds) /\ Len(Kinds) = 4 /\ size \in Nat
    BY <1>2 DEF TableRead, ReadInv, TypeOK, Kinds
  <2>2. /\ Kinds[kind] \in KindSet /\ Current \in Seq(RowType)
        /\ size >= HeaderSize + Len(Current) * ApiRowSize[Kinds[kind]]
    <3>1. Kinds[kind] \in KindSet /\ Current \in Seq(RowType)
      BY <2>1, CurrentFacts
    <3>2. size >= HeaderSize + Len(Current) * ApiRowSize[Kinds[kind]]
      BY <1>2 DEF TableRead, Needed
    <3>3. QED
      BY <3>1, <3>2
  <2>3. records \in Seq(Record) /\ seen \in Seq(Seq(RowType)) /\ Len(seen) + 1 = kind
    <3>1. records \in Seq(Record) /\ seen \in Seq(Seq(RowType))
      BY DEF TypeOK
    <3>2. Len(seen) = kind - 1
      BY DEF PictureInv
    <3>3. QED
      BY <2>1, <3>1, <3>2
  <2>4. Decode(Current) \in Seq(Record)
    BY <2>2, DecodeType
  <2>5. /\ records' = records \o Decode(Current) /\ seen' = Append(seen, Current)
        /\ kind' = kind + 1 /\ out' = out
        /\ outcome' = "none" /\ pc' = IF kind = Len(Kinds) THEN "name" ELSE "read"
    BY <1>2 DEF TableRead, ReadInv
  <2>6. ASSUME NEW rec \in Record
        PROVE  /\ IsFiniteSet(SightingsIn(seen', rec))
               /\ Cardinality(Places(records', {rec})) = Cardinality(SightingsIn(seen', rec))
    <3> DEFINE J == {i \in DOMAIN Current : /\ Representable(Kinds[kind], Current[i])
                                            /\ Convert(Kinds[kind], Current[i]) = rec}
    <3>1. /\ IsFiniteSet(SightingsIn(seen, rec))
          /\ Cardinality(Places(records, {rec})) = Cardinality(SightingsIn(seen, rec))
      BY DEF PictureInv, Sightings
    <3>2. Cardinality(Places(Decode(Current), {rec})) = Cardinality(J)
      BY <2>1, <2>2, DecodePlaces
    <3>3. Cardinality(Places(records', {rec}))
            = Cardinality(Places(records, {rec})) + Cardinality(Places(Decode(Current), {rec}))
      <4>1. records \in Seq(Record) /\ Decode(Current) \in Seq(Record)
            /\ records' = records \o Decode(Current)
        BY <2>3, <2>4, <2>5
      <4>2. QED
        BY <4>1, ConcatPlaces
    <3>4. /\ IsFiniteSet(SightingsIn(seen', rec))
          /\ Cardinality(SightingsIn(seen', rec)) = Cardinality(SightingsIn(seen, rec)) + Cardinality(J)
      <4>1. /\ seen \in Seq(Seq(RowType)) /\ Current \in Seq(RowType)
            /\ Kinds[kind] = Kinds[Len(seen) + 1]
        BY <2>2, <2>3
      <4>2. /\ IsFiniteSet(SightingsIn(Append(seen, Current), rec))
            /\ Cardinality(SightingsIn(Append(seen, Current), rec))
                 = Cardinality(SightingsIn(seen, rec)) + Cardinality(J)
        BY <3>1, <4>1, SightingsMore
      <4>3. QED
        BY <2>5, <4>2
    <3> HIDE DEF J
    <3>5. QED
      BY <3>1, <3>2, <3>3, <3>4
  <2>7. Len(seen') = kind' - 1
    <3>1. Len(seen') = Len(seen) + 1
      BY <2>2, <2>3, <2>5, AppendProperties
    <3>2. QED
      BY <2>1, <2>3, <2>5, <3>1
  <2>8. Len(out') <= Len(records') /\ \A i \in DOMAIN out' : Bare(out'[i]) = records'[i]
    <3> DEFINE d == Decode(Current)
    <3>1. d \in Seq(Record) /\ Len(d) \in Nat
      BY <2>4, LenProperties
    <3> HIDE DEF d
    <3>2. /\ Len(records \o d) = Len(records) + Len(d)
          /\ \A i \in 1 .. Len(records) : (records \o d)[i] = records[i]
      BY <1>1, <2>3, <3>1, ConcatProperties
    <3>3. Len(out) <= Len(records) /\ \A i \in DOMAIN out : Bare(out[i]) = records[i]
      BY DEF PictureInv
    <3>4. QED
      BY <1>1, <2>5, <3>1, <3>2, <3>3 DEF d
  <2>9. pc' \in {"name", "query"} \/ outcome' = "listed" => kind' = Len(Kinds) + 1
    BY <2>5
  <2>10. QED
    BY <2>6, <2>7, <2>8, <2>9 DEF PictureInv, Sightings
<1>3. ASSUME NEW p \in Port, Bare(p) = Next1, out' = Append(out, p), Len(out) < Len(records),
             pc \in {"name", "query"}, pc' = "name", UNCHANGED <<kind, records, seen, outcome>>
      PROVE  PictureInv'
  <2>1. out \in Seq(Port)
    BY DEF TypeOK
  <2>2. /\ Len(out') = Len(out) + 1 /\ out'[Len(out) + 1] = p
        /\ \A i \in DOMAIN out : out'[i] = out[i]
        /\ \A i \in DOMAIN out' : i \in DOMAIN out \/ i = Len(out) + 1
    BY <1>3, <2>1, Appended
  <2>3. Len(out') <= Len(records')
    BY <1>1, <1>3, <2>2
  <2>4. \A i \in DOMAIN out' : Bare(out'[i]) = records'[i]
    BY <1>3, <2>2 DEF PictureInv, Next1
  <2>5. QED
    BY <1>3, <2>3, <2>4 DEF PictureInv, Sightings
<1>4. CASE CacheHit
  <2>1. /\ cache[Next1.pid] \in Names \cup {""} /\ Emit(cache[Next1.pid])
        /\ Len(out) < Len(records) /\ pc = "name" /\ pc' = "name"
        /\ UNCHANGED <<kind, records, seen, outcome>>
    BY <1>4 DEF CacheHit, ListUnchanged, TypeOK
  <2>2. PICK p \in Port : out' = Append(out, p) /\ Bare(p) = Next1
    BY <2>1, NamedRecord
  <2>3. QED
    BY <1>3, <2>1, <2>2
<1>5. CASE Lookup
  <2>1. PICK name \in Names \cup {""} : Remember(name) /\ Len(out) < Len(records)
    BY <1>5, LookupStep
  <2>2. pc \in {"name", "query"}
    BY <1>5 DEF Lookup, IdleProcess, CannotOpen, Miss, QueryName, QueryFails
  <2>3. Emit(name) /\ pc' = "name" /\ UNCHANGED <<kind, records, seen, outcome>>
    BY <2>1 DEF Remember, ListUnchanged
  <2>4. PICK p \in Port : out' = Append(out, p) /\ Bare(p) = Next1
    BY <2>1, <2>3, NamedRecord
  <2>5. QED
    BY <1>3, <2>1, <2>2, <2>3, <2>4
<1>6. CASE /\ UNCHANGED <<kind, records, seen, out>>
           /\ pc' \in {"name", "query"} \/ outcome' = "listed" =>
                pc \in {"name", "query"} \/ outcome = "listed"
  BY <1>6 DEF PictureInv, Sightings
<1>7. CASE NotImplemented \/ TooSmall \/ TableFails \/ WriteFails
  <2>1. /\ UNCHANGED <<kind, records, seen, out>>
        /\ \/ pc' = pc /\ outcome' = outcome
           \/ pc' = "done" /\ outcome' # "listed"
    <3>1. CASE NotImplemented \/ TableFails \/ WriteFails
      BY <3>1 DEF NotImplemented, TableFails, WriteFails, Fail
    <3>2. CASE TooSmall /\ attempt + 1 = Attempts
      BY <3>2 DEF TooSmall, Fail
    <3>3. CASE TooSmall /\ attempt + 1 # Attempts
      <4>1. UNCHANGED <<pc, kind, records, seen, nameVars, outputVars>>
        BY <3>3 DEF TooSmall
      <4>2. QED
        BY <4>1
    <3>4. QED
      BY <1>7, <3>1, <3>2, <3>3
  <2>2. QED
    BY <1>6, <2>1
<1>8. CASE OpenProcess \/ WriteTable
  BY <1>6, <1>8 DEF OpenProcess, Miss, ListUnchanged, WriteTable, Listed
<1>9. CASE System
  <2>1. UNCHANGED <<kind, records, seen, out, pc, outcome>>
    BY <1>9 DEF System, SocketAppears, SocketCloses, ProcessChanges, SystemMoves
  <2>2. QED
    BY <1>6, <2>1
<1>10. CASE Finished \/ UNCHANGED vars
  BY <1>6, <1>10 DEF Finished, vars
<1>11. QED
  BY <1>2, <1>4, <1>5, <1>7, <1>8, <1>9, <1>10 DEF Next, Program, Progress, Lookup

\* The pictures are made of rows.
LEMMA SeenRows ==
    ASSUME TypeOK
    PROVE  \A k \in DOMAIN seen : \A i \in DOMAIN seen[k] : seen[k][i] \in RowType
<1>1. seen \in Seq(Seq(RowType))
  BY DEF TypeOK
<1>2. \A k \in DOMAIN seen : seen[k] \in Seq(RowType)
  BY <1>1, LenProperties
<1>3. QED
  BY <1>2, LenProperties

\* What a command would print now: each socket of the tables that were read as often as
\* it was seen, if it is asked for, and no other.
LEMMA SelectedComplete ==
    ASSUME TypeOK, CacheInv, PictureInv, Listed
    PROVE  /\ Len(seen) = Len(Kinds)
           /\ \A rec \in Record :
                Cardinality({i \in DOMAIN Selected : Bare(Selected[i]) = rec})
                  = IF AskedFor(rec) THEN Cardinality(Sightings(rec)) ELSE 0
<1>1. /\ out \in Seq(Port) /\ filter \in Filters /\ command \in {"ports", "connections"}
      /\ records \in Seq(Record)
  BY DEF TypeOK
<1>2. filter \in FilterType
  BY <1>1, FiltersAssumption
<1>3. OneNameEach(out)
  BY DEF CacheInv, OneNameEach
<1>4. Selected \in Seq(Port)
  BY <1>1, <1>3, SelectedProperties
<1>5. Len(seen) = Len(Kinds)
  <2>1. kind = Len(Kinds) + 1 /\ Len(seen) = kind - 1 /\ Len(Kinds) = 4
    BY DEF Listed, PictureInv, Kinds
  <2>2. QED
    BY <2>1
<1>6. DOMAIN out = DOMAIN records /\ \A i \in DOMAIN out : out[i] \in Port
  <2>1. Len(out) = Len(records)
    BY DEF Listed
  <2>2. QED
    BY <1>1, <2>1, LenProperties
<1>7. ASSUME NEW rec \in Record
      PROVE  Cardinality({i \in DOMAIN Selected : Bare(Selected[i]) = rec})
               = IF AskedFor(rec) THEN Cardinality(Sightings(rec)) ELSE 0
  <2> DEFINE X == {p \in Port : Bare(p) = rec}
             Y == {p \in X : Asked(p)}
  <2>1. {i \in DOMAIN Selected : Bare(Selected[i]) = rec} = Places(Selected, X)
    <3>1. \A i \in DOMAIN Selected : Selected[i] \in Port
      BY <1>4, LenProperties
    <3>2. QED
      BY <3>1 DEF Places
  <2>2. Cardinality(Places(Selected, X)) = Cardinality(Places(out, Y))
    <3> HIDE DEF X
    <3>1. QED
      BY <1>1, <1>2, SelectedPlaces
  <2>3. \A i \in DOMAIN out : Bare(out[i]) = records[i]
    BY DEF PictureInv
  <2>4. ASSUME NEW i \in DOMAIN out, records[i] = rec
        PROVE  Asked(out[i]) <=> AskedFor(rec)
    <3> DEFINE p == WithName(rec, NameOf(rec.pid))
    <3>1. Bare(out[i]) = rec
      BY <2>3, <2>4
    <3>2. /\ rec.protocol = out[i].protocol /\ rec.lip = out[i].lip
          /\ rec.lport = out[i].lport /\ rec.rip = out[i].rip /\ rec.rport = out[i].rport
          /\ rec.state = out[i].state /\ rec.pid = out[i].pid
      BY <3>1 DEF Bare
    <3>3. NameOf(rec.pid) = out[i].process
      BY <3>2 DEF CacheInv, NameOf
    <3>4. /\ p.protocol = out[i].protocol /\ p.lip = out[i].lip
          /\ p.lport = out[i].lport /\ p.rip = out[i].rip /\ p.rport = out[i].rport
          /\ p.state = out[i].state /\ p.pid = out[i].pid /\ p.process = out[i].process
      BY <3>2, <3>3 DEF WithName
    <3> HIDE DEF p
    <3>5. Match(filter, p) <=> Match(filter, out[i])
      BY <3>4 DEF Match, HasRemote
    <3>6. HasRemote(rec) <=> HasRemote(out[i])
      BY <3>2 DEF HasRemote
    <3>7. QED
      BY <3>2, <3>5, <3>6 DEF Asked, AskedFor, p
  <2>5. Places(out, Y) = IF AskedFor(rec) THEN Places(records, {rec}) ELSE {}
    BY <1>6, <2>3, <2>4 DEF Places
  <2>6. Cardinality(Places(records, {rec})) = Cardinality(Sightings(rec))
    BY DEF PictureInv
  <2> HIDE DEF X, Y
  <2>7. QED
    BY <2>1, <2>2, <2>5, <2>6, FS_EmptySet
<1>8. QED
  BY <1>5, <1>7

\* Only a print changes what is shown, and it shows a selection.
LEMMA ShownStep ==
    ASSUME TypeOK, ReadInv, CacheInv, PictureInv, ShownInv, [Next]_vars
    PROVE  ShownInv'
<1> USE DEF systemVars, choiceVars, readVars, nameVars, outputVars
<1>1. CASE WriteTable
  <2>1. out \in Seq(Port) /\ OneNameEach(out)
    BY DEF TypeOK, CacheInv, OneNameEach
  <2>2. command = "connections" => InOrder(Selected)
    BY <2>1, SelectedProperties
  <2>3. /\ shown' = Selected /\ Listed
        /\ UNCHANGED <<command, filter, seen, records, cache>>
    BY <1>1 DEF WriteTable
  <2>4. command = "connections" => InOrder(shown')
    BY <2>2, <2>3
  <2>5. ConnectionsInOneOrder'
    BY <2>3, <2>4 DEF ConnectionsInOneOrder, OneOrder, InOrder
  <2>6. /\ Len(seen) = Len(Kinds)
        /\ \A rec \in Record :
             Cardinality({i \in DOMAIN Selected : Bare(Selected[i]) = rec})
               = IF AskedFor(rec) THEN Cardinality(Sightings(rec)) ELSE 0
    BY <2>3, SelectedComplete
  <2>7. \A i \in DOMAIN records : records[i] \in Record
    <3>1. records \in Seq(Record)
      BY DEF TypeOK
    <3>2. QED
      BY <3>1, LenProperties
  <2>8. \A k \in DOMAIN seen : \A i \in DOMAIN seen[k] :
          Representable(Kinds[k], seen[k][i]) => Convert(Kinds[k], seen[k][i]) \in Record
    BY SeenRows, ConvertType
  <2>9. \A rec : AskedFor(rec)' = AskedFor(rec) /\ Sightings(rec)' = Sightings(rec)
    BY <2>3 DEF AskedFor, Sightings, NameOf
  <2>10. EverySocketOnce'
    BY <2>3, <2>6, <2>7, <2>8, <2>9 DEF EverySocketOnce
  <2>11. QED
    BY <2>5, <2>10 DEF ShownInv
<1>2. CASE /\ UNCHANGED <<shown, command>>
           /\ \/ outcome' # "listed"
              \/ UNCHANGED <<outcome, filter, seen, records, cache>>
  <2>1. ConnectionsInOneOrder'
    BY <1>2 DEF ShownInv, ConnectionsInOneOrder, OneOrder
  <2>2. CASE outcome' # "listed"
    BY <2>1, <2>2 DEF ShownInv, EverySocketOnce
  <2>3. CASE UNCHANGED <<outcome, filter, seen, records, cache>>
    <3>1. \A rec : AskedFor(rec)' = AskedFor(rec) /\ Sightings(rec)' = Sightings(rec)
      BY <1>2, <2>3 DEF AskedFor, Sightings, NameOf
    <3>2. EverySocketOnce'
      BY <1>2, <2>3, <3>1 DEF ShownInv, EverySocketOnce
    <3>3. QED
      BY <2>1, <3>2 DEF ShownInv
  <2>4. QED
    BY <1>2, <2>2, <2>3
<1>3. \/ WriteTable
      \/ /\ UNCHANGED <<shown, command>>
         /\ \/ outcome' # "listed"
            \/ UNCHANGED <<outcome, filter, seen, records, cache>>
  <2>1. CASE NotImplemented \/ TableFails \/ WriteFails
    BY <2>1 DEF NotImplemented, TableFails, WriteFails, Fail
  <2>2. CASE TooSmall
    <3>1. CASE attempt + 1 = Attempts
      BY <2>2, <3>1 DEF TooSmall, Fail
    <3>2. CASE attempt + 1 # Attempts
      BY <2>2, <3>2 DEF TooSmall
    <3>3. QED
      BY <3>1, <3>2
  <2>3. CASE TableRead \/ OpenProcess \/ CacheHit
    <3>1. outcome = "none" /\ outcome' = outcome /\ UNCHANGED <<shown, command>>
      BY <2>3 DEF TableRead, OpenProcess, CacheHit, Miss, ListUnchanged, ReadInv
    <3>2. QED
      BY <3>1
  <2>4. CASE Lookup
    BY <2>4 DEF Lookup, IdleProcess, CannotOpen, QueryName, QueryFails, Miss, Remember,
                ListUnchanged, ReadInv
  <2>5. CASE System
    BY <2>5 DEF System, SocketAppears, SocketCloses, ProcessChanges, SystemMoves
  <2>6. CASE Finished \/ UNCHANGED vars
    <3>1. UNCHANGED <<shown, command, outcome, filter, seen, records, cache>>
      BY <2>6 DEF Finished, vars
    <3>2. QED
      BY <3>1
  <2>7. QED
    BY <2>1, <2>2, <2>3, <2>4, <2>5, <2>6 DEF Next, Program, Progress, Lookup
<1>4. QED
  BY <1>1, <1>2, <1>3

(***************************************************************************)
(* The theorems.                                                            *)
(***************************************************************************)
\* A run begins in the invariant: nothing is read, named or shown.
LEMMA InitIInv == Init => IInv
<1> SUFFICES ASSUME Init PROVE IInv
  OBVIOUS
<1>1. tables \in [KindSet -> Seq(RowType)]
  BY InitTablesAssumption DEF Init
<1>2. held \in [Pids -> SUBSET (Names \cup {""})] /\ pc = "read"
  BY DEF Init
<1>3. DOMAIN cache = {}
  <2>1. cache = <<>>
    BY DEF Init, NewCache
  <2>2. QED
    BY <2>1
<1>4. out = <<>> /\ shown = <<>> /\ records = <<>> /\ seen = <<>>
  BY DEF Init
<1>5. kind = 1 /\ 1 \in 1 .. Len(Kinds) + 1 /\ 1 \in 1 .. Len(Kinds)
  <2>1. kind = 1
    BY DEF Init
  <2>2. Len(Kinds) = 4
    BY DEF Kinds
  <2>3. QED
    BY <2>1, <2>2
<1>6. attempt = 0 /\ 0 \in 0 .. Attempts - 1 /\ size = 0 /\ grown = 0
      /\ changes = 0 /\ unknown = 0 /\ 0 \in Nat
  <2>1. 0 \in 0 .. Attempts - 1 /\ 0 \in Nat
    BY DEF Attempts
  <2>2. QED
    BY <2>1 DEF Init
<1>7. TypeOK
  <2>1. image \in [Pids -> Names \cup {""}] /\ handle = "" /\ windows \in BOOLEAN
        /\ command \in {"ports", "connections"} /\ filter \in Filters
        /\ pc = "read" /\ outcome = "none"
    BY DEF Init
  <2>2. /\ records \in Seq(Record) /\ out \in Seq(Port) /\ shown \in Seq(Port)
        /\ seen \in Seq(Seq(RowType))
    BY <1>4
  <2>3. DOMAIN cache \subseteq Pids /\ \A p \in DOMAIN cache : cache[p] \in Names \cup {""}
    BY <1>3
  <2>4. handle \in Names \cup {""} /\ pc \in {"read", "name", "query", "done"}
        /\ outcome \in {"none", "unsupported", "tooSmall", "apiError", "writeFailed", "listed"}
    BY <2>1
  <2>5. kind \in 1 .. Len(Kinds) + 1 /\ attempt \in 0 .. Attempts - 1 /\ size \in Nat
        /\ changes \in Nat /\ grown \in Nat /\ unknown \in Nat
    BY <1>5, <1>6
  <2>6. QED
    BY <1>1, <1>2, <2>1, <2>2, <2>3, <2>4, <2>5 DEF TypeOK
<1>8. ReadInv
  <2>1. pc = "read" /\ outcome = "none"
    BY DEF Init
  <2>2. QED
    BY <1>5, <1>6, <2>1 DEF ReadInv
<1>9. CacheInv /\ HeldInv /\ PictureInv /\ ShownInv
  <2>1. pc = "read"
    BY DEF Init
  <2>2. DOMAIN out = {} /\ DOMAIN shown = {}
    BY <1>4
  <2>3. CacheInv
    BY <2>2 DEF CacheInv
  <2>4. HeldInv
    BY <1>2, <1>3, <2>1 DEF HeldInv
  <2>5. outcome = "none"
    BY DEF Init
  <2>6. ShownInv
    BY <2>2, <2>5 DEF ShownInv, ConnectionsInOneOrder, OneOrder, EverySocketOnce
  <2>7. \A rec \in Record : Sightings(rec) = {} /\ Places(records, {rec}) = {}
    BY <1>4 DEF Sightings, SightingsIn, Places
  <2>8. PictureInv
    <3>1. Len(seen) = 0 /\ Len(out) = 0 /\ Len(records) = 0
      BY <1>4
    <3>2. /\ Len(seen) = kind - 1 /\ Len(out) <= Len(records)
          /\ pc \in {"name", "query"} \/ outcome = "listed" => kind = Len(Kinds) + 1
      BY <1>5, <2>1, <2>5, <3>1
    <3>3. \A rec \in Record :
            /\ IsFiniteSet(Sightings(rec))
            /\ Cardinality(Places(records, {rec})) = Cardinality(Sightings(rec))
      BY <2>7, FS_EmptySet
    <3>4. QED
      BY <2>2, <3>2, <3>3 DEF PictureInv
  <2>9. QED
    BY <2>3, <2>4, <2>6, <2>8
<1>10. QED
  BY <1>7, <1>8, <1>9 DEF IInv

\* The invariant holds in every state of every run.
THEOREM Invariance == Spec => []IInv
<1>1. IInv /\ [Next]_vars => IInv'
  BY TypeStep, ReadStep, CacheStep, HeldStep, PictureStep, ShownStep DEF IInv
<1>2. QED
  BY InitIInv, <1>1, PTL DEF Spec

\* The variables keep their types: what readTable decodes are records, what ListFrom
\* builds and the commands print are ports.
THEOREM TypeCorrect == Spec => []TypeOK
<1>1. IInv => TypeOK
  BY DEF IInv
<1>2. QED
  BY <1>1, Invariance, PTL

\* Whatever the processes do during a listing, the sockets of one process ID carry
\* one name (ListFrom with its cache).
THEOREM NamesAgree == Spec => []OneNamePerProcess
<1>1. IInv => OneNamePerProcess
  BY DEF IInv, CacheInv, OneNamePerProcess
<1>2. QED
  BY <1>1, Invariance, PTL

\* A name shown for a process ID is one that the ID had during this run, however the
\* lookups and the ends of processes interleave.
THEOREM NamesReal == Spec => []NamesWereHeld
<1>1. IInv => NamesWereHeld
  BY DEF IInv, CacheInv, HeldInv, NamesWereHeld
<1>2. QED
  BY <1>1, Invariance, PTL

\* readTable gives up for want of room only if the table grew after each of the calls
\* that asked for its size.
THEOREM GivingUp == Spec => []GivesUpOnlyOnGrowth
<1>1. IInv => GivesUpOnlyOnGrowth
  BY DEF IInv, ReadInv, GivesUpOnlyOnGrowth
<1>2. QED
  BY <1>1, Invariance, PTL

\* A listing of connections is in one order, that of its rows: the order in which the
\* system reported the sockets does not show.
THEOREM ConnectionsOrdered == Spec => []ConnectionsInOneOrder
<1>1. IInv => ConnectionsInOneOrder
  BY DEF IInv, ShownInv
<1>2. QED
  BY <1>1, Invariance, PTL

\* A listing that is printed is complete: it has every socket of the four tables that was
\* asked for, as often as it stood there, and no other.
THEOREM CompleteListing == Spec => []EverySocketOnce
<1>1. IInv => EverySocketOnce
  BY DEF IInv, ShownInv
<1>2. QED
  BY <1>1, Invariance, PTL

(***************************************************************************)
(* The refinement.                                                          *)
(***************************************************************************)
\* No row stands before one with a smaller key.
Ascending(request, s) ==
    \A i, j \in DOMAIN s : i < j => ~LexLess(Key(request, s[j]), Key(request, s[i]))

\* A filter keeps the rows in their order.
LEMMA FilterAscends ==
    ASSUME NEW request, NEW s \in Seq(Port), Ascending(request, s), NEW f
    PROVE  Ascending(request, Apply(s, f))
<1> DEFINE I == {i \in DOMAIN s : Match(f, s[i])}
           k == Kept(s, I)
<1>1. PICK at \in Bijection(1 .. Len(k), I) :
        /\ \A n \in 1 .. Len(k) : k[n] = s[at[n]]
        /\ \A n, m \in 1 .. Len(k) : n < m => at[n] < at[m]
  BY KeptElements
<1>2. k \in Seq(Port)
  BY KeptElements
<1>3. Apply(s, f) = k /\ I \subseteq DOMAIN s
  BY DEF Apply
<1> HIDE DEF k, I
<1>4. at \in [1 .. Len(k) -> I] /\ DOMAIN k = 1 .. Len(k)
  BY <1>2, LenProperties DEF Bijection, Injection
<1>5. QED
  BY <1>1, <1>3, <1>4 DEF Ascending

\* What a command prints is in the order of its keys.
LEMMA SelectedAscends ==
    ASSUME TypeOK
    PROVE  Ascending(Request, Selected)
<1> DEFINE sorted == SortPorts(out)
           remote == OnlyWithRemote(sorted)
           conns == SortConnections(remote)
<1>1. out \in Seq(Port) /\ command \in {"ports", "connections"} /\ Request.command = command
  BY DEF TypeOK, Request
<1>2. sorted \in Seq(Port) /\ remote \in Seq(Port) /\ conns \in Seq(Port)
  BY <1>1, SortsSort, RemotePlaces
<1>3. CASE command = "ports"
  <2> DEFINE key == [p \in Port |-> PortKey(p)]
  <2>1. key \in [Port -> [1 .. 6 -> Int]]
    BY KeyTypes
  <2>2. \A p \in Port : key[p] = PortKey(p)
    OBVIOUS
  <2>3. [i \in DOMAIN out |-> PortKey(out[i])] = [i \in DOMAIN out |-> key[out[i]]]
    <3>1. \A i \in DOMAIN out : out[i] \in Port
      BY <1>1, LenProperties
    <3>2. QED
      BY <3>1
  <2> HIDE DEF key
  <2>4. IsStableSort(sorted, out, [i \in DOMAIN out |-> key[out[i]]])
    BY <1>1, <2>3, SortsSort
  <2> HIDE DEF sorted
  <2>5. \A i, j \in DOMAIN sorted : i < j => ~LexLess(key[sorted[j]], key[sorted[i]])
    BY <1>1, <1>2, <2>1, <2>4, SortedKeys
  <2>6. \A i \in DOMAIN sorted : sorted[i] \in Port
    BY <1>2, LenProperties
  <2>7. Ascending(Request, sorted)
    BY <1>1, <1>3, <2>2, <2>5, <2>6 DEF Ascending, Key
  <2>8. QED
    BY <1>2, <1>3, <2>7, FilterAscends DEF Selected, sorted
<1>4. CASE command = "connections"
  <2> DEFINE key == [p \in Port |-> ConnectionKey(p)]
  <2>1. key \in [Port -> [1 .. 7 -> Int]]
    BY KeyTypes
  <2>2. \A p \in Port : key[p] = ConnectionKey(p)
    OBVIOUS
  <2>3. [i \in DOMAIN remote |-> ConnectionKey(remote[i])] = [i \in DOMAIN remote |-> key[remote[i]]]
    <3> HIDE DEF remote
    <3>1. \A i \in DOMAIN remote : remote[i] \in Port
      BY <1>2, LenProperties
    <3>2. QED
      BY <3>1
  <2> HIDE DEF key, remote
  <2>4. IsStableSort(conns, remote, [i \in DOMAIN remote |-> key[remote[i]]])
    BY <1>2, <2>3, SortsSort
  <2> HIDE DEF conns
  <2>5. \A i, j \in DOMAIN conns : i < j => ~LexLess(key[conns[j]], key[conns[i]])
    BY <1>2, <2>1, <2>4, SortedKeys
  <2>6. \A i \in DOMAIN conns : conns[i] \in Port
    BY <1>2, LenProperties
  <2>7. Ascending(Request, conns)
    BY <1>1, <1>4, <2>2, <2>5, <2>6 DEF Ascending, Key
  <2>8. QED
    BY <1>2, <1>4, <2>7, FilterAscends DEF Selected, Connections, conns, remote
<1>5. QED
  BY <1>1, <1>3, <1>4

\* What is printed was listed.
LEMMA SelectedListed ==
    ASSUME TypeOK, CacheInv
    PROVE  \A i \in DOMAIN Selected : \E j \in DOMAIN out : Selected[i] = out[j]
<1>1. /\ out \in Seq(Port) /\ filter \in Filters /\ command \in {"ports", "connections"}
      /\ OneNameEach(out)
  BY DEF TypeOK, CacheInv, OneNameEach
<1>2. Selected \in Seq(Port)
  BY <1>1, SelectedProperties
<1>3. SUFFICES ASSUME NEW i \in DOMAIN Selected
               PROVE  \E j \in DOMAIN out : Selected[i] = out[j]
  OBVIOUS
<1> DEFINE X == {Selected[i]}
           P == Places(Selected, X)
           Q == Places(out, {p \in X : Asked(p)})
<1>4. Cardinality(P) = Cardinality(Q)
  BY <1>1, FiltersAssumption, SelectedPlaces
<1>5. i \in P
  BY DEF Places
<1>6. IsFiniteSet(P) /\ IsFiniteSet(Q)
  BY <1>1, <1>2, PlacesFinite DEF Places
<1>7. Q # {}
  <2> HIDE DEF P, Q
  <2>1. QED
    BY <1>4, <1>5, <1>6, FS_EmptySet
<1>8. QED
  BY <1>7 DEF Places

\* A record that was listed was seen in one of the pictures.
LEMMA RecordsSeen ==
    ASSUME TypeOK, PictureInv, NEW j \in DOMAIN records
    PROVE  records[j] \in Seen(seen)
<1> DEFINE rec == records[j]
<1>1. records \in Seq(Record)
  BY DEF TypeOK
<1>2. rec \in Record /\ j \in Places(records, {rec})
  BY <1>1, LenProperties DEF Places
<1>3. IsFiniteSet(Places(records, {rec}))
  BY <1>1, PlacesFinite DEF Places
<1>4. /\ IsFiniteSet(Sightings(rec))
      /\ Cardinality(Places(records, {rec})) = Cardinality(Sightings(rec))
  BY <1>2 DEF PictureInv
<1> HIDE DEF rec
<1>5. Sightings(rec) # {}
  BY <1>2, <1>3, <1>4, FS_EmptySet
<1>6. PICK k \in DOMAIN seen : \E i \in DOMAIN seen[k] :
        Representable(Kinds[k], seen[k][i]) /\ Convert(Kinds[k], seen[k][i]) = rec
  BY <1>5 DEF Sightings, SightingsIn
<1>7. QED
  BY <1>6 DEF Seen, rec

\* What is printed answers the request with what was seen and found out.
LEMMA SelectionAnswers ==
    ASSUME TypeOK, CacheInv, HeldInv, PictureInv, Listed
    PROVE  Answers(Request, seen, held, Selected)
<1> DEFINE names == [p \in Pids |-> NameOf(p)]
           C == Names \cup {""}
<1>1. names \in [Pids -> C] /\ \A p \in Pids : names[p] = NameOf(p)
  BY DEF NameOf, TypeOK
<1>2. \A p \in Pids : names[p] \in held[p] \cup {""}
  BY DEF NameOf, HeldInv
<1>3. /\ Len(out) = Len(records)
      /\ out \in Seq(Port) /\ records \in Seq(Record)
  BY DEF Listed, TypeOK
<1>4. DOMAIN out = DOMAIN records /\ \A j \in DOMAIN out : out[j] \in Port
  BY <1>3, LenProperties
<1>5. ASSUME NEW i \in DOMAIN Selected
      PROVE  /\ Selected[i].process = names[Selected[i].pid]
             /\ Bare(Selected[i]) \in Seen(seen)
  <2>1. PICK j \in DOMAIN out : Selected[i] = out[j]
    BY SelectedListed
  <2>2. out[j].pid \in Pids
    BY <1>4 DEF Port
  <2>3. out[j].process = NameOf(out[j].pid)
    BY DEF CacheInv, NameOf
  <2>4. Bare(out[j]) = records[j] /\ records[j] \in Seen(seen)
    BY <1>4, RecordsSeen DEF PictureInv
  <2>5. QED
    BY <1>1, <2>1, <2>2, <2>3, <2>4
<1>6. ASSUME NEW rec \in Seen(seen)
      PROVE  Cardinality({i \in DOMAIN Selected : Bare(Selected[i]) = rec})
               = IF Wanted(Request, rec, names[rec.pid])
                 THEN Cardinality(SightingsIn(seen, rec)) ELSE 0
  <2>1. rec \in Record
    <3>1. \E k \in DOMAIN seen : \E i \in DOMAIN seen[k] :
            Representable(Kinds[k], seen[k][i]) /\ rec = Convert(Kinds[k], seen[k][i])
      BY DEF Seen
    <3>2. QED
      BY <3>1, SeenRows, ConvertType
  <2>2. rec.pid \in Pids
    BY <2>1 DEF Record
  <2>3. Wanted(Request, rec, names[rec.pid]) <=> AskedFor(rec)
    BY <1>1, <2>2 DEF Wanted, Request, AskedFor
  <2>4. Cardinality({i \in DOMAIN Selected : Bare(Selected[i]) = rec})
          = IF AskedFor(rec) THEN Cardinality(Sightings(rec)) ELSE 0
    BY <2>1, SelectedComplete
  <2>5. QED
    BY <2>3, <2>4 DEF Sightings
<1>7. \A i, j \in DOMAIN Selected :
        i < j => ~LexLess(Key(Request, Selected[j]), Key(Request, Selected[i]))
  BY SelectedAscends DEF Ascending
<1> HIDE DEF names
<1>8. QED
  BY <1>1, <1>2, <1>5, <1>6, <1>7 DEF Answers

\* The pictures are all taken as soon as names are looked up.
LEMMA CompleteWhenNaming ==
    ASSUME TypeOK, ReadInv, PictureInv, pc # "done"
    PROVE  /\ Outcome = "none"
           /\ Promise!Complete <=> pc \in {"name", "query"}
           /\ pc = "read" => kind \in 1 .. Len(Kinds) /\ Len(seen) + 1 = kind
<1>1. Outcome = "none" /\ outcome = "none"
  BY DEF ReadInv, Outcome
<1>2. Len(Kinds) = 4 /\ Len(seen) = kind - 1
  BY DEF Kinds, PictureInv
<1>3. pc \in {"read", "name", "query"}
  BY DEF TypeOK
<1>4. pc = "read" => kind \in 1 .. Len(Kinds)
  BY DEF ReadInv
<1>5. pc \in {"name", "query"} => kind = Len(Kinds) + 1
  BY DEF PictureInv
<1>6. QED
  BY <1>1, <1>2, <1>3, <1>4, <1>5 DEF Promise!Complete

\* Each step of a listing is one of the promise or none of its business.
LEMMA PromiseStep ==
    ASSUME IInv, [Next]_vars
    PROVE  [Promise!Next]_(Promise!vars)
<1> DEFINE World == [k \in 1 .. Len(Kinds) |-> tables[Kinds[k]]]
<1>1. TypeOK /\ ReadInv /\ CacheInv /\ HeldInv /\ PictureInv
  BY DEF IInv
<1>2. CASE TableRead
  <2>1. /\ pc = "read" /\ seen' = Append(seen, Current)
        /\ held' = IF kind = Len(Kinds) THEN [p \in Pids |-> {image[p]}] ELSE held
        /\ UNCHANGED <<command, filter, tables, image, shown, outcome>>
    BY <1>2 DEF TableRead, choiceVars, outputVars
  <2>2. /\ Outcome = "none" /\ ~Promise!Complete
        /\ kind \in 1 .. Len(Kinds) /\ Len(seen) + 1 = kind
    BY <1>1, <2>1, CompleteWhenNaming
  <2>3. UNCHANGED <<Request, World, image, shown, Outcome>>
    BY <2>1 DEF Request, Outcome
  <2>4. seen' = Append(seen, World[Len(seen) + 1])
    BY <2>1, <2>2 DEF Current
  <2>5. held' = IF Len(seen) + 1 = Len(Kinds) THEN [p \in Pids |-> {image[p]}] ELSE held
    BY <2>1, <2>2
  <2>6. Promise!Take
    BY <2>2, <2>3, <2>4, <2>5 DEF Promise!Take
  <2>7. QED
    BY <2>6 DEF Promise!Next
<1>3. CASE WriteTable
  <2>1. /\ Listed /\ shown' = Selected /\ outcome' = "listed"
        /\ UNCHANGED <<command, filter, tables, image, seen, held>>
    BY <1>3 DEF WriteTable, systemVars, choiceVars, readVars
  <2>2. Outcome = "none" /\ Promise!Complete
    BY <1>1, <2>1, CompleteWhenNaming DEF Listed
  <2>3. UNCHANGED <<Request, World, image, seen, held>> /\ Outcome' = "listed"
    BY <2>1 DEF Request, Outcome
  <2>4. Answers(Request, seen, held, shown')
    BY <1>1, <2>1, SelectionAnswers
  <2>5. Promise!Deliver
    BY <2>2, <2>3, <2>4 DEF Promise!Deliver
  <2>6. QED
    BY <2>5 DEF Promise!Next
<1>4. ASSUME pc # "done", Fail("unsupported") \/ Fail("tooSmall") \/ Fail("apiError")
                          \/ Fail("writeFailed")
      PROVE  [Promise!Next]_(Promise!vars)
  <2>1. /\ outcome' \in {"unsupported", "tooSmall", "apiError", "writeFailed"}
        /\ UNCHANGED <<command, filter, tables, image, seen, held, shown>>
    BY <1>4 DEF Fail, systemVars, choiceVars, readVars
  <2>2. Outcome = "none"
    BY <1>1, <1>4, CompleteWhenNaming
  <2>3. UNCHANGED <<Request, World, image, seen, held, shown>> /\ Outcome' = "failed"
    BY <2>1 DEF Request, Outcome
  <2>4. Promise!Refuse
    BY <2>2, <2>3 DEF Promise!Refuse
  <2>5. QED
    BY <2>4 DEF Promise!Next
<1>5. ASSUME UNCHANGED <<command, filter, tables, image, seen, held, shown, outcome>>
      PROVE  [Promise!Next]_(Promise!vars)
  <2>1. UNCHANGED <<Request, World, image, seen, held, shown, Outcome>>
    BY <1>5 DEF Request, Outcome
  <2>2. QED
    BY <2>1 DEF Promise!vars
<1>6. CASE TooSmall
  <2>1. CASE attempt + 1 = Attempts
    BY <1>4, <1>6, <2>1 DEF TooSmall
  <2>2. CASE attempt + 1 # Attempts
    <3>1. UNCHANGED <<command, filter, tables, image, seen, held, shown, outcome>>
      <4>1. UNCHANGED <<systemVars, choiceVars, seen, outputVars>>
        BY <1>6, <2>2 DEF TooSmall
      <4>2. QED
        BY <4>1 DEF systemVars, choiceVars, outputVars
    <3>2. QED
      BY <1>5, <3>1
  <2>3. QED
    BY <2>1, <2>2
<1>7. CASE NotImplemented \/ TableFails \/ WriteFails
  BY <1>4, <1>7 DEF NotImplemented, TableFails, WriteFails, Listed
<1>8. CASE CacheHit \/ OpenProcess
  BY <1>5, <1>8 DEF CacheHit, OpenProcess, ListUnchanged, systemVars, choiceVars, readVars,
                    outputVars
<1>9. CASE Lookup
  BY <1>5, <1>9 DEF Lookup, IdleProcess, CannotOpen, QueryName, QueryFails, Remember,
                    ListUnchanged, systemVars, choiceVars, readVars, outputVars
<1>10. CASE Finished \/ UNCHANGED vars
  BY <1>5, <1>10 DEF Finished, vars, systemVars, choiceVars, readVars, outputVars
<1>11. CASE System
  <2>1. pc # "done" /\ UNCHANGED <<command, filter, pc, seen, shown, outcome>>
    BY <1>11 DEF System, SocketAppears, SocketCloses, ProcessChanges, SystemMoves,
                 choiceVars, readVars, outputVars
  <2>2. /\ Outcome = "none"
        /\ Promise!Complete <=> pc \in {"name", "query"}
    BY <1>1, <2>1, CompleteWhenNaming
  <2>3. UNCHANGED <<Request, seen, shown, Outcome>>
    BY <2>1 DEF Request, Outcome
  <2>4. DOMAIN held = Pids /\ DOMAIN image = Pids
    BY <1>1 DEF TypeOK
  <2>5. held = [p \in Pids |-> held[p]]
    BY <1>1 DEF TypeOK
  <2>6. held' = IF pc \in {"name", "query"} THEN [p \in Pids |-> held[p] \cup {image'[p]}]
                ELSE held
    <3>1. CASE SocketAppears \/ SocketCloses
      <4>1. held' = held /\ image' = image
        BY <3>1 DEF SocketAppears, SocketCloses
      <4>2. pc \in {"name", "query"} => \A p \in Pids : held[p] \cup {image[p]} = held[p]
        BY <1>1 DEF HeldInv
      <4>3. QED
        BY <2>5, <4>1, <4>2
    <3>2. CASE ProcessChanges
      <4>1. PICK p \in Pids : \E name :
              /\ image' = [image EXCEPT ![p] = name]
              /\ held' = IF pc = "read" THEN held
                         ELSE [held EXCEPT ![p] = held[p] \cup {name}]
        BY <3>2 DEF ProcessChanges
      <4>2. PICK name : /\ image' = [image EXCEPT ![p] = name]
                        /\ held' = IF pc = "read" THEN held
                                   ELSE [held EXCEPT ![p] = held[p] \cup {name}]
        BY <4>1
      <4>3. CASE pc \in {"name", "query"}
        <5>1. \A q \in Pids : image[q] \in held[q]
          BY <1>1, <4>3 DEF HeldInv
        <5>2. held' = [held EXCEPT ![p] = held[p] \cup {name}]
          BY <4>2, <4>3
        <5>3. \A q \in Pids : held'[q] = held[q] \cup {image'[q]}
          BY <2>4, <4>2, <5>1, <5>2
        <5>4. held' = [q \in Pids |-> held'[q]]
          BY <2>4, <5>2
        <5>5. QED
          BY <4>3, <5>3, <5>4
      <4>4. CASE pc = "read"
        BY <4>2, <4>4
      <4>5. pc \in {"read", "name", "query"}
        BY <1>1, <2>1 DEF TypeOK
      <4>6. QED
        BY <4>3, <4>4, <4>5
    <3>3. QED
      BY <1>11, <3>1, <3>2 DEF System
  <2>7. held' = IF Promise!Complete THEN [p \in Pids |-> held[p] \cup {image'[p]}] ELSE held
    BY <2>2, <2>6
  <2>8. Promise!Move
    BY <2>2, <2>3, <2>7 DEF Promise!Move
  <2>9. QED
    BY <2>8 DEF Promise!Next
<1>12. QED
  BY <1>2, <1>3, <1>5, <1>6, <1>7, <1>8, <1>9, <1>10, <1>11 DEF Next, Program, Progress, Lookup

\* ports and connections implement the promise of a listing: one picture of each table, one
\* name of each process from after the last picture, rows that are the whole answer to the
\* request in its order - or an error and no rows, whatever calls, buffers, retries and
\* the cache do, and however the system moves under them.
THEOREM ListingImplemented == Spec => ImplementsListing
<1>1. Init => Promise!Init
  <2>1. Init => Outcome = "none"
    BY DEF Init, Outcome
  <2>2. QED
    BY <2>1 DEF Init, Promise!Init
<1>2. IInv /\ [Next]_vars => [Promise!Next]_(Promise!vars)
  BY PromiseStep
<1>3. QED
  BY <1>1, <1>2, Invariance, PTL DEF Spec, ImplementsListing, Promise!Safety
=============================================================================
