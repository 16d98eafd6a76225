------------------------------ MODULE Sockets ------------------------------
(***************************************************************************)
(* The data of internal/ports and internal/connections: the rows of the     *)
(* four socket tables of Windows and their conversion, the filters, the two *)
(* orders and the selection of the connections.  Addresses are numbers in   *)
(* the order of their text, 0 the empty one; a process name that could not  *)
(* be read is "".                                                           *)
(***************************************************************************)
EXTENDS Orders

TCP == 1
UDP == 2

\* States in the order of the Go constants.  A TCP row's value 1 .. 12 is a state
\* of that number.
StateNone == 0
StateListen == 2
StateDeleteTCB == 12

\* Port numbers have 16 bits.
PortCount == 65536
PortNumber == 0 .. PortCount - 1

Kinds == <<"TCP4", "TCP6", "UDP4", "UDP6">>
TcpKinds == {"TCP4", "TCP6"}

\* Mutant of RowSize: the sizes of the padded C structures.
PaddedRowSize == [TCP4 |-> 24, TCP6 |-> 56, UDP4 |-> 16, UDP6 |-> 32]

\* The bytes from one row to the next, as readTable counts them.
RowSize == [TCP4 |-> 24, TCP6 |-> 56, UDP4 |-> 12, UDP6 |-> 28]

\* The bytes from one row to the next, as the API packs them.
ApiRowSize == [TCP4 |-> 24, TCP6 |-> 56, UDP4 |-> 12, UDP6 |-> 28]

\* A row whose TCP state is not known is skipped.
Representable(kind, row) == kind \in TcpKinds => row.state \in 1 .. StateDeleteTCB

\* Mutant of Port16: the upper half of the word is kept.
WholeWord(word) == word

\* The port is in the low 16 bits of its word.
Port16(word) == word % PortCount

Convert(kind, row) ==
    IF kind \in TcpKinds
      THEN [protocol |-> TCP, lip |-> row.lip, lport |-> Port16(row.lport),
            rip |-> row.rip, rport |-> Port16(row.rport), state |-> row.state, pid |-> row.pid]
      ELSE [protocol |-> UDP, lip |-> row.lip, lport |-> Port16(row.lport),
            rip |-> 0, rport |-> 0, state |-> StateNone, pid |-> row.pid]

\* A Port is a Record with the name of its process.
WithName(rec, name) ==
    [protocol |-> rec.protocol, lip |-> rec.lip, lport |-> rec.lport, rip |-> rec.rip,
     rport |-> rec.rport, state |-> rec.state, pid |-> rec.pid, process |-> name]

HasRemote(p) == p.rport # 0

(***************************************************************************)
(* Orders.                                                                  *)
(***************************************************************************)
PortKey(p) == <<p.protocol, p.lip, p.lport, p.pid, p.rip, p.rport>>

\* Mutant of ConnectionKey: the keys of ports.Sort, without the state.
ConnectionKeyWithoutState(p) ==
    <<p.protocol, p.lip, p.lport, p.rip, p.rport, p.pid>>

ConnectionKey(p) == <<p.protocol, p.lip, p.lport, p.rip, p.rport, p.state, p.pid>>

SortPorts(ps) == StableSort(ps, [i \in DOMAIN ps |-> PortKey(ps[i])])

SortConnections(ps) == StableSort(ps, [i \in DOMAIN ps |-> ConnectionKey(ps[i])])

(***************************************************************************)
(* Filters.                                                                 *)
(***************************************************************************)
\* "process" is the set of the names that contain the text asked for; the empty
\* text is in every name, the unreadable one too.
NoFilter(names) == [protocol |-> 0, lport |-> 0, pid |-> 0, process |-> names \cup {""},
                    state |-> StateNone, remoteOnly |-> FALSE, rport |-> 0]

Match(f, p) ==
    /\ f.protocol # 0 => p.protocol = f.protocol
    /\ f.lport # 0 => p.lport = f.lport
    /\ f.pid # 0 => p.pid = f.pid
    /\ p.process \in f.process
    /\ f.state # StateNone => p.state = f.state
    /\ f.remoteOnly => HasRemote(p)
    /\ f.rport # 0 => p.rport = f.rport

Apply(ps, f) == Kept(ps, {i \in DOMAIN ps : Match(f, ps[i])})

OnlyWithRemote(ps) ==
    Kept(ps, {i \in DOMAIN ps : HasRemote(ps[i]) /\ ps[i].state # StateListen})

\* connections.Select.
Connections(ps) == SortConnections(OnlyWithRemote(ps))

CountUnknown(ps) == Cardinality({i \in DOMAIN ps : ps[i].process = ""})
=============================================================================
