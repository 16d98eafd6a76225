------------------------------- MODULE Tables -------------------------------
(***************************************************************************)
(* What the commands print: the render.go files as the calls they make, one *)
(* after the other.  A call is a Fprintf to the tabwriter of a line with so *)
(* many cells, a Fprintf to stdout itself, or the Flush of the tabwriter.   *)
(* Widths, wording and units are left out.                                  *)
(***************************************************************************)
EXTENDS Sockets, Lookup

CONSTANT Wildcards      \* the addresses "", "0.0.0.0" and "::"

Seqs == INSTANCE SequencesExt

Tab(cells, line) == [op |-> "tab", cells |-> cells, line |-> line]
Out(line) == [op |-> "out", cells |-> 0, line |-> line]
Flush == [op |-> "flush", cells |-> 0, line |-> "none"]

Header(cells) == Tab(cells, "header")

Each(s, Render(_)) == [i \in DOMAIN s |-> Render(s[i])]

placeholder == "-"

OrPlaceholder(text) == IF text = "" THEN placeholder ELSE text

(***************************************************************************)
(* ports and connections.                                                   *)
(***************************************************************************)
\* An address and a port, or the port alone.
LocalEndpoint(p) == IF p.lip \in Wildcards THEN <<p.lport>> ELSE <<p.lip, p.lport>>

RemoteEndpoint(p) == IF HasRemote(p) THEN <<p.rip, p.rport>> ELSE <<>>

UnknownProcess == "<unknown>"

\* Mutant of ProcessName: a name that could not be read stays blank.
ProcessNameBlank(p) == p.process

ProcessName(p) == IF p.process = "" THEN UnknownProcess ELSE p.process

PortRow(p) ==
    Tab(5, [protocol |-> p.protocol, local |-> LocalEndpoint(p), state |-> p.state,
            pid |-> p.pid, process |-> ProcessName(p)])

PortsTable(ps) == <<Header(5)>> \o Each(ps, PortRow) \o <<Flush>>

ConnectionRow(p) ==
    Tab(6, [protocol |-> p.protocol, local |-> LocalEndpoint(p), remote |-> RemoteEndpoint(p),
            state |-> p.state, pid |-> p.pid, process |-> ProcessName(p)])

ConnectionsTable(ps) == <<Header(6)>> \o Each(ps, ConnectionRow) \o <<Flush>>

(***************************************************************************)
(* interfaces, and interfaces --verbose.                                    *)
(***************************************************************************)
StateName(iface) == IF "up" \in iface.flags THEN "UP" ELSE "DOWN"

AddressLines(addrs) == IF addrs = <<>> THEN <<placeholder>> ELSE addrs

\* Mutant of InterfaceRows: the columns are filled in on every line.
InterfaceRowsRepeated(iface) ==
    Each(AddressLines(iface.addrs), LAMBDA addr :
        Tab(4, [name |-> OrPlaceholder(iface.name), state |-> StateName(iface),
                mac |-> OrPlaceholder(iface.mac), address |-> addr]))

\* The second address and those behind it stand below the first, beside blank columns.
InterfaceRows(iface) ==
    LET addresses == AddressLines(iface.addrs)
    IN  [i \in DOMAIN addresses |->
          Tab(4, [name |-> IF i = 1 THEN OrPlaceholder(iface.name) ELSE "",
                  state |-> IF i = 1 THEN StateName(iface) ELSE "",
                  mac |-> IF i = 1 THEN OrPlaceholder(iface.mac) ELSE "",
                  address |-> addresses[i]])]

InterfacesTable(ifs) ==
    <<Header(4)>> \o Seqs!FlattenSeq(Each(ifs, InterfaceRows)) \o <<Flush>>

\* Never empty, so the first line of a block is not blank even without a name.
FlagList(iface) ==
    LET kinds == iface.flags \cap {"loopback", "pointToPoint"}
    IN  CASE kinds = {} -> "(regular)"
          [] kinds = {"loopback"} -> "(loopback)"
          [] kinds = {"pointToPoint"} -> "(point-to-point)"
          [] OTHER -> "(loopback, point-to-point)"

Field(label, value) == Tab(2, [label |-> label, value |-> value])

Block(iface) ==
    <<Field(iface.name, FlagList(iface)), Field("index:", iface.index),
      Field("state:", StateName(iface)), Field("mac:", OrPlaceholder(iface.mac)),
      Field("mtu:", iface.mtu)>>
    \o LET addresses == AddressLines(iface.addrs)
       IN  [i \in DOMAIN addresses |-> Field(IF i = 1 THEN "addresses:" ELSE "", addresses[i])]

\* The line between two blocks has a single cell.
BlankLine == Tab(1, [label |-> "", value |-> ""])

DetailsTable(ifs) ==
    Seqs!FlattenSeq([i \in DOMAIN ifs |->
        (IF i > 1 THEN <<BlankLine>> ELSE <<>>) \o Block(ifs[i])]) \o <<Flush>>

(***************************************************************************)
(* dns and ping: the table and below it the summary, which goes to stdout   *)
(* without the tabwriter.                                                   *)
(***************************************************************************)
RecordRow(rec) == Tab(3, rec)

\* The records by family, if there are both.
Breakdown(records) ==
    LET n == Counts(records)
    IN  IF n[TypeA] > 0 /\ n[TypeAAAA] > 0 THEN <<n[TypeA], n[TypeAAAA]>> ELSE <<>>

DnsTable(records) ==
    (IF records = <<>> THEN <<Out("no records")>>
     ELSE <<Header(3)>> \o Each(records, RecordRow) \o <<Flush>>)
    \o <<Out([records |-> Len(records), breakdown |-> Breakdown(records)])>>

PacketTime(packet) == IF packet.status = "OK" THEN "measured" ELSE placeholder

PacketRow(packet) ==
    Tab(5, [sequence |-> packet.sequence, status |-> packet.status,
            time |-> PacketTime(packet)])

Summary(result) == Out([sent |-> result.sent, received |-> result.received,
                        lost |-> result.sent - result.received])

\* Mutant of PingTable: the summary is written before the table is flushed.
PingTableLateFlush(result) ==
    <<Header(5)>> \o Each(result.packets, PacketRow) \o <<Summary(result), Flush>>

PingTable(result) ==
    <<Header(5)>> \o Each(result.packets, PacketRow) \o <<Flush, Summary(result)>>

(***************************************************************************)
(* Texts whose errors nobody looks at.  A help text is put together in     *)
(* memory and written at once; about writes line by line.                   *)
(***************************************************************************)
UsageText == <<Out("usage")>>

AboutText == [k \in 1 .. 6 |-> Out("about")]
=============================================================================
