----------------------------- MODULE Rendering -----------------------------
(***************************************************************************)
(* The documents of the commands: what each command has to show, the calls  *)
(* that show it, and what a reader of its complete output gets to know.     *)
(***************************************************************************)
EXTENDS Output, Tables

CONSTANT Results    \* for each command, what it may have to show

IsList(s) == s \in Seq({s[i] : i \in DOMAIN s})

CallsOf(c, result) ==
    CASE c = "ports"       -> PortsTable(result)
      [] c = "connections" -> ConnectionsTable(result)
      [] c = "interfaces"  -> InterfacesTable(result)
      [] c = "details"     -> DetailsTable(result)
      [] c = "dns"         -> DnsTable(result)
      [] c = "ping"        -> PingTable(result)
      [] c = "usage"       -> UsageText
      [] c = "about"       -> AboutText

\* Mutant of Unnamed: the names that can be read are counted.
UnnamedComplement(c, result) ==
    IF c \in {"ports", "connections"} THEN Len(result) - CountUnknown(result) ELSE 0

Unnamed(c, result) == IF c \in {"ports", "connections"} THEN CountUnknown(result) ELSE 0

Document(c, result) ==
    [of |-> result, calls |-> CallsOf(c, result), unknown |-> Unnamed(c, result)]

AllDocuments == [c \in Commands |-> {Document(c, result) : result \in Results[c]}]

\* What the texts are that stand beside a placeholder, and what the calls promise whose
\* results are shown: no process is named "<unknown>", an address ends in its prefix
\* length, a MAC is made of hexadecimal digits, and ping counts its packets right.
ASSUME ResultsAssumption ==
    /\ Documents = AllDocuments
    /\ Commands \subseteq {"ports", "connections", "interfaces", "details", "dns", "ping",
                           "usage", "about"}
    /\ \A c \in Commands \ {"ping", "usage", "about"} : \A s \in Results[c] : IsList(s)
    /\ \A c \in Commands \cap {"ports", "connections"} : \A ps \in Results[c] :
         \A i \in DOMAIN ps : ps[i].process # UnknownProcess
    /\ \A c \in Commands \cap {"interfaces", "details"} : \A ifs \in Results[c] :
         \A i \in DOMAIN ifs :
           /\ c = "interfaces" => ifs[i].name # placeholder
           /\ ifs[i].mac # placeholder /\ IsList(ifs[i].addrs)
           /\ \A j \in DOMAIN ifs[i].addrs : ifs[i].addrs[j] \notin {"", placeholder}
    /\ \A c \in Commands \cap {"ping"} : \A result \in Results[c] :
         /\ IsList(result.packets) /\ result.sent = Len(result.packets)
         /\ result.received = Cardinality({i \in DOMAIN result.packets :
                                             result.packets[i].status = "OK"})

(***************************************************************************)
(* Reading.                                                                 *)
(***************************************************************************)
\* The lines of stdout.
Shown == [i \in DOMAIN stdout |-> doc.calls[stdout[i]].line]

HowMany(lines, Is(_)) == Cardinality({i \in DOMAIN lines : Is(lines[i])})

\* The sections of a text, each of which begins at an index in starts.
Sections(lines, starts) ==
    LET ends(i) == {j - 1 : j \in {k \in starts : k > i}} \cup {Len(lines)}
        end(i) == CHOOSE e \in ends(i) : \A x \in ends(i) : e <= x
        order == Ranked(starts, {p \in starts \X starts : p[1] < p[2]})
    IN  [n \in DOMAIN order |-> SubSeq(lines, order[n], end(order[n]))]

Unplaced(text) == IF text = placeholder THEN "" ELSE text

Addresses(texts) == IF texts = <<placeholder>> THEN <<>> ELSE texts

\* Blank columns belong to the interface above.
ReadInterfaces(rows) ==
    Each(Sections(rows, {i \in DOMAIN rows : rows[i].name # ""}), LAMBDA lines :
        [name |-> Unplaced(lines[1].name), up |-> lines[1].state = "UP",
         mac |-> Unplaced(lines[1].mac),
         addrs |-> Addresses(Each(lines, LAMBDA line : line.address))])

IsBlank(line) == line.label = "" /\ line.value = ""

\* Blank lines stand between the interfaces; the addresses come last.
ReadBlocks(lines) ==
    Each(Sections(lines, {i \in DOMAIN lines : i = 1 \/ IsBlank(lines[i - 1])}), LAMBDA b :
        [name |-> b[1].label, up |-> b[3].value = "UP", mac |-> Unplaced(b[4].value),
         addrs |-> Addresses(Each(Kept(b, {i \in DOMAIN b : i > 5 /\ ~IsBlank(b[i])}),
                                  LAMBDA line : line.value))])

Told(iface) == [name |-> iface.name, up |-> "up" \in iface.flags, mac |-> iface.mac,
                addrs |-> iface.addrs]

Agrees ==
    LET rows == SubSeq(Shown, 2, Len(Shown))
        body == SubSeq(Shown, 2, Len(Shown) - 1)
        last == Shown[Len(Shown)]
    IN  CASE command \in {"ports", "connections"} ->
               /\ Len(rows) = Len(doc.of)
               /\ note = HowMany(rows, LAMBDA row : row.process = UnknownProcess)
          [] command = "interfaces" -> ReadInterfaces(rows) = Each(doc.of, Told)
          [] command = "details" -> ReadBlocks(Shown) = Each(doc.of, Told)
          [] command = "dns" ->
               /\ last.records = Len(body) /\ Len(body) = Len(doc.of)
               /\ last.breakdown # <<>> => \A t \in {TypeA, TypeAAAA} :
                    last.breakdown[t] = HowMany(body, LAMBDA rec : rec.type = t)
          [] command = "ping" ->
               /\ last.sent = Len(body)
               /\ last.received = HowMany(body, LAMBDA row : row.time # placeholder)
               /\ last.lost = HowMany(body, LAMBDA row : row.status # "OK")
          [] OTHER -> TRUE

\* A complete table tells what the command found out: the addresses of an interface can
\* be told from those of its neighbours, the summaries of dns and ping and the note on
\* stderr count what the rows show.
TellsTheResult == pc = "done" /\ err = "none" /\ command \notin Careless => Agrees
=============================================================================
