---------------------------- MODULE PortListing ----------------------------
(***************************************************************************)
(* One run of "nselecttrace ports" or "connections": Records and readTable  *)
(* of internal/ports/source_windows.go, ListFrom of ports.go with the cache *)
(* and the lookups of internal/processes, the selection and the output of   *)
(* the command.  Sockets and processes come and go all the while: every     *)
(* call of the operating system is a step of its own.                       *)
(***************************************************************************)
EXTENDS Sockets

CONSTANTS
    Rows,       \* the rows that may appear, by kind of table
    Pids,       \* the process IDs
    Names,      \* the names of executables
    Filters,    \* the filters a command line may ask for
    InitTables, \* the tables there may be when the run begins
    MaxRows,    \* bound: rows in a table
    MaxChanges, \* bound: sockets and processes that change during the run
    Slack       \* the API may ask for room for so many rows more than there are

KindSet == {Kinds[i] : i \in DOMAIN Kinds}

RowType == [lip : Nat, lport : Nat, rip : Nat, rport : Nat, state : Nat, pid : Pids]

\* What the flags may ask for; 0 stands for anything.
FilterType == [protocol : {0, TCP, UDP}, lport : PortNumber, pid : Nat,
               process : SUBSET (Names \cup {""}), state : StateNone .. StateDeleteTCB,
               remoteOnly : BOOLEAN, rport : PortNumber]

ASSUME FiltersAssumption == Filters \subseteq FilterType
ASSUME RowsAssumption == Rows \in [KindSet -> SUBSET RowType]
ASSUME InitTablesAssumption == InitTables \subseteq [KindSet -> Seq(RowType)]
ASSUME PidsAssumption == Pids \subseteq Nat
ASSUME NamesAssumption == "" \notin Names
ASSUME BoundsAssumption == MaxRows \in Nat /\ MaxChanges \in Nat /\ Slack \in Nat

VARIABLES
    tables,     \* the socket tables of the system
    image,      \* what a lookup of a process finds: a name, or "" if it cannot
    changes,    \* how often sockets and processes changed
    windows,    \* built for Windows, the only platform with an implementation
    command,    \* "ports" or "connections"
    filter,     \* what the flags ask for
    pc,
    kind,       \* the table being read, an index of Kinds
    attempt,    \* the loop variable of readTable
    size,       \* the size of the buffer of the next call
    records,    \* the records of the tables read so far
    cache,      \* Cache.entries
    handle,     \* the image behind the open process handle
    out,        \* the ports of ListFrom so far
    shown,      \* the rows of the table printed
    unknown,    \* the unnamed sockets that stderr is told of
    outcome,    \* how the command ended
    seen,       \* history: each table as the call that succeeded found it
    grown,      \* history: rows added to the current table since its first call
    held        \* history: the names that each ID had since the last table was read

systemVars == <<tables, image, changes, grown, held>>
choiceVars == <<windows, command, filter>>
readVars == <<kind, attempt, size, records, seen>>
nameVars == <<cache, handle, out>>
outputVars == <<shown, unknown, outcome>>

vars == <<systemVars, choiceVars, pc, readVars, nameVars, outputVars>>

Record == [protocol : {TCP, UDP}, lip : Nat, lport : PortNumber, rip : Nat,
           rport : PortNumber, state : StateNone .. StateDeleteTCB, pid : Pids]

Port == [protocol : {TCP, UDP}, lip : Nat, lport : PortNumber, rip : Nat,
         rport : PortNumber, state : StateNone .. StateDeleteTCB, pid : Pids,
         process : Names \cup {""}]

\* readTable calls the API at most so many times.
Attempts == 3

\* Mutant of NewCache: the cache of an earlier listing is used again.
OldCache == \E name \in Names : cache = [p \in Pids |-> name]

NewCache == cache = <<>>

Init ==
    /\ tables \in InitTables
    /\ image \in [Pids -> Names \cup {""}]
    /\ 0 \in Pids => image[0] = ""
    /\ changes = 0
    /\ windows \in BOOLEAN
    /\ command \in {"ports", "connections"}
    /\ filter \in Filters
    /\ command = "ports" => filter.rport = 0
    /\ pc = "read"
    /\ kind = 1 /\ attempt = 0 /\ size = 0
    /\ records = <<>>
    /\ NewCache
    /\ handle = ""
    /\ out = <<>>
    /\ shown = <<>> /\ unknown = 0 /\ outcome = "none"
    /\ seen = <<>>
    /\ grown = 0
    /\ held = [p \in Pids |-> {}]

(***************************************************************************)
(* Records and readTable.                                                   *)
(***************************************************************************)
HeaderSize == 4

Current == tables[Kinds[kind]]

Needed == HeaderSize + Len(Current) * ApiRowSize[Kinds[kind]]

\* The rows that lie within the buffer, converted; the others are left out.
Decode(table) ==
    LET k == Kinds[kind]
        kept == Kept(table, {i \in DOMAIN table :
                               /\ i * RowSize[k] <= size - HeaderSize
                               /\ Representable(k, table[i])})
    IN  [n \in DOMAIN kept |-> Convert(k, kept[n])]

Fail(o) ==
    /\ pc' = "done" /\ outcome' = o
    /\ UNCHANGED <<systemVars, choiceVars, readVars, nameVars, shown, unknown>>

NotImplemented == pc = "read" /\ ~windows /\ Fail("unsupported")

\* Mutant of TooSmall: every attempt begins with a size of its own.
TooSmallSizeLost ==
    /\ pc = "read" /\ windows
    /\ size < Needed
    /\ IF attempt + 1 = Attempts
         THEN Fail("tooSmall")
         ELSE /\ attempt' = attempt + 1
              /\ size' = 0
              /\ UNCHANGED <<systemVars, choiceVars, pc, kind, records, seen,
                             nameVars, outputVars>>

\* Mutant of TooSmall: the attempts are not counted, nor is the size kept.
TooSmallForever == pc = "read" /\ windows /\ size < Needed /\ UNCHANGED vars

\* ERROR_INSUFFICIENT_BUFFER, with the size that would do now.
TooSmall ==
    /\ pc = "read" /\ windows
    /\ size < Needed
    /\ IF attempt + 1 = Attempts
         THEN Fail("tooSmall")
         ELSE /\ attempt' = attempt + 1
              /\ \E extra \in 0 .. Slack :
                    size' = Needed + extra * ApiRowSize[Kinds[kind]]
              /\ UNCHANGED <<systemVars, choiceVars, pc, kind, records, seen,
                             nameVars, outputVars>>

\* Mutant of TableFails: the listing goes on without the table.
TableFailsSkipped ==
    /\ pc = "read" /\ windows
    /\ pc' = "name"
    /\ UNCHANGED <<systemVars, choiceVars, readVars, nameVars, outputVars>>

\* Any other error of the API.
TableFails == pc = "read" /\ windows /\ Fail("apiError")

\* The table is copied as it is at the time of the call.
TableRead ==
    /\ pc = "read" /\ windows
    /\ size >= Needed
    /\ records' = records \o Decode(Current)
    /\ seen' = Append(seen, Current)
    /\ kind' = kind + 1
    /\ attempt' = 0 /\ size' = 0
    /\ grown' = 0
    /\ pc' = IF kind = Len(Kinds) THEN "name" ELSE "read"
    /\ held' = IF kind = Len(Kinds) THEN [p \in Pids |-> {image[p]}] ELSE held
    /\ UNCHANGED <<tables, image, changes, choiceVars, nameVars, outputVars>>

(***************************************************************************)
(* ListFrom, Cache.Lookup and systemProcessName.                            *)
(***************************************************************************)
Next1 == records[Len(out) + 1]

Emit(name) == out' = Append(out, WithName(Next1, name))

ListUnchanged == UNCHANGED <<systemVars, choiceVars, readVars, outputVars>>

CacheHit ==
    /\ pc = "name" /\ Len(out) < Len(records)
    /\ Next1.pid \in DOMAIN cache
    /\ Emit(cache[Next1.pid])
    /\ UNCHANGED <<pc, cache, handle>> /\ ListUnchanged

\* Mutant of Remember: a name that could not be read is not remembered.
RememberNamesOnly(name) ==
    /\ Emit(name)
    /\ cache' = IF name = "" THEN cache
                ELSE [p \in DOMAIN cache \cup {Next1.pid} |->
                        IF p = Next1.pid THEN name ELSE cache[p]]
    /\ handle' = ""
    /\ pc' = "name"
    /\ ListUnchanged

\* What the lookup found is kept for the whole listing, "" too.
Remember(name) ==
    /\ Emit(name)
    /\ cache' = [p \in DOMAIN cache \cup {Next1.pid} |->
                    IF p = Next1.pid THEN name ELSE cache[p]]
    /\ handle' = ""
    /\ pc' = "name"
    /\ ListUnchanged

Miss == pc = "name" /\ Len(out) < Len(records) /\ Next1.pid \notin DOMAIN cache

\* The idle process has no image.
IdleProcess == Miss /\ Next1.pid = 0 /\ Remember("")

CannotOpen == Miss /\ Next1.pid # 0 /\ image[Next1.pid] = "" /\ Remember("")

OpenProcess ==
    /\ Miss /\ Next1.pid # 0
    /\ image[Next1.pid] # ""
    /\ handle' = image[Next1.pid]
    /\ pc' = "query"
    /\ UNCHANGED <<cache, out>> /\ ListUnchanged

\* The handle keeps the process it was opened for.
QueryName == pc = "query" /\ Remember(handle)

QueryFails == pc = "query" /\ Remember("")

(***************************************************************************)
(* The commands: select, print, and say how many names are missing.         *)
(***************************************************************************)
Selected ==
    IF command = "ports"
      THEN Apply(SortPorts(out), filter)
      ELSE Apply(Connections(SortPorts(out)), [filter EXCEPT !.remoteOnly = TRUE])

Listed == pc = "name" /\ Len(out) = Len(records)

WriteTable ==
    /\ Listed
    /\ shown' = Selected
    /\ unknown' = CountUnknown(Selected)
    /\ outcome' = "listed"
    /\ pc' = "done"
    /\ UNCHANGED <<systemVars, choiceVars, readVars, nameVars>>

WriteFails == Listed /\ Fail("writeFailed")

(***************************************************************************)
(* The system.                                                              *)
(***************************************************************************)
SystemMoves ==
    /\ pc # "done" /\ changes < MaxChanges
    /\ changes' = changes + 1
    /\ UNCHANGED <<choiceVars, pc, readVars, nameVars, outputVars>>

\* A new socket takes any place in its table.
SocketAppears ==
    \E k \in KindSet : \E row \in Rows[k] :
        LET t == tables[k] IN
        /\ Len(t) < MaxRows
        /\ \E i \in 0 .. Len(t) :
              tables' = [tables EXCEPT ![k] = SubSeq(t, 1, i) \o <<row>>
                                                \o SubSeq(t, i + 1, Len(t))]
        /\ grown' = IF pc = "read" /\ attempt > 0 /\ k = Kinds[kind] THEN grown + 1 ELSE grown
        /\ SystemMoves
        /\ UNCHANGED <<image, held>>

SocketCloses ==
    \E k \in KindSet : \E i \in DOMAIN tables[k] :
        LET t == tables[k] IN
        /\ tables' = [tables EXCEPT ![k] = SubSeq(t, 1, i - 1) \o SubSeq(t, i + 1, Len(t))]
        /\ SystemMoves
        /\ UNCHANGED <<image, grown, held>>

\* A process ends, or another one starts under the same ID.
ProcessChanges ==
    \E p \in Pids \ {0} : \E name \in (Names \cup {""}) \ {image[p]} :
        /\ image' = [image EXCEPT ![p] = name]
        /\ held' = IF pc = "read" THEN held ELSE [held EXCEPT ![p] = held[p] \cup {name}]
        /\ SystemMoves
        /\ UNCHANGED <<tables, grown>>

Progress == \/ NotImplemented \/ TooSmall \/ TableRead
            \/ CacheHit \/ IdleProcess \/ CannotOpen \/ OpenProcess \/ QueryName
            \/ QueryFails \/ WriteFails \/ WriteTable

Program == Progress \/ TableFails

System == SocketAppears \/ SocketCloses \/ ProcessChanges

Finished == pc = "done" /\ UNCHANGED vars

Next == Program \/ System \/ Finished

\* Every call returns; the end must not depend on an error of the API.
Spec == Init /\ [][Next]_vars /\ WF_vars(Progress)

(***************************************************************************)
(* Invariants.                                                              *)
(***************************************************************************)
TypeOK ==
    /\ tables \in [KindSet -> Seq(RowType)]
    /\ image \in [Pids -> Names \cup {""}]
    /\ changes \in Nat /\ grown \in Nat
    /\ held \in [Pids -> SUBSET (Names \cup {""})]
    /\ windows \in BOOLEAN /\ command \in {"ports", "connections"} /\ filter \in Filters
    /\ pc \in {"read", "name", "query", "done"}
    /\ kind \in 1 .. Len(Kinds) + 1
    /\ attempt \in 0 .. Attempts - 1
    /\ size \in Nat
    /\ records \in Seq(Record)
    /\ DOMAIN cache \subseteq Pids
    /\ \A p \in DOMAIN cache : cache[p] \in Names \cup {""}
    /\ handle \in Names \cup {""}
    /\ out \in Seq(Port) /\ shown \in Seq(Port)
    /\ unknown \in Nat
    /\ outcome \in {"none", "unsupported", "tooSmall", "apiError", "writeFailed", "listed"}
    /\ seen \in Seq(Seq(RowType))

\* A port without the name of its process.
Bare(p) == [protocol |-> p.protocol, lip |-> p.lip, lport |-> p.lport, rip |-> p.rip,
            rport |-> p.rport, state |-> p.state, pid |-> p.pid]

\* The places in the tables, as they were read, of the sockets that are rec.
SightingsIn(pictures, rec) ==
    UNION {{<<k, i>> : i \in {j \in DOMAIN pictures[k] :
                                 /\ Representable(Kinds[k], pictures[k][j])
                                 /\ Convert(Kinds[k], pictures[k][j]) = rec}}
           : k \in DOMAIN pictures}

Sightings(rec) == SightingsIn(seen, rec)

NameOf(pid) == IF pid \in DOMAIN cache THEN cache[pid] ELSE ""

\* The sockets the user asked to see.
AskedFor(rec) ==
    /\ Match(filter, WithName(rec, NameOf(rec.pid)))
    /\ command = "connections" => HasRemote(rec) /\ rec.state # StateListen

\* The listing is complete or there is none: a printed table shows each socket of
\* each of the four tables, as it was when that table was read, exactly as often
\* as it stood there if it was asked for, and never otherwise.
EverySocketOnce ==
    outcome = "listed" =>
        /\ Len(seen) = Len(Kinds)
        /\ \A rec \in {records[i] : i \in DOMAIN records}
                      \cup UNION {{Convert(Kinds[k], seen[k][i]) : i \in
                                     {j \in DOMAIN seen[k] : Representable(Kinds[k], seen[k][j])}}
                                  : k \in DOMAIN seen} :
             Cardinality({i \in DOMAIN shown : Bare(shown[i]) = rec})
                = IF AskedFor(rec) THEN Cardinality(Sightings(rec)) ELSE 0

\* All the sockets of a process ID carry one name, though the process may end and
\* the ID go to another one between the first socket and the last.
OneNamePerProcess ==
    \A i, j \in DOMAIN out : out[i].pid = out[j].pid => out[i].process = out[j].process

\* A name that is shown belonged to that process ID at some time after all the sockets
\* were known: it may be that of a process which got the ID since, but never that of one
\* which had lost it by then.
NamesWereHeld ==
    \A i \in DOMAIN out : out[i].process # "" => out[i].process \in held[out[i].pid]

\* The read is given up for want of room only if the table grew after each of the
\* calls that asked for the size.
GivesUpOnlyOnGrowth == outcome = "tooSmall" => grown >= Attempts - 1

\* The order of a printed table follows from what it shows: rows that the keys
\* do not tell apart are the same.
OneOrder(keys) ==
    \A i, j \in DOMAIN shown :
        i < j => shown[i] = shown[j] \/ LexLess(keys[i], keys[j])

\* connections.Sort: "nothing here may rely on" the order of the platform's tables.
ConnectionsInOneOrder ==
    command = "connections" => OneOrder([i \in DOMAIN shown |-> ConnectionKey(shown[i])])

\* The run ends, however often the tables grow while they are read.
AlwaysEnds == <>(pc = "done")

(***************************************************************************)
(* What the comments say and the code does not do.                          *)
(***************************************************************************)
\* ports.go:185-187: the order "does not depend on the order in which the operating
\* system reported the sockets", so the keys tell different rows apart.
PortsInOneOrder ==
    command = "ports" => OneOrder([i \in DOMAIN shown |-> PortKey(shown[i])])
=============================================================================
