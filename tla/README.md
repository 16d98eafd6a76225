# Verification of nselecttrace

nselecttrace is a command line tool of five commands: `ping` and `dns` talk to the
network, `ports`, `connections` and `interfaces` read the tables of the operating
system. This directory holds TLA+ models of it, the TLC runs that check them and
proofs that TLAPS checks. The models are written from the source under `src/`; line
numbers in comments are those of the files they name. `PROJECT.json` maps every
definition to the lines it stands for and lists the runs, mutants, hazards, findings
and theorems.

## 1. Inventory

| Component | State | Operations | What is hard |
|---|---|---|---|
| command line, `main` (`cmd/nselecttrace`, `internal/cli`) | the parsed flags, the command's context, stdout, stderr, the exit code | routing, the parsers, running a command, telling errors | a flag takes the next argument as its value; Ctrl-C, deadline and answer race; output that fails half way |
| ping run (`internal/ping/ping.go`, `source.go`) | `Result`, the loop variable, one socket per packet, two deadlines | `RunWith`, `resolveOne`, `Echo`, `waitForReply` | replies that are late, repeated, reordered, lost or not ours; two deadlines at one instant; cancellation while a read is pending; a packet that fails |
| ICMP messages (`internal/ping/icmp.go`) | none | building a request, its checksum, reading a reply | byte and 16-bit boundaries, carries |
| name resolution (`internal/dns`) | none beyond a call | `ResolveWith`, `RecordsFromAddrs`, `Sort`, classes of errors | the resolver's order is unspecified; `ping` chooses from the same answer with code of its own |
| socket listing (`internal/ports`, `internal/connections`) | records, the listing, a name cache | `Records`, `readTable`, `ListFrom`, `Sort`, `Apply`, `Select` | four tables read at four times, a buffer whose size is negotiated with a table that grows, rows that cannot be represented |
| process names (`internal/processes`) | `Cache.entries`, an open handle | `Cache.Lookup`, `systemProcessName` | processes end and their IDs are used again between the calls |
| interface listing (`internal/interfaces`) | none beyond a call | `List`, `FromSystem`, `Sort` | interfaces go, change and leave their index to others between the calls |
| rendering (`render.go` files, the texts of `app.go` and `commands.go`) | the lines a tabwriter holds back | the calls that print a table, a summary, a text | lines that wait for others, a stdout that fails anywhere and perhaps works again, errors that come out of a later call or are dropped; columns left blank, counts made apart from the rows |
| build information, host name | constants | none | nothing |

`main` makes a context that Ctrl-C cancels, calls `App.Run` and turns its error into a
line on stderr and an exit code. `App.Run` chooses a command, whose `Run` parses flags,
calls one of the packages and writes its table. `dns` and `ping` derive a context with a
deadline; the other three commands ignore the context. `connections` calls `ports.List`,
which uses a `processes.Cache` for one listing. No package keeps state between runs and
no goroutine is started by this code: what runs concurrently with it is the operating
system, the network, the clock and the user, and each of their steps may fall between
any two calls the program makes.

What makes each part correct: the report of `ping` agrees with what was sent and received,
no row is OK for the wrong reply, and the run keeps its budget; a listing has every
socket or interface once, with a name or addresses that were really its own at some time
of the run, in an order that does not depend on the system's; a command line is accepted
exactly if the usage has it and means what the usage says; stdout holds the result and
nothing else; every run ends.

## 2. Modules

| Module | Models | Checked by | Proofs |
|---|---|---|---|
| `PingRun` | `RunWith`, `Echo`, `waitForReply`, context, clock, network | `MCPingRefinement`; `MCPingRun` for the statements that fail | `PingRunProofs` |
| `PingContract` | what a ping run promises its caller | through `PingRefinement` | |
| `PingRefinement` | `PingRun` implements `PingContract` | `MCPingRefinement` | `PingRunProofs` |
| `Orders` | the stable sort and the selection that all listings use | with the modules below | `OrdersProofs` |
| `Sockets` | rows, conversions, filters and keys of sockets (EXTENDS `Orders`) | through `PortListing` | |
| `PortListing` | `ports` and `connections`, `readTable`, the name cache (EXTENDS `Sockets`) | `MCPortListing` | `PortListingProofs` |
| `Interfaces` | `interfaces.List` (EXTENDS `Orders`) | `MCInterfaces` | `InterfacesProofs` |
| `Listing` | what a listing of a moving system promises its caller | through the next two | |
| `PortRefinement` | `PortListing` implements `Listing` | `MCPortListing` | `PortListingProofs` |
| `InterfacesRefinement` | `Interfaces` implements `Listing` | `MCInterfaces` | `InterfacesProofs` |
| `Lookup` | the conversion of a resolver's answer for `dns`, the choice of `ping` | through `Probe` | |
| `EchoMessage` | the bytes of `icmp.go` | through `Probe` | |
| `Probe` | answer, records, target, request, arriving message (EXTENDS `Lookup`, `EchoMessage`) | `MCProbe` | `ProbeProofs` |
| `App` | `main`, `App.Run`, the parsers, output, exit code | `MCApp` | `AppProofs` |
| `Output` | a command that prints, the tabwriter, stdout | through `Rendering` | `OutputProofs` |
| `Tables` | the `render.go` files as sequences of calls (EXTENDS `Sockets`, `Lookup`) | through `Rendering` | |
| `Rendering` | the documents of each command, and what a reader learns from them (EXTENDS `Output`, `Tables`) | `MCRendering` | `RenderingProofs` |

### PingRun

One action per call or early return of `RunWith`, `Echo` and `waitForReply`; `pc` names
the place, the other variables are the program's own (`sequence`, `sent`, `received`,
`packets`, the socket's deadline and receive queue). `literal` says whether the host is
an address. Time is a natural number: the program's steps take none, the clock advances
only while the run is blocked in the resolver or in `ReadFrom`, timers that are due at one
instant fire in either order, and a context's timer that is due fires before the clock
advances. The context may end between any two steps. The network returns the reply to
any request that was sent, late, again or never, to whichever socket is open, and may
add other messages. `origin` in a row, `ended` and `written` are history. In Go 1.23 the
error of an aborted lookup unwraps to that of the context, so its class follows `ctxErr`.
`normalise` turns a count of 0 into the default; a count that cannot be allocated panics.

`PingContract` has no sockets, messages or clock: a run is refused, or requests and
answers alternate until the report, or the context's end aborts it. `PingRefinement`
maps a run onto it (a count of 0 is the default there).

### PortListing

Every call of the system is a step: the table calls of `readTable` with the buffer's size
negotiated over at most three attempts, `OpenProcess`, `QueryFullProcessImageName`.
Sockets appear and close, processes end and are replaced, between any two of them; a
handle keeps the process it was opened for. Addresses are numbers in the order of their
text; the `--process` text is the set of names that contain it. A filter that
is zero matches everything, so the shortcut of `Apply` is no case of its own, and
`rec.Process` is empty as `platformSource` leaves it. On other platforms the
source fails (`NotImplemented`). `seen`, `grown` and `held` are history: the tables as
they were read, the growth of the current one, and the names that each process ID has
had since the last table was read. A shown name is one of these (`NamesWereHeld`): it may
be that of a process which got the ID after its table was read, never that of one which
had lost it before the last was.

### Interfaces

`net.Interfaces` is one step, `Addrs` of each interface another, which finds what has the
index by then. An address is understood by `ParseAddress` or not. The MTU is
copied like the name and left out. `listed` and `held` are history.

### Listing and its refinements

`Listing` says what the listings are for: a picture is taken of each table, at one moment
each; then facts about the owners of what was seen may be looked up, at any moments; the
caller gets rows made of the pictures and of facts that held after the last of them, or
no rows and an error. For sockets the owners are process IDs and the facts their names,
and one assignment of names must explain all the rows and what the filters left out. For
interfaces there is one picture and the facts are the addresses of an index. Buffers,
attempts, handles and the cache do not appear in it. That a run ends is not part of it
and is checked beside it.

### Probe, Lookup, EchoMessage

The data of one echo from end to end, at the level of bytes; `PingRun` takes a message as
a record. The identifier of a request, the process ID xor the sequence number, is any
16-bit number. `FamilyOf` is `icmpNetwork` for the addresses a resolver returns.

### App

An argument is cut at its first `=`. Each step of a parser's loop is a step of the model;
the words that are numbers, durations or begin with a dash are constants. What a command
does with the system is one step (`Collect`, `Answered`, `Aborted`); `PingRun` and
`PortListing` look inside. Writing to stdout may fail before or after some bytes, or be
dropped where the code ignores the error; stderr is taken to work. `main` takes three
steps to end: `Stop`, the last line on stderr (`Report`), the exit (`Leave`); from `Stop`
on a Ctrl-C kills the program, before the line or behind it (`Kill`). A `ping` whose
packets cannot be allocated (`MaxPacketCap`, as in `PingRun`) panics: the deferred `stop`
runs, the Go runtime reports, the exit code is 2. `Number` is `Atoi`, which `--count` uses;
`ParseUint`, of ports and process IDs, refuses those of its words that have a sign
(`SignedWords`). `asked` and `interrupted` are history. Two parts of the usage are worth
knowing: `--tcp=x` is `--tcp`, and `-h` anywhere behind a command, even as the value of a
flag, asks for help.

### Output, Tables, Rendering

`App` knows of stdout only whether it has nothing, a part or all. `Output` looks inside. A
document is a sequence of calls: a `Fprintf` to the tabwriter with so many cells, a
`Fprintf` to stdout, a `Flush`. A line is known by the number of its call. The tabwriter
is external, modelled from its documentation and its use: a line of several cells waits
until those below it are known, a line of one cell or a `Flush` writes all that waits, and
a write of no bytes does not fail (each `Flush` ends with one; without this a complete
table could come with an error, and that half of `ToldIfCut` rests on it). (It also ends a
column where a row has fewer cells than the one above, but writes nothing then.) stdout
may fail after any line or within one, and work again; what a failed `Flush` has not
written is gone. A command that looks at errors returns the first one, a table that is
complete is followed by the note on stderr; help, version and about go on after a failure,
which is why they are `Careless`.

`Tables` is the `render.go` files call by call, with the placeholders, the blank columns
and the summaries; wording, widths and units are left out. `Rendering` gives each command
its results, and reads stdout back: `ReadInterfaces` and `ReadBlocks` divide the lines
among the interfaces as a reader would.

## 3. Runs

| Run | Question | Instance |
|---|---|---|
| `ping_run` | report's arithmetic, pairing of replies, time bounds, what may follow the end of the context, refinement of `PingContract`, end of runs | counts 0 (default 2), -1, 1, 3, 9 with a capacity of 8; `PacketWait` 2 and `RunTimeout` 5, so that a third wait is cut short by the budget; sequence numbers modulo 2, fewer than packets; 3 deliveries, 2 queued |
| `ping_foreign_reply`, `ping_cancel_read`, `ping_budget_loss`, `ping_open_failure` | statements of comments and README that the code does not keep | as `ping_run`, smaller, with four sequence numbers |
| `port_listing` | completeness, names, retries, order of connections, refinement of `Listing`, end of runs | two initial tables with a listener with a stray remote port, an orphan of PID 0, an unknown state and a port word above 16 bits; two changes, so that a table may grow twice during three attempts; one spare row |
| `ports_order` | the order of `ports` depends on the system's | two rows that differ in their state |
| `interfaces` | one picture of the interfaces, their addresses, order, refinement of `Listing` | three indexes, four looks, two changes |
| `probe` | records, choice of the address, checksum, accepted messages | answers of up to three addresses of each form; sequence numbers 1, 256, 257, 65537 |
| `cli` | grammar, output, errors, exit, interruption, end of runs | 2167 command lines of up to four words, chosen so that each parser meets each of its cases |
| `cli_exit_code` | the exit code of a usage error | two wrong command lines |
| `output` | order and completeness of lines, errors of stdout, what a table tells | each command with every result of up to two sockets, three interfaces or records, four packets; stdout may fail in every write and every part of one |

The bounds suffice for what the properties can tell apart. Replies are confused by being
one packet late, by number modulo `SeqMod`, or foreign: three packets and three deliveries
show each. A listing errs by a change before, between or after two calls: two changes give
every pair of places, and two is what the three attempts of `readTable` need to fail. The
parsers look at one argument and the next one, so three arguments behind the command show
every neighbourhood. A row of a table depends on the row above only through the blank
columns, the blank line between blocks and the one before the summary, so two sockets and
three interfaces (with none, two and three addresses, without a name, without a MAC)
show every neighbourhood there.

Every property has a mutant in `PROJECT.json`: a definition changed as a plausible bug
would change it, for which TLC finds the property violated.

### Fairness

`PingRun` assumes weak fairness of the program's own steps (the scheduler), of the
context's timer and of the clock, nothing of resolver, network or user. `PortListing` and
`Interfaces` assume it of the program: calls of the system return. In `PortListing` it
leaves out `TableFails`, so that `AlwaysEnds` may not rely on an error of the API; a call
that finds its buffer too small, or reads its table, is progress. `Output` and `Probe`
state none: their properties are of safety. `App` assumes it of
`Program`, to which the answer of the network does not belong; that a
resolver or an echo gives up once the context has ended does. That a listing ends is
taken for granted there: `AlwaysEnds` of `PortListing` and `UnreadableIsNotFatal` of
`Interfaces` are about that. `AlwaysEnds` of `App` needs the deadline to
pass and says so; `InterruptEnds` does not need it.

### What the runs found

Six statements of the repository do not hold, each shown by a run:

1. `main` exits with 1 for every error, though `App.Run` asks for 2 after a usage error
   and the README documents 2 (`cli_exit_code`).
2. `ports.Sort` does not compare the state, so the order of its table may depend on the
   system's (`ports_order`).
3. A reply to another program's request is accepted: the identifier is never compared
   (`ping_foreign_reply`).
4. A cancelled run waits for the pending read (`ping_cancel_read`).
5. When the budget ends during a packet's wait, the socket's deadline may fire first and
   the packet is reported as lost (`ping_budget_loss`).
6. A socket that cannot be opened gives a report with an ERROR row (`ping_open_failure`).

Observed as well, and contradicting a document. No run has the document's statement as its
property; the first three are behaviours of the models, and the properties named say what
holds beside them:

* A run that is cancelled in its last packet may end with a report and success, where the
  README (231-232) says that it "is reported as a cancellation". `StopsWithContext` says that
  no other request follows.
* A `--count` whose packets cannot be allocated is a panic, whose exit code 2 reads like the
  usage error of the README (287-288). `OneErrorLine` says that 2 comes from nothing else.
* A reply that is late by 65536 packets is taken for the answer to another one, where the
  comment at `ping.go:125-126` promises the matching reply. `OwnReplies` says that no other
  late reply of the run is.
* Without arguments the program prints the usage, not `about` (the comment at
  `commands.go:25`).
* `version` prints the version alone, where the README (249) promises commit and build time
  too.
* A socket of the wildcard address is printed as its port alone, so IPv4 and IPv6 wildcards
  read alike; the README shows `0.0.0.0:135`.

Observed, and contradicting no document: `--pid 0` means any process; `RemoteOnly` alone
does not drop listeners, as its comment has it, but `OnlyWithRemote` has done so before;
`about` and `version` ignore further arguments, and the registered `version` command is
never reached; Ctrl-C does not end `ports`, `connections` or `interfaces`; a host that
never answers always ends the default `ping` in a timeout, since four waits are longer
than the budget; `about` may lose a line in its middle, print the others and exit with 0
(help texts are a single write); `--verbose` prints an empty interface name as it is,
without the placeholder of the table.

## 4. Proofs

TLAPS proves these for every value of the constants that satisfies the named assumptions
of the modules: tables, answers and command lines of any length, any identifiers and
numbers, any interleaving. Every safety property and every refinement that a passing run
checks has a theorem.

* `OrdersProofs`: `Ranked` lists a finite set in a strict total order without gaps
  (`BelowCount`, `RankedLists`), the lexicographic order of keys of one length is such an
  order (`LexOrder`), so `StableSort` returns a rearrangement in the order of the keys that
  keeps equal keys as they were (`StableSortSorts`, `SortedKeys`); `Kept` keeps exactly the
  elements named, in order (`KeptElements`). How often something stands in a sequence is
  counted by its set of places (`Places`): a conversion that is one to one on the places
  (`CarriedOver`), a filter (`KeptPlaces`), a sort (`SortPlaces`) and a concatenation
  (`ConcatPlaces`) change the count as they should.
* `PortListingProofs`: `TypeOK`, `OneNamePerProcess`, `NamesWereHeld`,
  `GivesUpOnlyOnGrowth`, `ConnectionsInOneOrder`, `EverySocketOnce` and the refinement
  `ImplementsListing`. The invariant adds to the types how far the read has come and how
  much room was asked for (`ReadInv`: the size of a retry covers the table but for the rows
  added since, which is what makes giving up mean growth), that each port has the name in
  the cache (`CacheInv`), that every name the run holds belonged to the process ID since the
  last table was read (`HeldInv`; it needs that no lookup is made while tables are read),
  that the records are the conversion of the tables read so far, one for each row that can
  be represented, with none lost or doubled by a retry (`PictureInv`), and what was printed
  (`ShownInv`). `EverySocketOnce` follows by carrying the count of each socket from the
  tables through conversion, naming, sort, filters and selection. For the refinement, the
  read of a table that fits its buffer is `Take`, the system's steps are `Move`, the end is
  `Deliver` or `Refuse`, and all else stutters.
* `PingRunProofs`: `TypeOK`, `Accounting`, `BudgetRespected`, `CancelLatency`,
  `StopsWithContext`, the action property `LossIsAFullWait`, `OwnReplies`, and the
  refinement `ImplementsContract` with all its steps. The invariant ties the counters to
  the place in the loop (`LoopInv`), the clock to the two deadlines (`ClockInv`), the rows
  to their numbers (`RowsInv`) and the history of the context's end to the counters
  (`EndedInv`). `OwnReplies` is proved for runs of any length, under the hypothesis that
  no foreign replies arrive: without it it does not hold, as `ping_foreign_reply` shows.
  What separates two requests whose numbers agree modulo 2^16 is `ModApart`.
* `InterfacesProofs`: `TypeOK`, `EveryInterfaceOnce`, `InIndexOrder`, `AddressesWereHeld`
  and the refinement `ImplementsListing`. The invariant
  says that what `net.Interfaces` returned is a bijection onto the interfaces of that
  moment (`PictureInv`; it needs that they are finitely many), that the loop only adds
  addresses to it (`RawsInv`) and that the result is its conversion (`ResultInv`); with
  `StableSortSorts` the result has the same interfaces in the order of their indexes. The
  addresses of a row are those that one call found (`HeldInv`): never a mixture of two times.
* `ProbeProofs`: `TypeOK`, `RecordsAreTheAnswer`, `PingTakesTheFirstRecord`,
  `ChecksumHolds` and `AcceptedIsTheReply`. The loop that folds the carries of the
  checksum is shown to compute a closed form, the residue in 1 .. 65535 of a sum that is
  not 0 (`FoldedIsResidue`), by the carry it adds back (`AddCarries`): the equation of a
  recursive function has one solution, for a least number at which two of them differed
  would have a smaller one (`Least`). The sum field adds its own value to the total of the
  words (`SumWord`), and a total plus its complement folds to 65535. That the address
  `ping` chooses in one pass is the first of `dns`'s stable sort is the fact that both
  take the first of the smallest (`ChoiceIsLeast`). The invariant says that the records
  are those of the answer (`ResolvedInv`) and that what arrives has the type and number of
  what was sent (`ArrivalInv`).
* `AppProofs`: `TypeOK`, `UsageErrorsAreInert`, `StdoutIsTheResult`, `OneErrorLine`,
  `CancelWins` and `AcceptsTheGrammar`, for every command line, every number and duration.
  The invariant records what the streams may hold at each place (`PlaceInv`, `ReturnInv`,
  `ErrorInv`, which tells stderr before the last line from stderr below it) and ties the
  context to the history of Ctrl-C (`ContextInv`); `ValuesFit`
  shows that each parser accepts only values its field may hold. `AcceptsTheGrammar` needs
  to know what the parser has understood in the middle of its loop (`ParseInv`): the
  arguments before `i` have a cut into options and operands, the fields hold what it says
  (`Understands`), and no cut of the whole divides them otherwise (`Only`). It has that only
  because the first argument of a piece decides where the piece ends (`PieceEnds`), which is
  why a parser that reads from left to right and never goes back accepts the whole grammar.
* `OutputProofs`: `TypeOK`, `CutButNotHoled` and `ToldIfCut`, for documents of any length,
  under the hypothesis `Flushed`: behind each line that waits there is a call that empties
  the tabwriter, and one before the next call to stdout itself. Without it both are false:
  a line stays behind or is overtaken. The invariant puts what was written before what
  waits and that before the next call (`OrderInv`), says that what waits has met no call
  that empties (`BufferInv`), that nothing is lost while nothing has failed
  (`CompleteInv`), and what holds at the end (`EndInv`).
* `RenderingProofs`: `DocumentsFlush` discharges that hypothesis for every document of the
  program (`TablesAreFlushed` for the tables of rows, `InterfacesFlush` for those of
  `interfaces`), so that `OutputHolds` states the results of `OutputProofs` without it; and
  `ResultTold` proves `TellsTheResult` for results of any length. To the invariant of
  `OutputProofs` it adds that the note on stderr is the document's (`NoteInv`). At the end
  of a command without an error stdout then has every line once and in order (`AtEnd`,
  since an increasing enumeration of a set of numbers is unique, `SameNumbers`), and what is
  left is arithmetic of lists. The texts of `interfaces` are joined from parts, one for each
  interface: the recursive function inside `FlattenSeq` satisfies an equation that has one
  solution (`Flattened`), by which part i lies between two offsets that rise (`LaidOut`).
  The reader knows only where a part begins - a line with a name in the table, a line
  below a blank one in the details - and cuts there. That the cuts are the parts
  (`SectionsAre`) needs that the first line of every part has the mark and no other line
  has it: this is where a nameless interface, a missing MAC address or an interface without
  addresses could make the output ambiguous, and `InterfaceRead` and `BlockRead` show that
  they do not.

The assumptions are about the values that configurations give: rows, answers and filters of
the types of the code (`FiltersAssumption`: what the flags can ask for), finitely many
interfaces, limits that are positive; for what is printed (`ResultsAssumption`), that
no process is called `<unknown>`, that a MAC or an address, and in the table the name of an
interface, is not the text of the placeholder, and that `ping` counted its packets right,
which is `Accounting` of `PingRun`. TLC evaluates each of them on the instances.

Only model-checked: all liveness (`EndsAsPromised`, both `AlwaysEnds`, `InterruptEnds`,
`UnreadableIsNotFatal`), which is beyond the prover.

## 5. What is not modelled

The wording of tables and messages, the widths of columns, durations as text, build
information and the host name: formatting without state. The libraries - resolver,
sockets, strconv, the IP Helper API - are modelled from how the code uses them and marked
external. The byte order of the ports in the rows of Windows is taken as the code reads
it, the low 16 bits of a word; whether the API stores them so is a question about Windows.
Failures of stderr, memory, and the signal by which Unix ends a program that writes to a
closed pipe. `App` and `Rendering` are not composed: the first takes what a command prints
as one step that may be cut, the second shows where.

## 6. Plan

Done: the modules above, in the order ping, socket listing, command line, interfaces, data
of an echo, listings refined, output; then the theorems of section 4. Next: a contract of
a command seen from the shell - output, error line, exit code - that `App` implements,
with `PingContract` and `Listing` as the calls inside it.
