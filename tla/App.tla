-------------------------------- MODULE App --------------------------------
(***************************************************************************)
(* One run of nselecttrace: main of cmd/nselecttrace and App.Run of         *)
(* internal/cli with the parsers of the five commands, the context of main  *)
(* and its interruption, what goes to stdout and stderr, and the exit code. *)
(* What a command does with the system is one call here; PingRun and        *)
(* PortListing look into it.                                                *)
(*                                                                          *)
(* An argument is cut at its first "=": val is the empty sequence if it has *)
(* none.                                                                    *)
(***************************************************************************)
EXTENDS Integers, Sequences, FiniteSets

CONSTANTS
    CommandLines,   \* the argument lists, without the program's name
    Number,         \* strconv.Atoi: the words that are integers
    SignedWords,    \* the words that begin with "+" or "-"
    Duration,       \* time.ParseDuration: the words that are durations
    DashedWords,    \* the words that begin with "-"
    DefaultTimeout,
    MaxPacketCap,   \* the largest capacity that ping can allocate for its packets
    PidCount        \* there are so many process IDs, 2^32 in the code

Argument == {a \in [name : STRING, val : Seq(STRING)] : Len(a.val) <= 1}

ASSUME CommandLinesAssumption == CommandLines \subseteq Seq(Argument)
ASSUME WordsAssumption ==
    /\ \A w \in DOMAIN Number : Number[w] \in Int
    /\ \A w \in DOMAIN Duration : Duration[w] \in Int
ASSUME LimitsAssumption ==
    DefaultTimeout \in Nat \ {0} /\ MaxPacketCap \in Nat /\ PidCount \in Nat \ {0}

Plain(w) == [name |-> w, val |-> <<>>]

Empty == Plain("")

HelpArgs == {Plain("-h"), Plain("--help")}

VARIABLES
    args,
    pc,
    i,          \* the index of the parsers' loops
    flags,      \* what the parser has understood so far
    ctx,        \* the command's context: "alive", "canceled" or "expired"
    err,        \* the class of the error of App.Run, or "panic"
    stdout, stderr,     \* what was written
    exit,       \* the exit code, -1 before the end; Killed by Ctrl-C after stop()
    asked,      \* history: the system was asked for something
    interrupted \* history: Ctrl-C came "before" the deadline, "after" it or "no"t

streams == <<stdout, stderr>>

vars == <<args, pc, i, flags, ctx, err, streams, exit, asked, interrupted>>

Killed == 130

PortCount == 65536

(***************************************************************************)
(* Words and values.                                                        *)
(***************************************************************************)
\* The values a text stands for: none or one.
NumberOf(text) == {Number[w] : w \in {text.name} \cap DOMAIN Number}

\* ParseUint takes no sign.
Uint(text, n) == {k \in NumberOf(text) : /\ 0 <= k /\ k < n
                                        /\ text.name \notin SignedWords /\ text.val = <<>>}

\* Mutant of PortNumber: one port more than there are.
PortNumberTooWide(text) == Uint(text, PortCount + 1) \ {0}

PortNumber(text) == Uint(text, PortCount) \ {0}

Count(text) == {k \in NumberOf(text) : k >= 1 /\ text.val = <<>>}

Timeout(text) == {d \in {Duration[w] : w \in {text.name} \cap DOMAIN Duration} :
                    d > 0 /\ text.val = <<>>}

\* The names are compared without their case and the blanks around them.
stateNames == [CLOSED |-> 1, LISTENING |-> 2, LISTEN |-> 2, SYN_SENT |-> 3,
               SYN_RECV |-> 4, SYN_RECEIVED |-> 4, ESTABLISHED |-> 5,
               FIN_WAIT1 |-> 6, FIN_WAIT2 |-> 7, CLOSE_WAIT |-> 8,
               CLOSING |-> 9, LAST_ACK |-> 10, TIME_WAIT |-> 11]

State(text) ==
    {stateNames[w] : w \in {x \in {text.name} \cap DOMAIN stateNames : text.val = <<>>}}

Commands == {"about", "interfaces", "ports", "connections", "dns", "ping"}
Sockets == {"ports", "connections"}
Network == {"dns", "ping"}

cmd == args[1].name

arg == args[i]

Flags == {"--tcp", "--udp", "--verbose", "--port", "--remote-port", "--pid", "--process",
          "--state", "--count", "--timeout", "host"}

\* The fields before the first argument is looked at.
NoFlags == [f \in Flags |->
    CASE f \in {"--tcp", "--udp", "--verbose"} -> FALSE
      [] f \in {"--process", "host"}           -> Empty
      [] f = "--timeout"                       -> DefaultTimeout
      [] OTHER                                 -> 0]

\* The flag an argument switches on: "--tcp" and "--udp" with any value too.
SwitchOf(a) ==
    IF cmd \in Sockets THEN {a.name} \cap {"--tcp", "--udp"}
    ELSE IF cmd = "interfaces" /\ a \in {Plain("--verbose"), Plain("-v")} THEN {"--verbose"}
    ELSE {}

ValueFlags ==
    CASE cmd = "ports"       -> {"--port", "--pid", "--process", "--state"}
      [] cmd = "connections" -> {"--port", "--pid", "--process", "--state", "--remote-port"}
      [] cmd = "dns"         -> {"--timeout"}
      [] cmd = "ping"        -> {"--count", "--timeout"}
      [] OTHER               -> {}

Values(flag, text) ==
    CASE flag \in {"--port", "--remote-port"} -> PortNumber(text)
      [] flag = "--pid"     -> Uint(text, PidCount)
      [] flag = "--process" -> {text} \ {Empty}
      [] flag = "--state"   -> State(text)
      [] flag = "--count"   -> Count(text)
      [] flag = "--timeout" -> Timeout(text)

\* Whether the argument is one of the words that a host must not be.
Dashed(a) == a.name \in DashedWords

(***************************************************************************)
(* App.Run: routing.                                                        *)
(***************************************************************************)
Init ==
    /\ args \in CommandLines
    /\ pc = "route"
    /\ i = 2
    /\ flags = NoFlags
    /\ ctx = "alive"
    /\ err = "none"
    /\ stdout = <<>> /\ stderr = <<>>
    /\ exit = -1
    /\ asked = FALSE
    /\ interrupted = "no"

HelpAsked == \E k \in 2 .. Len(args) : args[k] \in HelpArgs

\* Texts other than the tables are written without a look at the error.
Written(text) == stdout' \in {stdout, Append(stdout, text)}

\* The command line is answered without a command.
Answer(text) ==
    /\ pc = "route"
    /\ pc' = "main"
    /\ Written(text)
    /\ UNCHANGED <<args, i, flags, ctx, err, stderr, exit, asked, interrupted>>

UsageAsked == args # <<>> => args[1] \in HelpArgs \cup {Plain("help")}

Usage == UsageAsked /\ Answer("usage")

VersionAsked == args # <<>> /\ args[1] \in {Plain("-v"), Plain("--version"), Plain("version")}

Version == VersionAsked /\ Answer(IF HelpAsked THEN "usage" ELSE "version")

Known == /\ args # <<>> /\ args[1].val = <<>> /\ cmd \in Commands

CommandHelp == Known /\ HelpAsked /\ Answer("commandUsage")

\* Mutant of Reject: the usage goes to stdout.
RejectOnStdout(usage) ==
    /\ err' = "usage"
    /\ stdout' = Append(stdout, usage)
    /\ pc' = "main"
    /\ UNCHANGED <<args, i, flags, ctx, stderr, exit, asked, interrupted>>

\* The usage goes to stderr, the error to main.
Reject(usage) ==
    /\ err' = "usage"
    /\ stderr' = Append(stderr, usage)
    /\ pc' = "main"
    /\ UNCHANGED <<args, i, flags, ctx, stdout, exit, asked, interrupted>>

UnknownCommand ==
    /\ pc = "route" /\ ~UsageAsked /\ ~VersionAsked /\ ~Known
    /\ Reject("usage")

Run ==
    /\ pc = "route" /\ Known /\ ~HelpAsked
    /\ pc' = "parse"
    /\ UNCHANGED <<args, i, flags, ctx, err, streams, exit, asked, interrupted>>

(***************************************************************************)
(* The parsers, one argument of the loop at a time.                         *)
(***************************************************************************)
Parsing == pc = "parse" /\ i <= Len(args) /\ cmd # "about"

Understood(flag, value, n) ==
    /\ flags' = [flags EXCEPT ![flag] = value]
    /\ i' = i + n
    /\ UNCHANGED <<args, pc, ctx, err, streams, exit, asked, interrupted>>

Switch == Parsing /\ \E f \in SwitchOf(arg) : Understood(f, TRUE, 1)

\* The value behind the "=", or else the next argument whatever it is.
Raw == IF arg.val # <<>> THEN {Plain(arg.val[1])} ELSE {args[k] : k \in {i + 1} \cap DOMAIN args}

Taken == UNION {Values(arg.name, text) : text \in Raw}

\* Mutant of ValueFlag: the next argument is looked at again.
ValueFlagRereads ==
    /\ Parsing /\ arg.name \in ValueFlags
    /\ \/ \E v \in Taken : Understood(arg.name, v, 1)
       \/ Taken = {} /\ Reject("commandUsage")

\* A flag with a value: missing and invalid ones are refused.
ValueFlag ==
    /\ Parsing /\ arg.name \in ValueFlags
    /\ \/ \E v \in Taken : Understood(arg.name, v, IF arg.val # <<>> THEN 1 ELSE 2)
       \/ Taken = {} /\ Reject("commandUsage")

Operand ==
    /\ Parsing /\ cmd \in Network /\ arg.name \notin ValueFlags /\ ~Dashed(arg)
    /\ IF flags["host"] = Empty THEN Understood("host", arg, 1) ELSE Reject("commandUsage")

UnknownFlag ==
    /\ Parsing /\ SwitchOf(arg) = {} /\ arg.name \notin ValueFlags
    /\ cmd \in Network => Dashed(arg)
    /\ Reject("commandUsage")

MissingHost ==
    /\ pc = "parse" /\ i > Len(args)
    /\ cmd \in Network /\ flags["host"] = Empty
    /\ Reject("commandUsage")

Protocols == {"--tcp", "--udp"}

\* Asking for both protocols is asking for either.
Selected == [flags EXCEPT !["--tcp"] = flags["--tcp"] /\ ~flags["--udp"],
                          !["--udp"] = flags["--udp"] /\ ~flags["--tcp"]]

\* dns and ping get a context with a deadline, derived from that of main.
Parsed ==
    /\ pc = "parse"
    /\ i > Len(args) \/ cmd = "about"
    /\ cmd \in Network => flags["host"] # Empty
    /\ pc' = CASE cmd = "about" -> "print" [] cmd \in Network -> "wait" [] OTHER -> "collect"
    /\ flags' = Selected
    /\ asked' = (cmd # "about")
    /\ UNCHANGED <<args, i, ctx, err, streams, exit, interrupted>>

(***************************************************************************)
(* The operation and its output.                                            *)
(***************************************************************************)
\* Mutant of Ends: the command tells the error, which main tells again.
EndsTold(e) ==
    /\ err' = e
    /\ pc' = IF e = "none" THEN "print" ELSE "main"
    /\ stderr' = IF e = "none" THEN stderr ELSE Append(stderr, "error")
    /\ UNCHANGED <<args, i, flags, ctx, stdout, exit, asked, interrupted>>

Ends(e) ==
    /\ err' = e
    /\ pc' = IF e = "none" THEN "print" ELSE "main"
    /\ UNCHANGED <<args, i, flags, ctx, streams, exit, asked, interrupted>>

\* ports, connections and interfaces do not look at the context.
Collect == pc = "collect" /\ (Ends("none") \/ Ends("failed"))

\* The resolver or the echoes give an answer, or fail for a reason of their own.  Once
\* the host is resolved, a count whose packets cannot be allocated is a panic.
Answered ==
    /\ pc = "wait"
    /\ \/ Ends("failed")
       \/ Ends(IF flags["--count"] > MaxPacketCap THEN "panic" ELSE "none")

\* Mutant of Aborted: the context is not handed to the resolver.
AbortedNever == FALSE /\ UNCHANGED vars

\* They give up because the context has ended, and the error says how.
Aborted ==
    /\ pc = "wait" /\ ctx # "alive"
    /\ Ends(IF ctx = "expired" THEN "timeout" ELSE "canceled")

\* Mutant of WriteTable: the missing names are told on stdout.
NoteToStdout ==
    /\ pc = "print" /\ cmd # "about"
    /\ pc' = "main"
    /\ stdout' \in {stdout \o <<"table">>} \cup
                   (IF cmd \in Sockets THEN {stdout \o <<"table", "note">>} ELSE {})
    /\ UNCHANGED <<args, i, flags, ctx, err, stderr, exit, asked, interrupted>>

\* The table, and on stderr how many of its sockets have no name.
WriteTable ==
    /\ pc = "print" /\ cmd # "about"
    /\ pc' = "main"
    /\ stdout' = Append(stdout, "table")
    /\ stderr' \in {stderr} \cup (IF cmd \in Sockets THEN {Append(stderr, "note")} ELSE {})
    /\ UNCHANGED <<args, i, flags, ctx, err, exit, asked, interrupted>>

\* The table fails, before its first byte or after some.
WriteFails ==
    /\ pc = "print" /\ cmd # "about"
    /\ pc' = "main"
    /\ err' = "write"
    /\ stdout' \in {stdout, Append(stdout, "part")}
    /\ UNCHANGED <<args, i, flags, ctx, stderr, exit, asked, interrupted>>

About ==
    /\ pc = "print" /\ cmd = "about"
    /\ pc' = "main"
    /\ Written("about")
    /\ UNCHANGED <<args, i, flags, ctx, err, stderr, exit, asked, interrupted>>

(***************************************************************************)
(* main.                                                                    *)
(***************************************************************************)
\* stop(), called by main or, when main returns or panics, by its defer, gives Ctrl-C
\* its default meaning again.
Stop ==
    /\ pc = "main"
    /\ pc' = "leave"
    /\ UNCHANGED <<args, i, flags, ctx, err, streams, exit, asked, interrupted>>

\* The error line of main, or the report of the Go runtime.
LastLine == IF err = "panic" THEN "panic" ELSE "error"

Report ==
    /\ pc = "leave" /\ err # "none"
    /\ pc' = "exit"
    /\ stderr' = Append(stderr, LastLine)
    /\ UNCHANGED <<args, i, flags, ctx, err, stdout, exit, asked, interrupted>>

\* A panic ends the program with 2, an error with 1 whatever its code is.
Leave ==
    /\ \/ pc = "leave" /\ err = "none" /\ exit' = 0
       \/ pc = "exit" /\ exit' = IF err = "panic" THEN 2 ELSE 1
    /\ pc' = "done"
    /\ UNCHANGED <<args, i, flags, ctx, err, streams, asked, interrupted>>

(***************************************************************************)
(* The user and the clock.                                                  *)
(***************************************************************************)
\* Mutant of Interrupt: the context of dns and ping is made from scratch.
InterruptUnseen ==
    /\ pc \notin {"leave", "exit", "done"}
    /\ interrupted = "no"
    /\ interrupted' = IF ctx = "expired" THEN "after" ELSE "before"
    /\ UNCHANGED <<args, pc, i, flags, ctx, err, streams, exit, asked>>

\* Ctrl-C cancels the context of main.
Interrupt ==
    /\ pc \notin {"leave", "exit", "done"}
    /\ interrupted = "no"
    /\ interrupted' = IF ctx = "expired" THEN "after" ELSE "before"
    /\ ctx' = IF ctx = "alive" THEN "canceled" ELSE ctx
    /\ UNCHANGED <<args, pc, i, flags, err, streams, exit, asked>>

\* Ctrl-C after stop(): the program is killed, before its last line or behind it.
Kill ==
    /\ pc \in {"leave", "exit"}
    /\ pc' = "done"
    /\ exit' = Killed
    /\ UNCHANGED <<args, i, flags, ctx, err, streams, asked, interrupted>>

DeadlinePasses ==
    /\ pc = "wait" /\ ctx = "alive"
    /\ ctx' = "expired"
    /\ UNCHANGED <<args, pc, i, flags, err, streams, exit, asked, interrupted>>

Program == \/ Usage \/ Version \/ CommandHelp \/ UnknownCommand \/ Run
           \/ Switch \/ ValueFlag \/ Operand \/ UnknownFlag \/ MissingHost \/ Parsed
           \/ Collect \/ Aborted \/ WriteTable \/ WriteFails \/ About \/ Stop \/ Report \/ Leave

Finished == pc = "done" /\ UNCHANGED vars

Next == Program \/ Answered \/ Interrupt \/ Kill \/ DeadlinePasses \/ Finished

Spec == Init /\ [][Next]_vars /\ WF_vars(Program)

(***************************************************************************)
(* Invariants.                                                              *)
(***************************************************************************)
TypeOK ==
    /\ args \in Seq(Argument)
    /\ pc \in {"route", "parse", "collect", "wait", "print", "main", "leave",
              "exit", "done"}
    /\ i \in 2 .. Len(args) + 2
    /\ DOMAIN flags = Flags
    /\ \A f \in {"--tcp", "--udp", "--verbose"} : flags[f] \in BOOLEAN
    /\ \A f \in {"--port", "--remote-port"} : flags[f] \in 0 .. PortCount - 1
    /\ flags["--pid"] \in 0 .. PidCount - 1
    /\ flags["--state"] \in 0 .. 11
    /\ flags["--count"] \in Nat /\ flags["--timeout"] \in Nat \ {0}
    /\ \A f \in {"--process", "host"} : flags[f] \in Argument \cup {Empty}
    /\ ctx \in {"alive", "canceled", "expired"}
    /\ err \in {"none", "usage", "failed", "timeout", "canceled", "write", "panic"}
    /\ Len(stdout) <= 1 /\ Len(stderr) <= 2
    /\ exit \in {-1, 0, 1, 2, Killed}
    /\ asked \in BOOLEAN /\ interrupted \in {"no", "before", "after"}

(***************************************************************************)
(* The grammar that the usage texts of the commands describe.  A cut of the *)
(* arguments is the set of the indexes at which an option or operand ends.  *)
(***************************************************************************)
Largest(S) == CHOOSE x \in S : \A y \in S : y <= x

Before(E, n) == {x \in E : x < n}

Piece(E, e) == SubSeq(args, 1 + Largest({1} \cup Before(E, e)), e)

\* The value given by a piece to its flag.
Given(p) == IF Len(p) = 2 THEN p[2] ELSE Plain(p[1].val[1])

IsOption(p) ==
    \/ Len(p) = 1 /\ SwitchOf(p[1]) # {}
    \/ /\ p[1].name \in ValueFlags
       /\ Len(p) = IF p[1].val = <<>> THEN 2 ELSE 1
       /\ Values(p[1].name, Given(p)) # {}

IsOperand(p) == /\ cmd \in Network /\ Len(p) = 1
                /\ p[1].name \notin ValueFlags /\ ~Dashed(p[1])

Cuts == {E \in SUBSET (2 .. Len(args)) :
            /\ Len(args) \in E \cup {1}
            /\ \A e \in E : IsOption(Piece(E, e)) \/ IsOperand(Piece(E, e))}

\* The operands of a cut, its options of one name, and what its switches turn on.
Operands(E) == {e \in E : IsOperand(Piece(E, e))}
Options(E, flag) == {e \in E \ Operands(E) : Piece(E, e)[1].name = flag}
On(E) == UNION {SwitchOf(Piece(E, e)[1]) : e \in E \ Operands(E)}

\* dns and ping have one host, behind any empty operands.
OneHost(E) ==
    cmd \in Network =>
        /\ Operands(E) # {}
        /\ \A e \in Operands(E) : (args[e] = Empty) <=> (e # Largest(Operands(E)))

\* The flags hold the values of the last options of their names.
Says(E) ==
    /\ \A f \in Protocols \cup {"--verbose"} :
         flags[f] <=> f \in IF Protocols \subseteq On(E) THEN {} ELSE On(E)
    /\ \A f \in ValueFlags :
         IF Options(E, f) = {} THEN flags[f] = NoFlags[f]
         ELSE flags[f] \in Values(f, Given(Piece(E, Largest(Options(E, f)))))
    /\ cmd \in Network => flags["host"] = args[Largest(Operands(E))]

\* A command line reaches the system exactly if the grammar has it, and what the
\* parser made of it is what the grammar says: a flag takes the value behind it even
\* if that looks like a flag, the last of several wins, and the order does not matter.
AcceptsTheGrammar ==
    /\ asked /\ cmd # "about" => \E E \in Cuts : OneHost(E) /\ Says(E)
    /\ err = "usage" /\ Known => \A E \in Cuts : ~OneHost(E)

\* README.md:287-288: a usage error "always prints usage to stderr and never attempts
\* the operation".
UsageErrorsAreInert ==
    err = "usage" => /\ ~asked
                     /\ stdout = <<>>
                     /\ Head(stderr) \in {"usage", "commandUsage"}

\* stdout holds the result of a command that succeeded and nothing else; after an error
\* it is empty, but for the part of a table whose writing failed.
StdoutIsTheResult ==
    /\ asked /\ exit = 0 => stdout = <<"table">>
    /\ err \notin {"none", "write"} => stdout = <<>>
    /\ err = "write" => stdout \in {<<>>, <<"part">>}

\* README.md:290-291: the error line is written once, the last of stderr, for an error
\* and for nothing else.  Who gets the exit code 1 has seen it, and who gets 0 has missed
\* no error; a Ctrl-C after stop() may come before the line or between line and exit code.
\* A 2 is that of a panic, which leaves the error line out and the runtime's report behind.
OneErrorLine ==
    /\ exit = 1 => stderr # <<>> /\ stderr[Len(stderr)] = "error"
    /\ \A k \in DOMAIN stderr : stderr[k] = "error" =>
         /\ k = Len(stderr)
         /\ err \notin {"none", "panic"}
         /\ pc = "exit" \/ exit \in {1, Killed}
    /\ exit = 0 => err = "none"
    /\ exit = 2 => stderr # <<>> /\ stderr[Len(stderr)] = "panic"

\* dns.go:44-46: a cancelled parent "still aborts immediately and wins over the
\* timeout", so a run that Ctrl-C reached before the deadline never reports a timeout.
CancelWins == /\ interrupted = "before" => err # "timeout"
              /\ interrupted = "no" => err # "canceled"

\* Every run ends, if the deadline of dns and ping passes in the end.
AlwaysEnds == WF_vars(DeadlinePasses) => <>(pc = "done")

\* Ctrl-C ends a command that waits for the network, the deadline left aside.
InterruptEnds == (pc = "wait" /\ interrupted = "before") ~> (pc = "done")

(***************************************************************************)
(* What the documentation says and the code does not do.                    *)
(***************************************************************************)
\* README.md:284: the exit code of a usage error is 2.
UsageExitsWithTwo == exit \in {0, 1, 2} /\ err = "usage" => exit = 2
=============================================================================
