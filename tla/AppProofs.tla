----------------------------- MODULE AppProofs -----------------------------
(***************************************************************************)
(* Proofs about App for every set of command lines and every answer of the  *)
(* parsers of numbers and durations.                                        *)
(***************************************************************************)
EXTENDS App, SequenceTheorems, WellFoundedInduction, TLAPS

Usages == {"usage", "commandUsage"}

\* What was written and what is known of the run, by the place it has reached.
PlaceInv ==
    /\ (exit = -1) = (pc # "done")
    /\ pc \in {"route", "parse", "collect", "wait", "print"} =>
         err = "none" /\ stdout = <<>> /\ stderr = <<>>
    /\ pc \in {"route", "parse"} => ~asked
    /\ pc \in {"collect", "wait"} => cmd # "about"
    /\ pc = "print" /\ cmd = "about" => ~asked

\* What the streams hold once the command has returned.
ReturnInv ==
    pc \in {"main", "leave", "exit", "done"} =>
        /\ asked /\ err = "none" => stdout = <<"table">>
        /\ err = "usage" => ~asked
        /\ err \notin {"none", "write"} => stdout = <<>>
        /\ err = "write" => stdout \in {<<>>, <<"part">>}

\* stderr before main has told the error: the usage after a wrong command line, at most
\* a note otherwise.
Told == IF err = "usage" THEN {<<u>> : u \in Usages} ELSE {<<>>, <<"note">>}

\* stderr once the last line stands below it.
Reported == err # "none" /\ \E told \in Told : stderr = Append(told, LastLine)

\* The last line is written between "leave" and "exit", and nothing but Ctrl-C ends a
\* program that has an error before it.
ErrorInv ==
    /\ stderr \in Told \/ (pc \in {"exit", "done"} /\ Reported)
    /\ pc = "exit" \/ exit \in {1, 2} => Reported
    /\ exit = 0 => err = "none" /\ stderr \in Told
    /\ exit = 1 => err # "panic"
    /\ exit = 2 => err = "panic"

\* The context is canceled exactly if Ctrl-C came before the deadline, and errors of the
\* context name what ended it.
ContextInv ==
    /\ (ctx = "canceled") = (interrupted = "before")
    /\ err = "timeout" => ctx = "expired"
    /\ err = "canceled" => ctx = "canceled"

IInv == TypeOK /\ PlaceInv /\ ReturnInv /\ ErrorInv /\ ContextInv

\* The fields of the parsers, by what each may hold.
FlagsOK ==
    /\ DOMAIN flags = Flags
    /\ \A f \in {"--tcp", "--udp", "--verbose"} : flags[f] \in BOOLEAN
    /\ \A f \in {"--port", "--remote-port"} : flags[f] \in 0 .. PortCount - 1
    /\ flags["--pid"] \in 0 .. PidCount - 1
    /\ flags["--state"] \in 0 .. 11
    /\ flags["--count"] \in Nat /\ flags["--timeout"] \in Nat \ {0}
    /\ \A f \in {"--process", "host"} : flags[f] \in Argument \cup {Empty}

\* A word is an argument without a value.
LEMMA PlainArgument ==
    ASSUME NEW w \in STRING
    PROVE  Plain(w) \in Argument
  BY DEF Plain, Argument

\* The text of a flag's value is an argument.
LEMMA RawArguments ==
    ASSUME args \in Seq(Argument), i \in DOMAIN args
    PROVE  Raw \subseteq Argument
<1>1. arg \in Argument
  BY DEF arg
<1>2. CASE arg.val # <<>>
  <2>1. arg.val \in Seq(STRING) /\ Len(arg.val) # 0
    BY <1>1, <1>2 DEF Argument
  <2>2. arg.val[1] \in STRING
    BY <2>1
  <2>3. QED
    BY <1>2, <2>2, PlainArgument DEF Raw
<1>3. CASE arg.val = <<>>
  BY <1>3 DEF Raw
<1>4. QED
  BY <1>2, <1>3

\* A value of a flag, and the flag it is for.
Fits(f, v) ==
    \/ f \in {"--tcp", "--udp", "--verbose"} /\ v \in BOOLEAN
    \/ f \in {"--port", "--remote-port"} /\ v \in 0 .. PortCount - 1
    \/ f = "--pid" /\ v \in 0 .. PidCount - 1
    \/ f = "--state" /\ v \in 0 .. 11
    \/ f = "--count" /\ v \in Nat
    \/ f = "--timeout" /\ v \in Nat \ {0}
    \/ f \in {"--process", "host"} /\ v \in Argument

\* A value that a parser accepts is one that its field may hold.
LEMMA ValuesFit ==
    ASSUME NEW f \in ValueFlags, NEW text \in Argument, NEW v \in Values(f, text)
    PROVE  Fits(f, v)
<1>1. f \in {"--port", "--remote-port", "--pid", "--process", "--state", "--count", "--timeout"}
  BY DEF ValueFlags
<1>2. CASE f \in {"--port", "--remote-port"}
  <2>1. v \in PortNumber(text)
    BY <1>2 DEF Values
  <2>2. v \in NumberOf(text) /\ 0 <= v /\ v < PortCount
    BY <2>1 DEF PortNumber, Uint
  <2>3. v \in Int
    BY <2>2, WordsAssumption DEF NumberOf
  <2>4. QED
    BY <1>2, <2>2, <2>3 DEF Fits, PortCount
<1>3. CASE f = "--pid"
  <2>1. v \in Uint(text, PidCount)
    BY <1>3 DEF Values
  <2>2. v \in NumberOf(text) /\ 0 <= v /\ v < PidCount
    BY <2>1 DEF Uint
  <2>3. v \in Int
    BY <2>2, WordsAssumption DEF NumberOf
  <2>4. QED
    BY <1>3, <2>2, <2>3, LimitsAssumption DEF Fits
<1>4. CASE f = "--process"
  BY <1>4 DEF Values, Fits
<1>5. CASE f = "--state"
  <2>1. v \in State(text)
    BY <1>5 DEF Values
  <2>2. PICK w \in DOMAIN stateNames : v = stateNames[w]
    BY <2>1 DEF State
  <2>3. v \in 0 .. 11
    BY <2>2 DEF stateNames
  <2>4. QED
    BY <1>5, <2>3 DEF Fits
<1>6. CASE f = "--count"
  <2>1. v \in NumberOf(text) /\ v >= 1
    BY <1>6 DEF Values, Count
  <2>2. v \in Int
    BY <2>1, WordsAssumption DEF NumberOf
  <2>3. QED
    BY <1>6, <2>1, <2>2 DEF Fits
<1>7. CASE f = "--timeout"
  <2>1. v \in Timeout(text)
    BY <1>7 DEF Values
  <2>2. v \in Int /\ v > 0
    BY <2>1, WordsAssumption DEF Timeout
  <2>3. QED
    BY <1>7, <2>2 DEF Fits
<1>8. QED
  BY <1>1, <1>2, <1>3, <1>4, <1>5, <1>6, <1>7

\* An update of a field with a value it may hold.
LEMMA UpdateFits ==
    ASSUME FlagsOK, NEW f, NEW v, Fits(f, v), flags' = [flags EXCEPT ![f] = v]
    PROVE  FlagsOK'
<1>1. f \in DOMAIN flags
  BY DEF FlagsOK, Fits, Flags
<1>2. DOMAIN flags' = Flags /\ flags'[f] = v /\ \A g \in Flags : g # f => flags'[g] = flags[g]
  BY <1>1 DEF FlagsOK
<1>3. {"--tcp", "--udp", "--verbose", "--port", "--remote-port", "--pid", "--process",
       "--state", "--count", "--timeout", "host"} = Flags
  BY DEF Flags
<1>4. QED
  BY <1>2, <1>3 DEF FlagsOK, Fits

\* Every run begins in the invariant.
LEMMA InitInv == Init => IInv
<1> SUFFICES ASSUME Init PROVE IInv
  OBVIOUS
<1>1. args \in Seq(Argument)
  BY CommandLinesAssumption DEF Init
<1>3. FlagsOK
  <2>1. flags = NoFlags
    BY DEF Init
  <2>2. NoFlags["--timeout"] = DefaultTimeout
    BY DEF NoFlags, Flags
  <2>3. NoFlags["--process"] = Empty /\ NoFlags["host"] = Empty
    BY DEF NoFlags, Flags
  <2>4. \A f \in {"--tcp", "--udp", "--verbose"} : NoFlags[f] = FALSE
    BY DEF NoFlags, Flags
  <2>5. \A f \in {"--port", "--remote-port", "--pid", "--state", "--count"} : NoFlags[f] = 0
    BY DEF NoFlags, Flags
  <2>6. DOMAIN NoFlags = Flags
    BY DEF NoFlags
  <2>7. \A f \in {"--tcp", "--udp", "--verbose"} : NoFlags[f] \in BOOLEAN
    BY <2>4
  <2>8. NoFlags["--timeout"] \in Nat \ {0}
    BY <2>2, LimitsAssumption
  <2>9. 0 \in 0 .. PortCount - 1 /\ 0 \in 0 .. PidCount - 1 /\ 0 \in 0 .. 11 /\ 0 \in Nat
    BY LimitsAssumption DEF PortCount
  <2>10. QED
    BY <2>1, <2>3, <2>5, <2>6, <2>7, <2>8, <2>9, Zenon DEF FlagsOK
<1>4. TypeOK
  <2>1. i \in 2 .. Len(args) + 2 /\ exit = -1
    BY <1>1 DEF Init
  <2>2. Len(stdout) <= 1 /\ Len(stderr) <= 2
    BY DEF Init
  <2>3. /\ pc = "route" /\ ctx = "alive" /\ err = "none"
        /\ asked \in BOOLEAN /\ interrupted = "no"
    BY DEF Init
  <2>4. QED
    BY <1>1, <1>3, <2>1, <2>2, <2>3, Zenon DEF TypeOK, FlagsOK
<1>5. PlaceInv /\ ReturnInv /\ ErrorInv /\ ContextInv
  BY DEF Init, PlaceInv, ReturnInv, ErrorInv, ContextInv, Told
<1>6. QED
  BY <1>4, <1>5 DEF IInv

(***************************************************************************)
(* Steps.                                                                   *)
(***************************************************************************)
Reads == Switch \/ ValueFlag \/ Operand

\* Every step keeps the types of the fields and the bounds of the loop.
LEMMA TypeStep ==
    ASSUME TypeOK, Next
    PROVE  args' \in Seq(Argument) /\ i' \in 2 .. Len(args') + 2 /\ FlagsOK'
<1> DEFINE Goal == args' \in Seq(Argument) /\ i' \in 2 .. Len(args') + 2 /\ FlagsOK'
<1>0. FlagsOK /\ args \in Seq(Argument) /\ i \in 2 .. Len(args) + 2 /\ Len(args) \in Nat
  BY DEF TypeOK, FlagsOK
<1>1. ASSUME NEW f, NEW v, NEW n \in {1, 2}, Parsing, Fits(f, v), Understood(f, v, n)
      PROVE  Goal
  <2>1. FlagsOK'
    BY <1>0, <1>1, UpdateFits DEF Understood
  <2>2. QED
    BY <1>0, <1>1, <2>1 DEF Understood, Parsing
<1>2. ASSUME UNCHANGED <<args, i, flags>>
      PROVE  Goal
  BY <1>0, <1>2 DEF FlagsOK
<1>3. CASE Switch
  <2>1. PICK f \in SwitchOf(arg) : Parsing /\ Understood(f, TRUE, 1)
    BY <1>3 DEF Switch
  <2>2. f \in {"--tcp", "--udp", "--verbose"}
    BY <2>1 DEF SwitchOf
  <2>3. QED
    BY <1>1, <2>1, <2>2 DEF Fits
<1>4. CASE ValueFlag
  <2>1. CASE \E v \in Taken : Understood(arg.name, v, IF arg.val # <<>> THEN 1 ELSE 2)
    <3>1. PICK v \in Taken : Understood(arg.name, v, IF arg.val # <<>> THEN 1 ELSE 2)
      BY <2>1
    <3>2. i \in DOMAIN args
      BY <1>0, <1>4 DEF ValueFlag, Parsing
    <3>3. PICK text \in Argument : v \in Values(arg.name, text)
      BY <1>0, <3>1, <3>2, RawArguments DEF Taken
    <3>4. Fits(arg.name, v)
      BY <1>4, <3>3, ValuesFit DEF ValueFlag
    <3>5. QED
      BY <1>1, <1>4, <3>1, <3>4 DEF ValueFlag
  <2>2. CASE Reject("commandUsage")
    BY <1>2, <2>2 DEF Reject
  <2>3. QED
    BY <1>4, <2>1, <2>2 DEF ValueFlag
<1>5. CASE Operand
  <2>1. CASE Understood("host", arg, 1)
    <3>1. Parsing /\ arg \in Argument
      BY <1>0, <1>5 DEF Operand, Parsing, arg
    <3>2. QED
      BY <1>1, <2>1, <3>1 DEF Fits
  <2>2. CASE Reject("commandUsage")
    BY <1>2, <2>2 DEF Reject
  <2>3. QED
    BY <1>5, <2>1, <2>2 DEF Operand
<1>6. CASE Parsed
  <2>1. flags' = [[flags EXCEPT !["--tcp"] = flags["--tcp"] /\ ~flags["--udp"]]
                        EXCEPT !["--udp"] = flags["--udp"] /\ ~flags["--tcp"]]
    BY <1>6 DEF Parsed, Selected
  <2>2. DOMAIN flags' = Flags /\ \A g \in Flags \ {"--tcp", "--udp"} : flags'[g] = flags[g]
    BY <1>0, <2>1 DEF FlagsOK
  <2>3. flags'["--tcp"] \in BOOLEAN /\ flags'["--udp"] \in BOOLEAN
    BY <1>0, <2>1 DEF FlagsOK, Flags
  <2>4. FlagsOK'
    BY <1>0, <2>2, <2>3 DEF FlagsOK, Flags
  <2>5. QED
    BY <1>0, <1>6, <2>4 DEF Parsed
<1>7. CASE Usage \/ Version \/ CommandHelp \/ UnknownCommand \/ Run \/ UnknownFlag \/ MissingHost
  BY <1>2, <1>7 DEF Usage, Version, CommandHelp, UnknownCommand, Run, UnknownFlag, MissingHost,
                    Answer, Reject
<1>8. CASE \/ Collect \/ Aborted \/ Answered \/ WriteTable \/ WriteFails \/ About
           \/ Stop \/ Report \/ Leave
  BY <1>2, <1>8 DEF Collect, Aborted, Answered, Ends, WriteTable, WriteFails, About,
                    Stop, Report, Leave
<1>9. CASE Interrupt \/ Kill \/ DeadlinePasses \/ Finished
  BY <1>2, <1>9 DEF Interrupt, Kill, DeadlinePasses, Finished, vars
<1>10. QED
  BY <1>3, <1>4, <1>5, <1>6, <1>7, <1>8, <1>9 DEF Next, Program

\* The types of the variables that the parsers do not touch.
RestOK ==
    /\ pc \in {"route", "parse", "collect", "wait", "print", "main", "leave", "exit", "done"}
    /\ ctx \in {"alive", "canceled", "expired"}
    /\ err \in {"none", "usage", "failed", "timeout", "canceled", "write", "panic"}
    /\ Len(stdout) <= 1 /\ Len(stderr) <= 2
    /\ exit \in {-1, 0, 1, 2, Killed}
    /\ asked \in BOOLEAN /\ interrupted \in {"no", "before", "after"}

Rest == RestOK /\ PlaceInv /\ ReturnInv /\ ErrorInv /\ ContextInv

\* What is written to an empty stream is all it holds.
LEMMA FirstText ==
    ASSUME NEW x
    PROVE  Append(<<>>, x) = <<x>> /\ Len(<<x>>) = 1 /\ <<x>>[Len(<<x>>)] = x
  OBVIOUS

\* A stream of one text at most.
LEMMA ShortText ==
    ASSUME NEW x, NEW s, s = <<>> \/ s = <<x>>
    PROVE  Len(s) <= 1 /\ Len(s) <= 2
<1>1. CASE s = <<>>
  BY <1>1
<1>2. CASE s = <<x>>
  BY <1>2
<1>3. QED
  BY <1>1, <1>2

\* What a second text makes of a stream of one.
LEMMA SecondText ==
    ASSUME NEW x, NEW y
    PROVE  /\ Len(Append(<<x>>, y)) = 2 /\ DOMAIN Append(<<x>>, y) = 1 .. 2
           /\ Append(<<x>>, y)[1] = x /\ Append(<<x>>, y)[2] = y
<1> DEFINE s == Append(<<x>>, y)
<1>1. <<x>> \in Seq({x, y}) /\ Len(<<x>>) = 1 /\ <<x>>[1] = x
  OBVIOUS
<1>2. s \in Seq({x, y}) /\ Len(s) = 2 /\ s[1] = x /\ s[2] = y
  BY <1>1, AppendProperties
<1>3. QED
  BY <1>2

\* A command line that is answered at once, in what it does to the streams.
LEMMA AnswerStep ==
    ASSUME IInv, NEW text, Answer(text)
    PROVE  Rest'
<1>1. pc = "route" /\ pc' = "main" /\ err = "none" /\ stdout = <<>> /\ stderr = <<>> /\ ~asked
  BY DEF IInv, PlaceInv, Answer
<1>2. stdout' \in {<<>>, <<text>>}
  BY <1>1, FirstText DEF Answer, Written
<1>3. UNCHANGED <<args, i, flags, ctx, err, stderr, exit, asked, interrupted>>
  BY DEF Answer
<1>4. RestOK'
  <2>1. Len(stdout') <= 1 /\ Len(stderr') <= 2
    BY <1>1, <1>2, <1>3, ShortText
  <2>2. QED
    BY <1>1, <1>2, <1>3, <2>1 DEF IInv, TypeOK, RestOK
<1>5. PlaceInv' /\ ReturnInv' /\ ErrorInv' /\ ContextInv'
  BY <1>1, <1>3 DEF IInv, PlaceInv, ReturnInv, ErrorInv, ContextInv, Told, cmd
<1>6. QED
  BY <1>4, <1>5 DEF Rest

\* A usage error comes before anything is asked for or written.
LEMMA RejectStep ==
    ASSUME IInv, pc \in {"route", "parse"}, NEW usage \in Usages, Reject(usage)
    PROVE  Rest'
<1>1. pc' = "main" /\ err = "none" /\ stdout = <<>> /\ stderr = <<>> /\ ~asked /\ exit = -1
  BY DEF IInv, PlaceInv, Reject
<1>2. stderr' = <<usage>> /\ err' = "usage"
  BY <1>1, FirstText DEF Reject
<1>3. UNCHANGED <<args, i, flags, ctx, stdout, exit, asked, interrupted>>
  BY DEF Reject
<1>4. RestOK'
  <2>1. Len(stdout') <= 1 /\ Len(stderr') <= 2
    BY <1>1, <1>2, <1>3, ShortText
  <2>2. QED
    BY <1>1, <1>2, <1>3, <2>1 DEF IInv, TypeOK, RestOK
<1>5. stderr' \in Told'
  BY <1>2 DEF Told
<1>6. PlaceInv' /\ ReturnInv' /\ ErrorInv' /\ ContextInv'
  BY <1>1, <1>2, <1>3, <1>5 DEF IInv, PlaceInv, ReturnInv, ErrorInv, ContextInv
<1>7. QED
  BY <1>4, <1>6 DEF Rest

\* The routes and the parsers: nothing is written but the usage.
LEMMA ParseStep ==
    ASSUME IInv, \/ Run \/ UnknownCommand \/ Switch \/ ValueFlag \/ Operand \/ UnknownFlag
                 \/ MissingHost \/ Parsed
    PROVE  Rest'
<1>1. pc \in {"route", "parse"}
  BY DEF Run, UnknownCommand, Switch, ValueFlag, Operand, UnknownFlag, MissingHost, Parsed, Parsing
<1>2. err = "none" /\ stdout = <<>> /\ stderr = <<>> /\ ~asked /\ exit = -1
  BY <1>1 DEF IInv, PlaceInv
<1>3. CASE \E u \in Usages : Reject(u)
  BY <1>1, <1>3, RejectStep
<1>4. CASE /\ pc' \in {"route", "parse"}
           /\ UNCHANGED <<args, ctx, err, streams, exit, asked, interrupted>>
  BY <1>2, <1>4 DEF IInv, TypeOK, Rest, RestOK, PlaceInv, ReturnInv, ErrorInv, ContextInv, Told,
                    streams
<1>5. CASE Parsed
  <2>1. pc' \in {"print", "wait", "collect"} /\ (pc' # "print" => cmd # "about")
    BY <1>5 DEF Parsed, Network
  <2>2. asked' = (cmd # "about")
    BY <1>5 DEF Parsed
  <2>3. UNCHANGED <<args, i, ctx, err, stdout, stderr, exit, interrupted>>
    BY <1>5 DEF Parsed, streams
  <2>4. cmd' = cmd
    BY <2>3 DEF cmd
  <2>5. asked' \in BOOLEAN /\ (cmd' = "about" => ~asked')
    BY <2>2, <2>4
  <2>6. QED
    BY <1>2, <2>1, <2>3, <2>4, <2>5 DEF IInv, TypeOK, Rest, RestOK, PlaceInv, ReturnInv, ErrorInv,
                                        ContextInv, Told
<1>6. CASE Run \/ Switch
  BY <1>4, <1>6 DEF Run, Switch, Parsing, Understood
<1>7. CASE ValueFlag
  BY <1>3, <1>4, <1>7 DEF ValueFlag, Parsing, Understood, Usages
<1>8. CASE Operand
  BY <1>3, <1>4, <1>8 DEF Operand, Parsing, Understood, Usages
<1>9. CASE UnknownCommand \/ UnknownFlag \/ MissingHost
  BY <1>3, <1>9 DEF UnknownCommand, UnknownFlag, MissingHost, Usages
<1>10. QED
  BY <1>5, <1>6, <1>7, <1>8, <1>9

\* The operation writes nothing; its error is that of the context if it was aborted.
LEMMA OperationStep ==
    ASSUME IInv, Collect \/ Answered \/ Aborted
    PROVE  Rest'
<1>1. pc \in {"collect", "wait"} /\ err = "none" /\ stdout = <<>> /\ stderr = <<>> /\ exit = -1
  BY DEF IInv, PlaceInv, Collect, Answered, Aborted
<1>2. PICK e \in {"none", "failed", "timeout", "canceled", "panic"} :
          /\ Ends(e)
          /\ e = "timeout" => ctx = "expired"
          /\ e = "canceled" => ctx = "canceled"
  BY DEF IInv, TypeOK, Collect, Answered, Aborted
<1>3. UNCHANGED <<args, i, flags, ctx, stdout, stderr, exit, asked, interrupted>> /\ cmd' = cmd
  BY <1>2 DEF Ends, streams, cmd
<1>4. err' = e /\ pc' = IF e = "none" THEN "print" ELSE "main"
  BY <1>2 DEF Ends
<1>5. QED
  BY <1>1, <1>2, <1>3, <1>4 DEF IInv, TypeOK, Rest, RestOK, PlaceInv, ReturnInv, ErrorInv,
                                ContextInv, Told

\* The output of a command, complete or not.
LEMMA OutputStep ==
    ASSUME IInv, WriteTable \/ WriteFails \/ About
    PROVE  Rest'
<1>1. pc = "print" /\ pc' = "main" /\ err = "none" /\ stdout = <<>> /\ stderr = <<>> /\ exit = -1
  BY DEF IInv, PlaceInv, WriteTable, WriteFails, About
<1>2. UNCHANGED <<ctx, exit, asked, interrupted>>
  BY DEF WriteTable, WriteFails, About
<1>3. CASE WriteTable
  <2>1. stdout' = <<"table">> /\ stderr' \in {<<>>, <<"note">>} /\ err' = "none"
    BY <1>1, <1>3, FirstText DEF WriteTable
  <2>2. RestOK'
    <3>1. Len(stdout') <= 1 /\ Len(stderr') <= 2
      BY <2>1, ShortText
    <3>2. QED
      BY <1>1, <1>2, <2>1, <3>1 DEF IInv, TypeOK, RestOK
  <2>3. PlaceInv' /\ ReturnInv' /\ ContextInv'
    BY <1>1, <1>2, <2>1 DEF IInv, PlaceInv, ReturnInv, ContextInv
  <2>4. ErrorInv'
    BY <1>1, <1>2, <2>1 DEF ErrorInv, Told, Killed
  <2>5. QED
    BY <2>2, <2>3, <2>4 DEF Rest
<1>4. CASE WriteFails
  <2>1. stdout' \in {<<>>, <<"part">>} /\ stderr' = <<>> /\ err' = "write"
    BY <1>1, <1>4, FirstText DEF WriteFails
  <2>2. RestOK'
    <3>1. Len(stdout') <= 1 /\ Len(stderr') <= 2
      BY <2>1, ShortText
    <3>2. QED
      BY <1>1, <1>2, <2>1, <3>1 DEF IInv, TypeOK, RestOK
  <2>3. PlaceInv' /\ ReturnInv' /\ ContextInv'
    BY <1>1, <1>2, <2>1 DEF IInv, PlaceInv, ReturnInv, ContextInv
  <2>4. ErrorInv'
    BY <1>1, <1>2, <2>1 DEF ErrorInv, Told, Killed
  <2>5. QED
    BY <2>2, <2>3, <2>4 DEF Rest
<1>5. CASE About
  <2>1. stdout' \in {<<>>, <<"about">>} /\ stderr' = <<>> /\ err' = "none" /\ ~asked
    BY <1>1, <1>5, FirstText DEF About, Written, IInv, PlaceInv
  <2>2. RestOK'
    <3>1. Len(stdout') <= 1 /\ Len(stderr') <= 2
      BY <2>1, ShortText
    <3>2. QED
      BY <1>1, <1>2, <2>1, <3>1 DEF IInv, TypeOK, RestOK
  <2>3. PlaceInv' /\ ReturnInv' /\ ContextInv'
    BY <1>1, <1>2, <2>1 DEF IInv, PlaceInv, ReturnInv, ContextInv
  <2>4. ErrorInv'
    BY <1>1, <1>2, <2>1 DEF ErrorInv, Told, Killed
  <2>5. QED
    BY <2>2, <2>3, <2>4 DEF Rest
<1>6. QED
  BY <1>3, <1>4, <1>5

\* main tells the error once, and only if there is one.
LEMMA MainStep ==
    ASSUME IInv, Stop \/ Report \/ Leave \/ Kill
    PROVE  Rest'
<1>1. pc \in {"main", "leave", "exit"} /\ exit = -1
  BY DEF IInv, PlaceInv, Stop, Report, Leave, Kill
<1>2. /\ UNCHANGED <<ctx, err, stdout, asked, interrupted>>
      /\ Told' = Told /\ LastLine' = LastLine
  BY DEF Stop, Report, Leave, Kill, streams, Told, LastLine
<1>3. stderr' = stderr => Reported' = Reported
  BY <1>2 DEF Reported
<1>4. CASE Stop
  BY <1>1, <1>2, <1>3, <1>4 DEF Stop, streams, IInv, TypeOK, Rest, RestOK, PlaceInv, ReturnInv,
                                ErrorInv, ContextInv
<1>5. CASE Report
  <2>1. stderr \in Told /\ stderr' = Append(stderr, LastLine) /\ err # "none"
    BY <1>5 DEF Report, IInv, ErrorInv
  <2>2. Reported'
    BY <1>2, <2>1 DEF Reported
  <2>3. Len(stderr') <= 2
    <3>1. CASE stderr = <<>>
      BY <2>1, <3>1, FirstText
    <3>2. CASE \E x : stderr = <<x>>
      BY <2>1, <3>2, SecondText
    <3>3. QED
      BY <2>1, <3>1, <3>2 DEF Told
  <2>4. QED
    BY <1>1, <1>2, <1>5, <2>2, <2>3 DEF Report, IInv, TypeOK, Rest, RestOK, PlaceInv, ReturnInv,
                                        ErrorInv, ContextInv, Killed
<1>6. CASE Leave
  <2>1. stderr' = stderr /\ pc' = "done"
    BY <1>6 DEF Leave, streams
  <2>2. \/ err = "none" /\ exit' = 0 /\ stderr \in Told
        \/ Reported /\ exit' = IF err = "panic" THEN 2 ELSE 1
    BY <1>6 DEF Leave, IInv, ErrorInv
  <2>3. QED
    BY <1>1, <1>2, <1>3, <2>1, <2>2 DEF IInv, TypeOK, Rest, RestOK, PlaceInv, ReturnInv, ErrorInv,
                                        ContextInv, Killed
<1>7. CASE Kill
  BY <1>1, <1>2, <1>3, <1>7 DEF Kill, streams, IInv, TypeOK, Rest, RestOK, PlaceInv, ReturnInv,
                                ErrorInv, ContextInv, Killed
<1>8. QED
  BY <1>4, <1>5, <1>6, <1>7

\* The user and the clock touch the context alone.
LEMMA ContextStep ==
    ASSUME IInv, Interrupt \/ DeadlinePasses
    PROVE  Rest'
<1>1. UNCHANGED <<args, pc, err, stdout, stderr, exit, asked>> /\ Told' = Told /\ cmd' = cmd
  BY DEF Interrupt, DeadlinePasses, streams, Told, cmd
<1>2. RestOK'
  BY <1>1 DEF IInv, TypeOK, RestOK, Interrupt, DeadlinePasses
<1>3. PlaceInv' /\ ReturnInv' /\ ErrorInv'
  BY <1>1 DEF IInv, PlaceInv, ReturnInv, ErrorInv, Reported, LastLine
<1>4. ContextInv'
  <2>1. CASE Interrupt
    BY <2>1 DEF Interrupt, IInv, TypeOK, ContextInv
  <2>2. CASE DeadlinePasses
    BY <2>2 DEF DeadlinePasses, IInv, TypeOK, PlaceInv, ContextInv
  <2>3. QED
    BY <2>1, <2>2
<1>5. QED
  BY <1>2, <1>3, <1>4 DEF Rest

(***************************************************************************)
(* Invariance.                                                              *)
(***************************************************************************)
LEMMA NextInv == IInv /\ [Next]_vars => IInv'
<1> SUFFICES ASSUME IInv, [Next]_vars PROVE IInv'
  OBVIOUS
<1>1. CASE Next
  <2>1. args' \in Seq(Argument) /\ i' \in 2 .. Len(args') + 2 /\ FlagsOK'
    BY <1>1, TypeStep DEF IInv
  <2>2. Rest'
    <3>1. CASE Usage \/ Version \/ CommandHelp
      BY <3>1, AnswerStep DEF Usage, Version, CommandHelp
    <3>2. CASE Finished
      BY <3>2 DEF Finished, vars, streams, IInv, TypeOK, Rest, RestOK, PlaceInv, ReturnInv,
                  ErrorInv, ContextInv, Reported, LastLine, Told, cmd
    <3>3. QED
      BY <1>1, <3>1, <3>2, ParseStep, OperationStep, OutputStep, MainStep, ContextStep
         DEF Next, Program
  <2>3. QED
    BY <2>1, <2>2 DEF IInv, TypeOK, Rest, RestOK, FlagsOK
<1>2. CASE UNCHANGED vars
  <2>1. UNCHANGED <<args, pc, i, flags, ctx, err, stdout, stderr, exit, asked, interrupted>>
    BY <1>2 DEF vars, streams
  <2>2. TypeOK' /\ ContextInv'
    BY <2>1 DEF IInv, TypeOK, ContextInv
  <2>3. PlaceInv' /\ ReturnInv'
    BY <2>1 DEF IInv, PlaceInv, ReturnInv, cmd
  <2>4. Told' = Told /\ Reported' = Reported
    BY <2>1 DEF Told, Reported, LastLine
  <2>5. ErrorInv'
    BY <2>1, <2>4 DEF IInv, ErrorInv
  <2>6. QED
    BY <2>2, <2>3, <2>5 DEF IInv
<1>3. QED
  BY <1>1, <1>2

\* The inductive invariant holds in every state of every run.
THEOREM Invariance == Spec => []IInv
  BY InitInv, NextInv, PTL DEF Spec

\* The fields of the parsers stay within their ranges: a port is one of 1 .. 65535, or 0
\* for none, a process ID and a state exist, a count is no negative number.
THEOREM TypeCorrect == Spec => []TypeOK
<1>1. IInv => TypeOK
  BY DEF IInv
<1>2. QED
  BY <1>1, Invariance, PTL

\* A wrong command line never asks the system for anything and writes its usage to stderr
\* before all else.
THEOREM UsageErrors == Spec => []UsageErrorsAreInert
<1>1. IInv => UsageErrorsAreInert
  <2> SUFFICES ASSUME IInv, err = "usage" PROVE ~asked /\ stdout = <<>> /\ Head(stderr) \in Usages
    BY DEF UsageErrorsAreInert, Usages
  <2>1. pc \in {"main", "leave", "exit", "done"}
    BY DEF IInv, TypeOK, PlaceInv
  <2>2. ~asked /\ stdout = <<>>
    BY <2>1 DEF IInv, ReturnInv
  <2>3. PICK u \in Usages : stderr \in {<<u>>, Append(<<u>>, LastLine)}
    BY DEF IInv, TypeOK, ErrorInv, Reported, Told
  <2>4. Head(stderr) = u
    BY <2>3
  <2>5. QED
    BY <2>2, <2>4
<1>2. QED
  BY <1>1, Invariance, PTL

\* stdout holds the table of a command that succeeded, at most a part of it if writing
\* failed, and nothing after any other error.
THEOREM StdoutResult == Spec => []StdoutIsTheResult
<1>1. IInv => StdoutIsTheResult
  BY DEF IInv, TypeOK, PlaceInv, ReturnInv, ErrorInv, StdoutIsTheResult, Killed
<1>2. QED
  BY <1>1, Invariance, PTL

\* The error line stands once on stderr, as its last, and only for an error; the exit code
\* 1 comes after it, 2 after a panic's report in its place, and with 0 there was no error.
THEOREM ErrorLine == Spec => []OneErrorLine
<1>1. IInv => OneErrorLine
  <2> SUFFICES ASSUME IInv PROVE OneErrorLine
    OBVIOUS
  <2>1. \A told \in Told : told = <<>> \/ \E x \in Usages \cup {"note"} : told = <<x>>
    BY DEF Told
  <2>2. ASSUME stderr \in Told
        PROVE  \A k \in DOMAIN stderr : stderr[k] # "error"
    BY <2>1, <2>2 DEF Usages
  <2>3. ASSUME Reported
        PROVE  /\ stderr # <<>> /\ stderr[Len(stderr)] = LastLine
               /\ \A k \in DOMAIN stderr : stderr[k] = "error" => k = Len(stderr)
    <3> DEFINE Last == /\ stderr # <<>> /\ stderr[Len(stderr)] = LastLine
                       /\ \A k \in DOMAIN stderr : stderr[k] = "error" => k = Len(stderr)
    <3>1. PICK told \in Told : stderr = Append(told, LastLine)
      BY <2>3 DEF Reported
    <3>2. ASSUME told = <<>>
          PROVE  Last
      <4>1. stderr = <<LastLine>>
        BY <3>1, <3>2, FirstText
      <4>2. QED
        BY <4>1
    <3>3. ASSUME NEW x \in Usages \cup {"note"}, told = <<x>>
          PROVE  Last
      <4>1. Len(stderr) = 2 /\ DOMAIN stderr = 1 .. 2 /\ stderr[1] # "error" /\ stderr[2] = LastLine
        BY <3>1, <3>3, SecondText DEF Usages
      <4>2. stderr # <<>>
        BY <4>1
      <4>3. QED
        BY <4>1, <4>2
    <3>4. QED
      BY <2>1, <3>2, <3>3
  <2>4. exit = 1 => stderr # <<>> /\ stderr[Len(stderr)] = "error"
    BY <2>3 DEF IInv, ErrorInv, LastLine
  <2>5. ASSUME NEW k \in DOMAIN stderr, stderr[k] = "error"
        PROVE  /\ k = Len(stderr)
               /\ err \notin {"none", "panic"}
               /\ pc = "exit" \/ exit \in {1, Killed}
    <3>1. stderr \notin Told /\ pc \in {"exit", "done"} /\ Reported
      BY <2>2, <2>5 DEF IInv, ErrorInv
    <3>2. k = Len(stderr) /\ LastLine = "error"
      BY <2>3, <2>5, <3>1
    <3>3. err \notin {"none", "panic"}
      BY <3>1, <3>2 DEF Reported, LastLine
    <3>4. pc = "exit" \/ exit \in {1, Killed}
      BY <3>1, <3>3 DEF IInv, TypeOK, PlaceInv, ErrorInv
    <3>5. QED
      BY <3>2, <3>3, <3>4
  <2>6. exit = 0 => err = "none"
    BY DEF IInv, ErrorInv
  <2>7. exit = 2 => stderr # <<>> /\ stderr[Len(stderr)] = "panic"
    BY <2>3 DEF IInv, ErrorInv, LastLine
  <2>8. QED
    BY <2>4, <2>5, <2>6, <2>7 DEF OneErrorLine
<1>2. QED
  BY <1>1, Invariance, PTL

\* Ctrl-C before the deadline is never reported as a timeout, and no run without Ctrl-C
\* as cancelled.
THEOREM Cancellation == Spec => []CancelWins
<1>1. IInv => CancelWins
  BY DEF IInv, ContextInv, CancelWins
<1>2. QED
  BY <1>1, Invariance, PTL

(***************************************************************************)
(* The grammar: numbers and pieces.                                         *)
(***************************************************************************)
\* The smallest element of a set of numbers.
LEMMA SmallestExists ==
    ASSUME NEW S \in SUBSET Nat, S # {}
    PROVE  \E x \in S : \A y \in S : x <= y
<1>1. PICK x \in S : \A y \in S : <<y, x>> \notin OpToRel(<, Nat)
  BY WFMin, NatLessThanWellFounded
<1>2. \A y \in S : ~(y < x)
  BY <1>1 DEF OpToRel
<1>3. QED
  BY <1>2

\* Largest is the element that no other exceeds.
LEMMA LargestIs ==
    ASSUME NEW S \in SUBSET Int, NEW x \in S, \A y \in S : y <= x
    PROVE  Largest(S) = x
<1>1. Largest(S) \in S /\ \A y \in S : y <= Largest(S)
  BY DEF Largest
<1>2. x \in Int /\ Largest(S) \in Int
  BY <1>1
<1>3. x <= Largest(S) /\ Largest(S) <= x
  BY <1>1
<1>4. QED
  BY <1>2, <1>3

\* A bounded set of numbers has it.
LEMMA LargestIn ==
    ASSUME NEW n \in Nat, NEW S \in SUBSET (1 .. n), S # {}
    PROVE  Largest(S) \in S /\ \A y \in S : y <= Largest(S)
<1> DEFINE T == {u \in Nat : \A y \in S : y <= u}
<1>1. T \in SUBSET Nat /\ n \in T
  OBVIOUS
<1>2. PICK u \in T : \A t \in T : u <= t
  BY <1>1, SmallestExists
<1>3. u \in S
  <2> SUFFICES ASSUME u \notin S PROVE FALSE
    OBVIOUS
  <2>1. u \in Nat /\ \A y \in S : y \in Nat /\ y <= u /\ y # u
    BY <1>2
  <2>2. PICK y \in S : TRUE
    OBVIOUS
  <2>3. y \in Nat /\ y < u
    BY <2>1
  <2>4. u - 1 \in T
    BY <2>1, <2>3
  <2>5. QED
    BY <1>2, <2>1, <2>4
<1>4. Largest(S) = u
  BY <1>2, <1>3, LargestIs
<1>5. QED
  BY <1>2, <1>3, <1>4

\* A piece depends on the cut before its end alone.
LEMMA PieceLocal ==
    ASSUME NEW E, NEW F, NEW e, Before(E, e) = Before(F, e)
    PROVE  Piece(E, e) = Piece(F, e)
  BY DEF Piece

\* A cut of the arguments up to the n-th.
Readable(E, n) ==
    /\ E \subseteq 2 .. n /\ n \in E \cup {1}
    /\ \A e \in E : IsOption(Piece(E, e)) \/ IsOperand(Piece(E, e))

\* The piece that begins where a cut has come to.
LEMMA NextPiece ==
    ASSUME NEW n \in Nat, NEW E, Readable(E, n), NEW F, NEW m, Before(F, m) = E
    PROVE  Piece(F, m) = SubSeq(args, n + 1, m)
<1>0. E \subseteq 2 .. n /\ n \in E \cup {1}
  BY DEF Readable
<1>1. Largest({1} \cup E) = n
  BY <1>0, LargestIs
<1>2. Largest({1} \cup Before(F, m)) = n
  BY <1>1, Zenon
<1>3. 1 + Largest({1} \cup Before(F, m)) = n + 1
  BY <1>2
<1>4. QED
  BY <1>3, Zenon DEF Piece

\* Its parts: at most two arguments are looked at.
LEMMA PieceParts ==
    ASSUME args \in Seq(Argument), NEW k \in DOMAIN args, NEW m \in k .. Len(args)
    PROVE  LET p == SubSeq(args, k, m)
           IN  /\ p \in Seq(Argument) /\ Len(p) = m - k + 1
               /\ p[1] = args[k] /\ (m > k => p[2] = args[k + 1])
<1>1. Len(args) \in Nat /\ DOMAIN args = 1 .. Len(args)
  OBVIOUS
<1>2. k \in Int /\ m \in Int /\ k >= 1 /\ k <= m /\ \A j \in k .. m : args[j] \in Argument
  BY <1>1
<1> DEFINE p == SubSeq(args, k, m)
<1>3. /\ p \in Seq(Argument) /\ Len(p) = m - k + 1
      /\ \A j \in 1 .. m - k + 1 : p[j] = args[k + j - 1]
  BY <1>2, SubSeqProperties
<1> HIDE DEF p
<1>4. p[1] = args[k] /\ (m > k => p[2] = args[k + 1])
  BY <1>2, <1>3
<1>5. QED
  BY <1>3, <1>4 DEF p

\* G is the cut E and one piece more, which ends at m.
Longer(G, E, n, m) ==
    /\ G = E \cup {m} /\ m \notin E
    /\ Before(G, m) = E
    /\ Piece(G, m) = SubSeq(args, n + 1, m)
    /\ \A e \in E : Piece(G, e) = Piece(E, e)

\* A cut that goes on by one piece has the pieces it had, and that one.
LEMMA LongerCut ==
    ASSUME NEW n \in Nat, NEW E, Readable(E, n), NEW m \in Nat, n < m
    PROVE  Longer(E \cup {m}, E, n, m)
<1>1. E \subseteq 2 .. n /\ n \in E \cup {1}
  BY DEF Readable
<1>2. \A x \in E : x \in Nat /\ x < m
  BY <1>1
<1>3. Before(E \cup {m}, m) = E
  BY <1>2 DEF Before
<1>4. ASSUME NEW e \in E PROVE Piece(E \cup {m}, e) = Piece(E, e)
  <2>1. ~(m < e)
    BY <1>2
  <2>2. Before(E \cup {m}, e) = Before(E, e)
    BY <2>1 DEF Before
  <2>3. QED
    BY <2>2, PieceLocal
<1>5. Piece(E \cup {m}, m) = SubSeq(args, n + 1, m)
  <2>1. \A F : Before(F, m) = E => Piece(F, m) = SubSeq(args, n + 1, m)
    BY NextPiece
  <2>2. QED
    BY <1>3, <2>1
<1>6. m \notin E
  BY <1>2
<1>7. QED
  BY <1>3, <1>4, <1>5, <1>6 DEF Longer

\* What an operand adds.
OperandJoins(G, E, m) ==
    /\ Operands(G) = Operands(E) \cup {m}
    /\ \A f : Options(G, f) = Options(E, f)
    /\ On(G) = On(E)

\* A piece that is an operand joins the operands.
LEMMA OperandAdded ==
    ASSUME NEW n \in Nat, NEW E, Readable(E, n), NEW m \in Nat, n < m,
           IsOperand(SubSeq(args, n + 1, m))
    PROVE  OperandJoins(E \cup {m}, E, m)
<1> DEFINE G == E \cup {m}
<1>1. Longer(G, E, n, m)
  BY LongerCut
<1>2. Operands(G) = Operands(E) \cup {m}
  BY <1>1 DEF Operands, Longer
<1>3. m \notin E
  BY <1>1 DEF Longer
<1>4. G \ Operands(G) = E \ Operands(E)
  BY <1>2, <1>3
<1> HIDE DEF G
<1>5. \A e \in E \ Operands(E) : Piece(G, e) = Piece(E, e)
  BY <1>1 DEF Longer
<1>6. On(G) = On(E)
  BY <1>4, <1>5, Zenon DEF On
<1>7. ASSUME NEW f PROVE Options(G, f) = Options(E, f)
  BY <1>4, <1>5, Zenon DEF Options
<1>8. QED
  BY <1>2, <1>6, <1>7, Zenon DEF G, OperandJoins

\* What an option adds.
OptionJoins(G, E, m, a) ==
    /\ Operands(G) = Operands(E)
    /\ \A f : Options(G, f) = Options(E, f) \cup IF a.name = f THEN {m} ELSE {}
    /\ On(G) = On(E) \cup SwitchOf(a)

\* A piece that is an option joins those of its name, and switches on what it does.
LEMMA OptionAdded ==
    ASSUME NEW n \in Nat, NEW E, Readable(E, n), NEW m \in Nat, n < m,
           ~IsOperand(SubSeq(args, n + 1, m))
    PROVE  OptionJoins(E \cup {m}, E, m, SubSeq(args, n + 1, m)[1])
<1> DEFINE G == E \cup {m}
           a == SubSeq(args, n + 1, m)[1]
<1>1. Longer(G, E, n, m)
  BY LongerCut
<1>2. Operands(G) = Operands(E)
  BY <1>1 DEF Operands, Longer
<1>3. m \notin E /\ m \notin Operands(E)
  BY <1>1 DEF Longer, Operands
<1>4. G \ Operands(G) = (E \ Operands(E)) \cup {m}
  BY <1>2, <1>3
<1>5. Piece(G, m)[1] = a
  BY <1>1 DEF Longer
<1> HIDE DEF G, a
<1>6. \A e \in E \ Operands(E) : Piece(G, e) = Piece(E, e)
  BY <1>1 DEF Longer
<1>7. On(G) = On(E) \cup SwitchOf(a)
  <2>1. \A f : f \in On(G) <=> \E e \in (E \ Operands(E)) \cup {m} : f \in SwitchOf(Piece(G, e)[1])
    BY <1>4 DEF On
  <2>2. \A f : f \in On(E) <=> \E e \in E \ Operands(E) : f \in SwitchOf(Piece(E, e)[1])
    BY DEF On
  <2>3. QED
    BY <2>1, <2>2, <1>5, <1>6
<1>8. ASSUME NEW f PROVE Options(G, f) = Options(E, f) \cup IF a.name = f THEN {m} ELSE {}
  <2>1. Options(G, f) = {e \in (E \ Operands(E)) \cup {m} : Piece(G, e)[1].name = f}
    BY <1>4 DEF Options
  <2>2. QED
    BY <2>1, <1>5, <1>6 DEF Options
<1>9. QED
  BY <1>2, <1>7, <1>8, Zenon DEF G, a, OptionJoins

\* The arguments that switch something on, those that take a value and the operands.
LEMMA Apart ==
    ASSUME NEW a, SwitchOf(a) # {}
    PROVE  a.name \notin ValueFlags /\ cmd \notin Network
<1>1. CASE cmd \in Sockets
  BY <1>1 DEF SwitchOf, ValueFlags, Sockets, Network
<1>2. CASE cmd = "interfaces"
  BY <1>2 DEF ValueFlags, Network
<1>3. QED
  BY <1>1, <1>2 DEF SwitchOf

\* How a piece that begins with the k-th argument ends, and what it is.
Closes(k, m, p) ==
    /\ SwitchOf(args[k]) # {} => m = k /\ IsOption(p) /\ ~IsOperand(p)
    /\ args[k].name \in ValueFlags =>
         /\ IF args[k].val = <<>> THEN m = k + 1 /\ Given(p) = args[k + 1]
            ELSE m = k /\ Given(p) = Plain(args[k].val[1])
         /\ Values(args[k].name, Given(p)) # {}
         /\ IsOption(p) /\ ~IsOperand(p)
    /\ SwitchOf(args[k]) = {} /\ args[k].name \notin ValueFlags => m = k /\ IsOperand(p)

\* What a piece begins with says where it ends and what it is.
LEMMA PieceEnds ==
    ASSUME args \in Seq(Argument), NEW k \in DOMAIN args, NEW m \in k .. Len(args), NEW p,
           p = SubSeq(args, k, m), IsOption(p) \/ IsOperand(p)
    PROVE  Closes(k, m, p)
<1>1. /\ p[1] = args[k] /\ Len(p) = m - k + 1 /\ (m > k => p[2] = args[k + 1])
      /\ k \in Nat /\ m \in Nat
  BY PieceParts
<1>2. CASE SwitchOf(args[k]) # {}
  <2>1. args[k].name \notin ValueFlags /\ cmd \notin Network
    BY <1>2, Apart
  <2>2. ~IsOperand(p) /\ Len(p) = 1
    BY <1>1, <2>1 DEF IsOption, IsOperand
  <2>3. m = k
    BY <1>1, <2>2
  <2>4. QED
    BY <1>2, <2>1, <2>2, <2>3, Zenon DEF Closes
<1>3. CASE args[k].name \in ValueFlags
  <2>1. SwitchOf(args[k]) = {}
    BY <1>3, Apart
  <2>2. ~IsOperand(p) /\ IsOption(p)
    BY <1>1, <1>3 DEF IsOperand
  <2>3. Len(p) = (IF args[k].val = <<>> THEN 2 ELSE 1) /\ Values(args[k].name, Given(p)) # {}
    BY <1>1, <2>1, <2>2, Zenon DEF IsOption
  <2>4. CASE args[k].val = <<>>
    <3>1. Len(p) = 2 /\ m = k + 1
      BY <1>1, <2>3, <2>4
    <3>2. m > k
      BY <1>1, <3>1
    <3>3. Given(p) = args[k + 1]
      BY <1>1, <3>1, <3>2, Zenon DEF Given
    <3>4. QED
      BY <1>3, <2>1, <2>2, <2>3, <2>4, <3>1, <3>3, Zenon DEF Closes
  <2>5. CASE args[k].val # <<>>
    <3>1. Len(p) # 2 /\ m = k
      BY <1>1, <2>3, <2>5
    <3>2. Given(p) = Plain(args[k].val[1])
      BY <1>1, <3>1, Zenon DEF Given
    <3>3. QED
      BY <1>3, <2>1, <2>2, <2>3, <2>5, <3>1, <3>2, Zenon DEF Closes
  <2>6. QED
    BY <2>4, <2>5
<1>4. CASE SwitchOf(args[k]) = {} /\ args[k].name \notin ValueFlags
  <2>1. IsOperand(p) /\ Len(p) = 1
    BY <1>1, <1>4 DEF IsOption, IsOperand
  <2>2. m = k
    BY <1>1, <2>1
  <2>3. QED
    BY <1>4, <2>1, <2>2, Zenon DEF Closes
<1>5. QED
  BY <1>2, <1>3, <1>4

\* A cut that agrees so far goes on by one piece.
GoesOn(F, E, n, m) ==
    /\ m \in n + 1 .. Len(args) /\ m \in F
    /\ Before(F, m + 1) = E \cup {m}
    /\ Closes(n + 1, m, SubSeq(args, n + 1, m))
    /\ IsOperand(SubSeq(args, n + 1, m)) => m \in Operands(F)

\* A cut of all arguments that agrees with one of the first n goes on by one piece.
LEMMA CutGoesOn ==
    ASSUME args \in Seq(Argument), NEW n \in Nat, NEW E, Readable(E, n), n + 1 \in DOMAIN args,
           n # 0, NEW F \in Cuts, Before(F, n + 1) = E
    PROVE  \E m : GoesOn(F, E, n, m)
<1>1. Len(args) \in Nat /\ n + 1 <= Len(args)
  OBVIOUS
<1>2. F \subseteq 2 .. Len(args) /\ Len(args) \in F
  BY <1>1 DEF Cuts
<1> DEFINE R == {x \in F : x > n}
<1>3. Len(args) > n /\ \A x \in F : x \in Nat
  BY <1>1, <1>2
<1>4. PICK m \in R : \A x \in R : m <= x
  <2>1. R \subseteq Nat /\ Len(args) \in R
    BY <1>2, <1>3, Zenon
  <2>2. QED
    BY <2>1, SmallestExists, Zenon
<1>5. m \in n + 1 .. Len(args) /\ m \in F /\ m \in Nat
  BY <1>1, <1>2, <1>4
<1>6. \A x \in F : x \in Nat /\ (x > n => m <= x)
  BY <1>2, <1>4
<1> HIDE DEF R
<1>7. \A x \in F : (x < m <=> x < n + 1) /\ (x < m + 1 <=> x < n + 1 \/ x = m)
  BY <1>5, <1>6
<1>8. Before(F, m) = Before(F, n + 1) /\ Before(F, m + 1) = Before(F, n + 1) \cup {m}
  BY <1>5, <1>7 DEF Before
<1>9. Piece(F, m) = SubSeq(args, n + 1, m)
  BY <1>8, NextPiece
<1>10. IsOption(Piece(F, m)) \/ IsOperand(Piece(F, m))
  BY <1>5 DEF Cuts
<1>11. Closes(n + 1, m, SubSeq(args, n + 1, m))
  BY <1>5, <1>9, <1>10, PieceEnds
<1>12. IsOperand(SubSeq(args, n + 1, m)) => m \in Operands(F)
  BY <1>5, <1>9 DEF Operands
<1>13. QED
  BY <1>5, <1>8, <1>11, <1>12 DEF GoesOn

(***************************************************************************)
(* The grammar: what the parser has understood.                             *)
(***************************************************************************)
\* The last option of a name in a cut gives its flag the value.
ValueBy(E, f, x) ==
    IF Options(E, f) = {} THEN x = NoFlags[f]
    ELSE x \in Values(f, Given(Piece(E, Largest(Options(E, f)))))

\* The host is the last operand, the only one that is not empty.
HostBy(E, h) ==
    IF h = Empty THEN \A e \in Operands(E) : args[e] = Empty
    ELSE /\ Operands(E) # {} /\ h = args[Largest(Operands(E))]
         /\ \A e \in Operands(E) : (args[e] = Empty) <=> (e # Largest(Operands(E)))

SwitchesBy(E, fl) ==
    \A f \in Protocols \cup {"--verbose"} : fl[f] = IF f \in On(E) THEN TRUE ELSE FALSE

\* The fields hold what the cut says.
Understands(E, fl) ==
    /\ SwitchesBy(E, fl)
    /\ \A f \in ValueFlags : ValueBy(E, f, fl[f])
    /\ cmd \in Network => HostBy(E, fl["host"])

\* No cut divides the first n arguments otherwise.
Only(E, n) == \A F \in Cuts : Before(F, n + 1) = E

\* The parser reads from left to right: there is one cut of what it has read, and it has
\* understood what that says.
ParseInv ==
    pc = "parse" =>
        /\ Known /\ i <= Len(args) + 1
        /\ cmd # "about" => \E E : Readable(E, i - 1) /\ Understands(E, flags) /\ Only(E, i - 1)

\* A piece is added to a cut.
LEMMA ReadableLonger ==
    ASSUME NEW n \in Nat \ {0}, NEW E, Readable(E, n), NEW m \in Nat, n < m,
           NEW p, p = SubSeq(args, n + 1, m), IsOption(p) \/ IsOperand(p)
    PROVE  Readable(E \cup {m}, m)
<1> DEFINE G == E \cup {m}
<1>1. Longer(G, E, n, m)
  BY LongerCut
<1>2. E \subseteq 2 .. n /\ \A e \in E : IsOption(Piece(E, e)) \/ IsOperand(Piece(E, e))
  BY DEF Readable
<1>3. G \subseteq 2 .. m
  BY <1>2
<1> HIDE DEF G
<1>4. G = E \cup {m}
  BY DEF G
<1>5. \A e \in G : IsOption(Piece(G, e)) \/ IsOperand(Piece(G, e))
  BY <1>1, <1>2, <1>4, Zenon DEF Longer
<1>6. QED
  BY <1>3, <1>4, <1>5 DEF Readable, G

\* If the next piece can only end at m, no cut goes on otherwise.
LEMMA OnlyLonger ==
    ASSUME args \in Seq(Argument), NEW n \in Nat \ {0}, NEW E, Readable(E, n),
           n + 1 \in DOMAIN args, Only(E, n), NEW m,
           \A k : Closes(n + 1, k, SubSeq(args, n + 1, k)) => k = m
    PROVE  Only(E \cup {m}, m)
<1> SUFFICES ASSUME NEW F \in Cuts PROVE Before(F, m + 1) = E \cup {m}
  BY DEF Only
<1>1. Before(F, n + 1) = E
  BY DEF Only
<1>2. PICK k : GoesOn(F, E, n, k)
  BY <1>1, CutGoesOn
<1>3. QED
  BY <1>2, Zenon DEF GoesOn

\* The value of a flag that the piece does not name stays.
LEMMA ValueStays ==
    ASSUME NEW n \in Nat, NEW E, Readable(E, n), NEW m, NEW G, Longer(G, E, n, m),
           NEW f, Options(G, f) = Options(E, f), NEW x, ValueBy(E, f, x)
    PROVE  ValueBy(G, f, x)
<1>1. CASE Options(E, f) = {}
  BY <1>1, Zenon DEF ValueBy
<1>2. CASE Options(E, f) # {}
  <2>1. Options(E, f) \subseteq E /\ E \subseteq 2 .. n
    BY DEF Options, Readable
  <2>2. Options(E, f) \in SUBSET (1 .. n)
    <3>1. 2 .. n \subseteq 1 .. n
      OBVIOUS
    <3>2. QED
      BY <2>1, <3>1, Zenon
  <2>3. Largest(Options(E, f)) \in E
    <3>1. Largest(Options(E, f)) \in Options(E, f)
      BY <1>2, <2>2, LargestIn, Zenon
    <3>2. QED
      BY <2>1, <3>1
  <2>4. Piece(G, Largest(Options(E, f))) = Piece(E, Largest(Options(E, f)))
    BY <2>3, Zenon DEF Longer
  <2>5. QED
    BY <1>2, <2>4, Zenon DEF ValueBy
<1>3. QED
  BY <1>1, <1>2

\* That of the flag it names becomes the value it gives.
LEMMA ValueTaken ==
    ASSUME NEW n \in Nat, NEW E, Readable(E, n), NEW m \in Nat, n < m, NEW G, Longer(G, E, n, m),
           NEW f, Options(G, f) = Options(E, f) \cup {m},
           NEW x, x \in Values(f, Given(SubSeq(args, n + 1, m)))
    PROVE  ValueBy(G, f, x)
<1>1. Options(E, f) \subseteq E /\ E \subseteq 2 .. n
  BY DEF Options, Readable
<1>2. m \in Int /\ m <= m /\ \A y \in E : y \in Int /\ y <= m
  BY <1>1
<1>3. Largest(Options(G, f)) = m
  <2>1. \A y \in Options(G, f) : y \in Int /\ y <= m
    BY <1>1, <1>2, Zenon
  <2>2. Options(G, f) \in SUBSET Int /\ m \in Options(G, f)
    BY <2>1
  <2>3. QED
    BY <2>1, <2>2, LargestIs
<1>4. QED
  BY <1>3, Zenon DEF ValueBy, Longer

\* The host after one more operand, if there was none but empty ones.
LEMMA HostTaken ==
    ASSUME NEW n \in Nat, NEW E, Readable(E, n), NEW m \in Nat, n < m, NEW G,
           Operands(G) = Operands(E) \cup {m}, HostBy(E, Empty)
    PROVE  HostBy(G, args[m])
<1>1. Operands(E) \subseteq E /\ E \subseteq 2 .. n
  BY DEF Operands, Readable
<1>2. m \in Int /\ m <= m /\ \A y \in E : y \in Int /\ y <= m
  BY <1>1
<1>3. Largest(Operands(G)) = m
  <2>1. \A y \in Operands(G) : y \in Int /\ y <= m
    BY <1>1, <1>2, Zenon
  <2>2. Operands(G) \in SUBSET Int /\ m \in Operands(G)
    BY <2>1
  <2>3. QED
    BY <2>1, <2>2, LargestIs
<1>4. m \notin Operands(E)
  BY <1>1
<1>5. \A e \in Operands(E) : args[e] = Empty
  BY Zenon DEF HostBy
<1>6. QED
  BY <1>3, <1>4, <1>5, Zenon DEF HostBy

\* A switch is understood.
LEMMA SwitchUnderstood ==
    ASSUME NEW n \in Nat, NEW E, Readable(E, n), NEW m \in Nat, n < m,
           NEW a, SubSeq(args, n + 1, m)[1] = a, ~IsOperand(SubSeq(args, n + 1, m)),
           NEW fl, DOMAIN fl = Flags, Understands(E, fl), NEW f \in SwitchOf(a)
    PROVE  Understands(E \cup {m}, [fl EXCEPT ![f] = TRUE])
<1> DEFINE G == E \cup {m}
           new == [fl EXCEPT ![f] = TRUE]
<1>0. OptionJoins(G, E, m, a)
  BY OptionAdded
<1>2. Longer(G, E, n, m)
  BY LongerCut
<1> HIDE DEF G
<1>1. /\ Operands(G) = Operands(E) /\ On(G) = On(E) \cup SwitchOf(a)
      /\ \A g : Options(G, g) = Options(E, g) \cup IF a.name = g THEN {m} ELSE {}
  BY <1>0 DEF OptionJoins
<1>3. a.name \notin ValueFlags /\ cmd \notin Network
  BY Apart
<1>4. SwitchOf(a) = {f} /\ f \in {"--tcp", "--udp", "--verbose"}
  BY DEF SwitchOf
<1>5. f \in Flags /\ f \notin ValueFlags
  BY <1>4 DEF Flags, ValueFlags
<1>6. \A g \in Flags : new[g] = IF g = f THEN TRUE ELSE fl[g]
  BY <1>5
<1> HIDE DEF new
<1>7. Protocols \cup {"--verbose"} \subseteq Flags /\ ValueFlags \subseteq Flags
  BY DEF Protocols, Flags, ValueFlags
<1>8. SwitchesBy(G, new)
  <2> SUFFICES ASSUME NEW g \in Protocols \cup {"--verbose"} 
                 PROVE new[g] = IF g \in On(G) THEN TRUE ELSE FALSE
    BY DEF SwitchesBy
  <2>1. fl[g] = IF g \in On(E) THEN TRUE ELSE FALSE
    BY Zenon DEF Understands, SwitchesBy
  <2>2. CASE g = f
    BY <1>1, <1>4, <1>6, <1>7, <2>2
  <2>3. CASE g # f
    <3>1. g \in On(G) <=> g \in On(E)
      BY <1>1, <1>4, <2>3
    <3>2. new[g] = fl[g]
      BY <1>6, <1>7, <2>3
    <3>3. QED
      BY <2>1, <3>1, <3>2, Zenon
  <2>4. QED
    BY <2>2, <2>3
<1>9. ASSUME NEW g \in ValueFlags PROVE ValueBy(G, g, new[g])
  <2>1. ValueBy(E, g, fl[g])
    BY Zenon DEF Understands
  <2>2. new[g] = fl[g]
    BY <1>5, <1>6, <1>7
  <2>3. Options(G, g) = Options(E, g)
    BY <1>1, <1>3
  <2>4. QED
    BY <1>2, <2>1, <2>2, <2>3, ValueStays
<1>10. Understands(G, new)
  BY <1>3, <1>8, <1>9, Zenon DEF Understands
<1>11. QED
  BY <1>10 DEF G, new

\* A flag with a value is understood.
LEMMA ValueUnderstood ==
    ASSUME NEW n \in Nat, NEW E, Readable(E, n), NEW m \in Nat, n < m,
           NEW a, SubSeq(args, n + 1, m)[1] = a, ~IsOperand(SubSeq(args, n + 1, m)),
           NEW fl, DOMAIN fl = Flags, Understands(E, fl), a.name \in ValueFlags,
           NEW x \in Values(a.name, Given(SubSeq(args, n + 1, m)))
    PROVE  Understands(E \cup {m}, [fl EXCEPT ![a.name] = x])
<1> DEFINE G == E \cup {m}
           new == [fl EXCEPT ![a.name] = x]
<1>0. OptionJoins(G, E, m, a)
  BY OptionAdded
<1>2. Longer(G, E, n, m)
  BY LongerCut
<1> HIDE DEF G
<1>1. /\ Operands(G) = Operands(E) /\ On(G) = On(E) \cup SwitchOf(a)
      /\ \A g : Options(G, g) = Options(E, g) \cup IF a.name = g THEN {m} ELSE {}
  BY <1>0 DEF OptionJoins
<1>3. SwitchOf(a) = {}
  BY Apart
<1>4. /\ Protocols \cup {"--verbose", "host"} \subseteq Flags \ ValueFlags
      /\ ValueFlags \subseteq Flags
  BY DEF Protocols, Flags, ValueFlags
<1>5. \A g \in Flags : new[g] = IF g = a.name THEN x ELSE fl[g]
  BY <1>4
<1> HIDE DEF new
<1>6. \A g \in Protocols \cup {"--verbose", "host"} : new[g] = fl[g]
  BY <1>4, <1>5
<1>7. SwitchesBy(G, new)
  BY <1>1, <1>3, <1>6 DEF SwitchesBy, Understands
<1>8. ASSUME NEW g \in ValueFlags PROVE ValueBy(G, g, new[g])
  <2>1. CASE g = a.name
    <3>1. Options(G, g) = Options(E, g) \cup {m} /\ new[g] = x
      BY <1>1, <1>4, <1>5, <2>1
    <3>2. QED
      BY <1>2, <2>1, <3>1, ValueTaken
  <2>2. CASE g # a.name
    <3>1. Options(G, g) = Options(E, g) /\ new[g] = fl[g]
      BY <1>1, <1>4, <1>5, <2>2
    <3>2. ValueBy(E, g, fl[g])
      BY Zenon DEF Understands
    <3>3. QED
      BY <1>2, <3>1, <3>2, ValueStays
  <2>3. QED
    BY <2>1, <2>2
<1>9. cmd \in Network => HostBy(G, new["host"])
  <2>1. new["host"] = fl["host"]
    BY <1>6
  <2>2. QED
    BY <1>1, <2>1, Zenon DEF Understands, HostBy
<1>10. Understands(G, new)
  BY <1>7, <1>8, <1>9, Zenon DEF Understands
<1>11. QED
  BY <1>10 DEF G, new

\* The host is understood.
LEMMA OperandUnderstood ==
    ASSUME NEW n \in Nat, NEW E, Readable(E, n), NEW m \in Nat, n < m,
           IsOperand(SubSeq(args, n + 1, m)), cmd \in Network,
           NEW fl, DOMAIN fl = Flags, Understands(E, fl), fl["host"] = Empty
    PROVE  Understands(E \cup {m}, [fl EXCEPT !["host"] = args[m]])
<1> DEFINE G == E \cup {m}
           new == [fl EXCEPT !["host"] = args[m]]
<1>0. OperandJoins(G, E, m)
  BY OperandAdded
<1>2. Longer(G, E, n, m)
  BY LongerCut
<1> HIDE DEF G
<1>1. /\ Operands(G) = Operands(E) \cup {m} /\ On(G) = On(E)
      /\ \A g : Options(G, g) = Options(E, g)
  BY <1>0 DEF OperandJoins
<1>3. /\ Protocols \cup {"--verbose"} \cup ValueFlags \subseteq Flags \ {"host"}
      /\ "host" \in Flags
  BY DEF Protocols, Flags, ValueFlags
<1>4. \A g \in Flags : new[g] = IF g = "host" THEN args[m] ELSE fl[g]
  OBVIOUS
<1> HIDE DEF new
<1>5. \A g \in Protocols \cup {"--verbose"} \cup ValueFlags : new[g] = fl[g]
  BY <1>3, <1>4
<1>6. SwitchesBy(G, new)
  BY <1>1, <1>5 DEF SwitchesBy, Understands
<1>7. ASSUME NEW g \in ValueFlags PROVE ValueBy(G, g, new[g])
  <2>1. ValueBy(E, g, fl[g]) /\ new[g] = fl[g]
    BY <1>5, Zenon DEF Understands
  <2>2. QED
    BY <1>1, <1>2, <2>1, ValueStays
<1>8. HostBy(G, new["host"])
  <2>1. HostBy(E, Empty)
    BY Zenon DEF Understands
  <2>2. new["host"] = args[m]
    BY <1>3, <1>4
  <2>3. QED
    BY <1>1, <2>1, <2>2, HostTaken
<1>9. Understands(G, new)
  BY <1>6, <1>7, <1>8, Zenon DEF Understands
<1>10. QED
  BY <1>9 DEF G, new

(***************************************************************************)
(* The grammar: its steps.                                                  *)
(***************************************************************************)
\* The grammar is that of the arguments, which do not change.
LEMMA SamePieces ==
    ASSUME args' = args
    PROVE  /\ cmd' = cmd /\ ValueFlags' = ValueFlags
           /\ \A E, e : Piece(E, e)' = Piece(E, e)
           /\ \A p : (IsOption(p)' <=> IsOption(p)) /\ (IsOperand(p)' <=> IsOperand(p))
           /\ \A a : SwitchOf(a)' = SwitchOf(a)
<1>1. cmd' = cmd
  BY DEF cmd
<1>2. ValueFlags' = ValueFlags
  BY <1>1 DEF ValueFlags
<1>3. ASSUME NEW E, NEW e PROVE Piece(E, e)' = Piece(E, e)
  BY DEF Piece
<1>4. ASSUME NEW a PROVE SwitchOf(a)' = SwitchOf(a)
  BY <1>1 DEF SwitchOf
<1>5. ASSUME NEW p PROVE IsOperand(p)' <=> IsOperand(p)
  BY <1>1, <1>2 DEF IsOperand
<1>6. ASSUME NEW p PROVE IsOption(p)' <=> IsOption(p)
  BY <1>2, <1>4 DEF IsOption
<1>7. QED
  BY <1>1, <1>2, <1>3, <1>4, <1>5, <1>6

\* Nor do its cuts.
LEMMA SameCuts ==
    ASSUME args' = args
    PROVE  /\ Cuts' = Cuts
           /\ \A E : /\ Operands(E)' = Operands(E) /\ On(E)' = On(E)
                     /\ \A f : Options(E, f)' = Options(E, f)
                     /\ OneHost(E)' <=> OneHost(E)
                     /\ \A n : (Readable(E, n)' <=> Readable(E, n)) /\ (Only(E, n)' <=> Only(E, n))
<1>1. ASSUME NEW E, NEW e
      PROVE  /\ IsOperand(Piece(E, e))' <=> IsOperand(Piece(E, e))
             /\ IsOption(Piece(E, e))' <=> IsOption(Piece(E, e))
             /\ Piece(E, e)' = Piece(E, e)
             /\ SwitchOf(Piece(E, e)[1])' = SwitchOf(Piece(E, e)[1])
  BY SamePieces
<1>2. ASSUME NEW E PROVE Operands(E)' = Operands(E)
  BY <1>1 DEF Operands
<1>3. ASSUME NEW E PROVE On(E)' = On(E)
  BY <1>1, <1>2 DEF On
<1>4. ASSUME NEW E, NEW f PROVE Options(E, f)' = Options(E, f)
  BY <1>1, <1>2 DEF Options
<1>5. Cuts' = Cuts
  BY <1>1 DEF Cuts
<1>6. ASSUME NEW E PROVE OneHost(E)' <=> OneHost(E)
  BY <1>2, SamePieces DEF OneHost
<1>7. ASSUME NEW E, NEW n
      PROVE  (Readable(E, n)' <=> Readable(E, n)) /\ (Only(E, n)' <=> Only(E, n))
  BY <1>1, <1>5 DEF Readable, Only
<1>8. QED
  BY <1>2, <1>3, <1>4, <1>5, <1>6, <1>7

\* What the fields say of a cut after a step is said of their new values.
LEMMA SameUnderstanding ==
    ASSUME args' = args, NEW fl, flags' = fl, NEW E, Understands(E, fl)
    PROVE  Understands(E, flags)'
<1>1. Operands(E)' = Operands(E) /\ On(E)' = On(E) /\ \A f : Options(E, f)' = Options(E, f)
  BY SameCuts
<1>2. cmd' = cmd /\ ValueFlags' = ValueFlags /\ \A e : Piece(E, e)' = Piece(E, e)
  BY SamePieces
<1>3. SwitchesBy(E, flags)'
  BY <1>1 DEF SwitchesBy, Understands
<1>4. ASSUME NEW f \in ValueFlags PROVE ValueBy(E, f, flags[f])'
  <2>1. ValueBy(E, f, fl[f])
    BY Zenon DEF Understands
  <2>2. Piece(E, Largest(Options(E, f)))' = Piece(E, Largest(Options(E, f)))
    BY <1>1, <1>2
  <2>3. QED
    BY <1>1, <2>1, <2>2 DEF ValueBy
<1>5. ASSUME cmd \in Network PROVE HostBy(E, flags["host"])'
  <2>1. HostBy(E, fl["host"])
    BY <1>5, Zenon DEF Understands
  <2>2. QED
    BY <1>1, <2>1, Zenon DEF HostBy
<1>6. QED
  BY <1>2, <1>3, <1>4, <1>5, Zenon DEF Understands

\* The invariant of the loop after a step that reads one piece.
LEMMA LoopGoesOn ==
    ASSUME Known, args' = args, NEW fl, flags' = fl, NEW m \in Nat, m <= Len(args), i' = m + 1,
           Len(args) \in Nat, NEW E, Readable(E, m), Understands(E, fl), Only(E, m)
    PROVE  ParseInv'
<1>1. Known'
  BY DEF Known, cmd
<1>2. i' <= Len(args') + 1 /\ i' - 1 = m
  OBVIOUS
<1>3. Readable(E, m)' /\ Only(E, m)'
  BY SameCuts
<1>4. Understands(E, flags)'
  BY SameUnderstanding
<1>5. Readable(E, i - 1)' /\ Only(E, i - 1)'
  BY <1>2, <1>3 DEF Readable, Only
<1>6. QED
  BY <1>1, <1>2, <1>4, <1>5, Zenon DEF ParseInv

\* Where the loop is: n arguments are read.
Reading(n, E, fl) ==
    /\ n \in Nat \ {0} /\ i = n + 1 /\ n + 1 \in DOMAIN args
    /\ args \in Seq(Argument) /\ Len(args) \in Nat /\ n + 1 <= Len(args)
    /\ fl = flags /\ DOMAIN fl = Flags
    /\ Known /\ Readable(E, n) /\ Understands(E, fl) /\ Only(E, n)

\* Before a step of the loop there is a cut of what has been read.
LEMMA ReadSoFar ==
    ASSUME TypeOK, ParseInv, Parsing
    PROVE  \E n, E, fl : Reading(n, E, fl)
<1>1. PICK E : Readable(E, i - 1) /\ Understands(E, flags) /\ Only(E, i - 1)
  BY Zenon DEF ParseInv, Parsing
<1>2. args \in Seq(Argument) /\ i \in 2 .. Len(args) + 2 /\ i <= Len(args)
  BY DEF TypeOK, Parsing
<1>3. PICK n \in Nat \ {0} : n = i - 1
  BY <1>2
<1>4. PICK fl : fl = flags
  OBVIOUS
<1>5. i = n + 1 /\ n + 1 \in DOMAIN args /\ Len(args) \in Nat /\ n + 1 <= Len(args)
  BY <1>2, <1>3
<1>6. Known /\ DOMAIN fl = Flags
  BY <1>4 DEF ParseInv, Parsing, TypeOK
<1>7. Reading(n, E, fl)
  BY <1>1, <1>2, <1>3, <1>4, <1>5, <1>6, Zenon DEF Reading
<1>8. QED
  BY <1>7

\* The piece of one argument.
LEMMA OnePiece ==
    ASSUME NEW n, NEW E, NEW fl, Reading(n, E, fl)
    PROVE  /\ SubSeq(args, n + 1, n + 1)[1] = arg /\ Len(SubSeq(args, n + 1, n + 1)) = 1
           /\ n + 1 \in Nat /\ n < n + 1 /\ n \in Nat /\ n \in Nat \ {0} /\ args[n + 1] = arg
           /\ n + 1 \in DOMAIN args /\ args \in Seq(Argument)
<1>1. n + 1 \in (n + 1) .. Len(args) /\ n + 1 \in DOMAIN args /\ args \in Seq(Argument)
  BY DEF Reading
<1>2. /\ SubSeq(args, n + 1, n + 1)[1] = args[n + 1]
      /\ Len(SubSeq(args, n + 1, n + 1)) = (n + 1) - (n + 1) + 1
  BY <1>1, PieceParts
<1>3. n \in Nat \ {0} /\ args[n + 1] = arg
  BY DEF Reading, arg
<1>4. QED
  BY <1>1, <1>2, <1>3

\* A switch is read.
LEMMA SwitchStep ==
    ASSUME TypeOK, ParseInv, Switch
    PROVE  ParseInv'
<1>1. PICK n, E, fl : Reading(n, E, fl)
  BY ReadSoFar DEF Switch
<1>2. PICK f \in SwitchOf(arg) : Understood(f, TRUE, 1)
  BY DEF Switch
<1> DEFINE p == SubSeq(args, n + 1, n + 1)
<1>3. /\ p[1] = arg /\ Len(p) = 1 /\ n + 1 \in Nat /\ n < n + 1 /\ n \in Nat /\ n \in Nat \ {0}
      /\ args[n + 1] = arg /\ n + 1 \in DOMAIN args /\ args \in Seq(Argument)
  BY <1>1, OnePiece
<1>4. IsOption(p) /\ ~IsOperand(p)
  <2>1. cmd \notin Network
    BY <1>2, Apart
  <2>2. QED
    BY <1>2, <1>3, <2>1, Zenon DEF IsOption, IsOperand
<1>5. Readable(E, n) /\ Understands(E, fl) /\ Only(E, n) /\ DOMAIN fl = Flags
  BY <1>1 DEF Reading
<1>6. Readable(E \cup {n + 1}, n + 1)
  BY <1>3, <1>4, <1>5, ReadableLonger
<1>7. \A k : Closes(n + 1, k, SubSeq(args, n + 1, k)) => k = n + 1
  BY <1>2, <1>3, Zenon DEF Closes
<1>8. Only(E \cup {n + 1}, n + 1)
  BY <1>3, <1>5, <1>7, OnlyLonger
<1>9. Understands(E \cup {n + 1}, [fl EXCEPT ![f] = TRUE])
  BY <1>2, <1>3, <1>4, <1>5, SwitchUnderstood
<1>10. flags' = [fl EXCEPT ![f] = TRUE] /\ args' = args /\ i' = (n + 1) + 1
  BY <1>1, <1>2 DEF Understood, Reading
<1>11. Known /\ Len(args) \in Nat /\ n + 1 <= Len(args)
  BY <1>1 DEF Reading
<1>12. QED
  BY <1>3, <1>6, <1>8, <1>9, <1>10, <1>11, LoopGoesOn

\* A flag is read with its value, which is behind its "=" or is the next argument.
LEMMA ValueStep ==
    ASSUME TypeOK, ParseInv, Parsing, arg.name \in ValueFlags, NEW v \in Taken,
           Understood(arg.name, v, IF arg.val # <<>> THEN 1 ELSE 2)
    PROVE  ParseInv'
<1>1. PICK n, E, fl : Reading(n, E, fl)
  BY ReadSoFar
<1>2. PICK text \in Raw : v \in Values(arg.name, text)
  BY DEF Taken
<1>3. /\ n \in Nat /\ n \in Nat \ {0} /\ i = n + 1 /\ Len(args) \in Nat /\ n + 1 <= Len(args)
      /\ args[n + 1] = arg /\ n + 1 \in DOMAIN args /\ args \in Seq(Argument) /\ i \in Nat
  BY <1>1 DEF Reading, arg
<1>4. PICK m : m = IF arg.val # <<>> THEN n + 1 ELSE n + 2
  OBVIOUS
<1>5. m \in n + 1 .. Len(args) /\ m \in Nat /\ n < m /\ i' = m + 1 /\ m <= Len(args)
  <2>1. CASE arg.val # <<>>
    BY <1>3, <1>4, <2>1 DEF Understood
  <2>2. CASE arg.val = <<>>
    <3>1. i + 1 \in DOMAIN args /\ m = n + 2
      BY <1>2, <1>4, <2>2 DEF Raw
    <3>2. n + 2 <= Len(args)
      BY <1>3, <3>1
    <3>3. i' = i + 2
      BY <2>2 DEF Understood
    <3>4. QED
      BY <1>3, <3>1, <3>2, <3>3
  <2>3. QED
    BY <2>1, <2>2
<1>6. PICK p : p = SubSeq(args, n + 1, m)
  OBVIOUS
<1>7. p[1] = arg /\ Len(p) = m - (n + 1) + 1 /\ (m > n + 1 => p[2] = args[(n + 1) + 1])
  BY <1>3, <1>5, <1>6, PieceParts
<1>8. Len(p) = (IF arg.val = <<>> THEN 2 ELSE 1) /\ (arg.val = <<>> => p[2] = args[i + 1])
  <2>1. n \in Nat /\ i = n + 1
    BY <1>3
  <2>2. CASE arg.val = <<>>
    <3>1. m = n + 2 /\ m > n + 1 /\ m - (n + 1) + 1 = 2
      BY <1>4, <2>1, <2>2
    <3>2. QED
      BY <1>7, <2>1, <2>2, <3>1
  <2>3. CASE arg.val # <<>>
    <3>1. m = n + 1 /\ m - (n + 1) + 1 = 1
      BY <1>4, <2>1, <2>3
    <3>2. QED
      BY <1>7, <2>3, <3>1
  <2>4. QED
    BY <2>2, <2>3
<1>9. Given(p) = text
  <2>1. CASE arg.val # <<>>
    <3>1. Len(p) # 2 /\ text = Plain(arg.val[1])
      BY <1>2, <1>8, <2>1 DEF Raw
    <3>2. QED
      BY <1>7, <3>1, Zenon DEF Given
  <2>2. CASE arg.val = <<>>
    <3>1. Len(p) = 2 /\ text = args[i + 1] /\ p[2] = args[i + 1]
      BY <1>2, <1>8, <2>2 DEF Raw
    <3>2. QED
      BY <3>1, Zenon DEF Given
  <2>3. QED
    BY <2>1, <2>2
<1>10. IsOption(p) /\ ~IsOperand(p)
  <2>1. Values(p[1].name, Given(p)) # {}
    BY <1>2, <1>7, <1>9
  <2>2. QED
    BY <1>7, <1>8, <2>1, Zenon DEF IsOption, IsOperand
<1>11. Readable(E, n) /\ Understands(E, fl) /\ Only(E, n) /\ DOMAIN fl = Flags /\ Known
  BY <1>1 DEF Reading
<1>12. Readable(E \cup {m}, m)
  BY <1>3, <1>5, <1>6, <1>10, <1>11, ReadableLonger
<1>13. \A k : Closes(n + 1, k, SubSeq(args, n + 1, k)) => k = m
  BY <1>3, <1>4 DEF Closes
<1>14. Only(E \cup {m}, m)
  BY <1>3, <1>11, <1>13, OnlyLonger
<1>15. Understands(E \cup {m}, [fl EXCEPT ![arg.name] = v])
  BY <1>2, <1>3, <1>5, <1>6, <1>7, <1>9, <1>10, <1>11, ValueUnderstood
<1>16. flags' = [fl EXCEPT ![arg.name] = v] /\ args' = args
  BY <1>1 DEF Understood, Reading
<1>17. QED
  BY <1>3, <1>5, <1>11, <1>12, <1>14, <1>15, <1>16, LoopGoesOn

\* The host is read.
LEMMA OperandStep ==
    ASSUME TypeOK, ParseInv, Parsing, cmd \in Network, arg.name \notin ValueFlags, ~Dashed(arg),
           flags["host"] = Empty, Understood("host", arg, 1)
    PROVE  ParseInv'
<1>1. PICK n, E, fl : Reading(n, E, fl)
  BY ReadSoFar
<1> DEFINE p == SubSeq(args, n + 1, n + 1)
<1>2. /\ p[1] = arg /\ Len(p) = 1 /\ n + 1 \in Nat /\ n < n + 1 /\ n \in Nat /\ n \in Nat \ {0}
      /\ args[n + 1] = arg /\ n + 1 \in DOMAIN args /\ args \in Seq(Argument)
  BY <1>1, OnePiece
<1>3. IsOperand(p)
  BY <1>2, Zenon DEF IsOperand
<1>4. /\ Readable(E, n) /\ Understands(E, fl) /\ Only(E, n) /\ DOMAIN fl = Flags
      /\ fl["host"] = Empty
  BY <1>1, Zenon DEF Reading
<1>5. Readable(E \cup {n + 1}, n + 1)
  BY <1>2, <1>3, <1>4, ReadableLonger
<1>6. SwitchOf(arg) = {}
  BY Apart
<1>7. \A k : Closes(n + 1, k, SubSeq(args, n + 1, k)) => k = n + 1
  BY <1>2, <1>6, Zenon DEF Closes
<1>8. Only(E \cup {n + 1}, n + 1)
  BY <1>2, <1>4, <1>7, OnlyLonger
<1>9. Understands(E \cup {n + 1}, [fl EXCEPT !["host"] = args[n + 1]])
  BY <1>2, <1>3, <1>4, OperandUnderstood
<1>10. flags' = [fl EXCEPT !["host"] = args[n + 1]] /\ args' = args /\ i' = (n + 1) + 1
  BY <1>1, <1>2 DEF Understood, Reading
<1>11. Known /\ Len(args) \in Nat /\ n + 1 <= Len(args)
  BY <1>1 DEF Reading
<1>12. QED
  BY <1>2, <1>5, <1>8, <1>9, <1>10, <1>11, LoopGoesOn

\* A value that is missing or wrong, and a word that is neither option nor operand, are in
\* no cut of the arguments.
LEMMA Uncut ==
    ASSUME TypeOK, ParseInv, Parsing,
           \/ arg.name \in ValueFlags /\ Taken = {}
           \/ SwitchOf(arg) = {} /\ arg.name \notin ValueFlags /\ (cmd \in Network => Dashed(arg))
    PROVE  Cuts = {}
<1>1. PICK n, E, fl : Reading(n, E, fl)
  BY ReadSoFar
<1> SUFFICES ASSUME NEW F \in Cuts PROVE FALSE
  OBVIOUS
<1>2. /\ n \in Nat /\ n # 0 /\ i = n + 1 /\ Len(args) \in Nat /\ args[n + 1] = arg
      /\ n + 1 \in DOMAIN args /\ args \in Seq(Argument) /\ Readable(E, n) /\ Only(E, n)
  BY <1>1 DEF Reading, arg
<1>3. Before(F, n + 1) = E
  BY <1>2, Zenon DEF Only
<1>4. PICK m : GoesOn(F, E, n, m)
  BY <1>2, <1>3, CutGoesOn
<1>5. PICK p : p = SubSeq(args, n + 1, m)
  OBVIOUS
<1>6. m \in n + 1 .. Len(args) /\ Closes(n + 1, m, p)
  BY <1>4, <1>5, Zenon DEF GoesOn
<1>7. CASE arg.name \in ValueFlags /\ Taken = {}
  <2>1. Values(arg.name, Given(p)) # {}
    BY <1>2, <1>6, <1>7, Zenon DEF Closes
  <2>2. CASE arg.val = <<>>
    <3>1. m = (n + 1) + 1 /\ Given(p) = args[(n + 1) + 1]
      BY <1>2, <1>6, <1>7, <2>2, Zenon DEF Closes
    <3>2. i + 1 \in DOMAIN args /\ Given(p) = args[i + 1]
      BY <1>2, <1>6, <3>1
    <3>3. Given(p) \in Raw
      BY <2>2, <3>2 DEF Raw
    <3>4. QED
      BY <1>7, <2>1, <3>3 DEF Taken
  <2>3. CASE arg.val # <<>>
    <3>1. Given(p) = Plain(arg.val[1])
      BY <1>2, <1>6, <1>7, <2>3, Zenon DEF Closes
    <3>2. Given(p) \in Raw
      BY <2>3, <3>1 DEF Raw
    <3>3. QED
      BY <1>7, <2>1, <3>2 DEF Taken
  <2>4. QED
    BY <2>2, <2>3
<1>8. CASE SwitchOf(arg) = {} /\ arg.name \notin ValueFlags /\ (cmd \in Network => Dashed(arg))
  <2>1. IsOperand(p) /\ m = n + 1
    BY <1>2, <1>6, <1>8, Zenon DEF Closes
  <2>2. p[1] = arg
    BY <1>1, <1>5, <2>1, OnePiece
  <2>3. QED
    BY <1>8, <2>1, <2>2, Zenon DEF IsOperand
<1>9. QED
  BY <1>7, <1>8

\* A second host is in no cut with one host.
LEMMA SecondHost ==
    ASSUME TypeOK, ParseInv, Parsing, cmd \in Network, arg.name \notin ValueFlags, ~Dashed(arg),
           flags["host"] # Empty
    PROVE  \A F \in Cuts : ~OneHost(F)
<1>1. PICK n, E, fl : Reading(n, E, fl)
  BY ReadSoFar
<1> SUFFICES ASSUME NEW F \in Cuts, OneHost(F) PROVE FALSE
  OBVIOUS
<1>2. /\ n \in Nat /\ n # 0 /\ Len(args) \in Nat /\ args[n + 1] = arg
      /\ n + 1 \in DOMAIN args /\ args \in Seq(Argument) /\ Readable(E, n) /\ Only(E, n)
  BY <1>1 DEF Reading, arg
<1>3. Before(F, n + 1) = E
  BY <1>2, Zenon DEF Only
<1>4. PICK m : GoesOn(F, E, n, m)
  BY <1>2, <1>3, CutGoesOn
<1>5. m = n + 1 /\ m \in Operands(F)
  <2>1. SwitchOf(arg) = {}
    BY Apart
  <2>2. m = n + 1 /\ IsOperand(SubSeq(args, n + 1, m))
    BY <1>2, <1>4, <2>1, Zenon DEF GoesOn, Closes
  <2>3. QED
    BY <1>4, <2>2, Zenon DEF GoesOn
<1>6. PICK h : h = Largest(Operands(E))
  OBVIOUS
<1>7. Operands(E) # {} /\ fl["host"] = args[h] /\ fl["host"] # Empty
  BY <1>1, <1>6, Zenon DEF Reading, Understands, HostBy
<1>8. E \subseteq 2 .. n /\ E \subseteq F /\ F \subseteq 2 .. Len(args)
  <2>1. E \subseteq F
    BY <1>3 DEF Before
  <2>2. QED
    BY <1>2, <2>1 DEF Readable, Cuts
<1>9. h \in Operands(E) /\ h \in E
  <2>1. Operands(E) \subseteq E /\ 2 .. n \subseteq 1 .. n
    BY DEF Operands
  <2>2. Operands(E) \in SUBSET (1 .. n)
    BY <1>8, <2>1, Zenon
  <2>3. h \in Operands(E)
    BY <1>2, <1>6, <1>7, <2>2, LargestIn, Zenon
  <2>4. QED
    BY <2>1, <2>3
<1>10. h \in Operands(F)
  <2>1. h \in Nat /\ h < n + 1
    BY <1>2, <1>8, <1>9
  <2>2. \A x \in F : x \in Nat
    BY <1>8
  <2>3. \A x \in F : x < h => x < n + 1
    BY <1>2, <2>1, <2>2
  <2>4. Before(E, h) = Before(F, h)
    BY <1>3, <2>3 DEF Before
  <2>5. Piece(E, h) = Piece(F, h)
    BY <2>4, PieceLocal
  <2>6. QED
    BY <1>8, <1>9, <2>5, Zenon DEF Operands
<1>11. PICK l : l = Largest(Operands(F))
  OBVIOUS
<1>12. l \in Nat /\ n + 1 <= l
  <2>1. Operands(F) \subseteq F /\ 2 .. Len(args) \subseteq 1 .. Len(args)
    BY DEF Operands
  <2>2. Operands(F) \in SUBSET (1 .. Len(args)) /\ Operands(F) # {}
    BY <1>5, <1>8, <2>1, Zenon
  <2>3. l \in Operands(F) /\ \A y \in Operands(F) : y <= l
    BY <1>2, <1>11, <2>2, LargestIn, Zenon
  <2>4. QED
    BY <1>5, <2>2, <2>3
<1>13. h # l
  BY <1>2, <1>8, <1>9, <1>12
<1>14. args[h] = Empty
  BY <1>10, <1>11, <1>13, Zenon DEF OneHost
<1>15. QED
  BY <1>7, <1>14, Zenon

\* Without a host, no cut has one.
LEMMA NoHost ==
    ASSUME TypeOK, ParseInv, pc = "parse", i > Len(args), cmd \in Network, flags["host"] = Empty
    PROVE  \A F \in Cuts : ~OneHost(F)
<1> SUFFICES ASSUME NEW F \in Cuts, OneHost(F) PROVE FALSE
  OBVIOUS
<1>1. cmd # "about"
  BY DEF Network
<1>2. PICK E : Readable(E, i - 1) /\ Understands(E, flags) /\ Only(E, i - 1)
  BY <1>1, Zenon DEF ParseInv
<1>3. i = Len(args) + 1 /\ Len(args) \in Nat
  BY DEF TypeOK, ParseInv
<1>4. F = E
  <2>1. Before(F, (i - 1) + 1) = E
    BY <1>2, Zenon DEF Only
  <2>2. \A x \in F : x < (i - 1) + 1
    BY <1>3 DEF Cuts
  <2>3. Before(F, (i - 1) + 1) = F
    BY <2>2 DEF Before
  <2>4. QED
    BY <2>1, <2>3
<1>5. \A e \in Operands(F) : args[e] = Empty
  BY <1>2, <1>4, Zenon DEF Understands, HostBy
<1>6. Operands(F) # {} /\ \A e \in Operands(F) : e # Largest(Operands(F))
  BY <1>5, Zenon DEF OneHost
<1>7. Operands(F) \in SUBSET (1 .. Len(args))
  <2>1. /\ Operands(F) \subseteq F /\ F \subseteq 2 .. Len(args)
        /\ 2 .. Len(args) \subseteq 1 .. Len(args)
    BY DEF Operands, Cuts
  <2>2. QED
    BY <2>1, Zenon
<1>8. QED
  BY <1>3, <1>6, <1>7, LargestIn, Zenon

\* The command that begins its work is one that the grammar has, and the flags are those
\* it says.
Accepted == \E E \in Cuts : OneHost(E) /\ Says(E)

\* A protocol and --verbose are switches of different commands.
LEMMA SwitchesApart ==
    ASSUME NEW E, "--tcp" \in On(E) PROVE "--verbose" \notin On(E)
<1>1. cmd \in Sockets
  BY DEF On, SwitchOf
<1>2. \A a : "--verbose" \notin SwitchOf(a)
  BY <1>1 DEF SwitchOf
<1>3. QED
  BY <1>2 DEF On

\* The parsers return at the end of the arguments: the cut is one of all of them.
LEMMA ParsedStep ==
    ASSUME TypeOK, ParseInv, Parsed, cmd # "about"
    PROVE  Accepted'
<1>1. PICK E : Readable(E, i - 1) /\ Understands(E, flags)
  BY Zenon DEF ParseInv, Parsed
<1>2. i = Len(args) + 1 /\ Len(args) \in Nat /\ args' = args
  BY DEF TypeOK, ParseInv, Parsed
<1>3. E \in Cuts
  <2>1. i - 1 = Len(args)
    BY <1>2
  <2>2. QED
    BY <1>1, <2>1, Zenon DEF Readable, Cuts
<1>4. OneHost(E)
  BY <1>1, Zenon DEF Parsed, Understands, HostBy, OneHost
<1>5. PICK fl : fl = flags'
  OBVIOUS
<1>6. /\ DOMAIN fl = Flags /\ \A f \in Flags \ Protocols : fl[f] = flags[f]
      /\ fl["--tcp"] = (flags["--tcp"] /\ ~flags["--udp"])
      /\ fl["--udp"] = (flags["--udp"] /\ ~flags["--tcp"])
  BY <1>5 DEF Parsed, Selected, TypeOK, Flags, Protocols
<1>7. \A f \in Protocols \cup {"--verbose"} :
         fl[f] <=> f \in IF Protocols \subseteq On(E) THEN {} ELSE On(E)
  <2>1. /\ "--tcp" \in On(E) => flags["--tcp"] = TRUE
        /\ "--tcp" \notin On(E) => flags["--tcp"] = FALSE
        /\ "--udp" \in On(E) => flags["--udp"] = TRUE
        /\ "--udp" \notin On(E) => flags["--udp"] = FALSE
        /\ "--verbose" \in On(E) => flags["--verbose"] = TRUE
        /\ "--verbose" \notin On(E) => flags["--verbose"] = FALSE
    BY <1>1 DEF Understands, SwitchesBy, Protocols
  <2>2. fl["--verbose"] = flags["--verbose"]
    BY <1>6 DEF Flags, Protocols
  <2>3. Protocols \subseteq On(E) <=> "--tcp" \in On(E) /\ "--udp" \in On(E)
    BY DEF Protocols
  <2>4. fl["--verbose"] <=> "--verbose" \in IF Protocols \subseteq On(E) THEN {} ELSE On(E)
    BY <2>1, <2>2, <2>3, SwitchesApart, Zenon
  <2>5. fl["--tcp"] <=> "--tcp" \in IF Protocols \subseteq On(E) THEN {} ELSE On(E)
    BY <1>6, <2>1, <2>3, Zenon
  <2>6. fl["--udp"] <=> "--udp" \in IF Protocols \subseteq On(E) THEN {} ELSE On(E)
    BY <1>6, <2>1, <2>3, Zenon
  <2>7. QED
    BY <2>4, <2>5, <2>6, Zenon DEF Protocols
<1>8. ASSUME NEW f \in ValueFlags PROVE ValueBy(E, f, fl[f])
  <2>1. f \in Flags \ Protocols
    BY DEF ValueFlags, Flags, Protocols
  <2>2. QED
    BY <1>1, <1>6, <2>1, Zenon DEF Understands
<1>9. cmd \in Network => fl["host"] = args[Largest(Operands(E))]
  <2>1. fl["host"] = flags["host"]
    BY <1>6 DEF Flags, Protocols
  <2>2. QED
    BY <1>1, <2>1, Zenon DEF Parsed, Understands, HostBy
<1>10. /\ Operands(E)' = Operands(E) /\ On(E)' = On(E) /\ Cuts' = Cuts /\ OneHost(E)'
       /\ \A f : Options(E, f)' = Options(E, f)
  BY <1>2, <1>4, SameCuts
<1>11. cmd' = cmd /\ ValueFlags' = ValueFlags /\ \A e : Piece(E, e)' = Piece(E, e)
  BY <1>2, SamePieces
<1>12. Says(E)'
  BY <1>2, <1>5, <1>7, <1>8, <1>9, <1>10, <1>11, Zenon DEF Says, ValueBy
<1>13. QED
  BY <1>3, <1>10, <1>12 DEF Accepted

\* The parser begins with the empty cut and the fields of NoFlags.
LEMMA RunStep ==
    ASSUME TypeOK, flags = NoFlags, i = 2, Run
    PROVE  ParseInv'
<1>1. args \in Seq(Argument) /\ args # <<>> /\ args' = args /\ flags' = NoFlags /\ i' = 2 /\ Known
  BY DEF TypeOK, Run, Known
<1>2. Len(args) \in Nat /\ 1 <= Len(args)
  BY <1>1
<1>3. Readable({}, 1)
  BY DEF Readable
<1>4. Operands({}) = {} /\ On({}) = {} /\ \A f : Options({}, f) = {}
  BY DEF Operands, On, Options
<1>5. Understands({}, NoFlags)
  <2>1. SwitchesBy({}, NoFlags)
    BY <1>4 DEF SwitchesBy, NoFlags, Protocols, Flags
  <2>2. NoFlags["host"] = Empty
    BY DEF NoFlags, Flags
  <2>3. HostBy({}, Empty)
    BY <1>4, Zenon DEF HostBy
  <2>4. \A f \in ValueFlags : ValueBy({}, f, NoFlags[f])
    BY <1>4, Zenon DEF ValueBy
  <2>5. QED
    BY <2>1, <2>2, <2>3, <2>4, Zenon DEF Understands
<1>6. Only({}, 1)
  <2>1. \A F \in Cuts : \A x \in F : ~(x < 2)
    BY <1>2 DEF Cuts
  <2>2. \A F \in Cuts : Before(F, 2) = {}
    BY <2>1 DEF Before
  <2>3. QED
    BY <2>2 DEF Only
<1>7. i' = 1 + 1 /\ 1 \in Nat
  BY <1>1
<1>8. QED
  BY <1>1, <1>2, <1>3, <1>5, <1>6, <1>7, LoopGoesOn

(***************************************************************************)
(* The grammar: invariance.                                                 *)
(***************************************************************************)
GrammarInv ==
    /\ pc = "route" => flags = NoFlags /\ i = 2
    /\ ParseInv
    /\ AcceptsTheGrammar

\* Once a command line is accepted or refused, that stays right.
LEMMA StaysAccepted ==
    ASSUME args' = args, flags' = flags, Accepted
    PROVE  Accepted'
<1>1. PICK E \in Cuts : OneHost(E) /\ Says(E)
  BY DEF Accepted
<1>2. /\ Operands(E)' = Operands(E) /\ On(E)' = On(E) /\ Cuts' = Cuts /\ OneHost(E)'
      /\ \A f : Options(E, f)' = Options(E, f)
  BY <1>1, SameCuts
<1>3. cmd' = cmd /\ ValueFlags' = ValueFlags /\ \A e : Piece(E, e)' = Piece(E, e)
  BY SamePieces
<1>4. Says(E)'
  BY <1>1, <1>2, <1>3, Zenon DEF Says
<1>5. QED
  BY <1>1, <1>2, <1>4 DEF Accepted

\* Steps that neither parse nor refuse change nothing that the invariant speaks of.
LEMMA Aside ==
    ASSUME GrammarInv, UNCHANGED <<args, i, flags, asked>>, err' = "usage" => err = "usage",
           pc' \in {"route", "parse"} => pc' = pc
    PROVE  GrammarInv'
<1>1. (Known' <=> Known) /\ cmd' = cmd
  BY DEF Known, cmd
<1>2. pc' = "parse" => ParseInv'
  <2> SUFFICES ASSUME pc' = "parse" PROVE ParseInv'
    OBVIOUS
  <2>1. Known /\ i <= Len(args) + 1
    BY DEF GrammarInv, ParseInv
  <2>2. CASE cmd = "about"
    BY <1>1, <2>1, <2>2 DEF ParseInv
  <2>3. CASE cmd # "about"
    <3>1. PICK E : Readable(E, i - 1) /\ Understands(E, flags) /\ Only(E, i - 1)
      BY <2>3, Zenon DEF GrammarInv, ParseInv
    <3>2. Understands(E, flags)'
      BY <3>1, SameUnderstanding
    <3>3. PICK k : k = i - 1
      OBVIOUS
    <3>4. Readable(E, k)' /\ Only(E, k)'
      BY <3>1, <3>3, SameCuts
    <3>5. Readable(E, i - 1)' /\ Only(E, i - 1)'
      BY <3>3, <3>4 DEF Readable, Only
    <3>6. QED
      BY <1>1, <2>1, <3>2, <3>5, Zenon DEF ParseInv
  <2>4. QED
    BY <2>2, <2>3
<1>3. pc' # "parse" => ParseInv'
  BY DEF ParseInv
<1>4. Accepted => Accepted'
  BY StaysAccepted
<1>5. AcceptsTheGrammar'
  <2>1. (\A E \in Cuts : ~OneHost(E)) => (\A E \in Cuts : ~OneHost(E))'
    BY SameCuts
  <2>2. asked' /\ cmd' # "about" => Accepted'
    BY <1>1, <1>4 DEF GrammarInv, AcceptsTheGrammar, Accepted
  <2>3. err' = "usage" /\ Known' => (\A E \in Cuts : ~OneHost(E))'
    BY <1>1, <2>1 DEF GrammarInv, AcceptsTheGrammar
  <2>4. QED
    BY <2>2, <2>3 DEF AcceptsTheGrammar, Accepted
<1>6. QED
  BY <1>2, <1>3, <1>5, Zenon DEF GrammarInv

\* A step of the parser leaves no verdict yet.
LEMMA Undecided ==
    ASSUME IInv, pc = "parse", UNCHANGED <<asked, err>>
    PROVE  AcceptsTheGrammar'
  BY DEF IInv, PlaceInv, AcceptsTheGrammar

\* A refusal is right if no cut of the arguments is one of the grammar.
LEMMA Refused ==
    ASSUME IInv, pc \in {"route", "parse"}, NEW u, Reject(u),
           Known => \A E \in Cuts : ~OneHost(E)
    PROVE  GrammarInv'
<1>1. ~asked' /\ pc' = "main" /\ args' = args
  BY DEF IInv, PlaceInv, Reject
<1>2. Known' <=> Known
  BY <1>1 DEF Known, cmd
<1>3. (\A E \in Cuts : ~OneHost(E)) => (\A E \in Cuts : ~OneHost(E))'
  BY <1>1, SameCuts
<1>4. AcceptsTheGrammar'
  BY <1>1, <1>2, <1>3 DEF AcceptsTheGrammar
<1>5. QED
  BY <1>1, <1>4 DEF GrammarInv, ParseInv

\* Every run begins in the invariant.
LEMMA InitGrammar == Init => GrammarInv
  BY DEF Init, GrammarInv, ParseInv, AcceptsTheGrammar

\* Every step keeps it.
LEMMA NextGrammar == IInv /\ GrammarInv /\ [Next]_vars => GrammarInv'
<1> SUFFICES ASSUME IInv, GrammarInv, [Next]_vars PROVE GrammarInv'
  OBVIOUS
<1>1. TypeOK /\ ParseInv
  BY DEF IInv, GrammarInv
<1>2. ASSUME pc = "parse", pc' = "parse", ParseInv', UNCHANGED <<asked, err>> PROVE GrammarInv'
  BY <1>2, Undecided DEF GrammarInv
<1>3. CASE Usage \/ Version \/ CommandHelp
  BY <1>3, Aside DEF Usage, Version, CommandHelp, Answer
<1>4. CASE UnknownCommand
  BY <1>4, Refused DEF UnknownCommand
<1>5. CASE Run
  <2>1. ParseInv'
    BY <1>1, <1>5, RunStep DEF GrammarInv, Run
  <2>2. pc' = "parse" /\ ~asked' /\ err' = "none"
    BY <1>5 DEF Run, IInv, PlaceInv
  <2>3. QED
    BY <2>1, <2>2 DEF GrammarInv, AcceptsTheGrammar
<1>6. CASE Switch
  <2>1. pc = "parse" /\ pc' = "parse" /\ UNCHANGED <<asked, err>>
    BY <1>6 DEF Switch, Parsing, Understood
  <2>2. QED
    BY <1>1, <1>2, <1>6, <2>1, SwitchStep
<1>7. CASE ValueFlag
  <2>1. Parsing /\ arg.name \in ValueFlags /\ pc = "parse"
    BY <1>7 DEF ValueFlag, Parsing
  <2>2. ASSUME NEW v \in Taken, Understood(arg.name, v, IF arg.val # <<>> THEN 1 ELSE 2)
        PROVE  GrammarInv'
    <3>1. pc' = "parse" /\ UNCHANGED <<asked, err>>
      BY <2>1, <2>2 DEF Understood
    <3>2. QED
      BY <1>1, <1>2, <2>1, <2>2, <3>1, ValueStep
  <2>3. CASE Taken = {} /\ Reject("commandUsage")
    <3>1. Cuts = {}
      BY <1>1, <2>1, <2>3, Uncut
    <3>2. QED
      BY <2>1, <2>3, <3>1, Refused
  <2>4. QED
    BY <1>7, <2>2, <2>3 DEF ValueFlag
<1>8. CASE Operand
  <2>1. /\ Parsing /\ pc = "parse" /\ cmd \in Network /\ arg.name \notin ValueFlags
        /\ ~Dashed(arg)
    BY <1>8 DEF Operand, Parsing
  <2>2. CASE flags["host"] = Empty /\ Understood("host", arg, 1)
    <3>1. pc' = "parse" /\ UNCHANGED <<asked, err>>
      BY <2>1, <2>2 DEF Understood
    <3>2. QED
      BY <1>1, <1>2, <2>1, <2>2, <3>1, OperandStep
  <2>3. CASE flags["host"] # Empty /\ Reject("commandUsage")
    <3>1. \A E \in Cuts : ~OneHost(E)
      BY <1>1, <2>1, <2>3, SecondHost
    <3>2. QED
      BY <2>1, <2>3, <3>1, Refused
  <2>4. QED
    BY <1>8, <2>2, <2>3 DEF Operand
<1>9. CASE UnknownFlag
  <2>1. Cuts = {}
    BY <1>1, <1>9, Uncut DEF UnknownFlag
  <2>2. QED
    BY <1>9, <2>1, Refused DEF UnknownFlag, Parsing
<1>10. CASE MissingHost
  <2>1. \A E \in Cuts : ~OneHost(E)
    BY <1>1, <1>10, NoHost DEF MissingHost
  <2>2. QED
    BY <1>10, <2>1, Refused DEF MissingHost
<1>11. CASE Parsed
  <2>1. /\ cmd' = cmd /\ err' = "none" /\ asked' = (cmd # "about")
        /\ pc' \in {"print", "wait", "collect"}
    BY <1>11 DEF Parsed, IInv, PlaceInv, cmd
  <2>2. cmd # "about" => Accepted'
    BY <1>1, <1>11, ParsedStep
  <2>3. QED
    BY <2>1, <2>2 DEF GrammarInv, ParseInv, AcceptsTheGrammar, Accepted
<1>12. CASE Collect \/ Answered \/ Aborted
  BY <1>12, Aside DEF Collect, Answered, Aborted, Ends
<1>13. CASE WriteTable \/ WriteFails \/ About \/ Stop \/ Report \/ Leave
  BY <1>13, Aside DEF WriteTable, WriteFails, About, Stop, Report, Leave, Written
<1>14. CASE Interrupt \/ Kill \/ DeadlinePasses \/ Finished \/ UNCHANGED vars
  BY <1>14, Aside DEF Interrupt, Kill, DeadlinePasses, Finished, vars
<1>15. QED
  BY <1>3, <1>4, <1>5, <1>6, <1>7, <1>8, <1>9, <1>10, <1>11, <1>12, <1>13, <1>14
     DEF Next, Program

\* A command line reaches the system only if the grammar of its command has it, and with
\* the flags that the grammar says; one that is refused is not in the grammar. Whatever
\* the arguments are, how many there are, and which words are numbers or durations.
THEOREM GrammarHolds == Spec => []AcceptsTheGrammar
<1>1. IInv /\ IInv' /\ GrammarInv /\ [Next]_vars => GrammarInv'
  BY NextGrammar
<1>2. GrammarInv => AcceptsTheGrammar
  BY DEF GrammarInv
<1>3. QED
  BY <1>1, <1>2, InitGrammar, Invariance, PTL DEF Spec

=============================================================================
