------------------------------- MODULE Output -------------------------------
(***************************************************************************)
(* How a command writes to stdout: its calls of Fprintf and Flush, the      *)
(* tabwriter that holds lines back to align them, and stdout, which may     *)
(* fail between any two bytes and work again later.  A command that looks   *)
(* at errors returns the first one; the texts of Careless go on.  A line is *)
(* known by the number of the call that prints it.                          *)
(***************************************************************************)
EXTENDS Integers, Sequences, FiniteSets

CONSTANTS
    Commands,   \* what is printed
    Documents,  \* for each command, what there may be to print
    Careless    \* the commands that drop the errors of stdout

ASSUME DocumentsAssumption ==
    \A c \in Commands : \A d \in Documents[c] :
        /\ Len(d.calls) \in Nat
        /\ \A k \in 1 .. Len(d.calls) : d.calls[k].op \in {"tab", "out", "flush"}
        /\ d.unknown \in Nat

VARIABLES
    command,
    doc,        \* the calls to make, and how many sockets have no name
    pc,
    next,       \* the number of the next call
    buffer,     \* the lines that the tabwriter holds back
    stdout,     \* the lines written
    torn,       \* the lines of which only a part was written
    err,
    note        \* how many missing names stderr is told of

vars == <<command, doc, pc, next, buffer, stdout, torn, err, note>>

Init ==
    /\ command \in Commands
    /\ doc \in Documents[command]
    /\ pc = "write" /\ next = 1
    /\ buffer = <<>> /\ stdout = <<>> /\ torn = {}
    /\ err = "none" /\ note = 0

Calling(op) == pc = "write" /\ next <= Len(doc.calls) /\ doc.calls[next].op = op

Proceed == next' = next + 1 /\ UNCHANGED <<command, doc, pc, err, note>>

\* Mutant of GiveUp: the error is not returned.
GiveUpSilently ==
    /\ pc' = "done"
    /\ UNCHANGED <<command, doc, next, err, note>>

GiveUp ==
    /\ pc' = "done" /\ err' = "write"
    /\ UNCHANGED <<command, doc, next, note>>

Succeeds(lines) == stdout' = stdout \o lines /\ UNCHANGED torn /\ Proceed

\* Some lines are written and perhaps a part of the next one.
Fails(lines) ==
    /\ \E n \in 0 .. Len(lines) - 1 :
          /\ stdout' = stdout \o SubSeq(lines, 1, n)
          /\ torn' \in {torn, torn \cup {lines[n + 1]}}
    /\ IF command \in Careless THEN Proceed ELSE GiveUp

Writes(lines) == Succeeds(lines) \/ Fails(lines)

\* A line of several cells waits for those below it.
PrintRow ==
    /\ Calling("tab") /\ doc.calls[next].cells > 1
    /\ buffer' = Append(buffer, next)
    /\ UNCHANGED <<stdout, torn>> /\ Proceed

\* Mutant of PrintLine: the line overtakes those held back.
PrintLineAhead ==
    /\ Calling("tab") /\ doc.calls[next].cells = 1
    /\ Writes(<<next>>) /\ UNCHANGED buffer

\* A line of one cell ends the columns: the tabwriter writes what it has.
PrintLine ==
    /\ Calling("tab") /\ doc.calls[next].cells = 1
    /\ Writes(Append(buffer, next)) /\ buffer' = <<>>

FlushTable == Calling("flush") /\ Writes(buffer) /\ buffer' = <<>>

PrintDirect == Calling("out") /\ Writes(<<next>>) /\ UNCHANGED buffer

\* Mutant of Return: the loop makes one call too many.
ReturnLate ==
    /\ pc = "write" /\ next = Len(doc.calls) + 1
    /\ next' = next + 1
    /\ UNCHANGED <<command, doc, pc, buffer, stdout, torn, err, note>>

\* The table is written; ports and connections tell stderr of missing names.
Return ==
    /\ pc = "write" /\ next = Len(doc.calls) + 1
    /\ pc' = "done"
    /\ note' = doc.unknown
    /\ UNCHANGED <<command, doc, next, buffer, stdout, torn, err>>

Finished == pc = "done" /\ UNCHANGED vars

Next == PrintRow \/ PrintLine \/ FlushTable \/ PrintDirect \/ Return \/ Finished

Spec == Init /\ [][Next]_vars

(***************************************************************************)
(* Invariants.                                                              *)
(***************************************************************************)
TypeOK ==
    /\ command \in Commands /\ doc \in Documents[command]
    /\ pc \in {"write", "done"}
    /\ next \in 1 .. Len(doc.calls) + 1
    /\ buffer \in Seq(1 .. Len(doc.calls)) /\ stdout \in Seq(1 .. Len(doc.calls))
    /\ torn \subseteq 1 .. Len(doc.calls)
    /\ err \in {"none", "write"}
    /\ note \in Nat

Lines == {k \in 1 .. Len(doc.calls) : doc.calls[k].op # "flush"}

Written == {stdout[i] : i \in DOMAIN stdout}

\* However lines are held back and wherever stdout fails, lines reach it in their order
\* and none twice.  A table may be cut off but has no hole: above every line of it that
\* has been written, or begun, are all those before it.
CutButNotHoled ==
    /\ \A i, j \in DOMAIN stdout : i < j => stdout[i] < stdout[j]
    /\ command \notin Careless =>
         \A k \in Written \cup torn : \A j \in Lines : j < k => j \in Written

\* cli/ports.go:46, ping.go:54 and the like: a command returns an error exactly if a
\* part of its table is missing: no line stays behind in the tabwriter, and no error is
\* lost on the way.  stderr is told of missing names only below a complete table.
ToldIfCut ==
    command \notin Careless =>
        /\ pc = "done" => (err = "none" <=> Written = Lines)
        /\ note # 0 => pc = "done" /\ err = "none"
=============================================================================
