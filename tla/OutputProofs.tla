---------------------------- MODULE OutputProofs ----------------------------
(***************************************************************************)
(* Proofs about Output for every document of every command, wherever stdout *)
(* fails and however often.  What the proofs ask of a document is that it   *)
(* leaves nothing behind in the tabwriter.                                  *)
(***************************************************************************)
EXTENDS Output, SequenceTheorems, TLAPS

Waits(call) == call.op = "tab" /\ call.cells > 1

Empties(call) == call.op = "flush" \/ (call.op = "tab" /\ call.cells = 1)

\* Between a line that waits and the next call to stdout itself there is one that
\* empties the tabwriter, and one between it and the end.
FlushesInTime(calls) ==
    \A j \in 1 .. Len(calls) : Waits(calls[j]) =>
        /\ \E f \in 1 .. Len(calls) : j < f /\ Empties(calls[f])
        /\ \A k \in 1 .. Len(calls) : j < k /\ calls[k].op = "out" =>
             \E f \in 1 .. Len(calls) : j < f /\ f < k /\ Empties(calls[f])

Flushed == \A c \in Commands : \A d \in Documents[c] : FlushesInTime(d.calls)

Increasing(s) == \A i, j \in DOMAIN s : i < j => s[i] < s[j]

Elements(s) == {s[i] : i \in DOMAIN s}

Calls == 1 .. Len(doc.calls)

\* What stdout has comes before what the tabwriter holds, and that before the next call.
OrderInv ==
    /\ Increasing(stdout) /\ Increasing(buffer)
    /\ \A i \in DOMAIN stdout : /\ stdout[i] \in Lines
                                /\ pc = "write" => stdout[i] < next
                                /\ \A j \in DOMAIN buffer : stdout[i] < buffer[j]

\* The lines held back are those that wait, and nothing has emptied the tabwriter since.
BufferInv ==
    \A j \in DOMAIN buffer :
        /\ buffer[j] \in Lines /\ buffer[j] < next
        /\ Waits(doc.calls[buffer[j]])
        /\ \A f \in Calls : buffer[j] < f /\ f < next => ~Empties(doc.calls[f])

\* While nothing has failed every line is written or held back.
CompleteInv ==
    command \notin Careless /\ pc = "write" =>
        /\ torn = {} /\ err = "none" /\ note = 0
        /\ \A k \in Lines : k < next => k \in Written \cup Elements(buffer)

\* A command that has returned has shown all its lines, or the first of them and an error.
EndInv ==
    command \notin Careless /\ pc = "done" =>
        /\ err = "none" <=> Written = Lines
        /\ note # 0 => err = "none"
        /\ \A k \in Written \cup torn : \A j \in Lines : j < k => j \in Written

IInv == TypeOK /\ OrderInv /\ BufferInv /\ CompleteInv /\ EndInv

(***************************************************************************)
(* Sequences of line numbers.                                               *)
(***************************************************************************)
\* Two increasing sequences, one below the other, in one.
LEMMA IncreasingConcat ==
    ASSUME NEW n \in Nat, NEW a \in Seq(1 .. n), NEW b \in Seq(1 .. n),
           Increasing(a), Increasing(b),
           \A i \in DOMAIN a, j \in DOMAIN b : a[i] < b[j]
    PROVE  /\ a \o b \in Seq(1 .. n) /\ Increasing(a \o b)
           /\ Elements(a \o b) = Elements(a) \cup Elements(b)
<1> DEFINE c == a \o b
<1>1. /\ Len(a) \in Nat /\ DOMAIN a = 1 .. Len(a) /\ \A i \in 1 .. Len(a) : a[i] \in 1 .. n
      /\ Len(b) \in Nat /\ DOMAIN b = 1 .. Len(b) /\ \A i \in 1 .. Len(b) : b[i] \in 1 .. n
  BY LenProperties, ElementOfSeq
<1>2. /\ c \in Seq(1 .. n) /\ Len(c) = Len(a) + Len(b) /\ DOMAIN c = 1 .. Len(a) + Len(b)
      /\ \A i \in 1 .. Len(a) + Len(b) : c[i] = IF i <= Len(a) THEN a[i] ELSE b[i - Len(a)]
  BY ConcatProperties, LenProperties
<1> HIDE DEF c
<1>3. Increasing(c)
  <2>1. SUFFICES ASSUME NEW i \in 1 .. Len(a) + Len(b), NEW j \in 1 .. Len(a) + Len(b), i < j
                 PROVE  c[i] < c[j]
    BY <1>2 DEF Increasing
  <2>2. CASE j <= Len(a)
    <3>1. i \in DOMAIN a /\ j \in DOMAIN a /\ i <= Len(a)
      BY <1>1, <2>1, <2>2
    <3>2. c[i] = a[i] /\ c[j] = a[j]
      BY <1>2, <2>2, <3>1
    <3>3. a[i] < a[j]
      BY <2>1, <3>1 DEF Increasing
    <3>4. QED
      BY <3>2, <3>3
  <2>3. CASE i > Len(a)
    <3>1. i - Len(a) \in DOMAIN b /\ j - Len(a) \in DOMAIN b /\ i - Len(a) < j - Len(a)
      BY <1>1, <2>1, <2>3
    <3>2. b[i - Len(a)] < b[j - Len(a)]
      BY <3>1 DEF Increasing
    <3>3. QED
      BY <1>1, <1>2, <2>1, <2>3, <3>2
  <2>4. CASE i <= Len(a) /\ j > Len(a)
    <3>1. i \in DOMAIN a /\ j - Len(a) \in DOMAIN b
      BY <1>1, <2>4
    <3>2. c[i] = a[i] /\ c[j] = b[j - Len(a)]
      BY <1>1, <1>2, <2>4
    <3>3. QED
      BY <3>1, <3>2
  <2>5. QED
    BY <1>1, <2>2, <2>3, <2>4
<1>4. Elements(c) = Elements(a) \cup Elements(b)
  <2>1. ASSUME NEW i \in DOMAIN c PROVE c[i] \in Elements(a) \cup Elements(b)
    <3>1. CASE i <= Len(a)
      BY <1>1, <1>2, <2>1, <3>1 DEF Elements
    <3>2. CASE i > Len(a)
      <4>1. i - Len(a) \in DOMAIN b /\ c[i] = b[i - Len(a)]
        BY <1>1, <1>2, <2>1, <3>2
      <4>2. QED
        BY <4>1 DEF Elements
    <3>3. QED
      BY <1>1, <1>2, <3>1, <3>2
  <2>2. ASSUME NEW i \in DOMAIN a PROVE a[i] \in Elements(c)
    <3>1. i \in DOMAIN c /\ c[i] = a[i]
      BY <1>1, <1>2
    <3>2. QED
      BY <3>1 DEF Elements
  <2>3. ASSUME NEW i \in DOMAIN b PROVE b[i] \in Elements(c)
    <3>1. /\ i + Len(a) \in DOMAIN c /\ ~(i + Len(a) <= Len(a))
          /\ (i + Len(a)) - Len(a) = i
      BY <1>1, <1>2
    <3>2. c[i + Len(a)] = b[i]
      BY <1>2, <3>1
    <3>3. QED
      BY <3>1, <3>2 DEF Elements
  <2>4. QED
    BY <2>1, <2>2, <2>3 DEF Elements
<1>5. QED
  BY <1>2, <1>3, <1>4 DEF c

\* The beginning of an increasing sequence.
LEMMA IncreasingPrefix ==
    ASSUME NEW n \in Nat, NEW s \in Seq(1 .. n), Increasing(s), NEW m \in 0 .. Len(s)
    PROVE  /\ SubSeq(s, 1, m) \in Seq(1 .. n) /\ Increasing(SubSeq(s, 1, m))
           /\ DOMAIN SubSeq(s, 1, m) = 1 .. m
           /\ \A i \in 1 .. m : i \in DOMAIN s /\ SubSeq(s, 1, m)[i] = s[i]
<1>1. Len(s) \in Nat /\ DOMAIN s = 1 .. Len(s) /\ \A i \in 1 .. Len(s) : s[i] \in 1 .. n
  BY LenProperties, ElementOfSeq
<1>2. \A i \in 1 .. m : i \in DOMAIN s /\ s[i] \in 1 .. n
  BY <1>1
<1>3. /\ SubSeq(s, 1, m) \in Seq(1 .. n)
      /\ Len(SubSeq(s, 1, m)) = IF 1 <= m THEN m - 1 + 1 ELSE 0
      /\ \A i \in 1 .. m - 1 + 1 : SubSeq(s, 1, m)[i] = s[1 + i - 1]
  <2>1. m \in Int
    BY <1>1
  <2>2. QED
    BY <1>2, <2>1, SubSeqProperties
<1>4. Len(SubSeq(s, 1, m)) = m /\ \A i \in 1 .. m : SubSeq(s, 1, m)[i] = s[i]
  BY <1>1, <1>3
<1>5. DOMAIN SubSeq(s, 1, m) = 1 .. m
  BY <1>3, <1>4, LenProperties
<1>6. Increasing(SubSeq(s, 1, m))
  BY <1>2, <1>4, <1>5 DEF Increasing
<1>7. QED
  BY <1>2, <1>3, <1>4, <1>5, <1>6

(***************************************************************************)
(* One write.                                                               *)
(***************************************************************************)
\* Lines that may be written now: they come after those of stdout, and with these they
\* are all the lines up to the current call.
Ready(lines) ==
    /\ lines \in Seq(Calls) /\ Increasing(lines)
    /\ \A i \in DOMAIN lines : lines[i] \in Lines /\ lines[i] <= next
    /\ \A i \in DOMAIN stdout, j \in DOMAIN lines : stdout[i] < lines[j]
    /\ command \notin Careless =>
         \A k \in Lines : k <= next => k \in Written \cup Elements(lines)

\* The numbers of calls and lines.
LEMMA Numbers ==
    ASSUME TypeOK
    PROVE  /\ Len(doc.calls) \in Nat /\ next \in Nat /\ Lines \subseteq Calls
           /\ \A k \in Calls : doc.calls[k].op \in {"tab", "out", "flush"}
           /\ stdout \in Seq(Calls) /\ buffer \in Seq(Calls) /\ torn \subseteq Calls
           /\ doc.unknown \in Nat
<1>1. Len(doc.calls) \in Nat /\ doc.unknown \in Nat
  BY DocumentsAssumption DEF TypeOK
<1>2. \A k \in Calls : doc.calls[k].op \in {"tab", "out", "flush"}
  BY DocumentsAssumption DEF TypeOK, Calls
<1>3. next \in Nat
  BY <1>1 DEF TypeOK
<1>4. stdout \in Seq(Calls) /\ buffer \in Seq(Calls) /\ torn \subseteq Calls
  BY DEF TypeOK, Calls
<1>5. QED
  BY <1>1, <1>2, <1>3, <1>4 DEF Lines, Calls

\* What is written together with stdout is in order.
LEMMA Together ==
    ASSUME TypeOK, OrderInv, pc = "write", NEW lines, Ready(lines), next \in Calls, NEW m \in 0 .. Len(lines)
    PROVE  LET s == stdout \o SubSeq(lines, 1, m)
           IN  /\ s \in Seq(Calls) /\ Increasing(s)
               /\ Elements(s) = Written \cup {lines[i] : i \in 1 .. m}
               /\ \A i \in DOMAIN s : s[i] \in Lines /\ s[i] < next + 1
<1> DEFINE p == SubSeq(lines, 1, m)
           s == stdout \o p
<1>1. /\ Len(doc.calls) \in Nat /\ next \in Nat /\ Lines \subseteq Calls
      /\ stdout \in Seq(Calls)
  BY Numbers
<1>2. lines \in Seq(Calls) /\ Increasing(lines)
  BY DEF Ready
<1>3. /\ p \in Seq(Calls) /\ Increasing(p) /\ DOMAIN p = 1 .. m
      /\ \A i \in 1 .. m : i \in DOMAIN lines /\ p[i] = lines[i]
  BY <1>1, <1>2, IncreasingPrefix DEF Calls
<1> HIDE DEF p
<1>4. \A i \in DOMAIN stdout, j \in DOMAIN p : stdout[i] < p[j]
  BY <1>3 DEF Ready
<1>5. s \in Seq(Calls) /\ Increasing(s) /\ Elements(s) = Elements(stdout) \cup Elements(p)
  <2> DEFINE n == Len(doc.calls)
  <2>1. stdout \in Seq(1 .. n) /\ p \in Seq(1 .. n) /\ n \in Nat /\ Calls = 1 .. n
    BY <1>1, <1>3 DEF Calls
  <2>2. Increasing(stdout)
    BY DEF OrderInv
  <2> HIDE DEF n
  <2>3. s \in Seq(1 .. n) /\ Increasing(s) /\ Elements(s) = Elements(stdout) \cup Elements(p)
    BY <1>3, <1>4, <2>1, <2>2, IncreasingConcat
  <2>4. QED
    BY <2>1, <2>3
<1> HIDE DEF s
<1>6. Elements(p) = {lines[i] : i \in 1 .. m}
  BY <1>3 DEF Elements
<1>7. Elements(stdout) = Written
  BY DEF Elements, Written
<1>8. \A x \in Written : x \in Lines /\ x < next + 1
  BY <1>1 DEF OrderInv, Written, Calls
<1>9. \A i \in 1 .. m : lines[i] \in Lines /\ lines[i] < next + 1
  BY <1>1, <1>3 DEF Ready, Calls
<1>10. \A i \in DOMAIN s : s[i] \in Elements(s)
  BY DEF Elements
<1>11. QED
  BY <1>5, <1>6, <1>7, <1>8, <1>9, <1>10 DEF s, p

\* With an empty tabwriter the order is that of stdout alone.
LEMMA EmptyBuffer ==
    ASSUME TypeOK, buffer' = <<>>, doc' = doc, pc' = "write" => next' = next + 1,
           Increasing(stdout'),
           \A i \in DOMAIN stdout' : stdout'[i] \in Lines /\ stdout'[i] < next + 1
    PROVE  OrderInv' /\ BufferInv'
<1>1. DOMAIN buffer' = {}
  OBVIOUS
<1>2. Lines' = Lines
  BY DEF Lines
<1>3. Increasing(buffer')
  BY <1>1 DEF Increasing
<1>4. BufferInv'
  BY <1>1 DEF BufferInv
<1>5. OrderInv'
  BY <1>1, <1>2, <1>3 DEF OrderInv
<1>6. QED
  BY <1>4, <1>5

\* All the lines are written.
LEMMA SuccessStep ==
    ASSUME TypeOK, OrderInv, CompleteInv, pc = "write", next \in Calls,
           NEW lines, Ready(lines), Succeeds(lines), buffer' = <<>>
    PROVE  IInv'
<1>1. /\ Len(doc.calls) \in Nat /\ next \in Nat /\ Lines \subseteq Calls
      /\ lines \in Seq(Calls)
  BY Numbers DEF Ready
<1>2. Len(lines) \in Nat /\ DOMAIN lines = 1 .. Len(lines)
  BY <1>1, LenProperties
<1>3. SubSeq(lines, 1, Len(lines)) = lines
  <2>1. /\ \A i \in 1 .. Len(lines) : lines[i] \in Calls
        /\ Len(lines) \in Int /\ 1 \in Int
    BY <1>1, <1>2, ElementOfSeq
  <2>2. /\ SubSeq(lines, 1, Len(lines)) \in Seq(Calls)
        /\ Len(SubSeq(lines, 1, Len(lines))) = IF 1 <= Len(lines) THEN Len(lines) - 1 + 1 ELSE 0
        /\ \A i \in 1 .. Len(lines) - 1 + 1 : SubSeq(lines, 1, Len(lines))[i] = lines[1 + i - 1]
    BY <2>1, SubSeqProperties
  <2>3. /\ Len(SubSeq(lines, 1, Len(lines))) = Len(lines)
        /\ \A i \in 1 .. Len(lines) : SubSeq(lines, 1, Len(lines))[i] = lines[i]
    BY <1>2, <2>2
  <2>4. QED
    BY <1>1, <2>2, <2>3, SeqEqual
<1>4. /\ stdout' \in Seq(Calls) /\ Increasing(stdout')
      /\ Elements(stdout') = Written \cup {lines[i] : i \in 1 .. Len(lines)}
      /\ \A i \in DOMAIN stdout' : stdout'[i] \in Lines /\ stdout'[i] < next + 1
  <2>1. Len(lines) \in 0 .. Len(lines)
    BY <1>2
  <2>2. stdout' = stdout \o SubSeq(lines, 1, Len(lines))
    BY <1>3 DEF Succeeds
  <2>3. QED
    BY <2>1, <2>2, Together
<1>5. /\ next' = next + 1 /\ UNCHANGED <<command, doc, pc, err, note, torn>>
  BY DEF Succeeds, Proceed
<1>6. Written' = Written \cup Elements(lines)
  BY <1>2, <1>4 DEF Written, Elements
<1>7. TypeOK'
  <2>1. buffer' \in Seq(1 .. Len(doc.calls)) /\ stdout' \in Seq(1 .. Len(doc.calls))
    BY <1>4, EmptySeq DEF Calls
  <2>2. next' \in 1 .. Len(doc.calls) + 1
    BY <1>1, <1>5 DEF Calls
  <2>3. QED
    BY <1>5, <2>1, <2>2 DEF TypeOK
<1>8. OrderInv' /\ BufferInv'
  BY <1>4, <1>5, EmptyBuffer
<1>9. CompleteInv'
  <2>1. Lines' = Lines
    BY <1>5 DEF Lines
  <2>2. ASSUME command \notin Careless, NEW k \in Lines, k < next + 1
        PROVE  k \in Written'
    <3>1. k <= next
      BY <1>1, <2>2 DEF Calls
    <3>2. QED
      BY <1>6, <2>2, <3>1 DEF Ready
  <2>3. command \notin Careless => torn = {} /\ err = "none" /\ note = 0
    BY DEF CompleteInv
  <2>4. QED
    BY <1>5, <2>1, <2>2, <2>3 DEF CompleteInv
<1>10. EndInv'
  BY <1>5 DEF EndInv
<1>11. QED
  BY <1>7, <1>8, <1>9, <1>10 DEF IInv

\* Some of the lines are written and perhaps a part of the next one.
LEMMA FailureStep ==
    ASSUME TypeOK, OrderInv, CompleteInv, pc = "write", next \in Calls,
           NEW lines, Ready(lines), Fails(lines), buffer' = <<>>
    PROVE  IInv'
<1>1. /\ Len(doc.calls) \in Nat /\ next \in Nat /\ Lines \subseteq Calls
      /\ lines \in Seq(Calls) /\ torn \subseteq Calls
  BY Numbers DEF Ready
<1>2. /\ Len(lines) \in Nat /\ DOMAIN lines = 1 .. Len(lines)
      /\ \A i \in 1 .. Len(lines) : lines[i] \in Calls
  BY <1>1, LenProperties, ElementOfSeq
<1>3. PICK n \in 0 .. Len(lines) - 1 :
        /\ stdout' = stdout \o SubSeq(lines, 1, n)
        /\ torn' \in {torn, torn \cup {lines[n + 1]}}
  BY DEF Fails
<1>4. n \in 0 .. Len(lines) /\ n + 1 \in 1 .. Len(lines)
  BY <1>2
<1>5. /\ stdout' \in Seq(Calls) /\ Increasing(stdout')
      /\ Elements(stdout') = Written \cup {lines[i] : i \in 1 .. n}
      /\ \A i \in DOMAIN stdout' : stdout'[i] \in Lines /\ stdout'[i] < next + 1
  BY <1>3, <1>4, Together
<1>6. Written' = Written \cup {lines[i] : i \in 1 .. n}
  BY <1>5 DEF Written, Elements
<1>7. torn' \subseteq Calls
  BY <1>1, <1>2, <1>3, <1>4
<1>8. /\ UNCHANGED <<command, doc, note>>
      /\ \/ command \in Careless /\ pc' = "write" /\ next' = next + 1 /\ err' = err
         \/ command \notin Careless /\ pc' = "done" /\ next' = next /\ err' = "write"
  BY DEF Fails, Proceed, GiveUp
<1>9. TypeOK'
  <2>1. buffer' \in Seq(1 .. Len(doc.calls)) /\ stdout' \in Seq(1 .. Len(doc.calls))
    BY <1>5, EmptySeq DEF Calls
  <2>2. next' \in 1 .. Len(doc.calls) + 1
    BY <1>1, <1>8 DEF Calls
  <2>3. pc' \in {"write", "done"} /\ err' \in {"none", "write"}
    BY <1>8 DEF TypeOK
  <2>4. QED
    BY <1>7, <1>8, <2>1, <2>2, <2>3 DEF TypeOK, Calls
<1>10. OrderInv' /\ BufferInv'
  BY <1>5, <1>8, EmptyBuffer
<1>11. CompleteInv'
  BY <1>8 DEF CompleteInv
<1>12. EndInv'
  <2> SUFFICES ASSUME command \notin Careless
               PROVE  /\ err' = "write" /\ note' = 0 /\ Written' # Lines
                      /\ \A k \in Written' \cup torn' : \A j \in Lines : j < k => j \in Written'
    <3>1. Lines' = Lines /\ command' = command
      BY <1>8 DEF Lines
    <3>2. QED
      BY <3>1 DEF EndInv
  <2>1. err' = "write" /\ note' = 0 /\ torn = {}
    BY <1>8 DEF CompleteInv
  <2>2. \A i, j \in 1 .. Len(lines) : i < j => lines[i] < lines[j]
    BY <1>2 DEF Ready, Increasing
  <2>3. \A x \in Written, j \in 1 .. Len(lines) : x < lines[j]
    BY <1>2 DEF Ready, Written
  <2>4. lines[n + 1] \in Lines /\ lines[n + 1] \notin Written'
    <3>1. lines[n + 1] \in Lines
      BY <1>2, <1>4 DEF Ready
    <3>2. lines[n + 1] \in Nat
      BY <1>2, <1>4 DEF Calls
    <3>3. lines[n + 1] \notin Written
      BY <1>4, <2>3, <3>2
    <3>4. \A i \in 1 .. n : i \in 1 .. Len(lines) /\ i < n + 1
      BY <1>2, <1>4
    <3>5. \A i \in 1 .. n : lines[i] < lines[n + 1]
      BY <1>4, <2>2, <3>4
    <3>6. \A i \in 1 .. n : lines[i] # lines[n + 1]
      BY <3>2, <3>5
    <3>7. QED
      BY <1>6, <3>1, <3>3, <3>6
  <2>5. ASSUME NEW k \in Written' \cup torn', NEW j \in Lines, j < k
        PROVE  j \in Written'
    <3>1. k \in Written \/ \E i \in 1 .. n + 1 : k = lines[i]
      BY <1>3, <1>4, <1>6, <2>1
    <3>2. k <= next /\ k \in Nat
      <4>1. \A x \in Written : x \in Lines /\ x < next
        BY DEF OrderInv, Written
      <4>2. \A i \in 1 .. n + 1 : i \in DOMAIN lines
        BY <1>2, <1>4
      <4>3. \A i \in 1 .. n + 1 : lines[i] \in Lines /\ lines[i] <= next
        BY <4>2 DEF Ready
      <4>4. k \in Lines /\ (k < next \/ k <= next)
        BY <3>1, <4>1, <4>3
      <4>5. QED
        BY <1>1, <4>4 DEF Calls
    <3>3. j \in Nat /\ j <= next
      BY <1>1, <2>5, <3>2 DEF Calls
    <3>4. j \in Written \cup Elements(lines)
      BY <3>3 DEF Ready
    <3>5. CASE j \in Written
      BY <1>6, <3>5
    <3>6. CASE j \in Elements(lines)
      <4>1. PICK m \in 1 .. Len(lines) : j = lines[m]
        BY <1>2, <3>6 DEF Elements
      <4>2. k \notin Written
        <5>1. k \in Written => k < j
          BY <2>3, <4>1
        <5>2. QED
          BY <2>5, <3>2, <3>3, <5>1
      <4>3. PICK i \in 1 .. n + 1 : k = lines[i]
        BY <3>1, <4>2
      <4>4. i \in 1 .. Len(lines)
        BY <1>2, <1>4
      <4>5. i < m => k < j
        BY <2>2, <4>1, <4>3, <4>4
      <4>6. m < i
        BY <2>5, <3>2, <3>3, <4>1, <4>3, <4>4, <4>5
      <4>7. m \in 1 .. n
        BY <1>2, <1>4, <4>4, <4>6
      <4>8. QED
        BY <1>6, <4>1, <4>7
    <3>7. QED
      BY <3>4, <3>5, <3>6
  <2>6. QED
    BY <2>1, <2>4, <2>5
<1>13. QED
  BY <1>9, <1>10, <1>11, <1>12 DEF IInv

(***************************************************************************)
(* What may be written at each call.                                        *)
(***************************************************************************)
\* The tabwriter with the line of the current call behind those it holds.
LEMMA LineAppended ==
    ASSUME TypeOK, OrderInv, BufferInv, pc = "write", next \in Lines
    PROVE  LET b == Append(buffer, next)
           IN  /\ b \in Seq(Calls) /\ Increasing(b)
               /\ DOMAIN b = 1 .. Len(buffer) + 1
               /\ b[Len(buffer) + 1] = next /\ Len(buffer) \in Nat
               /\ \A i \in DOMAIN b : (i \in DOMAIN buffer /\ b[i] = buffer[i]) \/ b[i] = next
               /\ Elements(b) = Elements(buffer) \cup {next}
<1> DEFINE b == Append(buffer, next)
<1>1. /\ buffer \in Seq(Calls) /\ Len(buffer) \in Nat /\ DOMAIN buffer = 1 .. Len(buffer)
      /\ next \in Nat /\ next \in Calls
  BY Numbers, LenProperties
<1>2. /\ b \in Seq(Calls) /\ Len(b) = Len(buffer) + 1
      /\ \A i \in 1 .. Len(buffer) : b[i] = buffer[i]
      /\ b[Len(buffer) + 1] = next
  BY <1>1, AppendProperties
<1> HIDE DEF b
<1>3. DOMAIN b = 1 .. Len(buffer) + 1
  BY <1>2, LenProperties
<1>4. \A i \in DOMAIN b : i \in DOMAIN buffer \/ i = Len(buffer) + 1
  BY <1>1, <1>3
<1>5. \A i \in DOMAIN buffer : i \in DOMAIN b /\ b[i] = buffer[i]
  BY <1>1, <1>2, <1>3
<1>6. \A i \in DOMAIN b : (i \in DOMAIN buffer /\ b[i] = buffer[i]) \/ b[i] = next
  BY <1>2, <1>4, <1>5
<1>7. Elements(b) = Elements(buffer) \cup {next}
  <2>1. Len(buffer) + 1 \in DOMAIN b
    BY <1>1, <1>3
  <2>2. QED
    BY <1>2, <1>5, <1>6, <2>1 DEF Elements
<1>8. Increasing(b)
  <2>1. SUFFICES ASSUME NEW i \in 1 .. Len(buffer) + 1, NEW j \in 1 .. Len(buffer) + 1, i < j
                 PROVE  b[i] < b[j]
    BY <1>3 DEF Increasing
  <2>2. i \in DOMAIN buffer
    BY <1>1, <2>1
  <2>3. CASE j \in DOMAIN buffer
    BY <1>5, <2>1, <2>2, <2>3 DEF OrderInv, Increasing
  <2>4. CASE j = Len(buffer) + 1
    BY <1>2, <1>5, <2>2, <2>4 DEF BufferInv
  <2>5. QED
    BY <1>1, <2>3, <2>4
<1>9. QED
  BY <1>1, <1>2, <1>3, <1>6, <1>7, <1>8 DEF b

\* A line of one cell is written behind those held back.
LEMMA ReadyLine ==
    ASSUME TypeOK, OrderInv, BufferInv, CompleteInv, pc = "write", next \in Lines
    PROVE  Ready(Append(buffer, next))
<1> DEFINE b == Append(buffer, next)
<1>1. /\ b \in Seq(Calls) /\ Increasing(b)
      /\ \A i \in DOMAIN b : (i \in DOMAIN buffer /\ b[i] = buffer[i]) \/ b[i] = next
      /\ Elements(b) = Elements(buffer) \cup {next}
  BY LineAppended
<1> HIDE DEF b
<1>2. next \in Nat /\ \A k \in Lines : k \in Nat
  BY Numbers DEF Calls
<1>3. \A i \in DOMAIN b : b[i] \in Lines /\ b[i] <= next
  <2>1. \A j \in DOMAIN buffer : buffer[j] \in Lines /\ buffer[j] <= next
    <3>1. \A j \in DOMAIN buffer : buffer[j] \in Lines /\ buffer[j] < next
      BY DEF BufferInv
    <3>2. \A k \in Lines : k < next => k <= next
      BY <1>2
    <3>3. QED
      BY <3>1, <3>2
  <2>2. QED
    BY <1>1, <1>2, <2>1
<1>4. \A i \in DOMAIN stdout, j \in DOMAIN b : stdout[i] < b[j]
  <2>1. \A i \in DOMAIN stdout : /\ stdout[i] < next
                                  /\ \A j \in DOMAIN buffer : stdout[i] < buffer[j]
    BY DEF OrderInv
  <2>2. QED
    BY <1>1, <2>1
<1>5. ASSUME command \notin Careless, NEW k \in Lines, k <= next
      PROVE  k \in Written \cup Elements(b)
  <2>1. CASE k < next
    BY <1>1, <1>5, <2>1 DEF CompleteInv
  <2>2. CASE k = next
    BY <1>1, <2>2
  <2>3. QED
    BY <1>2, <1>5, <2>1, <2>2
<1>6. QED
  BY <1>1, <1>3, <1>4, <1>5 DEF Ready, b

\* A flush writes the lines held back.
LEMMA ReadyTable ==
    ASSUME TypeOK, OrderInv, BufferInv, CompleteInv, pc = "write", next \in Calls,
           next \notin Lines
    PROVE  Ready(buffer)
<1>1. next \in Nat /\ Lines \subseteq Nat /\ buffer \in Seq(Calls)
  BY Numbers DEF Calls
<1>2. \A j \in DOMAIN buffer : buffer[j] \in Lines /\ buffer[j] <= next
  <2>1. \A j \in DOMAIN buffer : buffer[j] \in Lines /\ buffer[j] < next
    BY DEF BufferInv
  <2>2. \A k \in Lines : k < next => k <= next
    BY <1>1
  <2>3. QED
    BY <2>1, <2>2
<1>3. ASSUME command \notin Careless, NEW k \in Lines, k <= next
      PROVE  k \in Written \cup Elements(buffer)
  <2>1. k < next
    BY <1>1, <1>3
  <2>2. QED
    BY <1>3, <2>1 DEF CompleteInv
<1>4. QED
  BY <1>1, <1>2, <1>3 DEF Ready, OrderInv

\* A document that flushes in time has nothing in the tabwriter at a call to stdout.
LEMMA NothingWaits ==
    ASSUME Flushed, TypeOK, BufferInv,
           next = Len(doc.calls) + 1 \/ (next \in Calls /\ doc.calls[next].op = "out")
    PROVE  buffer = <<>>
<1>1. /\ buffer \in Seq(Calls) /\ Len(buffer) \in Nat /\ DOMAIN buffer = 1 .. Len(buffer)
      /\ Len(doc.calls) \in Nat /\ next \in Nat
  BY Numbers, LenProperties
<1>2. FlushesInTime(doc.calls)
  BY DEF Flushed, TypeOK
<1>3. SUFFICES ASSUME buffer # <<>> PROVE FALSE
  OBVIOUS
<1>4. 1 \in DOMAIN buffer
  <2>1. Len(buffer) # 0
    BY <1>1, <1>3, EmptySeq
  <2>2. QED
    BY <1>1, <2>1
<1>5. /\ buffer[1] \in Calls /\ buffer[1] < next /\ Waits(doc.calls[buffer[1]])
      /\ \A f \in Calls : buffer[1] < f /\ f < next => ~Empties(doc.calls[f])
  BY <1>1, <1>4, ElementOfSeq DEF BufferInv
<1>6. CASE next = Len(doc.calls) + 1
  <2>1. \E f \in 1 .. Len(doc.calls) : buffer[1] < f /\ Empties(doc.calls[f])
    <3>1. buffer[1] \in 1 .. Len(doc.calls)
      BY <1>5 DEF Calls
    <3>2. QED
      BY <1>2, <1>5, <3>1 DEF FlushesInTime
  <2> PICK f \in Calls : buffer[1] < f /\ Empties(doc.calls[f])
    BY <2>1 DEF Calls
  <2>2. f < next
    BY <1>1, <1>6 DEF Calls
  <2>3. QED
    BY <1>5, <2>2
<1>7. CASE next \in Calls /\ doc.calls[next].op = "out"
  <2>1. \E f \in 1 .. Len(doc.calls) : buffer[1] < f /\ f < next /\ Empties(doc.calls[f])
    <3>1. buffer[1] \in 1 .. Len(doc.calls) /\ next \in 1 .. Len(doc.calls)
      BY <1>5, <1>7 DEF Calls
    <3>2. QED
      BY <1>2, <1>5, <1>7, <3>1 DEF FlushesInTime
  <2> PICK f \in Calls : buffer[1] < f /\ f < next /\ Empties(doc.calls[f])
    BY <2>1 DEF Calls
  <2>2. QED
    BY <1>5
<1>8. QED
  BY <1>6, <1>7

\* A call to stdout writes its own line.
LEMMA ReadyDirect ==
    ASSUME TypeOK, OrderInv, CompleteInv, pc = "write", next \in Lines, buffer = <<>>
    PROVE  Ready(<<next>>)
<1>1. next \in Nat /\ Lines \subseteq Nat /\ next \in Calls
  BY Numbers DEF Calls
<1>2. /\ <<next>> \in Seq(Calls) /\ DOMAIN <<next>> = {1} /\ <<next>>[1] = next
  BY <1>1
<1>3. Elements(<<next>>) = {next} /\ Elements(buffer) = {}
  BY <1>2 DEF Elements
<1>4. Increasing(<<next>>)
  BY <1>2 DEF Increasing
<1>5. \A i \in DOMAIN stdout : stdout[i] < next
  BY DEF OrderInv
<1>6. ASSUME command \notin Careless, NEW k \in Lines, k <= next
      PROVE  k \in Written \cup Elements(<<next>>)
  <2>1. CASE k < next
    BY <1>3, <1>6, <2>1 DEF CompleteInv
  <2>2. CASE k = next
    BY <1>3, <2>2
  <2>3. QED
    BY <1>1, <1>6, <2>1, <2>2
<1>7. QED
  BY <1>1, <1>2, <1>4, <1>5, <1>6 DEF Ready

(***************************************************************************)
(* The invariant and the theorems.                                          *)
(***************************************************************************)
\* A line of several cells joins those held back.
LEMMA RowStep ==
    ASSUME TypeOK, OrderInv, BufferInv, CompleteInv, PrintRow
    PROVE  IInv'
<1>1. /\ pc = "write" /\ next \in Nat /\ next <= Len(doc.calls)
      /\ doc.calls[next].op = "tab" /\ doc.calls[next].cells > 1
      /\ buffer' = Append(buffer, next) /\ next' = next + 1
      /\ UNCHANGED <<command, doc, pc, stdout, torn, err, note>>
  BY Numbers DEF PrintRow, Calling, Proceed
<1>2. next \in Calls /\ next \in Lines
  BY <1>1 DEF Calls, Lines, TypeOK
<1>3. /\ buffer' \in Seq(Calls) /\ Increasing(buffer')
      /\ \A i \in DOMAIN buffer' : (i \in DOMAIN buffer /\ buffer'[i] = buffer[i]) \/ buffer'[i] = next
      /\ Elements(buffer') = Elements(buffer) \cup {next}
  BY <1>1, <1>2, LineAppended
<1>4. Lines' = Lines /\ Written' = Written /\ Calls' = Calls
  BY <1>1 DEF Lines, Written, Calls
<1>5. TypeOK'
  <2>1. next' \in 1 .. Len(doc.calls) + 1
    BY <1>1, <1>2 DEF Calls
  <2>2. buffer' \in Seq(1 .. Len(doc.calls))
    BY <1>3 DEF Calls
  <2>3. QED
    BY <1>1, <2>1, <2>2 DEF TypeOK
<1>6. \A i \in DOMAIN stdout : /\ stdout[i] \in Lines /\ stdout[i] < next
                                /\ \A j \in DOMAIN buffer : stdout[i] < buffer[j]
  BY <1>1 DEF OrderInv
<1>7. \A k \in Lines : k \in Nat
  BY Numbers DEF Calls
<1>8. OrderInv'
  <2>1. \A k \in Lines : k < next => k < next'
    BY <1>1, <1>7
  <2>2. \A i \in DOMAIN stdout : stdout[i] < next' /\ \A j \in DOMAIN buffer' : stdout[i] < buffer'[j]
    BY <1>3, <1>6, <2>1
  <2>3. Increasing(stdout')
    BY <1>1 DEF OrderInv
  <2>4. QED
    BY <1>1, <1>3, <1>4, <1>6, <2>2, <2>3 DEF OrderInv
<1>9. BufferInv'
  <2>1. SUFFICES ASSUME NEW j \in DOMAIN buffer'
                 PROVE  /\ buffer'[j] \in Lines /\ buffer'[j] < next + 1
                        /\ Waits(doc.calls[buffer'[j]])
                        /\ \A f \in Calls : buffer'[j] < f /\ f < next + 1 => ~Empties(doc.calls[f])
    BY <1>1, <1>4 DEF BufferInv
  <2>2. ~Empties(doc.calls[next]) /\ Waits(doc.calls[next])
    BY <1>1 DEF Empties, Waits
  <2>3. CASE j \in DOMAIN buffer /\ buffer'[j] = buffer[j]
    <3>1. /\ buffer[j] \in Lines /\ buffer[j] < next /\ Waits(doc.calls[buffer[j]])
          /\ \A f \in Calls : buffer[j] < f /\ f < next => ~Empties(doc.calls[f])
      BY <2>3 DEF BufferInv
    <3>2. buffer[j] < next + 1
      BY <1>1, <1>7, <3>1
    <3>3. \A f \in Calls : f < next + 1 => f < next \/ f = next
      BY <1>1 DEF Calls
    <3>4. QED
      BY <2>2, <2>3, <3>1, <3>2, <3>3
  <2>4. CASE buffer'[j] = next
    <3>1. next < next + 1 /\ \A f \in Calls : ~(next < f /\ f < next + 1)
      BY <1>1 DEF Calls
    <3>2. QED
      BY <1>2, <2>2, <2>4, <3>1
  <2>5. QED
    BY <1>3, <2>3, <2>4
<1>10. CompleteInv'
  <2>1. \A k \in Lines : k < next + 1 => k < next \/ k = next
    BY <1>1, <1>7
  <2>2. QED
    BY <1>1, <1>3, <1>4, <2>1 DEF CompleteInv
<1>11. EndInv'
  BY <1>1 DEF EndInv
<1>12. QED
  BY <1>5, <1>8, <1>9, <1>10, <1>11 DEF IInv

\* A command returns without an error once it has made all its calls.
LEMMA ReturnStep ==
    ASSUME Flushed, IInv, Return
    PROVE  IInv'
<1>1. /\ pc = "write" /\ next = Len(doc.calls) + 1 /\ pc' = "done" /\ note' = doc.unknown
      /\ UNCHANGED <<command, doc, next, buffer, stdout, torn, err>>
  BY DEF Return
<1>2. buffer = <<>>
  <2>1. TypeOK /\ BufferInv
    BY DEF IInv
  <2>2. next = Len(doc.calls) + 1
    BY <1>1
  <2>3. QED
    BY <2>1, <2>2, NothingWaits
<1>3. Lines' = Lines /\ Written' = Written /\ Calls' = Calls
  BY <1>1 DEF Lines, Written, Calls
<1>4. doc.unknown \in Nat /\ Len(doc.calls) \in Nat
  BY Numbers DEF IInv
<1>5. TypeOK'
  BY <1>1, <1>4 DEF IInv, TypeOK
<1>6. OrderInv' /\ BufferInv'
  <2>1. DOMAIN buffer' = {}
    BY <1>1, <1>2
  <2>2. BufferInv'
    BY <2>1 DEF BufferInv
  <2>3. Increasing(stdout') /\ Increasing(buffer')
    BY <1>1 DEF IInv, OrderInv
  <2>4. \A i \in DOMAIN stdout' : stdout'[i] \in Lines'
    BY <1>1, <1>3 DEF IInv, OrderInv
  <2>5. OrderInv'
    BY <1>1, <2>1, <2>3, <2>4 DEF OrderInv
  <2>6. QED
    BY <2>2, <2>5
<1>7. CompleteInv'
  BY <1>1 DEF CompleteInv
<1>8. EndInv'
  <2>1. SUFFICES ASSUME command \notin Careless
                 PROVE  err = "none" /\ Written = Lines /\ torn = {}
    <3>1. \A k \in Written \cup {} : \A j \in Written : j < k => j \in Written
      OBVIOUS
    <3>2. QED
      BY <1>1, <1>3, <2>1, <3>1 DEF EndInv
  <2>2. torn = {} /\ err = "none" /\ \A k \in Lines : k < next => k \in Written \cup Elements(buffer)
    BY <1>1, <2>1 DEF IInv, CompleteInv
  <2>3. Elements(buffer) = {}
    BY <1>2 DEF Elements
  <2>4. \A k \in Lines : k < next
    BY <1>1, <1>4 DEF Lines
  <2>5. Written \subseteq Lines
    BY DEF IInv, OrderInv, Written
  <2>6. QED
    BY <2>2, <2>3, <2>4, <2>5
<1>9. QED
  BY <1>5, <1>6, <1>7, <1>8 DEF IInv

\* Every step keeps the invariant.
LEMMA NextStep ==
    ASSUME Flushed
    PROVE  IInv /\ [Next]_vars => IInv'
<1> SUFFICES ASSUME IInv, [Next]_vars PROVE IInv'
  OBVIOUS
<1>0. TypeOK /\ OrderInv /\ BufferInv /\ CompleteInv
  BY DEF IInv
<1>1. CASE PrintRow
  BY <1>0, <1>1, RowStep
<1>2. CASE PrintLine
  <2>1. pc = "write" /\ next \in Calls /\ next \in Lines
    BY <1>0, <1>2 DEF PrintLine, Calling, Calls, Lines, TypeOK
  <2>2. Ready(Append(buffer, next)) /\ buffer' = <<>>
    BY <1>0, <1>2, <2>1, ReadyLine DEF PrintLine
  <2>3. Succeeds(Append(buffer, next)) \/ Fails(Append(buffer, next))
    BY <1>2 DEF PrintLine, Writes
  <2>4. QED
    BY <1>0, <2>1, <2>2, <2>3, SuccessStep, FailureStep
<1>3. CASE FlushTable
  <2>1. pc = "write" /\ next \in Calls /\ next \notin Lines
    BY <1>0, <1>3 DEF FlushTable, Calling, Calls, Lines, TypeOK
  <2>2. Ready(buffer) /\ buffer' = <<>>
    BY <1>0, <1>3, <2>1, ReadyTable DEF FlushTable
  <2>3. Succeeds(buffer) \/ Fails(buffer)
    BY <1>3 DEF FlushTable, Writes
  <2>4. QED
    BY <1>0, <2>1, <2>2, <2>3, SuccessStep, FailureStep
<1>4. CASE PrintDirect
  <2>1. pc = "write" /\ next \in Calls /\ next \in Lines /\ doc.calls[next].op = "out"
    BY <1>0, <1>4 DEF PrintDirect, Calling, Calls, Lines, TypeOK
  <2>2. buffer = <<>>
    BY <1>0, <2>1, NothingWaits
  <2>3. Ready(<<next>>) /\ buffer' = <<>>
    BY <1>0, <1>4, <2>1, <2>2, ReadyDirect DEF PrintDirect
  <2>4. Succeeds(<<next>>) \/ Fails(<<next>>)
    BY <1>4 DEF PrintDirect, Writes
  <2>5. QED
    BY <1>0, <2>1, <2>3, <2>4, SuccessStep, FailureStep
<1>5. CASE Return
  BY <1>5, ReturnStep
<1>6. CASE Finished \/ UNCHANGED vars
  <2>1. UNCHANGED vars
    BY <1>6 DEF Finished
  <2>2. Lines' = Lines /\ Written' = Written /\ Calls' = Calls
    BY <2>1 DEF vars, Lines, Written, Calls
  <2>3. TypeOK' /\ OrderInv' /\ BufferInv'
    BY <2>1, <2>2 DEF vars, IInv, TypeOK, OrderInv, BufferInv
  <2>4. CompleteInv' /\ EndInv'
    BY <2>1, <2>2 DEF vars, IInv, CompleteInv, EndInv
  <2>5. QED
    BY <2>3, <2>4 DEF IInv
<1>7. QED
  BY <1>1, <1>2, <1>3, <1>4, <1>5, <1>6 DEF Next

\* Nothing is written or held back at first.
LEMMA InitIInv == Init => IInv
<1> SUFFICES ASSUME Init PROVE IInv
  OBVIOUS
<1>1. /\ command \in Commands /\ doc \in Documents[command] /\ pc = "write" /\ next = 1
      /\ buffer = <<>> /\ stdout = <<>> /\ torn = {} /\ err = "none" /\ note = 0
  BY DEF Init
<1>2. DOMAIN buffer = {} /\ DOMAIN stdout = {}
  BY <1>1
<1>3. Len(doc.calls) \in Nat
  BY <1>1, DocumentsAssumption
<1>4. TypeOK
  <2>1. 1 \in 1 .. Len(doc.calls) + 1
    BY <1>3
  <2>2. buffer \in Seq(1 .. Len(doc.calls)) /\ stdout \in Seq(1 .. Len(doc.calls))
    BY <1>1, EmptySeq
  <2>3. QED
    BY <1>1, <2>1, <2>2 DEF TypeOK
<1>5. OrderInv /\ BufferInv
  BY <1>2 DEF OrderInv, BufferInv, Increasing
<1>6. CompleteInv
  <2>1. \A k \in Lines : ~(k < 1)
    BY <1>3 DEF Lines
  <2>2. QED
    BY <1>1, <2>1 DEF CompleteInv
<1>7. EndInv
  BY <1>1 DEF EndInv
<1>8. QED
  BY <1>4, <1>5, <1>6, <1>7 DEF IInv

\* The invariant holds of documents that flush in time.
LEMMA Invariance ==
    ASSUME Flushed
    PROVE  Spec => []IInv
<1>1. IInv /\ [Next]_vars => IInv'
  BY NextStep
<1>2. QED
  BY <1>1, InitIInv, PTL DEF Spec

\* Output keeps its types: no call is made twice or past the last one, and what stdout
\* has are lines of the document.
THEOREM TypeCorrect ==
    ASSUME Flushed
    PROVE  Spec => []TypeOK
<1>1. IInv => TypeOK
  BY DEF IInv
<1>2. QED
  BY <1>1, Invariance, PTL

\* Wherever stdout fails, and if it works again for the next line, the lines that reach
\* it are in their order, and above a line of a table is all of the table.
THEOREM NoHoles ==
    ASSUME Flushed
    PROVE  Spec => []CutButNotHoled
<1>1. IInv => CutButNotHoled
  <2> SUFFICES ASSUME IInv PROVE CutButNotHoled
    OBVIOUS
  <2>1. \A i, j \in DOMAIN stdout : i < j => stdout[i] < stdout[j]
    BY DEF IInv, OrderInv, Increasing
  <2>2. ASSUME command \notin Careless
        PROVE  \A k \in Written \cup torn : \A j \in Lines : j < k => j \in Written
    <3>1. CASE pc = "done"
      BY <2>2, <3>1 DEF IInv, EndInv
    <3>2. CASE pc = "write"
      <4>1. torn = {} /\ \A k \in Lines : k < next => k \in Written \cup Elements(buffer)
        BY <2>2, <3>2 DEF IInv, CompleteInv
      <4>2. \A x \in Written : /\ x \in Lines /\ x < next
                                /\ \A b \in Elements(buffer) : x < b
        BY <3>2 DEF IInv, OrderInv, Written, Elements
      <4>3. \A k \in Lines : k \in Nat
        BY Numbers DEF IInv, Calls
      <4>4. next \in Nat
        BY Numbers DEF IInv
      <4>5. ASSUME NEW k \in Written, NEW j \in Lines, j < k
            PROVE  j \in Written
        <5>1. k < next /\ k \in Nat /\ j \in Nat
          BY <4>2, <4>3, <4>5
        <5>2. j < next
          BY <4>4, <4>5, <5>1
        <5>3. j \notin Elements(buffer)
          <6>1. j \in Elements(buffer) => k < j
            BY <4>2, <4>5
          <6>2. QED
            BY <4>5, <5>1, <6>1
        <5>4. QED
          BY <4>1, <5>2, <5>3
      <4>6. QED
        BY <4>1, <4>5
    <3>3. QED
      BY <3>1, <3>2 DEF IInv, TypeOK
  <2>3. QED
    BY <2>1, <2>2 DEF CutButNotHoled
<1>2. QED
  BY <1>1, Invariance, PTL

\* No command ends without an error though a line is missing, or with one though none is.
THEOREM ErrorIfCut ==
    ASSUME Flushed
    PROVE  Spec => []ToldIfCut
<1>1. IInv => ToldIfCut
  <2> SUFFICES ASSUME IInv, command \notin Careless
               PROVE  /\ pc = "done" => (err = "none" <=> Written = Lines)
                      /\ note # 0 => pc = "done" /\ err = "none"
    BY DEF ToldIfCut
  <2>1. CASE pc = "done"
    BY <2>1 DEF IInv, EndInv
  <2>2. CASE pc = "write"
    BY <2>2 DEF IInv, CompleteInv
  <2>3. QED
    BY <2>1, <2>2 DEF IInv, TypeOK
<1>2. QED
  BY <1>1, Invariance, PTL
=============================================================================
