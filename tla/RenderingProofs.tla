-------------------------- MODULE RenderingProofs --------------------------
(***************************************************************************)
(* What the commands print, whatever there is to show: their documents are  *)
(* such as the theorems of OutputProofs ask for, and who reads the complete *)
(* output of a command learns what the command found out.                   *)
(***************************************************************************)
EXTENDS Rendering, OutputProofs, OrdersProofs

\* A table that is flushed below its last row, with lines to stdout behind it.
LEMMA TableFlushes ==
    ASSUME NEW C, Flush \in C, NEW rows \in Seq(C), NEW rest \in Seq(C),
           \A i \in DOMAIN rows : rows[i].op = "tab",
           \A i \in DOMAIN rest : rest[i].op = "out"
    PROVE  FlushesInTime(rows \o <<Flush>> \o rest)
<1> DEFINE table == rows \o <<Flush>>
           calls == table \o rest
           f == Len(rows) + 1
<1>1. /\ Len(rows) \in Nat /\ DOMAIN rows = 1 .. Len(rows)
      /\ Len(rest) \in Nat /\ DOMAIN rest = 1 .. Len(rest)
  BY LenProperties
<1>2. <<Flush>> \in Seq(C) /\ Len(<<Flush>>) = 1 /\ <<Flush>>[1] = Flush
  OBVIOUS
<1>3. /\ table \in Seq(C) /\ Len(table) = Len(rows) + 1
      /\ \A i \in 1 .. Len(rows) + 1 :
           table[i] = IF i <= Len(rows) THEN rows[i] ELSE <<Flush>>[i - Len(rows)]
  BY <1>2, ConcatProperties
<1>4. table[f] = Flush /\ f \in Nat /\ Len(table) = f
  <2>1. f \in 1 .. Len(rows) + 1 /\ ~(f <= Len(rows)) /\ f - Len(rows) = 1 /\ f \in Nat
    BY <1>1
  <2>2. QED
    BY <1>2, <1>3, <2>1
<1> HIDE DEF table, f
<1>5. /\ calls \in Seq(C) /\ Len(calls) = f + Len(rest)
      /\ \A i \in 1 .. f + Len(rest) :
           calls[i] = IF i <= f THEN table[i] ELSE rest[i - f]
  <2>1. table \in Seq(C) /\ Len(table) = f
    BY <1>3, <1>4
  <2>2. /\ calls \in Seq(C) /\ Len(calls) = Len(table) + Len(rest)
        /\ \A i \in 1 .. Len(table) + Len(rest) :
             calls[i] = IF i <= Len(table) THEN table[i] ELSE rest[i - Len(table)]
    BY <2>1, ConcatProperties
  <2>3. QED
    BY <2>1, <2>2
<1> HIDE DEF calls
<1>6. f \in 1 .. Len(calls) /\ Empties(calls[f])
  <2>1. f \in 1 .. f + Len(rest) /\ f <= f
    BY <1>1, <1>4 DEF f
  <2>2. calls[f] = Flush
    BY <1>4, <1>5, <2>1
  <2>3. QED
    BY <1>5, <2>1, <2>2 DEF Empties, Flush
<1>7. ASSUME NEW j \in 1 .. Len(calls), calls[j].op = "tab"
      PROVE  j < f
  <2>1. j # f
    BY <1>4, <1>5, <1>6, <1>7 DEF Flush
  <2>2. CASE j > f
    <3>1. j - f \in DOMAIN rest /\ calls[j] = rest[j - f]
      BY <1>1, <1>4, <1>5, <2>2
    <3>2. QED
      BY <1>7, <3>1
  <2>3. QED
    BY <1>4, <1>5, <2>1, <2>2
<1>8. ASSUME NEW k \in 1 .. Len(calls), calls[k].op = "out"
      PROVE  f < k
  <2>1. k # f
    BY <1>4, <1>5, <1>6, <1>8 DEF Flush
  <2>2. CASE k < f
    <3>1. k \in DOMAIN rows /\ k \in 1 .. Len(rows) + 1 /\ k <= Len(rows) /\ k <= f
      BY <1>1, <1>4, <1>5, <2>2 DEF f
    <3>2. calls[k] = rows[k]
      BY <1>3, <1>5, <3>1
    <3>3. QED
      BY <1>8, <3>1, <3>2
  <2>3. QED
    BY <1>4, <1>5, <2>1, <2>2
<1>9. FlushesInTime(calls)
  <2>1. SUFFICES ASSUME NEW j \in 1 .. Len(calls), Waits(calls[j])
                 PROVE  /\ \E e \in 1 .. Len(calls) : j < e /\ Empties(calls[e])
                        /\ \A k \in 1 .. Len(calls) : j < k /\ calls[k].op = "out" =>
                             \E e \in 1 .. Len(calls) : j < e /\ e < k /\ Empties(calls[e])
    BY DEF FlushesInTime
  <2>2. j < f
    BY <1>7, <2>1 DEF Waits
  <2>3. QED
    BY <1>6, <1>8, <2>2
<1>10. QED
  BY <1>9 DEF calls, table

\* A header above rows.
LEMMA HeaderAbove ==
    ASSUME NEW C, NEW header \in C, NEW n \in Nat, NEW rows \in [1 .. n -> C],
           header.op = "tab", \A i \in 1 .. n : rows[i].op = "tab"
    PROVE  /\ <<header>> \o rows \in Seq(C)
           /\ \A i \in DOMAIN (<<header>> \o rows) : (<<header>> \o rows)[i].op = "tab"
<1>1. /\ rows \in Seq(C) /\ Len(rows) = n
      /\ <<header>> \in Seq(C) /\ Len(<<header>>) = 1 /\ <<header>>[1] = header
  OBVIOUS
<1> DEFINE body == <<header>> \o rows
<1>2. /\ body \in Seq(C) /\ Len(body) = 1 + n
      /\ \A i \in 1 .. 1 + n : body[i] = IF i <= 1 THEN <<header>>[i] ELSE rows[i - 1]
  BY <1>1, ConcatProperties
<1>3. DOMAIN body = 1 .. 1 + n
  BY <1>2, LenProperties
<1> HIDE DEF body
<1>4. ASSUME NEW i \in 1 .. 1 + n PROVE body[i].op = "tab"
  <2>1. CASE i = 1
    BY <1>1, <1>2, <2>1
  <2>2. CASE i # 1
    <3>1. i - 1 \in 1 .. n /\ ~(i <= 1)
      BY <2>2
    <3>2. QED
      BY <1>2, <3>1
  <2>3. QED
    BY <2>1, <2>2
<1>5. QED
  BY <1>2, <1>3, <1>4 DEF body

\* A table as the commands print it: a header, a row for each element, the flush, and
\* perhaps a summary.
LEMMA TableOfRows ==
    ASSUME NEW header, NEW n \in Nat, NEW rows, rows = [i \in 1 .. n |-> rows[i]],
           header.op = "tab", \A i \in 1 .. n : rows[i].op = "tab",
           NEW summary, summary.op = "out"
    PROVE  /\ FlushesInTime(<<header>> \o rows \o <<Flush>>)
           /\ FlushesInTime(<<header>> \o rows \o <<Flush>> \o <<summary>>)
           /\ FlushesInTime(<<header>> \o rows \o <<Flush, summary>>)
<1> DEFINE C == {header, Flush, summary} \cup {rows[i] : i \in 1 .. n}
           body == <<header>> \o rows
<1>1. header \in C /\ Flush \in C /\ summary \in C /\ rows \in [1 .. n -> C]
  OBVIOUS
<1> HIDE DEF C
<1>2. body \in Seq(C) /\ \A i \in DOMAIN body : body[i].op = "tab"
  BY <1>1, HeaderAbove
<1> HIDE DEF body
<1>3. /\ <<>> \in Seq(C) /\ <<summary>> \in Seq(C) /\ <<Flush>> \in Seq(C)
      /\ DOMAIN <<>> = {} /\ DOMAIN <<summary>> = {1} /\ <<summary>>[1] = summary
  BY <1>1
<1>4. FlushesInTime(body \o <<Flush>> \o <<>>)
  BY <1>1, <1>2, <1>3, TableFlushes
<1>5. FlushesInTime(body \o <<Flush>> \o <<summary>>)
  BY <1>1, <1>2, <1>3, TableFlushes
<1>6. body \o <<Flush>> \in Seq(C) /\ body \o <<Flush>> \o <<>> = body \o <<Flush>>
  BY <1>2, <1>3, ConcatProperties, ConcatEmptySeq
<1>7. body \o <<Flush>> \o <<summary>> = body \o <<Flush, summary>>
  <2>1. <<Flush>> \o <<summary>> = <<Flush, summary>>
    <3>1. /\ Len(<<Flush>>) = 1 /\ Len(<<summary>>) = 1
          /\ <<Flush>>[1] = Flush /\ <<summary>>[1] = summary
      OBVIOUS
    <3>2. /\ <<Flush>> \o <<summary>> \in Seq(C) /\ Len(<<Flush>> \o <<summary>>) = 2
          /\ \A i \in 1 .. 2 : (<<Flush>> \o <<summary>>)[i]
                                 = IF i <= 1 THEN <<Flush>>[i] ELSE <<summary>>[i - 1]
      BY <1>3, <3>1, ConcatProperties
    <3>3. (<<Flush>> \o <<summary>>)[1] = Flush /\ (<<Flush>> \o <<summary>>)[2] = summary
      BY <3>1, <3>2
    <3>4. /\ <<Flush, summary>> \in Seq(C) /\ Len(<<Flush, summary>>) = 2
          /\ <<Flush, summary>>[1] = Flush /\ <<Flush, summary>>[2] = summary
      BY <1>1
    <3>5. \A i \in 1 .. 2 : (<<Flush>> \o <<summary>>)[i] = <<Flush, summary>>[i]
      <4>1. \A i \in 1 .. 2 : i = 1 \/ i = 2
        OBVIOUS
      <4>2. QED
        BY <3>3, <3>4, <4>1
    <3>6. QED
      BY <3>2, <3>4, <3>5, SeqEqual
  <2>2. QED
    BY <1>2, <1>3, <2>1, ConcatAssociative
<1>8. QED
  BY <1>4, <1>5, <1>6, <1>7 DEF body

\* ports, connections, dns and ping flush their table below its last row and print a
\* summary behind the flush, so the theorems of OutputProofs hold for them.
THEOREM TablesAreFlushed ==
    ASSUME NEW S, NEW s \in Seq(S), NEW result, result.packets = s
    PROVE  /\ FlushesInTime(PortsTable(s)) /\ FlushesInTime(ConnectionsTable(s))
           /\ FlushesInTime(DnsTable(s)) /\ FlushesInTime(PingTable(result))
<1>1. Len(s) \in Nat /\ DOMAIN s = 1 .. Len(s)
  BY LenProperties
<1> DEFINE summary == Summary(result)
           total == Out([records |-> Len(s), breakdown |-> Breakdown(s)])
<1>2. summary.op = "out" /\ total.op = "out" /\ \A c \in Nat : Header(c).op = "tab"
  BY DEF Summary, Out, Header, Tab
<1>3. FlushesInTime(PortsTable(s))
  <2> DEFINE rows == [i \in 1 .. Len(s) |-> PortRow(s[i])]
  <2>1. \A i \in 1 .. Len(s) : rows[i].op = "tab"
    BY DEF PortRow, Tab
  <2>2. PortsTable(s) = <<Header(5)>> \o rows \o <<Flush>>
    BY <1>1 DEF PortsTable, Each
  <2>3. rows = [i \in 1 .. Len(s) |-> rows[i]]
    OBVIOUS
  <2> HIDE DEF rows, summary
  <2>4. QED
    BY <1>1, <1>2, <2>1, <2>2, <2>3, TableOfRows
<1>4. FlushesInTime(ConnectionsTable(s))
  <2> DEFINE rows == [i \in 1 .. Len(s) |-> ConnectionRow(s[i])]
  <2>1. \A i \in 1 .. Len(s) : rows[i].op = "tab"
    BY DEF ConnectionRow, Tab
  <2>2. ConnectionsTable(s) = <<Header(6)>> \o rows \o <<Flush>>
    BY <1>1 DEF ConnectionsTable, Each
  <2>3. rows = [i \in 1 .. Len(s) |-> rows[i]]
    OBVIOUS
  <2> HIDE DEF rows, summary
  <2>4. QED
    BY <1>1, <1>2, <2>1, <2>2, <2>3, TableOfRows
<1>5. FlushesInTime(PingTable(result))
  <2> DEFINE rows == [i \in 1 .. Len(s) |-> PacketRow(s[i])]
  <2>1. \A i \in 1 .. Len(s) : rows[i].op = "tab"
    BY DEF PacketRow, Tab
  <2>2. PingTable(result) = <<Header(5)>> \o rows \o <<Flush, summary>>
    BY <1>1 DEF PingTable, Each
  <2>3. rows = [i \in 1 .. Len(s) |-> rows[i]]
    OBVIOUS
  <2> HIDE DEF rows, summary
  <2>4. FlushesInTime(<<Header(5)>> \o rows \o <<Flush, summary>>)
    <3>1. Header(5).op = "tab" /\ summary.op = "out" /\ Len(s) \in Nat
      BY <1>1, <1>2
    <3>2. QED
      BY <2>1, <2>3, <3>1, TableOfRows, Zenon
  <2>5. QED
    BY <2>2, <2>4, Zenon
<1>6. FlushesInTime(DnsTable(s))
  <2>1. CASE s = <<>>
    <3> DEFINE none == Out("no records")
               C == {none, total}
    <3>1. DnsTable(s) = <<none>> \o <<total>>
      BY <2>1 DEF DnsTable
    <3>2. none.op = "out" /\ total.op = "out"
      BY DEF Out
    <3>3. /\ <<none>> \in Seq(C) /\ <<total>> \in Seq(C)
          /\ Len(<<none>>) = 1 /\ Len(<<total>>) = 1
          /\ <<none>>[1] = none /\ <<total>>[1] = total
      OBVIOUS
    <3> HIDE DEF none, total, C
    <3>4. /\ <<none>> \o <<total>> \in Seq(C) /\ Len(<<none>> \o <<total>>) = 2
          /\ \A i \in 1 .. 2 : (<<none>> \o <<total>>)[i] \in C
      <4>1. <<none>> \o <<total>> \in Seq(C) /\ Len(<<none>> \o <<total>>) = 2
        BY <3>3, ConcatProperties
      <4>2. QED
        BY <4>1, ElementOfSeq
    <3>5. \A j \in 1 .. 2 : ~Waits((<<none>> \o <<total>>)[j])
      <4>1. \A x \in C : x.op = "out"
        BY <3>2 DEF C
      <4>2. QED
        BY <3>4, <4>1 DEF Waits
    <3>6. FlushesInTime(<<none>> \o <<total>>)
      BY <3>4, <3>5 DEF FlushesInTime
    <3>7. QED
      BY <3>1, <3>6, Zenon
  <2>2. CASE s # <<>>
    <3> DEFINE rows == [i \in 1 .. Len(s) |-> RecordRow(s[i])]
    <3>1. \A i \in 1 .. Len(s) : rows[i].op = "tab"
      BY DEF RecordRow, Tab
    <3>2. DnsTable(s) = <<Header(3)>> \o rows \o <<Flush>> \o <<total>>
      BY <1>1, <2>2 DEF DnsTable, Each
    <3>3. rows = [i \in 1 .. Len(s) |-> rows[i]]
      OBVIOUS
    <3> HIDE DEF rows, total
    <3>4. FlushesInTime(<<Header(3)>> \o rows \o <<Flush>> \o <<total>>)
      <4>1. Header(3).op = "tab" /\ total.op = "out" /\ Len(s) \in Nat
        BY <1>1, <1>2
      <4>2. QED
        BY <3>1, <3>3, <4>1, TableOfRows, Zenon
    <3>5. QED
      BY <3>2, <3>4, Zenon
  <2>3. QED
    BY <2>1, <2>2
<1>7. QED
  BY <1>3, <1>4, <1>5, <1>6

(***************************************************************************)
(* What stdout has of a complete document.                                  *)
(***************************************************************************)
\* Where two increasing sequences of the same numbers agree so far, they go on alike.
LEMMA NextNumber ==
    ASSUME NEW a \in Seq(Nat), NEW b \in Seq(Nat), Increasing(a), Increasing(b),
           Elements(a) = Elements(b), NEW i \in DOMAIN a,
           \A j \in 1 .. i - 1 : j \in DOMAIN a /\ j \in DOMAIN b /\ a[j] = b[j]
    PROVE  i \in DOMAIN b /\ a[i] = b[i]
<1>1. /\ Len(a) \in Nat /\ DOMAIN a = 1 .. Len(a) /\ \A j \in DOMAIN a : a[j] \in Nat
      /\ Len(b) \in Nat /\ DOMAIN b = 1 .. Len(b) /\ \A j \in DOMAIN b : b[j] \in Nat
  BY LenProperties, ElementOfSeq
<1>2. /\ \A j, k \in DOMAIN a : j < k => a[j] < a[k]
      /\ \A j, k \in DOMAIN b : j < k => b[j] < b[k]
  BY DEF Increasing
<1>3. /\ \A j \in DOMAIN a : \E k \in DOMAIN b : a[j] = b[k]
      /\ \A k \in DOMAIN b : \E j \in DOMAIN a : a[j] = b[k]
  BY DEF Elements
<1>4. PICK j \in DOMAIN b : a[i] = b[j]
  BY <1>3
<1>5. CASE j < i
  <2>1. j \in 1 .. i - 1
    BY <1>1, <1>5
  <2>2. a[j] < a[i] /\ a[j] = a[i]
    BY <1>2, <1>4, <1>5, <2>1
  <2>3. QED
    BY <1>1, <2>2
<1>6. CASE j > i
  <2>1. i \in DOMAIN b /\ b[i] < a[i]
    BY <1>1, <1>2, <1>4, <1>6
  <2>2. PICK k \in DOMAIN a : a[k] = b[i]
    BY <1>3, <2>1
  <2>3. CASE k < i
    <3>1. k \in 1 .. i - 1
      BY <1>1, <2>3
    <3>2. b[k] < b[i] /\ b[k] = b[i]
      BY <1>2, <2>1, <2>2, <2>3, <3>1
    <3>3. QED
      BY <1>1, <2>1, <3>2
  <2>4. CASE k = i
    BY <1>1, <2>1, <2>2, <2>4
  <2>5. CASE k > i
    <3>1. a[i] < a[k]
      BY <1>2, <2>5
    <3>2. QED
      BY <1>1, <2>1, <2>2, <3>1
  <2>6. QED
    BY <1>1, <2>3, <2>4, <2>5
<1>7. CASE j = i
  BY <1>4, <1>7
<1>8. QED
  BY <1>1, <1>5, <1>6, <1>7

\* There is one increasing sequence of given numbers.
LEMMA SameNumbers ==
    ASSUME NEW a \in Seq(Nat), NEW b \in Seq(Nat), Increasing(a), Increasing(b),
           Elements(a) = Elements(b)
    PROVE  a = b
<1> DEFINE Bad == {i \in DOMAIN a \cup DOMAIN b :
                     ~(i \in DOMAIN a /\ i \in DOMAIN b /\ a[i] = b[i])}
<1>1. /\ Len(a) \in Nat /\ DOMAIN a = 1 .. Len(a)
      /\ Len(b) \in Nat /\ DOMAIN b = 1 .. Len(b)
  BY LenProperties
<1>2. ASSUME Bad # {} PROVE FALSE
  <2>1. Bad \in SUBSET Nat
    BY <1>1
  <2>2. PICK i \in Bad : \A j \in Bad : i <= j
    BY <1>2, <2>1, Least
  <2>3. i \in DOMAIN a \/ i \in DOMAIN b
    OBVIOUS
  <2>4. \A j \in 1 .. i - 1 : j \in DOMAIN a /\ j \in DOMAIN b /\ a[j] = b[j]
    <3>1. ASSUME NEW j \in 1 .. i - 1 PROVE j \notin Bad /\ j \in DOMAIN a \cup DOMAIN b
      <4>1. i \in Nat
        BY <2>1
      <4>2. j \in DOMAIN a \cup DOMAIN b
        BY <1>1, <2>3, <4>1
      <4>3. j \notin Bad
        <5>1. ~(i <= j)
          BY <4>1
        <5>2. QED
          BY <2>2, <5>1
      <4>4. QED
        BY <4>2, <4>3
    <3>2. QED
      BY <3>1
  <2>5. i \in DOMAIN a /\ i \in DOMAIN b /\ a[i] = b[i]
    BY <2>3, <2>4, NextNumber
  <2>6. QED
    BY <2>5
<1>3. \A i \in DOMAIN a \cup DOMAIN b : i \in DOMAIN a /\ i \in DOMAIN b /\ a[i] = b[i]
  BY <1>2
<1>4. Len(a) = Len(b)
  <2>1. ~(Len(a) < Len(b))
    <3>1. Len(a) < Len(b) => Len(b) \in DOMAIN b /\ Len(b) \notin DOMAIN a
      BY <1>1
    <3>2. QED
      BY <1>3, <3>1
  <2>2. ~(Len(b) < Len(a))
    <3>1. Len(b) < Len(a) => Len(a) \in DOMAIN a /\ Len(a) \notin DOMAIN b
      BY <1>1
    <3>2. QED
      BY <1>3, <3>1
  <2>3. Len(a) \in Nat /\ Len(b) \in Nat
    BY <1>1
  <2>4. QED
    BY <2>1, <2>2, <2>3
<1>5. QED
  BY <1>1, <1>3, <1>4, SeqEqual

(***************************************************************************)
(* Texts joined of parts, and their division.                               *)
(***************************************************************************)
\* The text is the parts one after the other, and part i ends at o[i].
Joins(text, parts, o) ==
    /\ o \in [0 .. Len(parts) -> Nat] /\ o[0] = 0
    /\ \A i \in 1 .. Len(parts) : o[i] = o[i - 1] + Len(parts[i])
    /\ Len(text) = o[Len(parts)]
    /\ \A i \in 1 .. Len(parts) : \A k \in 1 .. Len(parts[i]) : text[o[i - 1] + k] = parts[i][k]

\* The recursion of FlattenSeq, up to part m.
Flattens(f, parts, m) ==
    f = [i \in 1 .. m |-> IF i = 1 THEN parts[i] ELSE f[i - 1] \o parts[i]]

\* The value for part i is the one before it and the part.
Grows(f, parts, i) ==
    /\ Len(f[i]) = Len(f[i - 1]) + Len(parts[i])
    /\ \A k \in 1 .. Len(f[i - 1]) : f[i][k] = f[i - 1][k]
    /\ \A k \in 1 .. Len(parts[i]) : f[i][Len(f[i - 1]) + k] = parts[i][k]

\* The recursion has a solution.
LEMMA FlattensOn ==
    ASSUME NEW parts, NEW n \in Nat
    PROVE  \E f : Flattens(f, parts, n)
<1> DEFINE Bad == {m \in Nat : ~\E f : Flattens(f, parts, m)}
<1>1. ASSUME Bad # {} PROVE FALSE
  <2>1. PICK m \in Bad : \A j \in Bad : m <= j
    BY <1>1, Least
  <2>2. CASE m = 0
    <3>1. Flattens([i \in 1 .. m |-> parts], parts, m)
      BY <2>2 DEF Flattens
    <3>2. QED
      BY <2>1, <3>1
  <2>3. CASE m # 0
    <3>1. m \in Nat /\ m - 1 \in Nat
      BY <2>3
    <3>2. m - 1 \notin Bad
      <4>1. ~(m <= m - 1)
        BY <3>1
      <4> HIDE DEF Bad
      <4>2. QED
        BY <2>1, <4>1
    <3>3. PICK f : Flattens(f, parts, m - 1)
      BY <3>1, <3>2
    <3> DEFINE last == IF m = 1 THEN parts[m] ELSE f[m - 1] \o parts[m]
               g == [i \in 1 .. m |-> IF i = m THEN last ELSE f[i]]
    <3>4. ASSUME NEW i \in 1 .. m
          PROVE  g[i] = IF i = 1 THEN parts[i] ELSE g[i - 1] \o parts[i]
      <4>1. CASE i = m
        <5>1. i # 1 => g[i - 1] = f[m - 1]
          BY <3>1, <4>1
        <5>2. g[i] = last
          BY <4>1
        <5>3. QED
          BY <4>1, <5>1, <5>2
      <4>2. CASE i # m
        <5>1. i \in 1 .. m - 1 /\ g[i] = f[i] /\ (i # 1 => g[i - 1] = f[i - 1])
          BY <3>1, <4>2
        <5>2. f[i] = IF i = 1 THEN parts[i] ELSE f[i - 1] \o parts[i]
          BY <3>3, <5>1 DEF Flattens
        <5>3. QED
          BY <5>1, <5>2
      <4>3. QED
        BY <4>1, <4>2
    <3> HIDE DEF last
    <3>5. Flattens(g, parts, m)
      <4>1. g = [i \in 1 .. m |-> g[i]]
        OBVIOUS
      <4> HIDE DEF g
      <4>2. [i \in 1 .. m |-> g[i]]
              = [i \in 1 .. m |-> IF i = 1 THEN parts[i] ELSE g[i - 1] \o parts[i]]
        BY <3>4
      <4>3. QED
        BY <4>1, <4>2 DEF Flattens
    <3>6. QED
      BY <2>1, <3>5
  <2>4. QED
    BY <2>2, <2>3
<1>2. QED
  BY <1>1

\* FlattenSeq is the last value of a solution.
LEMMA FlattenSeqIs ==
    ASSUME NEW parts, Len(parts) \in Nat, Len(parts) # 0
    PROVE  \E f : Flattens(f, parts, Len(parts)) /\ Seqs!FlattenSeq(parts) = f[Len(parts)]
<1> DEFINE f == CHOOSE g : g = [i \in 1 .. Len(parts) |->
                                 IF i = 1 THEN parts[i] ELSE g[i - 1] \o parts[i]]
<1>1. Seqs!FlattenSeq(parts) = f[Len(parts)]
  BY DEF Seqs!FlattenSeq
<1>2. \E g : Flattens(g, parts, Len(parts))
  BY FlattensOn
<1>3. Flattens(f, parts, Len(parts))
  BY <1>2 DEF Flattens
<1>4. QED
  BY <1>1, <1>3

\* Each value of the recursion begins with the one before it.
LEMMA FlattensStep ==
    ASSUME NEW C, NEW parts \in Seq(Seq(C)), NEW f, Flattens(f, parts, Len(parts))
    PROVE  /\ \A i \in 1 .. Len(parts) : f[i] \in Seq(C) /\ (i # 1 => Grows(f, parts, i))
           /\ 1 \in 1 .. Len(parts) => f[1] = parts[1]
<1>1. /\ Len(parts) \in Nat /\ \A i \in 1 .. Len(parts) : parts[i] \in Seq(C)
      /\ \A i \in 1 .. Len(parts) : f[i] = IF i = 1 THEN parts[i] ELSE f[i - 1] \o parts[i]
  BY LenProperties, ElementOfSeq DEF Flattens
<1> DEFINE Bad == {i \in 1 .. Len(parts) : f[i] \notin Seq(C)}
<1>2. ASSUME Bad # {} PROVE FALSE
  <2>1. PICK i \in Bad : \A j \in Bad : i <= j
    <3>1. Bad \in SUBSET Nat
      BY <1>1
    <3> HIDE DEF Bad
    <3>2. QED
      BY <1>2, <3>1, Least
  <2>2. CASE i = 1
    BY <1>1, <2>1, <2>2
  <2>3. CASE i # 1
    <3>1. i - 1 \in 1 .. Len(parts) /\ ~(i <= i - 1)
      BY <1>1, <2>3
    <3>2. f[i - 1] \in Seq(C)
      BY <2>1, <3>1
    <3>3. f[i] \in Seq(C)
      BY <1>1, <2>3, <3>2, ConcatProperties
    <3>4. QED
      BY <2>1, <3>3
  <2>4. QED
    BY <2>2, <2>3
<1>3. ASSUME NEW i \in 1 .. Len(parts), i # 1
      PROVE  Grows(f, parts, i)
  <2>1. i - 1 \in 1 .. Len(parts)
    BY <1>1, <1>3
  <2> DEFINE a == f[i - 1]
             b == parts[i]
  <2>2. a \in Seq(C) /\ b \in Seq(C) /\ f[i] = a \o b
    BY <1>1, <1>2, <1>3, <2>1
  <2> HIDE DEF a, b
  <2>3. Len(a) \in Nat /\ Len(b) \in Nat
    BY <2>2, LenProperties
  <2>4. /\ Len(f[i]) = Len(a) + Len(b)
        /\ \A k \in 1 .. Len(a) + Len(b) : f[i][k] = IF k <= Len(a) THEN a[k] ELSE b[k - Len(a)]
    BY <2>2, ConcatProperties
  <2>5. \A k \in 1 .. Len(a) : k \in 1 .. Len(a) + Len(b) /\ k <= Len(a)
    BY <2>3
  <2>6. \A k \in 1 .. Len(b) : /\ Len(a) + k \in 1 .. Len(a) + Len(b)
                                /\ ~(Len(a) + k <= Len(a)) /\ (Len(a) + k) - Len(a) = k
    BY <2>3
  <2>7. \A k \in 1 .. Len(b) : f[i][Len(a) + k] = b[k]
    BY <2>4, <2>6
  <2>8. QED
    BY <2>4, <2>5, <2>7 DEF a, b, Grows
<1>4. QED
  BY <1>1, <1>2, <1>3

\* FlattenSeq joins its parts.
LEMMA Flattened ==
    ASSUME NEW C, NEW parts \in Seq(Seq(C))
    PROVE  /\ Seqs!FlattenSeq(parts) \in Seq(C)
           /\ \E o : Joins(Seqs!FlattenSeq(parts), parts, o)
<1> DEFINE n == Len(parts)
           text == Seqs!FlattenSeq(parts)
<1>1. n \in Nat /\ \A i \in 1 .. n : parts[i] \in Seq(C) /\ Len(parts[i]) \in Nat
  BY LenProperties, ElementOfSeq
<1>2. CASE n = 0
  <2>1. text = parts /\ parts = <<>>
    BY <1>2, EmptySeq DEF Seqs!FlattenSeq
  <2>2. Joins(text, parts, [i \in 0 .. 0 |-> 0])
    BY <1>2, <2>1 DEF Joins
  <2>3. QED
    BY <2>1, <2>2
<1>3. CASE n # 0
  <2>1. PICK f : Flattens(f, parts, n) /\ text = f[n]
    BY <1>1, <1>3, FlattenSeqIs
  <2> DEFINE o == [i \in 0 .. n |-> IF i = 0 THEN 0 ELSE Len(f[i])]
  <2>2. /\ \A i \in 1 .. n : f[i] \in Seq(C) /\ (i # 1 => Grows(f, parts, i))
        /\ 1 \in 1 .. n => f[1] = parts[1]
    BY <2>1, FlattensStep
  <2> HIDE DEF n, text
  <2>3. \A i \in 1 .. n : Len(f[i]) \in Nat
    BY <2>2, LenProperties
  <2>4. o \in [0 .. n -> Nat] /\ o[0] = 0
    BY <1>1, <2>3
  <2>5. ASSUME NEW i \in 1 .. n
        PROVE  /\ o[i] = o[i - 1] + Len(parts[i])
               /\ \A k \in 1 .. Len(parts[i]) : f[i][o[i - 1] + k] = parts[i][k]
    <3>1. i - 1 \in 0 .. n /\ i \in 0 .. n /\ o[i] = Len(f[i])
      BY <1>1
    <3>2. CASE i = 1
      <4>1. f[i] = parts[i] /\ o[i - 1] = 0
        <5>1. i - 1 = 0
          BY <3>2
        <5>2. QED
          BY <2>2, <2>4, <3>2, <5>1
      <4>2. \A k \in 1 .. Len(parts[i]) : 0 + k = k
        BY <1>1
      <4> HIDE DEF o
      <4>3. QED
        BY <1>1, <3>1, <4>1, <4>2
    <3>3. CASE i # 1
      <4>1. o[i - 1] = Len(f[i - 1])
        BY <3>1, <3>3
      <4> HIDE DEF o
      <4>2. QED
        BY <2>2, <3>1, <3>3, <4>1 DEF Grows
    <3>4. QED
      BY <3>2, <3>3
  <2>6. ASSUME NEW i \in 1 .. n, NEW k \in 1 .. Len(f[i])
        PROVE  text[k] = f[i][k]
    <3> DEFINE Bad == {m \in 1 .. n : i <= m /\ ~(Len(f[i]) <= Len(f[m]) /\ f[m][k] = f[i][k])}
    <3>1. ASSUME Bad # {} PROVE FALSE
      <4>1. PICK m \in Bad : \A j \in Bad : m <= j
        <5>1. Bad \in SUBSET Nat
          BY <1>1
        <5> HIDE DEF Bad
        <5>2. QED
          BY <3>1, <5>1, Least
      <4>2. m # i /\ m > i /\ m \in 1 .. n
        BY <1>1, <2>3
      <4>3. m - 1 \in 1 .. n /\ i <= m - 1 /\ ~(m <= m - 1) /\ m # 1
        BY <1>1, <4>2
      <4>4. Len(f[i]) <= Len(f[m - 1]) /\ f[m - 1][k] = f[i][k]
        BY <4>1, <4>3
      <4>5. /\ Len(f[m]) = Len(f[m - 1]) + Len(parts[m])
            /\ \A j \in 1 .. Len(f[m - 1]) : f[m][j] = f[m - 1][j]
        BY <2>2, <4>2, <4>3 DEF Grows
      <4>6. /\ Len(f[m - 1]) \in Nat /\ Len(f[i]) \in Nat /\ Len(parts[m]) \in Nat
            /\ k \in 1 .. Len(f[m - 1])
        BY <1>1, <2>3, <4>2, <4>3, <4>4
      <4>7. Len(f[i]) <= Len(f[m]) /\ f[m][k] = f[i][k]
        <5>0. Len(f[m]) \in Nat
          BY <2>3, <4>2
        <5>1. f[m][k] = f[m - 1][k]
          BY <4>5, <4>6
        <5>2. Len(f[m - 1]) <= Len(f[m])
          <6>1. Len(f[m]) = Len(f[m - 1]) + Len(parts[m])
            BY <4>5
          <6>2. \A x, y, z \in Nat : z = x + y => x <= z
            OBVIOUS
          <6>3. QED
            BY <4>6, <5>0, <6>1, <6>2
        <5>3. QED
          BY <4>4, <4>6, <5>0, <5>1, <5>2
      <4>8. QED
        BY <4>1, <4>7
    <3>2. n \in 1 .. n /\ i <= n
      BY <1>1
    <3>3. QED
      BY <2>1, <3>1, <3>2
  <2>7. ASSUME NEW i \in 1 .. n, NEW k \in 1 .. Len(parts[i])
        PROVE  text[o[i - 1] + k] = parts[i][k]
    <3>1. i - 1 \in 0 .. n /\ i \in 0 .. n /\ o[i] = Len(f[i]) /\ o[i - 1] \in Nat
      BY <1>1, <2>4
    <3> HIDE DEF o
    <3>2. o[i - 1] + k \in 1 .. Len(f[i])
      BY <1>1, <2>5, <3>1
    <3>3. QED
      BY <2>5, <2>6, <3>2
  <2>8. text \in Seq(C) /\ Len(text) = o[n]
    <3>1. n \in 1 .. n /\ n \in 0 .. n
      BY <1>1, <1>3
    <3>2. QED
      BY <1>3, <2>1, <2>2, <3>1
  <2>9. Joins(text, parts, o)
    <3> HIDE DEF o
    <3>1. QED
      BY <2>4, <2>5, <2>7, <2>8 DEF Joins, n
  <2>10. QED
    BY <2>8, <2>9 DEF text
<1>4. QED
  BY <1>2, <1>3

\* The ends of the parts rise.
LEMMA EndsRise ==
    ASSUME NEW n \in Nat, NEW o \in [0 .. n -> Nat], \A i \in 1 .. n : o[i - 1] < o[i]
    PROVE  \A i, j \in 0 .. n : i < j => o[i] < o[j]
<1> SUFFICES ASSUME NEW i \in 0 .. n, NEW j0 \in 0 .. n, i < j0 PROVE o[i] < o[j0]
  OBVIOUS
<1> DEFINE Bad == {j \in 0 .. n : i < j /\ ~(o[i] < o[j])}
<1>1. ASSUME Bad # {} PROVE FALSE
  <2>1. PICK j \in Bad : \A k \in Bad : j <= k
    <3>1. Bad \in SUBSET Nat
      OBVIOUS
    <3> HIDE DEF Bad
    <3>2. QED
      BY <1>1, <3>1, Least
  <2>2. j \in 1 .. n /\ j - 1 \in 0 .. n /\ ~(j <= j - 1)
    OBVIOUS
  <2>3. o[j - 1] < o[j] /\ o[i] \in Nat /\ o[j] \in Nat /\ o[j - 1] \in Nat
    BY <2>2
  <2>4. CASE i = j - 1
    BY <2>1, <2>3, <2>4
  <2>5. CASE i < j - 1
    <3>1. o[i] < o[j - 1]
      BY <2>1, <2>2, <2>5
    <3>2. QED
      BY <2>1, <2>3, <3>1
  <2>6. QED
    BY <2>2, <2>4, <2>5
<1>2. QED
  BY <1>1

\* Every line belongs to one part.
LEMMA PartOf ==
    ASSUME NEW n \in Nat, NEW o \in [0 .. n -> Nat], o[0] = 0, NEW p \in 1 .. o[n]
    PROVE  \E i \in 1 .. n : o[i - 1] < p /\ p <= o[i]
<1> DEFINE S == {i \in 0 .. n : p <= o[i]}
<1>1. S \in SUBSET Nat /\ n \in S
  OBVIOUS
<1>2. PICK i \in S : \A j \in S : i <= j
  <2> HIDE DEF S
  <2>1. QED
    BY <1>1, Least
<1>3. i # 0
  OBVIOUS
<1>4. i \in 1 .. n /\ i - 1 \in 0 .. n /\ ~(i <= i - 1)
  BY <1>3
<1>5. ~(p <= o[i - 1])
  BY <1>2, <1>4
<1>6. o[i - 1] \in Nat /\ p \in Nat
  BY <1>4
<1>7. QED
  BY <1>4, <1>5, <1>6

\* Numbers that rise are ranked as they stand.
LEMMA RankedNumbers ==
    ASSUME NEW first \in Seq(Nat), Increasing(first), NEW I, I = Elements(first)
    PROVE  Ranked(I, {p \in I \X I : p[1] < p[2]}) = first
<1> DEFINE R == {p \in I \X I : p[1] < p[2]}
           at == Ranked(I, R)
<1>1. /\ Len(first) \in Nat /\ DOMAIN first = 1 .. Len(first)
      /\ \A i \in DOMAIN first : first[i] \in Nat
  BY LenProperties, ElementOfSeq
<1>2. I \in SUBSET Nat
  BY <1>1 DEF Elements
<1>3. IsFiniteSet(I)
  <2>1. first \in Surjection(1 .. Len(first), I)
    <3>1. first \in [1 .. Len(first) -> Nat]
      BY LenProperties
    <3>2. QED
      BY <1>1, <3>1 DEF Surjection, Elements
  <2>2. IsFiniteSet(1 .. Len(first))
    BY <1>1, IntervalCount
  <2>3. QED
    BY <2>1, <2>2, FS_Surjection
<1>4. StrictOrder(R, I)
  <2>1. \A i, j \in I : <<i, j>> \in R <=> i < j
    OBVIOUS
  <2> HIDE DEF R
  <2>2. \A i, j, k \in I : /\ ~(i < i) /\ (i < j /\ j < k => i < k)
                           /\ (i = j \/ i < j \/ j < i)
    BY <1>2
  <2>3. \A i \in I : <<i, i>> \notin R
    BY <2>1, <2>2
  <2>4. ASSUME NEW i \in I, NEW j \in I, NEW k \in I, <<i, j>> \in R, <<j, k>> \in R
        PROVE  <<i, k>> \in R
    BY <2>1, <2>2, <2>4
  <2>5. \A i, j \in I : i = j \/ <<i, j>> \in R \/ <<j, i>> \in R
    BY <2>1, <2>2
  <2>6. QED
    BY <2>3, <2>4, <2>5 DEF StrictOrder
<1> DEFINE N == Cardinality(I)
<1>5. /\ N \in Nat /\ at \in Bijection(1 .. N, I)
      /\ \A i, j \in 1 .. N : i < j => <<at[i], at[j]>> \in R
  <2> HIDE DEF R
  <2>1. QED
    BY <1>3, <1>4, RankedLists
<1> HIDE DEF at, N
<1>6. /\ at \in [1 .. N -> I] /\ \A x \in I : \E i \in 1 .. N : at[i] = x
  BY <1>5 DEF Bijection, Surjection, Injection
<1>7. at \in Seq(Nat) /\ Increasing(at) /\ DOMAIN at = 1 .. N
  <2>1. at \in [1 .. N -> Nat]
    BY <1>2, <1>6
  <2>2. at \in Seq(Nat)
    BY <1>5, <2>1, SeqDef
  <2>3. \A i, j \in 1 .. N : i < j => at[i] < at[j]
    BY <1>5
  <2>4. QED
    BY <1>6, <2>2, <2>3 DEF Increasing
<1>8. Elements(at) = Elements(first)
  BY <1>6, <1>7 DEF Elements
<1>9. at = first
  BY <1>7, <1>8, SameNumbers
<1>10. QED
  BY <1>9 DEF at

\* The first lines of the parts, ranked, are the first line of the first part, of the
\* second, and so on.
LEMMA StartsRanked ==
    ASSUME NEW n \in Nat, NEW o \in [0 .. n -> Nat], \A i \in 1 .. n : o[i - 1] < o[i],
           NEW starts, starts = {o[i - 1] + 1 : i \in 1 .. n}
    PROVE  Ranked(starts, {p \in starts \X starts : p[1] < p[2]}) = [i \in 1 .. n |-> o[i - 1] + 1]
<1> DEFINE first == [i \in 1 .. n |-> o[i - 1] + 1]
<1>1. \A i, j \in 0 .. n : i < j => o[i] < o[j]
  BY EndsRise
<1>2. \A i \in 1 .. n : i - 1 \in 0 .. n /\ o[i - 1] \in Nat
  OBVIOUS
<1>3. first \in Seq(Nat) /\ Increasing(first) /\ Elements(first) = starts
  <2>1. first \in [1 .. n -> Nat]
    BY <1>2
  <2>2. \A i, j \in 1 .. n : i < j => o[i - 1] + 1 < o[j - 1] + 1
    <3>1. ASSUME NEW i \in 1 .. n, NEW j \in 1 .. n, i < j PROVE o[i - 1] + 1 < o[j - 1] + 1
      <4>1. i - 1 < j - 1
        BY <3>1
      <4>2. o[i - 1] < o[j - 1]
        BY <1>1, <1>2, <4>1
      <4>3. QED
        BY <1>2, <4>2
    <3>2. QED
      BY <3>1
  <2>3. QED
    BY <2>1, <2>2, SeqDef DEF Increasing, Elements
<1> HIDE DEF first
<1>4. Ranked(starts, {p \in starts \X starts : p[1] < p[2]}) = first
  BY <1>3, RankedNumbers
<1>5. QED
  BY <1>4 DEF first

\* Where n parts begin of which part i ends at o[i].
Starts(n, o) == {o[i - 1] + 1 : i \in 1 .. n}

\* The parts.
Cuts(lines, n, o) == [i \in 1 .. n |-> SubSeq(lines, o[i - 1] + 1, o[i])]

\* The sections of a text are its parts again.
LEMMA Divided ==
    ASSUME NEW lines, NEW n \in Nat, NEW o \in [0 .. n -> Nat],
           o[0] = 0, o[n] = Len(lines), \A i \in 1 .. n : o[i - 1] < o[i],
           NEW starts, starts = Starts(n, o)
    PROVE  Sections(lines, starts) = Cuts(lines, n, o)
<1> DEFINE ends(i) == {j - 1 : j \in {k \in starts : k > i}} \cup {Len(lines)}
           end(i) == CHOOSE e \in ends(i) : \A x \in ends(i) : e <= x
           order == Ranked(starts, {p \in starts \X starts : p[1] < p[2]})
<1>0. starts = {o[i - 1] + 1 : i \in 1 .. n}
  BY DEF Starts
<1>1. order = [i \in 1 .. n |-> o[i - 1] + 1]
  BY <1>0, StartsRanked
<1>2. \A i, j \in 0 .. n : i < j => o[i] < o[j]
  BY EndsRise
<1>3. ASSUME NEW i \in 1 .. n PROVE end(order[i]) = o[i]
  <2>1. i - 1 \in 0 .. n /\ i \in 0 .. n /\ o[i - 1] \in Nat /\ o[i] \in Nat
    OBVIOUS
  <2>2. order[i] = o[i - 1] + 1
    BY <1>1
  <2> DEFINE E == ends(order[i])
  <2>3. o[i] \in E
    <3>1. CASE i = n
      BY <3>1
    <3>2. CASE i # n
      <4>1. i + 1 \in 1 .. n /\ (i + 1) - 1 = i
        BY <3>2
      <4>2. o[i] + 1 \in starts
        BY <1>0, <4>1
      <4>3. o[i] + 1 > order[i] /\ (o[i] + 1) - 1 = o[i]
        BY <2>1, <2>2
      <4>4. QED
        BY <4>2, <4>3
    <3>3. QED
      BY <3>1, <3>2
  <2>4. ASSUME NEW e \in E PROVE o[i] <= e /\ e \in Nat
    <3>1. CASE e = Len(lines)
      <4>1. n \in 0 .. n /\ (i < n \/ i = n)
        OBVIOUS
      <4>2. o[i] < o[n] \/ o[i] = o[n]
        BY <1>2, <2>1, <4>1
      <4>3. QED
        BY <2>1, <3>1, <4>1, <4>2
    <3>2. ASSUME NEW j \in starts, j > order[i], e = j - 1 PROVE o[i] <= e /\ e \in Nat
      <4>1. PICK k \in 1 .. n : j = o[k - 1] + 1
        BY <1>0
      <4>2. k - 1 \in 0 .. n /\ o[k - 1] \in Nat /\ e = o[k - 1] /\ o[i - 1] < o[k - 1]
        BY <2>1, <2>2, <3>2, <4>1
      <4>3. ~(k - 1 < i - 1) /\ k - 1 # i - 1
        BY <1>2, <2>1, <4>2
      <4>4. i < k - 1 \/ i = k - 1
        BY <4>3
      <4>5. o[i] < o[k - 1] \/ o[i] = o[k - 1]
        BY <1>2, <2>1, <4>2, <4>4
      <4>6. QED
        BY <2>1, <4>2, <4>5
    <3>3. QED
      BY <3>1, <3>2
  <2> HIDE DEF E
  <2>5. (CHOOSE e \in E : \A x \in E : e <= x) = o[i]
    <3>1. \A x \in E : o[i] <= x
      BY <2>4
    <3>2. ASSUME NEW e \in E, \A x \in E : e <= x PROVE e = o[i]
      <4>1. e <= o[i] /\ o[i] <= e /\ e \in Nat
        BY <2>3, <2>4, <3>2
      <4>2. QED
        BY <2>1, <4>1
    <3>3. QED
      BY <2>3, <3>1, <3>2
  <2>6. QED
    BY <2>5 DEF E
<1>4. Sections(lines, starts) = [i \in DOMAIN order |-> SubSeq(lines, order[i], end(order[i]))]
  BY DEF Sections
<1> HIDE DEF order, end
<1>5. DOMAIN order = 1 .. n
  BY <1>1
<1>6. \A i \in 1 .. n : order[i] = o[i - 1] + 1
  BY <1>1
<1>7. QED
  BY <1>3, <1>4, <1>5, <1>6 DEF Cuts

(***************************************************************************)
(* The lines of a complete document.                                        *)
(***************************************************************************)
\* A part of a sequence.
LEMMA Cut ==
    ASSUME NEW n \in Nat, NEW s, s = [i \in 1 .. n |-> s[i]],
           NEW a \in Nat, NEW b \in Nat, 1 <= a, a <= b + 1, b <= n
    PROVE  SubSeq(s, a, b) = [i \in 1 .. b - a + 1 |-> s[a + i - 1]]
<1> DEFINE S == {s[i] : i \in 1 .. n}
           c == SubSeq(s, a, b)
           d == [i \in 1 .. b - a + 1 |-> s[a + i - 1]]
<1>1. \A i \in a .. b : s[i] \in S
  <2>1. \A i \in a .. b : i \in 1 .. n
    OBVIOUS
  <2>2. QED
    BY <2>1
<1>2. b - a + 1 \in Nat
  OBVIOUS
<1> HIDE DEF S
<1>3. /\ c \in Seq(S)
      /\ Len(c) = IF a <= b THEN b - a + 1 ELSE 0
      /\ \A i \in 1 .. b - a + 1 : c[i] = s[a + i - 1]
  <2>1. a \in Int /\ b \in Int
    OBVIOUS
  <2>2. SubSeq(s, a, b) \in Seq(S)
    BY <1>1, <2>1, SubSeqProperties
  <2>3. Len(SubSeq(s, a, b)) = IF a <= b THEN b - a + 1 ELSE 0
    BY <1>1, <2>1, SubSeqProperties
  <2>4. \A i \in 1 .. b - a + 1 : SubSeq(s, a, b)[i] = s[a + i - 1]
    BY <1>1, <2>1, SubSeqProperties
  <2>5. QED
    BY <2>2, <2>3, <2>4
<1> HIDE DEF c
<1>4. Len(c) = b - a + 1
  BY <1>3
<1>5. DOMAIN c = 1 .. b - a + 1
  BY <1>3, <1>4, LenProperties
<1>6. c = [i \in DOMAIN c |-> c[i]]
  BY <1>3, SeqDef
<1>7. QED
  BY <1>3, <1>5, <1>6 DEF c

\* Everything has been written.
Whole == stdout \in Seq(Nat) /\ Increasing(stdout) /\ Written = Lines

\* A complete document shows the lines above its flush and those below it.
LEMMA ShownWhole ==
    ASSUME Whole, NEW C, Flush \in C, NEW above \in Seq(C), NEW below \in Seq(C),
           \A i \in DOMAIN above : above[i].op # "flush",
           \A i \in DOMAIN below : below[i].op # "flush",
           doc.calls = above \o <<Flush>> \o below
    PROVE  Shown = [i \in 1 .. Len(above) + Len(below) |->
                      IF i <= Len(above) THEN above[i].line ELSE below[i - Len(above)].line]
<1> DEFINE a == Len(above)
           b == Len(below)
           calls == above \o <<Flush>>
           kept == [i \in 1 .. a + b |-> IF i <= a THEN i ELSE i + 1]
<1>1. a \in Nat /\ DOMAIN above = 1 .. a /\ b \in Nat /\ DOMAIN below = 1 .. b
  BY LenProperties
<1>2. /\ calls \in Seq(C) /\ Len(calls) = a + 1
      /\ \A i \in 1 .. a + 1 : calls[i] = IF i <= a THEN above[i] ELSE <<Flush>>[i - a]
  <2>1. <<Flush>> \in Seq(C) /\ Len(<<Flush>>) = 1
    OBVIOUS
  <2>2. QED
    BY <2>1, ConcatProperties
<1>3. /\ Len(doc.calls) = a + 1 + b
      /\ \A i \in 1 .. a + 1 + b :
           doc.calls[i] = IF i <= a + 1 THEN calls[i] ELSE below[i - (a + 1)]
  <2> HIDE DEF a, b
  <2>1. doc.calls = calls \o below
    OBVIOUS
  <2> HIDE DEF calls
  <2>2. /\ Len(calls \o below) = Len(calls) + Len(below)
        /\ \A i \in 1 .. Len(calls) + Len(below) :
             (calls \o below)[i] = IF i <= Len(calls) THEN calls[i] ELSE below[i - Len(calls)]
    BY <1>2, ConcatProperties
  <2>3. Len(calls) = a + 1 /\ Len(below) = b
    BY <1>2 DEF b
  <2>4. QED
    BY <2>1, <2>2, <2>3, Zenon
<1> HIDE DEF calls, a, b
<1>4. /\ \A i \in 1 .. a : doc.calls[i] = above[i]
      /\ doc.calls[a + 1] = Flush
      /\ \A i \in 1 .. b : doc.calls[a + 1 + i] = below[i]
  <2>1. \A i \in 1 .. a : doc.calls[i] = above[i]
    BY <1>1, <1>2, <1>3
  <2>2. doc.calls[a + 1] = Flush
    <3>1. a + 1 \in 1 .. a + 1 /\ ~(a + 1 <= a) /\ (a + 1) - a = 1
      BY <1>1
    <3>2. calls[a + 1] = <<Flush>>[1]
      BY <1>2, <3>1
    <3>3. a + 1 \in 1 .. a + 1 + b /\ a + 1 <= a + 1
      BY <1>1
    <3>4. QED
      BY <1>3, <3>2, <3>3
  <2>3. ASSUME NEW i \in 1 .. b PROVE doc.calls[a + 1 + i] = below[i]
    <3>1. /\ a + 1 + i \in 1 .. a + 1 + b /\ ~(a + 1 + i <= a + 1)
          /\ (a + 1 + i) - (a + 1) = i
      BY <1>1
    <3>2. QED
      BY <1>3, <3>1
  <2>4. QED
    BY <2>1, <2>2, <2>3
<1>5. Lines = {i \in 1 .. a + 1 + b : i # a + 1}
  <2>1. ASSUME NEW i \in 1 .. a + 1 + b PROVE doc.calls[i].op # "flush" <=> i # a + 1
    <3>1. CASE i <= a
      <4>1. i \in 1 .. a /\ i # a + 1
        BY <1>1, <3>1
      <4>2. doc.calls[i] = above[i] /\ i \in DOMAIN above
        BY <1>1, <1>4, <4>1
      <4>3. QED
        BY <4>1, <4>2
    <3>2. CASE i = a + 1
      <4>1. doc.calls[i] = Flush
        BY <1>4, <3>2
      <4>2. Flush.op = "flush"
        BY DEF Flush
      <4>3. QED
        BY <3>2, <4>1, <4>2
    <3>3. CASE i > a + 1
      <4>1. i - (a + 1) \in 1 .. b /\ a + 1 + (i - (a + 1)) = i
        BY <1>1, <3>3
      <4>2. doc.calls[i] = below[i - (a + 1)] /\ i - (a + 1) \in DOMAIN below
        BY <1>1, <1>4, <4>1
      <4>3. i # a + 1
        BY <1>1, <3>3
      <4>4. QED
        BY <4>2, <4>3
    <3>4. QED
      BY <1>1, <3>1, <3>2, <3>3
  <2>2. QED
    BY <1>3, <2>1 DEF Lines
<1>6. /\ kept \in Seq(Nat) /\ DOMAIN kept = 1 .. a + b
      /\ \A i \in 1 .. a + b : kept[i] = IF i <= a THEN i ELSE i + 1
  <2>1. kept \in [1 .. a + b -> Nat] /\ a + b \in Nat
    BY <1>1
  <2>2. QED
    BY <2>1, SeqDef
<1> HIDE DEF kept
<1>7. Increasing(kept)
  <2>1. ASSUME NEW i \in 1 .. a + b, NEW j \in 1 .. a + b, i < j PROVE kept[i] < kept[j]
    <3>1. /\ kept[i] = IF i <= a THEN i ELSE i + 1
          /\ kept[j] = IF j <= a THEN j ELSE j + 1
      BY <1>6
    <3>2. (IF i <= a THEN i ELSE i + 1) < (IF j <= a THEN j ELSE j + 1)
      BY <1>1, <2>1
    <3>3. QED
      BY <3>1, <3>2
  <2>2. \A i, j \in 1 .. a + b : i < j => kept[i] < kept[j]
    BY <2>1
  <2>3. QED
    BY <1>6, <2>2 DEF Increasing
<1>8. Elements(kept) = Lines
  <2>1. ASSUME NEW i \in 1 .. a + b PROVE kept[i] \in Lines
    <3>1. kept[i] = IF i <= a THEN i ELSE i + 1
      BY <1>6
    <3>2. /\ (IF i <= a THEN i ELSE i + 1) \in 1 .. a + 1 + b
          /\ (IF i <= a THEN i ELSE i + 1) # a + 1
      BY <1>1
    <3>3. QED
      BY <1>5, <3>1, <3>2
  <2>2. ASSUME NEW k \in Lines PROVE \E i \in 1 .. a + b : kept[i] = k
    <3>1. k \in 1 .. a + 1 + b /\ k # a + 1
      BY <1>5
    <3>2. CASE k <= a
      <4>1. k \in 1 .. a + b /\ kept[k] = k
        BY <1>1, <1>6, <3>1, <3>2
      <4>2. QED
        BY <4>1
    <3>3. CASE k > a
      <4>1. k - 1 \in 1 .. a + b /\ ~(k - 1 <= a) /\ k - 1 + 1 = k
        BY <1>1, <3>1, <3>3
      <4>2. kept[k - 1] = k
        BY <1>6, <4>1
      <4>3. QED
        BY <4>1, <4>2
    <3>4. QED
      BY <1>1, <3>1, <3>2, <3>3
  <2>3. QED
    BY <1>6, <2>1, <2>2 DEF Elements
<1>9. stdout = kept
  <2>1. Elements(stdout) = Elements(kept)
    BY <1>8 DEF Whole, Written, Elements
  <2>2. QED
    BY <1>6, <1>7, <2>1, SameNumbers DEF Whole
<1>10. Shown = [i \in 1 .. a + b |-> doc.calls[kept[i]].line]
  BY <1>6, <1>9 DEF Shown
<1>11. ASSUME NEW i \in 1 .. a + b
       PROVE  doc.calls[kept[i]] = IF i <= a THEN above[i] ELSE below[i - a]
  <2>1. CASE i <= a
    <3>1. i \in 1 .. a /\ kept[i] = i
      BY <1>1, <1>6, <2>1
    <3>2. QED
      BY <1>4, <2>1, <3>1
  <2>2. CASE ~(i <= a)
    <3>1. i - a \in 1 .. b /\ kept[i] = a + 1 + (i - a)
      BY <1>1, <1>6, <2>2
    <3>2. QED
      BY <1>4, <2>2, <3>1
  <2>3. QED
    BY <2>1, <2>2
<1>12. QED
  BY <1>10, <1>11 DEF a, b

\* Two calls in a row, after the calls before them.
LEMMA TwoCalls ==
    ASSUME NEW C, NEW body \in Seq(C), NEW x \in C, NEW y \in C
    PROVE  body \o <<x>> \o <<y>> = body \o <<x, y>>
<1>1. <<x>> \in Seq(C) /\ <<y>> \in Seq(C) /\ <<x, y>> \in Seq(C)
  OBVIOUS
<1>2. <<x>> \o <<y>> = <<x, y>>
  <2>1. /\ Len(<<x>>) = 1 /\ Len(<<y>>) = 1 /\ <<x>>[1] = x /\ <<y>>[1] = y
        /\ Len(<<x, y>>) = 2 /\ <<x, y>>[1] = x /\ <<x, y>>[2] = y
    OBVIOUS
  <2>2. /\ <<x>> \o <<y>> \in Seq(C) /\ Len(<<x>> \o <<y>>) = 2
        /\ \A i \in 1 .. 2 : (<<x>> \o <<y>>)[i] = IF i <= 1 THEN <<x>>[i] ELSE <<y>>[i - 1]
    BY <1>1, <2>1, ConcatProperties
  <2>3. (<<x>> \o <<y>>)[1] = x /\ (<<x>> \o <<y>>)[2] = y
    BY <2>1, <2>2
  <2>4. \A i \in 1 .. 2 : i = 1 \/ i = 2
    OBVIOUS
  <2>5. \A i \in 1 .. 2 : (<<x>> \o <<y>>)[i] = <<x, y>>[i]
    BY <2>1, <2>3, <2>4
  <2>6. QED
    <3>1. Len(<<x>> \o <<y>>) = Len(<<x, y>>)
      BY <2>1, <2>2
    <3>2. \A i \in 1 .. Len(<<x>> \o <<y>>) : (<<x>> \o <<y>>)[i] = <<x, y>>[i]
      BY <2>2, <2>5
    <3>3. QED
      BY <1>1, <2>2, <3>1, <3>2, SeqEqual
<1>3. (body \o <<x>>) \o <<y>> = body \o (<<x>> \o <<y>>)
  BY <1>1, ConcatAssociative
<1>4. QED
  BY <1>2, <1>3, Zenon

\* A function on 1 .. n is a sequence of length n.
LEMMA LenOf ==
    ASSUME NEW n \in Nat, NEW s, s = [i \in 1 .. n |-> s[i]]
    PROVE  s \in Seq({s[i] : i \in 1 .. n}) /\ Len(s) = n /\ DOMAIN s = 1 .. n
<1>1. DOMAIN s = 1 .. n /\ s \in [1 .. n -> {s[i] : i \in 1 .. n}]
  OBVIOUS
<1>2. s \in Seq({s[i] : i \in 1 .. n})
  BY <1>1, SeqDef
<1>3. Len(s) \in Nat /\ DOMAIN s = 1 .. Len(s)
  BY <1>2, LenProperties
<1>4. Len(s) = n
  <2>1. \A m \in Nat : 1 .. m = 1 .. n => m = n
    <3>1. SUFFICES ASSUME NEW m \in Nat, 1 .. m = 1 .. n PROVE m = n
      OBVIOUS
    <3>2. \A i \in Nat : 1 <= i => (i <= m <=> i <= n)
      BY <3>1
    <3>3. m + 1 \in Nat /\ n + 1 \in Nat /\ 1 <= m + 1 /\ 1 <= n + 1
      OBVIOUS
    <3>4. ~(m + 1 <= n) /\ ~(n + 1 <= m)
      <4>1. ~(m + 1 <= m) /\ ~(n + 1 <= n)
        OBVIOUS
      <4>2. QED
        BY <3>2, <3>3, <4>1
    <3>5. QED
      BY <3>4
  <2>2. QED
    BY <1>1, <1>3, <2>1
<1>5. QED
  BY <1>1, <1>2, <1>4

\* A list is a function on the numbers up to its length.
LEMMA ListIs ==
    ASSUME NEW s, IsList(s)
    PROVE  Len(s) \in Nat /\ DOMAIN s = 1 .. Len(s) /\ s = [i \in 1 .. Len(s) |-> s[i]]
<1>1. Len(s) \in Nat /\ DOMAIN s = 1 .. Len(s) /\ s = [i \in DOMAIN s |-> s[i]]
  BY LenProperties, SeqDef DEF IsList
<1>2. QED
  BY <1>1

\* What Agrees looks at: the lines below the header, those but the summary, the summary.
Rows == SubSeq(Shown, 2, Len(Shown))
Body == SubSeq(Shown, 2, Len(Shown) - 1)
Last == Shown[Len(Shown)]

\* n rows of a table.
TableRows(rows, n) == rows = [i \in 1 .. n |-> rows[i]] /\ \A i \in 1 .. n : rows[i].op = "tab"

\* The lines of its rows.
LinesOf(rows, n) == [i \in 1 .. n |-> rows[i].line]

\* The calls of a table, and of a table with a summary below it.
Table(header, rows) == <<header>> \o rows \o <<Flush>>
TableAndSummary(header, rows, summary) == <<header>> \o rows \o <<Flush, summary>>

\* What is shown of a table: the header, its rows, and perhaps a summary.
LEMMA TableShown ==
    ASSUME Whole, NEW header, NEW n \in Nat, NEW rows, TableRows(rows, n), header.op = "tab",
           NEW summary, summary.op = "out"
    PROVE  /\ doc.calls = Table(header, rows) => Rows = LinesOf(rows, n)
           /\ doc.calls = TableAndSummary(header, rows, summary) =>
                Body = LinesOf(rows, n) /\ Last = summary.line
           /\ TableAndSummary(header, rows, summary) = Table(header, rows) \o <<summary>>
<1> DEFINE C == {header, Flush, summary} \cup {rows[i] : i \in 1 .. n}
           above == <<header>> \o rows
<1>0. rows = [i \in 1 .. n |-> rows[i]] /\ \A i \in 1 .. n : rows[i].op = "tab"
  BY DEF TableRows
<1>1. /\ header \in C /\ Flush \in C /\ summary \in C /\ rows \in [1 .. n -> C]
      /\ rows \in Seq(C) /\ Len(rows) = n
  <2>1. header \in C /\ Flush \in C /\ summary \in C /\ rows \in [1 .. n -> C]
    BY <1>0
  <2> HIDE DEF C
  <2>2. rows \in Seq(C)
    BY <2>1, SeqDef
  <2>3. QED
    BY <1>0, <2>1, <2>2, LenOf
<1> HIDE DEF C
<1>2. above \in Seq(C) /\ \A i \in DOMAIN above : above[i].op = "tab"
  BY <1>0, <1>1, HeaderAbove
<1>3. Len(above) = n + 1 /\ \A i \in 1 .. n : above[i + 1] = rows[i]
  <2>1. <<header>> \in Seq(C) /\ Len(<<header>>) = 1
    BY <1>1
  <2>2. /\ Len(above) = 1 + n
        /\ \A i \in 1 .. 1 + n : above[i] = IF i <= 1 THEN <<header>>[i] ELSE rows[i - 1]
    BY <1>1, <2>1, ConcatProperties
  <2>3. \A i \in 1 .. n : i + 1 \in 1 .. 1 + n /\ ~(i + 1 <= 1) /\ (i + 1) - 1 = i
    OBVIOUS
  <2> HIDE DEF above
  <2>4. ASSUME NEW i \in 1 .. n PROVE above[i + 1] = rows[i]
    BY <2>2, <2>3
  <2>5. QED
    BY <2>2, <2>4
<1> HIDE DEF above
<1>4. /\ <<>> \in Seq(C) /\ <<summary>> \in Seq(C)
      /\ Len(<<>>) = 0 /\ Len(<<summary>>) = 1 /\ <<summary>>[1] = summary
      /\ DOMAIN <<>> = {} /\ DOMAIN <<summary>> = {1}
  BY <1>1
<1>5. \A i \in DOMAIN above : above[i].op # "flush"
  BY <1>2
<1>6. ASSUME doc.calls = above \o <<Flush>>
      PROVE  SubSeq(Shown, 2, Len(Shown)) = [i \in 1 .. n |-> rows[i].line]
  <2>1. doc.calls = above \o <<Flush>> \o <<>>
    <3>1. above \o <<Flush>> \in Seq(C)
      BY <1>1, <1>2, ConcatProperties
    <3>2. QED
      BY <1>6, <3>1, ConcatEmptySeq
  <2> DEFINE below == <<>>
  <2>a. below \in Seq(C) /\ Len(below) = 0
    BY <1>4
  <2>b. \A i \in DOMAIN below : below[i].op # "flush"
    BY <1>4
  <2>c. doc.calls = above \o <<Flush>> \o below
    BY <2>1
  <2> HIDE DEF below
  <2>2. Shown = [i \in 1 .. Len(above) + Len(below) |->
                   IF i <= Len(above) THEN above[i].line ELSE below[i - Len(above)].line]
    <3>1. ASSUME NEW x \in Seq(C), \A i \in DOMAIN x : x[i].op # "flush",
                 doc.calls = above \o <<Flush>> \o x
          PROVE  Shown = [i \in 1 .. Len(above) + Len(x) |->
                            IF i <= Len(above) THEN above[i].line ELSE x[i - Len(above)].line]
      BY <1>1, <1>2, <1>5, <3>1, ShownWhole
    <3>2. QED
      BY <2>a, <2>b, <2>c, <3>1, Zenon
  <2>3. Len(above) + Len(below) = n + 1
    BY <1>3, <2>a
  <2>4. DOMAIN Shown = 1 .. n + 1 /\ \A i \in 1 .. n + 1 : Shown[i] = above[i].line
    BY <1>3, <2>2, <2>3
  <2>5. Shown = [i \in 1 .. n + 1 |-> Shown[i]]
    BY <2>2, <2>3
  <2>6. Len(Shown) = n + 1
    BY <2>5, LenOf
  <2>7. SubSeq(Shown, 2, n + 1) = [i \in 1 .. n + 1 - 2 + 1 |-> Shown[2 + i - 1]]
    BY <2>5, Cut
  <2>8. \A i \in 1 .. n : Shown[2 + i - 1] = rows[i].line
    <3>1. \A i \in 1 .. n : 2 + i - 1 = i + 1 /\ i + 1 \in 1 .. n + 1
      OBVIOUS
    <3>2. QED
      BY <1>3, <2>4, <3>1
  <2>9. n + 1 - 2 + 1 = n
    OBVIOUS
  <2>10. SubSeq(Shown, 2, n + 1) = [i \in 1 .. n |-> Shown[2 + i - 1]]
    BY <2>7, <2>9, Zenon
  <2>11. [i \in 1 .. n |-> Shown[2 + i - 1]] = [i \in 1 .. n |-> rows[i].line]
    BY <2>8, Zenon
  <2>12. QED
    BY <2>6, <2>10, <2>11, Zenon
<1>7. ASSUME doc.calls = above \o <<Flush>> \o <<summary>>
      PROVE  /\ SubSeq(Shown, 2, Len(Shown) - 1) = [i \in 1 .. n |-> rows[i].line]
             /\ Shown[Len(Shown)] = summary.line
  <2>1. \A i \in DOMAIN <<summary>> : <<summary>>[i].op # "flush"
    BY <1>4
  <2> DEFINE below == <<summary>>
  <2> below \in Seq(C) /\ Len(below) = 1 /\ \A i \in DOMAIN below : below[i].op # "flush"
    BY <1>4, <2>1
  <2> doc.calls = above \o <<Flush>> \o below /\ below[1] = summary
    BY <1>4, <1>7
  <2> HIDE DEF below
  <2>2. Shown = [i \in 1 .. Len(above) + Len(below) |->
                   IF i <= Len(above) THEN above[i].line ELSE below[i - Len(above)].line]
    BY <1>1, <1>2, <1>5, ShownWhole
  <2>3. Len(above) + Len(below) = n + 2
    BY <1>3
  <2>4. \A i \in 1 .. n + 1 : Shown[i] = above[i].line
    BY <1>3, <2>2, <2>3
  <2>5. Shown[n + 2] = summary.line
    <3>1. n + 2 \in 1 .. n + 2 /\ ~(n + 2 <= n + 1) /\ (n + 2) - (n + 1) = 1
      OBVIOUS
    <3>2. QED
      BY <1>3, <2>2, <2>3, <3>1
  <2>6. Shown = [i \in 1 .. n + 2 |-> Shown[i]]
    BY <2>2, <2>3
  <2>7. Len(Shown) = n + 2
    BY <2>6, LenOf
  <2>8. SubSeq(Shown, 2, n + 1) = [i \in 1 .. n + 1 - 2 + 1 |-> Shown[2 + i - 1]]
    BY <2>6, Cut
  <2>9. \A i \in 1 .. n : Shown[2 + i - 1] = rows[i].line
    <3>1. \A i \in 1 .. n : 2 + i - 1 = i + 1 /\ i + 1 \in 1 .. n + 1
      OBVIOUS
    <3>2. QED
      BY <1>3, <2>4, <3>1
  <2>10. n + 1 - 2 + 1 = n /\ n + 2 - 1 = n + 1
    OBVIOUS
  <2>11. SubSeq(Shown, 2, n + 1) = [i \in 1 .. n |-> Shown[2 + i - 1]]
    BY <2>8, <2>10, Zenon
  <2>12. [i \in 1 .. n |-> Shown[2 + i - 1]] = [i \in 1 .. n |-> rows[i].line]
    BY <2>9, Zenon
  <2>13. Len(Shown) - 1 = n + 1
    BY <2>7, <2>10
  <2>14. QED
    BY <2>5, <2>7, <2>11, <2>12, <2>13, Zenon
<1>8. above \o <<Flush>> \o <<summary>> = above \o <<Flush, summary>>
  BY <1>1, <1>2, TwoCalls
<1>9. Table(header, rows) = above \o <<Flush>>
  BY DEF Table, above
<1>10. TableAndSummary(header, rows, summary) = above \o <<Flush>> \o <<summary>>
  BY <1>8, Zenon DEF TableAndSummary, above
<1>11. doc.calls = Table(header, rows) => Rows = LinesOf(rows, n)
  BY <1>6, <1>9 DEF Rows, LinesOf
<1>12. doc.calls = TableAndSummary(header, rows, summary) =>
         Body = LinesOf(rows, n) /\ Last = summary.line
  BY <1>7, <1>10 DEF Body, Last, LinesOf
<1>13. TableAndSummary(header, rows, summary) = Table(header, rows) \o <<summary>>
  BY <1>9, <1>10, Zenon
<1>14. QED
  BY <1>11, <1>12, <1>13

(***************************************************************************)
(* A command that has returned without an error.                            *)
(***************************************************************************)
\* A command without an error tells stderr of the names that are missing.
NoteInv == pc = "done" /\ err = "none" => note = doc.unknown

\* The note is written when the command returns, and a command that gives up has an error.
LEMMA NoteStep == (Init => NoteInv) /\ (NoteInv /\ [Next]_vars => NoteInv')
<1>1. Init => NoteInv
  BY DEF Init, NoteInv
<1>2. ASSUME NoteInv, [Next]_vars PROVE NoteInv'
  <2>1. CASE PrintRow
    BY <1>2, <2>1 DEF PrintRow, Calling, Proceed, NoteInv
  <2>2. ASSUME pc = "write", NEW lines, Writes(lines) PROVE NoteInv'
    BY <2>2 DEF Writes, Succeeds, Fails, Proceed, GiveUp, NoteInv
  <2>3. CASE PrintLine \/ FlushTable \/ PrintDirect
    BY <2>2, <2>3 DEF PrintLine, FlushTable, PrintDirect, Calling
  <2>4. CASE Return
    BY <2>4 DEF Return, NoteInv
  <2>5. CASE Finished \/ UNCHANGED vars
    BY <1>2, <2>5 DEF Finished, vars, NoteInv
  <2>6. QED
    BY <1>2, <2>1, <2>3, <2>4, <2>5 DEF Next
<1>3. QED
  BY <1>1, <1>2

\* A command that looks at errors and returns none has written everything.
LEMMA AtEnd ==
    ASSUME IInv, pc = "done", err = "none", command \notin Careless
    PROVE  Whole
<1>1. stdout \in Seq(1 .. Len(doc.calls)) /\ Increasing(stdout) /\ Written = Lines
  BY DEF IInv, TypeOK, OrderInv, EndInv
<1>2. Len(doc.calls) \in Nat
  BY DocumentsAssumption DEF IInv, TypeOK
<1>3. stdout \in Seq(Nat)
  <2>1. Len(stdout) \in Nat /\ stdout \in [1 .. Len(stdout) -> 1 .. Len(doc.calls)]
    BY <1>1, LenProperties
  <2>2. stdout \in [1 .. Len(stdout) -> Nat]
    BY <1>2, <2>1
  <2>3. QED
    BY <2>1, <2>2, SeqDef
<1>4. QED
  BY <1>1, <1>3 DEF Whole

(***************************************************************************)
(* What the tables tell, each of them complete.                             *)
(***************************************************************************)
\* The rows without a name are the sockets without one: no process has the name that
\* stands in for a missing one.
LEMMA UnknownRows ==
    ASSUME NEW ps, NEW n \in Nat, DOMAIN ps = 1 .. n, NEW rows, DOMAIN rows = 1 .. n,
           \A i \in 1 .. n : rows[i].process = ProcessName(ps[i]),
           \A i \in DOMAIN ps : ps[i].process # UnknownProcess
    PROVE  HowMany(rows, LAMBDA row : row.process = UnknownProcess) = CountUnknown(ps)
<1>1. \A i \in 1 .. n : rows[i].process = UnknownProcess <=> ps[i].process = ""
  BY DEF ProcessName
<1>2. {i \in DOMAIN rows : rows[i].process = UnknownProcess}
        = {i \in DOMAIN ps : ps[i].process = ""}
  BY <1>1
<1>3. HowMany(rows, LAMBDA row : row.process = UnknownProcess)
        = Cardinality({i \in DOMAIN rows : rows[i].process = UnknownProcess})
  BY DEF HowMany
<1>4. QED
  BY <1>2, <1>3 DEF CountUnknown

\* ports and connections show a row for each socket, and as many rows with "<unknown>"
\* as the note counts.
LEMMA PortsTold ==
    ASSUME Whole, NEW ps, IsList(ps), \A i \in DOMAIN ps : ps[i].process # UnknownProcess,
           doc.calls \in {PortsTable(ps), ConnectionsTable(ps)}
    PROVE  /\ Len(Rows) = Len(ps)
           /\ HowMany(Rows, LAMBDA row : row.process = UnknownProcess) = CountUnknown(ps)
<1> DEFINE n == Len(ps)
<1>1. n \in Nat /\ DOMAIN ps = 1 .. n
  BY ListIs
<1>2. ASSUME NEW rows, NEW header, TableRows(rows, n), header.op = "tab",
             \A i \in 1 .. n : rows[i].line.process = ProcessName(ps[i]),
             doc.calls = Table(header, rows)
      PROVE  /\ Len(Rows) = n
             /\ HowMany(Rows, LAMBDA row : row.process = UnknownProcess) = CountUnknown(ps)
  <2>1. Out("none").op = "out"
    BY DEF Out
  <2> DEFINE summary == Out("none")
             shown == LinesOf(rows, n)
  <2> HIDE DEF n, summary
  <2>2. Rows = shown
    BY <1>1, <1>2, <2>1, TableShown DEF summary
  <2>3. /\ shown = [i \in 1 .. n |-> shown[i]] /\ DOMAIN shown = 1 .. n
        /\ \A i \in 1 .. n : shown[i].process = ProcessName(ps[i])
    BY <1>2 DEF LinesOf
  <2> HIDE DEF shown
  <2>4. Len(shown) = n
    BY <1>1, <2>3, LenOf
  <2>5. HowMany(shown, LAMBDA row : row.process = UnknownProcess) = CountUnknown(ps)
    BY <1>1, <2>3, UnknownRows
  <2>6. QED
    BY <2>2, <2>4, <2>5
<1>3. \A c \in Nat : Header(c).op = "tab"
  BY DEF Header, Tab
<1>4. CASE doc.calls = PortsTable(ps)
  <2> DEFINE rows == [i \in 1 .. n |-> PortRow(ps[i])]
             header == Header(5)
  <2>1. TableRows(rows, n) /\ \A i \in 1 .. n : rows[i].line.process = ProcessName(ps[i])
    BY DEF PortRow, Tab, TableRows
  <2>2. doc.calls = Table(header, rows) /\ header.op = "tab"
    BY <1>1, <1>3, <1>4 DEF PortsTable, Each, Table
  <2> HIDE DEF rows, header, n
  <2>3. QED
    BY <1>2, <2>1, <2>2 DEF n
<1>5. CASE doc.calls = ConnectionsTable(ps)
  <2> DEFINE rows == [i \in 1 .. n |-> ConnectionRow(ps[i])]
             header == Header(6)
  <2>1. TableRows(rows, n) /\ \A i \in 1 .. n : rows[i].line.process = ProcessName(ps[i])
    BY DEF ConnectionRow, Tab, TableRows
  <2>2. doc.calls = Table(header, rows) /\ header.op = "tab"
    BY <1>1, <1>3, <1>5 DEF ConnectionsTable, Each, Table
  <2> HIDE DEF rows, header, n
  <2>3. QED
    BY <1>2, <2>1, <2>2 DEF n
<1>6. QED
  BY <1>4, <1>5

\* A document without a flush, complete, shows all its calls.
LEMMA AllShown ==
    ASSUME Whole, NEW C, doc.calls \in Seq(C), \A i \in DOMAIN doc.calls : doc.calls[i].op # "flush"
    PROVE  Shown = [i \in 1 .. Len(doc.calls) |-> doc.calls[i].line]
<1> DEFINE n == Len(doc.calls)
           all == [i \in 1 .. n |-> i]
<1>1. n \in Nat /\ DOMAIN doc.calls = 1 .. n
  BY LenProperties
<1>2. Lines = 1 .. n
  BY <1>1 DEF Lines
<1>3. all \in Seq(Nat) /\ DOMAIN all = 1 .. n /\ \A i \in 1 .. n : all[i] = i
  <2>1. all \in [1 .. n -> Nat]
    BY <1>1
  <2>2. QED
    BY <1>1, <2>1, SeqDef
<1> HIDE DEF all
<1>4. Increasing(all) /\ Elements(all) = Lines
  BY <1>2, <1>3 DEF Increasing, Elements
<1>5. stdout = all
  <2>1. Elements(stdout) = Elements(all)
    BY <1>4 DEF Whole, Written, Elements
  <2>2. QED
    BY <1>3, <1>4, <2>1, SameNumbers DEF Whole
<1>6. QED
  BY <1>3, <1>5 DEF Shown

\* A complete table with a summary below it.
LEMMA SummaryShown ==
    ASSUME Whole, NEW header, NEW n \in Nat, NEW rows, TableRows(rows, n), header.op = "tab",
           NEW summary, summary.op = "out",
           doc.calls = TableAndSummary(header, rows, summary)
    PROVE  /\ DOMAIN Body = 1 .. n /\ Len(Body) = n
           /\ \A i \in 1 .. n : Body[i] = rows[i].line
           /\ Last = summary.line
<1> DEFINE shown == LinesOf(rows, n)
<1>1. Body = shown /\ Last = summary.line
  BY TableShown
<1>2. /\ shown = [i \in 1 .. n |-> shown[i]] /\ DOMAIN shown = 1 .. n
      /\ \A i \in 1 .. n : shown[i] = rows[i].line
  BY DEF LinesOf
<1> HIDE DEF shown
<1>3. Len(shown) = n
  BY <1>2, LenOf
<1>4. QED
  BY <1>1, <1>2, <1>3

\* The summary of ping counts what its rows show: an answered packet is one with a time,
\* a lost one any other.
LEMMA PingTold ==
    ASSUME Whole, NEW result, IsList(result.packets), result.sent = Len(result.packets),
           result.received = Cardinality({i \in DOMAIN result.packets :
                                            result.packets[i].status = "OK"}),
           doc.calls = PingTable(result)
    PROVE  /\ Last.sent = Len(Body)
           /\ Last.received = HowMany(Body, LAMBDA row : row.time # placeholder)
           /\ Last.lost = HowMany(Body, LAMBDA row : row.status # "OK")
<1> DEFINE packets == result.packets
           n == Len(packets)
           ok == {i \in 1 .. n : packets[i].status = "OK"}
           rows == [i \in 1 .. n |-> PacketRow(packets[i])]
           summary == Summary(result)
           header == Header(5)
<1>1. n \in Nat /\ DOMAIN packets = 1 .. n
  BY ListIs
<1>2. header.op = "tab" /\ summary.op = "out" /\ TableRows(rows, n)
  BY DEF Header, Summary, PacketRow, Tab, Out, TableRows
<1>3. doc.calls = TableAndSummary(header, rows, summary)
  BY <1>1 DEF PingTable, Each, TableAndSummary
<1>4. /\ DOMAIN Body = 1 .. n /\ Len(Body) = n
      /\ \A i \in 1 .. n : Body[i] = rows[i].line
      /\ Last = summary.line
  <2> HIDE DEF rows, summary, header, n
  <2>1. QED
    BY <1>1, <1>2, <1>3, SummaryShown
<1>5. \A i \in 1 .. n : /\ Body[i].time = PacketTime(packets[i])
                        /\ Body[i].status = packets[i].status
  <2>1. ASSUME NEW i \in 1 .. n
        PROVE  Body[i].time = PacketTime(packets[i]) /\ Body[i].status = packets[i].status
    <3>1. rows[i] = PacketRow(packets[i])
      OBVIOUS
    <3>2. Body[i] = rows[i].line
      BY <1>4
    <3> HIDE DEF rows, packets, n
    <3>3. PacketRow(packets[i]).line
            = [sequence |-> packets[i].sequence, status |-> packets[i].status,
               time |-> PacketTime(packets[i])]
      BY DEF PacketRow, Tab
    <3>4. QED
      BY <3>1, <3>2, <3>3
  <2>2. QED
    BY <2>1
<1>6. /\ Last.sent = n /\ Last.received = Cardinality(ok)
      /\ Last.lost = n - Cardinality(ok)
  <2>1. {i \in DOMAIN packets : packets[i].status = "OK"} = ok
    BY <1>1
  <2>2. result.sent = n /\ result.received = Cardinality(ok)
    BY <2>1
  <2> HIDE DEF ok, n
  <2>3. /\ Last.sent = result.sent /\ Last.received = result.received
        /\ Last.lost = result.sent - result.received
    BY <1>4 DEF Summary, Out
  <2>4. QED
    BY <2>2, <2>3
<1>7. HowMany(Body, LAMBDA row : row.time # placeholder) = Cardinality(ok)
  <2>1. {i \in DOMAIN Body : Body[i].time # placeholder} = ok
    BY <1>4, <1>5 DEF PacketTime, placeholder
  <2> HIDE DEF ok
  <2>2. QED
    BY <2>1 DEF HowMany
<1>8. HowMany(Body, LAMBDA row : row.status # "OK") = n - Cardinality(ok)
  <2>1. {i \in DOMAIN Body : Body[i].status # "OK"} = (1 .. n) \ ok
    BY <1>4, <1>5
  <2>2. (1 .. n) \cap ok = ok
    OBVIOUS
  <2> HIDE DEF ok
  <2>3. IsFiniteSet(1 .. n) /\ Cardinality(1 .. n) = n
    BY <1>1, IntervalCount
  <2> DEFINE all == 1 .. n
  <2>4. Cardinality(all \ ok) = Cardinality(all) - Cardinality(all \cap ok)
    <3> HIDE DEF n
    <3>1. IsFiniteSet(all)
      BY <2>3
    <3> HIDE DEF all
    <3>2. QED
      BY <3>1, FS_Difference
  <2>5. HowMany(Body, LAMBDA row : row.status # "OK") = Cardinality(all \ ok)
    BY <2>1 DEF HowMany
  <2>6. QED
    BY <2>2, <2>3, <2>4, <2>5
<1>9. QED
  BY <1>4, <1>6, <1>7, <1>8

\* The summary of dns counts the rows, and its breakdown those of each type.
LEMMA DnsTold ==
    ASSUME Whole, NEW records, IsList(records), doc.calls = DnsTable(records)
    PROVE  /\ Last.records = Len(Body) /\ Len(Body) = Len(records)
           /\ Last.breakdown # <<>> => \A t \in {TypeA, TypeAAAA} :
                Last.breakdown[t] = HowMany(Body, LAMBDA rec : rec.type = t)
<1> DEFINE n == Len(records)
           total == Out([records |-> n, breakdown |-> Breakdown(records)])
<1>1. n \in Nat /\ DOMAIN records = 1 .. n
  BY ListIs
<1>2. CASE records = <<>>
  <2> DEFINE none == Out("no records")
             C == {none, total}
  <2>1. none \in C /\ total \in C /\ n = 0 /\ doc.calls = <<none>> \o <<total>>
    <3>1. n = 0
      BY <1>2
    <3>2. doc.calls = <<none>> \o <<total>>
      BY <1>2 DEF DnsTable
    <3>3. none \in C /\ total \in C
      OBVIOUS
    <3> HIDE DEF C, none, total, n
    <3>4. QED
      BY <3>1, <3>2, <3>3
  <2>2. none.op = "out" /\ total.op = "out" /\ \A x \in C : x.op # "flush"
    BY DEF Out
  <2> HIDE DEF none, total, C
  <2>3. /\ <<none>> \in Seq(C) /\ <<total>> \in Seq(C)
        /\ Len(<<none>>) = 1 /\ Len(<<total>>) = 1 /\ <<total>>[1] = total
    BY <2>1
  <2>4. doc.calls \in Seq(C) /\ Len(doc.calls) = 2 /\ doc.calls[2] = total
    <3> DEFINE calls == <<none>> \o <<total>>
    <3>1. /\ calls \in Seq(C) /\ Len(calls) = 1 + 1
          /\ \A i \in 1 .. 1 + 1 : calls[i] = IF i <= 1 THEN <<none>>[i] ELSE <<total>>[i - 1]
      BY <2>3, ConcatProperties
    <3> HIDE DEF calls
    <3>2. calls[2] = total
      BY <2>3, <3>1
    <3>3. QED
      BY <2>1, <3>1, <3>2 DEF calls
  <2>5. \A i \in DOMAIN doc.calls : doc.calls[i].op # "flush"
    <3>1. \A i \in DOMAIN doc.calls : doc.calls[i] \in C
      BY <2>4, LenProperties, ElementOfSeq
    <3>2. QED
      BY <2>2, <3>1
  <2>6. Shown = [i \in 1 .. 2 |-> doc.calls[i].line]
    BY <2>4, <2>5, AllShown
  <2>7. Shown = [i \in 1 .. 2 |-> Shown[i]] /\ Shown[2] = total.line
    BY <2>4, <2>6
  <2>8. Len(Shown) = 2
    BY <2>7, LenOf
  <2>9. SubSeq(Shown, 2, 1) = [i \in 1 .. 1 - 2 + 1 |-> Shown[2 + i - 1]]
    BY <2>7, Cut
  <2>10. Len(Body) = 0 /\ Last = total.line
    <3> DEFINE empty == [i \in 1 .. 0 |-> Shown[2 + i - 1]]
    <3>1. 1 - 2 + 1 = 0 /\ 2 - 1 = 1
      OBVIOUS
    <3>2. Body = empty
      BY <2>8, <2>9, <3>1 DEF Body
    <3>3. Len(empty) = 0
      <4>1. empty = [i \in 1 .. 0 |-> empty[i]]
        OBVIOUS
      <4> HIDE DEF empty
      <4>2. QED
        BY <4>1, LenOf
    <3>4. QED
      BY <2>7, <2>8, <3>2, <3>3 DEF Last
  <2>11. Breakdown(records) = <<>>
    <3>1. {i \in DOMAIN records : records[i].type = TypeA} = {}
      BY <1>1, <2>1
    <3>2. Counts(records)[TypeA] = 0
      BY <3>1, FS_EmptySet DEF Counts
    <3>3. QED
      BY <3>2 DEF Breakdown
  <2>12. QED
    BY <2>1, <2>10, <2>11 DEF total, Out
<1>3. CASE records # <<>>
  <2> DEFINE rows == [i \in 1 .. n |-> RecordRow(records[i])]
             header == Header(3)
  <2>1. header.op = "tab" /\ total.op = "out" /\ TableRows(rows, n)
    BY DEF Header, RecordRow, Tab, Out, TableRows
  <2>2. doc.calls = Table(header, rows) \o <<total>>
    BY <1>1, <1>3 DEF DnsTable, Each, Table
  <2>3. /\ DOMAIN Body = 1 .. n /\ Len(Body) = n
        /\ \A i \in 1 .. n : Body[i] = rows[i].line
        /\ Last = total.line
    <3> HIDE DEF rows, total, header, n
    <3>1. doc.calls = TableAndSummary(header, rows, total)
      BY <1>1, <2>1, <2>2, TableShown
    <3>2. QED
      BY <1>1, <2>1, <3>1, SummaryShown
  <2>4. \A i \in 1 .. n : Body[i] = records[i]
    BY <2>3 DEF RecordRow, Tab
  <2>5. ASSUME NEW t \in {TypeA, TypeAAAA}
        PROVE  HowMany(Body, LAMBDA rec : rec.type = t) = Counts(records)[t]
    <3>1. {i \in DOMAIN Body : Body[i].type = t} = {i \in DOMAIN records : records[i].type = t}
      BY <1>1, <2>3, <2>4
    <3>2. QED
      BY <3>1 DEF HowMany, Counts
  <2>6. ASSUME Breakdown(records) # <<>>, NEW t \in {TypeA, TypeAAAA}
        PROVE  Breakdown(records)[t] = Counts(records)[t]
    <3> DEFINE c == Counts(records)
    <3>1. Breakdown(records) = <<c[TypeA], c[TypeAAAA]>>
      BY <2>6 DEF Breakdown
    <3> HIDE DEF c
    <3>2. QED
      BY <3>1 DEF c, TypeA, TypeAAAA
  <2>7. Last.records = n /\ Last.breakdown = Breakdown(records)
    BY <2>3 DEF Out
  <2>8. QED
    BY <2>3, <2>5, <2>6, <2>7
<1>4. QED
  BY <1>2, <1>3

(***************************************************************************)
(* Tables of several lines for each interface.                              *)
(***************************************************************************)
\* The text is n parts one after the other, of len[i] lines, and part i ends at o[i].
Laid(text, parts, len, n, o) ==
    /\ o \in [0 .. n -> Nat] /\ o[0] = 0
    /\ text = [p \in 1 .. o[n] |-> text[p]]
    /\ \A i \in 1 .. n : o[i - 1] < o[i] /\ o[i] = o[i - 1] + len[i]
    /\ \A i \in 1 .. n : \A k \in 1 .. len[i] : text[o[i - 1] + k] = parts[i][k]

\* FlattenSeq lays parts that are not empty one after the other.
LEMMA LaidOut ==
    ASSUME NEW n \in Nat, NEW parts, parts = [i \in 1 .. n |-> parts[i]],
           NEW len \in [1 .. n -> Nat \ {0}],
           \A i \in 1 .. n : parts[i] = [k \in 1 .. len[i] |-> parts[i][k]]
    PROVE  \E o : Laid(Seqs!FlattenSeq(parts), parts, len, n, o)
<1> DEFINE C == UNION {{parts[i][k] : k \in 1 .. len[i]} : i \in 1 .. n}
           text == Seqs!FlattenSeq(parts)
<1>1. ASSUME NEW i \in 1 .. n PROVE parts[i] \in Seq(C) /\ Len(parts[i]) = len[i]
  <2>1. len[i] \in Nat /\ parts[i] = [k \in 1 .. len[i] |-> parts[i][k]]
    OBVIOUS
  <2>2. Len(parts[i]) = len[i]
    <3> DEFINE x == parts[i]
               m == len[i]
    <3>1. m \in Nat /\ x = [k \in 1 .. m |-> x[k]]
      BY <2>1
    <3> HIDE DEF x, m
    <3>2. Len(x) = m
      BY <3>1, LenOf
    <3>3. QED
      BY <3>2 DEF x, m
  <2>3. \A k \in 1 .. len[i] : parts[i][k] \in C
    OBVIOUS
  <2> HIDE DEF C
  <2>4. parts[i] \in [1 .. len[i] -> C]
    BY <2>1, <2>3
  <2>5. QED
    BY <2>1, <2>2, <2>4, SeqDef
<1> HIDE DEF C
<1>2. parts \in Seq(Seq(C)) /\ Len(parts) = n
  <2>1. parts \in [1 .. n -> Seq(C)]
    BY <1>1
  <2>2. QED
    BY <2>1, SeqDef, LenOf
<1>3. text \in Seq(C) /\ \E o : Joins(text, parts, o)
  BY <1>2, Flattened
<1> HIDE DEF text
<1>4. PICK o : Joins(text, parts, o)
  BY <1>3
<1>5. /\ o \in [0 .. n -> Nat] /\ o[0] = 0 /\ Len(text) = o[n]
      /\ \A i \in 1 .. n : o[i] = o[i - 1] + Len(parts[i])
      /\ \A i \in 1 .. n : \A k \in 1 .. Len(parts[i]) : text[o[i - 1] + k] = parts[i][k]
  BY <1>2, <1>4 DEF Joins
<1>6. text = [p \in 1 .. o[n] |-> text[p]]
  BY <1>3, <1>5, SeqDef, LenProperties
<1>7. \A i \in 1 .. n : /\ o[i - 1] < o[i] /\ o[i] = o[i - 1] + len[i]
                        /\ \A k \in 1 .. len[i] : text[o[i - 1] + k] = parts[i][k]
  <2>1. ASSUME NEW i \in 1 .. n PROVE o[i - 1] < o[i]
    <3>1. len[i] \in Nat /\ len[i] # 0 /\ Len(parts[i]) = len[i] /\ o[i - 1] \in Nat
      BY <1>1, <1>5
    <3>2. QED
      BY <1>5, <3>1
  <2>2. QED
    BY <1>1, <1>5, <2>1
<1>8. Laid(text, parts, len, n, o)
  BY <1>5, <1>6, <1>7 DEF Laid
<1>9. QED
  BY <1>8 DEF text

\* The places of the text are the places of the parts.
LEMMA LaidPlaces ==
    ASSUME NEW n \in Nat, NEW len \in [1 .. n -> Nat \ {0}], NEW text, NEW parts, NEW o,
           Laid(text, parts, len, n, o)
    PROVE  /\ \A p \in 1 .. o[n] : \E i \in 1 .. n : \E k \in 1 .. len[i] : p = o[i - 1] + k
           /\ \A i \in 1 .. n : o[i - 1] + 1 <= o[i] /\ o[i] <= o[n] /\ o[i - 1] \in Nat /\ o[i] \in Nat
<1>1. /\ o \in [0 .. n -> Nat] /\ o[0] = 0
      /\ \A i \in 1 .. n : o[i - 1] < o[i] /\ o[i] = o[i - 1] + len[i]
  BY DEF Laid
<1>2. ASSUME NEW p \in 1 .. o[n]
      PROVE  \E i \in 1 .. n : \E k \in 1 .. len[i] : p = o[i - 1] + k
  <2>1. PICK i \in 1 .. n : o[i - 1] < p /\ p <= o[i]
    BY <1>1, PartOf
  <2>2. o[i - 1] \in Nat /\ o[i] = o[i - 1] + len[i] /\ len[i] \in Nat /\ p \in Nat
    BY <1>1
  <2>3. p - o[i - 1] \in 1 .. len[i] /\ p = o[i - 1] + (p - o[i - 1])
    BY <2>1, <2>2
  <2>4. QED
    BY <2>3
<1>3. ASSUME NEW i \in 1 .. n
      PROVE  o[i - 1] + 1 <= o[i] /\ o[i] <= o[n] /\ o[i - 1] \in Nat /\ o[i] \in Nat
  <2>1. o[i - 1] \in Nat /\ o[i] \in Nat /\ o[n] \in Nat /\ o[i - 1] < o[i]
    BY <1>1
  <2>2. i = n \/ o[i] < o[n]
    <3>1. \A j, k \in 0 .. n : j < k => o[j] < o[k]
      BY <1>1, EndsRise
    <3>2. i \in 0 .. n /\ n \in 0 .. n /\ (i = n \/ i < n)
      OBVIOUS
    <3>3. QED
      BY <3>1, <3>2
  <2>3. QED
    BY <2>1, <2>2
<1>4. QED
  BY <1>2, <1>3

\* The parts of lines, line by line.
CutLines(lines, n, o) ==
    [i \in 1 .. n |-> [k \in 1 .. o[i] - o[i - 1] |-> lines[o[i - 1] + k]]]

\* The sections of a text, line by line.
LEMMA SectionsAre ==
    ASSUME NEW n \in Nat, NEW o \in [0 .. n -> Nat], o[0] = 0,
           NEW lines, lines = [p \in 1 .. o[n] |-> lines[p]],
           \A i \in 1 .. n : o[i - 1] < o[i],
           NEW starts, starts = Starts(n, o)
    PROVE  Sections(lines, starts) = CutLines(lines, n, o)
<1>1. o[n] \in Nat
  OBVIOUS
<1>2. Len(lines) = o[n]
  BY <1>1, LenOf
<1>3. Sections(lines, starts) = Cuts(lines, n, o)
  <2>1. o[n] = Len(lines)
    BY <1>2
  <2>2. QED
    BY <2>1, Divided
<1>4. ASSUME NEW i \in 1 .. n
      PROVE  SubSeq(lines, o[i - 1] + 1, o[i])
               = [k \in 1 .. o[i] - o[i - 1] |-> lines[o[i - 1] + k]]
  <2> DEFINE a == o[i - 1] + 1
             b == o[i]
             m == o[n]
  <2>1. i - 1 \in 0 .. n /\ i \in 0 .. n /\ n \in 0 .. n /\ (i = n \/ i < n)
    OBVIOUS
  <2>2. o[i - 1] \in Nat /\ o[i] \in Nat /\ o[n] \in Nat /\ o[i - 1] < o[i]
    BY <2>1
  <2>3. o[i] <= o[n]
    <3>1. \A j, k \in 0 .. n : j < k => o[j] < o[k]
      BY EndsRise
    <3>2. QED
      BY <2>1, <2>2, <3>1
  <2>4. a \in Nat /\ b \in Nat /\ m \in Nat /\ 1 <= a /\ a <= b + 1 /\ b <= m
    BY <2>2, <2>3
  <2>5. b - a + 1 = o[i] - o[i - 1] /\ \A k \in Nat : a + k - 1 = o[i - 1] + k
    BY <2>2
  <2>6. lines = [p \in 1 .. m |-> lines[p]]
    OBVIOUS
  <2> HIDE DEF a, b, m
  <2>7. SubSeq(lines, a, b) = [k \in 1 .. b - a + 1 |-> lines[a + k - 1]]
    BY <2>4, <2>6, Cut
  <2>8. [k \in 1 .. b - a + 1 |-> lines[a + k - 1]]
          = [k \in 1 .. o[i] - o[i - 1] |-> lines[o[i - 1] + k]]
    <3>1. \A k \in 1 .. o[i] - o[i - 1] : lines[a + k - 1] = lines[o[i - 1] + k]
      <4>1. \A k \in 1 .. o[i] - o[i - 1] : k \in Nat
        OBVIOUS
      <4>2. QED
        BY <2>5, <4>1
    <3>2. [k \in 1 .. o[i] - o[i - 1] |-> lines[a + k - 1]]
            = [k \in 1 .. o[i] - o[i - 1] |-> lines[o[i - 1] + k]]
      BY <3>1, Zenon
    <3>3. QED
      BY <2>5, <3>2, Zenon
  <2>9. QED
    BY <2>7, <2>8 DEF a, b
<1>5. QED
  <2>1. Cuts(lines, n, o) = CutLines(lines, n, o)
    BY <1>4, Zenon DEF Cuts, CutLines
  <2>2. QED
    BY <1>3, <2>1

\* A list of one text.
LEMMA Single ==
    ASSUME NEW x
    PROVE  /\ <<x>> \in Seq({x}) /\ Len(<<x>>) = 1 /\ <<x>>[1] = x
           /\ DOMAIN <<x>> = 1 .. 1 /\ <<x>> = [i \in 1 .. 1 |-> <<x>>[i]]
<1> DEFINE s == <<x>>
<1>1. s \in Seq({x}) /\ Len(s) = 1 /\ s[1] = x
  OBVIOUS
<1> HIDE DEF s
<1>2. DOMAIN s = 1 .. 1 /\ s = [i \in 1 .. 1 |-> s[i]]
  BY <1>1, LenProperties, SeqDef
<1>3. QED
  BY <1>1, <1>2 DEF s

\* Texts that can be told from no text.
TextsOnly(addrs) ==
    IsList(addrs) /\ \A j \in DOMAIN addrs : addrs[j] # "" /\ addrs[j] # placeholder

\* The addresses as they are shown are a list of at least one text, none of them empty,
\* and can be read back.
LEMMA AddressesRead ==
    ASSUME NEW addrs, TextsOnly(addrs)
    PROVE  LET texts == AddressLines(addrs)
           IN  /\ Len(texts) \in Nat \ {0} /\ DOMAIN texts = 1 .. Len(texts)
               /\ texts = [i \in 1 .. Len(texts) |-> texts[i]]
               /\ \A i \in 1 .. Len(texts) : texts[i] # ""
               /\ Addresses(texts) = addrs
<1>1. CASE addrs = <<>>
  <2>1. AddressLines(addrs) = <<placeholder>> /\ placeholder # ""
    BY <1>1 DEF AddressLines, placeholder
  <2>2. Addresses(<<placeholder>>) = addrs
    BY <1>1 DEF Addresses
  <2> DEFINE texts == <<placeholder>>
  <2>3. /\ Len(texts) = 1 /\ texts[1] = placeholder
        /\ DOMAIN texts = 1 .. 1 /\ texts = [i \in 1 .. 1 |-> texts[i]]
    BY Single, Zenon
  <2>4. Addresses(texts) = addrs /\ AddressLines(addrs) = texts
    BY <2>1, <2>2
  <2> HIDE DEF texts
  <2>5. 1 \in Nat \ {0} /\ \A i \in 1 .. 1 : texts[i] # ""
    <3>1. \A i \in 1 .. 1 : i = 1
      OBVIOUS
    <3>2. texts[1] # ""
      BY <2>1, <2>3, Zenon
    <3>3. \A i \in 1 .. 1 : texts[i] # ""
      BY <3>1, <3>2, Zenon
    <3>4. 1 \in Nat \ {0}
      OBVIOUS
    <3>5. QED
      BY <3>3, <3>4, Zenon
  <2>6. QED
    BY <2>3, <2>4, <2>5
<1>2. CASE addrs # <<>>
  <2>1. AddressLines(addrs) = addrs
    BY <1>2 DEF AddressLines
  <2>2. Len(addrs) \in Nat /\ DOMAIN addrs = 1 .. Len(addrs)
        /\ addrs = [i \in 1 .. Len(addrs) |-> addrs[i]]
    BY ListIs DEF TextsOnly
  <2>3. Len(addrs) # 0
    BY <1>2, EmptySeq DEF IsList, TextsOnly
  <2>4. addrs # <<placeholder>>
    <3>1. 1 \in DOMAIN addrs
      BY <2>2, <2>3
    <3>2. addrs[1] # placeholder
      BY <3>1, Zenon DEF TextsOnly
    <3>3. <<placeholder>>[1] = placeholder
      BY Single, Zenon
    <3>4. QED
      BY <3>2, <3>3, Zenon
  <2>5. Addresses(addrs) = addrs
    BY <2>4 DEF Addresses
  <2>6. \A i \in 1 .. Len(addrs) : addrs[i] # ""
    BY <2>2, Zenon DEF TextsOnly
  <2>7. QED
    BY <2>1, <2>2, <2>3, <2>5, <2>6
<1>3. QED
  BY <1>1, <1>2

\* A text that is not the placeholder itself can be read back.
LEMMA PlaceholderRead ==
    ASSUME NEW text, text # placeholder
    PROVE  Unplaced(OrPlaceholder(text)) = text /\ OrPlaceholder(text) # ""
  BY DEF Unplaced, OrPlaceholder, placeholder

\* An interface whose texts can be told from a placeholder.
Readable(iface) == iface.mac # placeholder /\ TextsOnly(iface.addrs)

\* How many lines its addresses take.
Height(iface) == Len(AddressLines(iface.addrs))

\* The lines themselves.
RowLines(iface) == [k \in 1 .. Height(iface) |-> InterfaceRows(iface)[k].line]

\* One interface of ReadInterfaces.
ReadInterface(lines) ==
    [name |-> Unplaced(lines[1].name), up |-> lines[1].state = "UP",
     mac |-> Unplaced(lines[1].mac),
     addrs |-> Addresses(Each(lines, LAMBDA line : line.address))]

\* The rows of an interface: the first has its name, and only the first has one.
LEMMA RowsOf ==
    ASSUME NEW iface, Readable(iface), iface.name # placeholder
    PROVE  /\ Height(iface) \in Nat \ {0}
           /\ InterfaceRows(iface) = [k \in 1 .. Height(iface) |-> InterfaceRows(iface)[k]]
           /\ \A k \in 1 .. Height(iface) :
                /\ InterfaceRows(iface)[k].op = "tab"
                /\ InterfaceRows(iface)[k].line.name # "" <=> k = 1
                /\ RowLines(iface)[k].address = AddressLines(iface.addrs)[k]
           /\ RowLines(iface)[1].name = OrPlaceholder(iface.name)
           /\ RowLines(iface)[1].state = StateName(iface)
           /\ RowLines(iface)[1].mac = OrPlaceholder(iface.mac)
<1> DEFINE texts == AddressLines(iface.addrs)
           Line(k) == [name |-> IF k = 1 THEN OrPlaceholder(iface.name) ELSE "",
                       state |-> IF k = 1 THEN StateName(iface) ELSE "",
                       mac |-> IF k = 1 THEN OrPlaceholder(iface.mac) ELSE "",
                       address |-> texts[k]]
           n == Height(iface)
<1>1. n \in Nat \ {0} /\ DOMAIN texts = 1 .. n
  BY AddressesRead DEF Readable, Height
<1>2. InterfaceRows(iface) = [k \in 1 .. n |-> Tab(4, Line(k))]
  BY <1>1 DEF InterfaceRows
<1> HIDE DEF n
<1>3. \A k \in 1 .. n : InterfaceRows(iface)[k] = Tab(4, Line(k))
  BY <1>2
<1>4. InterfaceRows(iface) = [k \in 1 .. n |-> InterfaceRows(iface)[k]]
  BY <1>2
<1>5. \A k \in 1 .. n : /\ InterfaceRows(iface)[k].op = "tab"
                        /\ InterfaceRows(iface)[k].line = Line(k)
  <2> HIDE DEF Line
  <2>1. \A x : Tab(4, x).op = "tab" /\ Tab(4, x).line = x
    BY DEF Tab
  <2>2. QED
    BY <1>3, <2>1, Zenon
<1>6. \A k \in 1 .. n : RowLines(iface)[k] = Line(k)
  <2> HIDE DEF Line
  <2>1. QED
    BY <1>5 DEF RowLines, n
<1>7. \A k \in 1 .. n : /\ Line(k).name # "" <=> k = 1
                        /\ Line(k).address = texts[k]
  <2>1. OrPlaceholder(iface.name) # ""
    BY PlaceholderRead
  <2>2. \A k \in 1 .. n : Line(k).name = IF k = 1 THEN OrPlaceholder(iface.name) ELSE ""
    OBVIOUS
  <2>3. \A k \in 1 .. n : Line(k).address = texts[k]
    OBVIOUS
  <2> HIDE DEF Line
  <2>4. QED
    BY <2>1, <2>2, <2>3
<1>8. /\ Line(1).name = OrPlaceholder(iface.name) /\ Line(1).state = StateName(iface)
      /\ Line(1).mac = OrPlaceholder(iface.mac)
  OBVIOUS
<1>9. 1 \in 1 .. n
  BY <1>1
<1> HIDE DEF Line
<1>10. \A k \in 1 .. n : /\ InterfaceRows(iface)[k].op = "tab"
                         /\ InterfaceRows(iface)[k].line.name # "" <=> k = 1
                         /\ RowLines(iface)[k].address = texts[k]
  BY <1>5, <1>6, <1>7
<1>11. RowLines(iface)[1] = Line(1)
  BY <1>6, <1>9
<1>12. QED
  BY <1>1, <1>4, <1>8, <1>10, <1>11, Zenon DEF n

\* Its rows tell an interface.
LEMMA InterfaceRead ==
    ASSUME NEW iface, Readable(iface), iface.name # placeholder
    PROVE  ReadInterface(RowLines(iface)) = Told(iface)
<1> DEFINE texts == AddressLines(iface.addrs)
           lines == RowLines(iface)
           n == Height(iface)
<1>1. /\ n \in Nat \ {0} /\ DOMAIN texts = 1 .. n /\ texts = [k \in 1 .. n |-> texts[k]]
      /\ Addresses(texts) = iface.addrs
  BY AddressesRead DEF Readable, Height
<1>2. DOMAIN lines = 1 .. n
  BY DEF RowLines
<1>3. /\ \A k \in 1 .. n : lines[k].address = texts[k]
      /\ lines[1].name = OrPlaceholder(iface.name)
      /\ lines[1].state = StateName(iface)
      /\ lines[1].mac = OrPlaceholder(iface.mac)
  BY RowsOf
<1>4. Each(lines, LAMBDA line : line.address) = texts
  <2> HIDE DEF lines, n, texts
  <2>1. Each(lines, LAMBDA line : line.address) = [k \in 1 .. n |-> lines[k].address]
    BY <1>2 DEF Each
  <2>2. [k \in 1 .. n |-> lines[k].address] = [k \in 1 .. n |-> texts[k]]
    BY <1>3, Zenon
  <2>3. QED
    BY <1>1, <2>1, <2>2, Zenon
<1>5. /\ Unplaced(lines[1].name) = iface.name /\ Unplaced(lines[1].mac) = iface.mac
  BY <1>3, PlaceholderRead DEF Readable
<1>6. (lines[1].state = "UP") = ("up" \in iface.flags)
  BY <1>3 DEF StateName
<1> HIDE DEF lines, texts, n
<1>7. ReadInterface(lines) = [name |-> iface.name, up |-> lines[1].state = "UP",
                              mac |-> iface.mac, addrs |-> iface.addrs]
  BY <1>1, <1>4, <1>5, Zenon DEF ReadInterface
<1>8. QED
  BY <1>6, <1>7, Zenon DEF Told, lines

\* interfaces tells every interface from its neighbours: a row with a name begins the
\* next one, and no row without one does.
LEMMA InterfacesTold ==
    ASSUME Whole, NEW ifs, IsList(ifs),
           \A i \in DOMAIN ifs : Readable(ifs[i]) /\ ifs[i].name # placeholder,
           doc.calls = InterfacesTable(ifs)
    PROVE  ReadInterfaces(Rows) = Each(ifs, Told)
<1> DEFINE n == Len(ifs)
           parts == Each(ifs, InterfaceRows)
           len == [i \in 1 .. n |-> Height(ifs[i])]
           text == Seqs!FlattenSeq(parts)
           header == Header(4)
<1>1. n \in Nat /\ DOMAIN ifs = 1 .. n
  BY ListIs
<1>2. \A i \in 1 .. n : Readable(ifs[i]) /\ ifs[i].name # placeholder
  BY <1>1
<1>3. DOMAIN parts = 1 .. n /\ parts = [i \in 1 .. n |-> parts[i]]
      /\ \A i \in 1 .. n : parts[i] = InterfaceRows(ifs[i])
  BY <1>1 DEF Each
<1>4. \A i \in 1 .. n : len[i] = Height(ifs[i])
  OBVIOUS
<1>5. len \in [1 .. n -> Nat \ {0}]
  <2>1. \A i \in 1 .. n : Height(ifs[i]) \in Nat \ {0}
    BY <1>2, RowsOf
  <2>2. QED
    BY <2>1
<1> HIDE DEF n, parts, len, header
<1>6. ASSUME NEW i \in 1 .. n
      PROVE  /\ parts[i] = [k \in 1 .. len[i] |-> parts[i][k]]
             /\ \A k \in 1 .. len[i] : /\ parts[i][k].op = "tab"
                                       /\ parts[i][k].line.name # "" <=> k = 1
  <2>1. Readable(ifs[i]) /\ ifs[i].name # placeholder
    BY <1>2
  <2>2. /\ InterfaceRows(ifs[i]) = [k \in 1 .. Height(ifs[i]) |-> InterfaceRows(ifs[i])[k]]
        /\ \A k \in 1 .. Height(ifs[i]) :
             /\ InterfaceRows(ifs[i])[k].op = "tab"
             /\ InterfaceRows(ifs[i])[k].line.name # "" <=> k = 1
    BY <2>1, RowsOf
  <2>3. parts[i] = InterfaceRows(ifs[i]) /\ len[i] = Height(ifs[i])
    BY <1>3, <1>4
  <2>4. QED
    BY <2>2, <2>3, Zenon
<1>7. PICK o : Laid(text, parts, len, n, o)
  BY <1>1, <1>3, <1>5, <1>6, LaidOut
<1> HIDE DEF text
<1>8. /\ o \in [0 .. n -> Nat] /\ o[0] = 0
      /\ text = [p \in 1 .. o[n] |-> text[p]]
      /\ \A i \in 1 .. n : o[i - 1] < o[i] /\ o[i] = o[i - 1] + len[i]
      /\ \A i \in 1 .. n : \A k \in 1 .. len[i] : text[o[i - 1] + k] = parts[i][k]
  BY <1>7 DEF Laid
<1>9. /\ \A p \in 1 .. o[n] : \E i \in 1 .. n : \E k \in 1 .. len[i] : p = o[i - 1] + k
      /\ \A i \in 1 .. n : o[i - 1] + 1 <= o[i] /\ o[i] <= o[n] /\ o[i - 1] \in Nat /\ o[i] \in Nat
  BY <1>1, <1>5, <1>7, LaidPlaces
<1>10. o[n] \in Nat
  BY <1>1, <1>8
<1> DEFINE m == o[n]
           rows == LinesOf(text, m)
           starts == {p \in DOMAIN rows : rows[p].name # ""}
<1>11. Rows = rows
  <2>1. TableRows(text, m)
    <3>1. ASSUME NEW p \in 1 .. m PROVE text[p].op = "tab"
      <4>1. PICK i \in 1 .. n : \E k \in 1 .. len[i] : p = o[i - 1] + k
        BY <1>9
      <4>2. PICK k \in 1 .. len[i] : p = o[i - 1] + k
        BY <4>1
      <4>3. text[p] = parts[i][k]
        BY <1>8, <4>2
      <4>4. parts[i][k].op = "tab"
        BY <1>6
      <4>5. QED
        BY <4>3, <4>4
    <3>2. QED
      BY <1>8, <3>1 DEF TableRows
  <2>2. doc.calls = Table(header, text)
    BY Zenon DEF InterfacesTable, Table, text, parts, header
  <2>3. header.op = "tab" /\ Out("none").op = "out"
    BY DEF header, Header, Tab, Out
  <2> DEFINE summary == Out("none")
  <2> HIDE DEF m, summary, rows
  <2>4. QED
    BY <1>10, <2>1, <2>2, <2>3, TableShown DEF m, summary, rows
<1>12. /\ DOMAIN rows = 1 .. m /\ rows = [p \in 1 .. m |-> rows[p]]
       /\ \A p \in 1 .. m : rows[p] = text[p].line
  BY DEF LinesOf
<1> HIDE DEF rows
<1>13. starts = Starts(n, o)
  <2>1. ASSUME NEW p \in starts PROVE p \in Starts(n, o)
    <3>1. p \in 1 .. m /\ rows[p].name # ""
      BY <1>12
    <3>2. PICK i \in 1 .. n : \E k \in 1 .. len[i] : p = o[i - 1] + k
      BY <1>9, <3>1
    <3>3. PICK k \in 1 .. len[i] : p = o[i - 1] + k
      BY <3>2
    <3>4. rows[p] = parts[i][k].line
      BY <1>8, <1>12, <3>1, <3>3
    <3>5. k = 1
      BY <1>6, <3>1, <3>4
    <3>6. QED
      BY <3>3, <3>5 DEF Starts
  <2>2. ASSUME NEW i \in 1 .. n PROVE o[i - 1] + 1 \in starts
    <3>1. 1 \in 1 .. len[i]
      BY <1>5
    <3>2. o[i - 1] + 1 \in 1 .. m
      BY <1>9, <1>10
    <3>3. rows[o[i - 1] + 1] = parts[i][1].line
      BY <1>8, <1>12, <3>1, <3>2
    <3>4. parts[i][1].line.name # ""
      BY <1>6, <3>1
    <3>5. QED
      BY <1>12, <3>2, <3>3, <3>4
  <2>3. QED
    BY <2>1, <2>2 DEF Starts
<1> HIDE DEF starts
<1>14. Sections(rows, starts) = CutLines(rows, n, o)
  <2>1. rows = [p \in 1 .. o[n] |-> rows[p]]
    BY <1>12
  <2>2. o[0] = 0 /\ \A i \in 1 .. n : o[i - 1] < o[i]
    BY <1>8
  <2>3. o \in [0 .. n -> Nat]
    BY <1>8
  <2> HIDE DEF m
  <2>4. QED
    BY <1>1, <1>13, <2>1, <2>2, <2>3, SectionsAre
<1>15. ASSUME NEW i \in 1 .. n
       PROVE  CutLines(rows, n, o)[i] = RowLines(ifs[i])
  <2>1. CutLines(rows, n, o)[i] = [k \in 1 .. o[i] - o[i - 1] |-> rows[o[i - 1] + k]]
    BY DEF CutLines
  <2>2. o[i] - o[i - 1] = len[i] /\ len[i] = Height(ifs[i]) /\ len[i] \in Nat
    BY <1>4, <1>5, <1>8, <1>9
  <2>3. ASSUME NEW k \in 1 .. len[i] PROVE rows[o[i - 1] + k] = InterfaceRows(ifs[i])[k].line
    <3>1. o[i - 1] + k \in 1 .. m
      BY <1>8, <1>9, <1>10, <2>2
    <3>2. rows[o[i - 1] + k] = text[o[i - 1] + k].line
      BY <1>12, <3>1
    <3>3. text[o[i - 1] + k] = parts[i][k] /\ parts[i] = InterfaceRows(ifs[i])
      BY <1>3, <1>8
    <3>4. QED
      BY <3>2, <3>3
  <2>4. QED
    BY <2>1, <2>2, <2>3, Zenon DEF RowLines
<1>16. ReadInterfaces(Rows) = [i \in 1 .. n |-> ReadInterface(CutLines(rows, n, o)[i])]
  <2>1. ReadInterfaces(rows) = [i \in DOMAIN Sections(rows, starts) |->
                                 ReadInterface(Sections(rows, starts)[i])]
    BY Zenon DEF ReadInterfaces, ReadInterface, Each, starts
  <2>2. DOMAIN CutLines(rows, n, o) = 1 .. n
    BY DEF CutLines
  <2>3. QED
    BY <1>11, <1>14, <2>1, <2>2, Zenon
<1>17. \A i \in 1 .. n : ReadInterface(CutLines(rows, n, o)[i]) = Told(ifs[i])
  BY <1>2, <1>15, InterfaceRead
<1>18. Each(ifs, Told) = [i \in 1 .. n |-> Told(ifs[i])]
  BY <1>1 DEF Each
<1>19. QED
  BY <1>16, <1>17, <1>18, Zenon

\* The h numbers behind a.
Run(a, h) == {a + k : k \in 1 .. h}

\* The h lines behind line a of b.
LinesAt(b, a, h) == [k \in 1 .. h |-> b[a + k]]

\* What is kept of a run of lines is the run.
LEMMA KeptRun ==
    ASSUME NEW a \in Nat, NEW h \in Nat, NEW b, NEW I, I = Run(a, h)
    PROVE  Kept(b, I) = LinesAt(b, a, h)
<1> DEFINE first == [k \in 1 .. h |-> a + k]
           at == Ranked(I, {p \in I \X I : p[1] < p[2]})
           N == Cardinality(I)
<1>1. first \in Seq(Nat) /\ DOMAIN first = 1 .. h /\ \A k \in 1 .. h : first[k] = a + k
  <2>1. first \in [1 .. h -> Nat]
    OBVIOUS
  <2>2. QED
    BY <2>1, SeqDef
<1> HIDE DEF first
<1>2. Increasing(first)
  <2>1. ASSUME NEW i \in 1 .. h, NEW j \in 1 .. h, i < j PROVE first[i] < first[j]
    BY <1>1, <2>1
  <2>2. QED
    BY <1>1, <2>1 DEF Increasing
<1>3. I = Elements(first)
  BY <1>1 DEF Elements, Run
<1>4. at = first
  BY <1>1, <1>2, <1>3, RankedNumbers
<1>5. Kept(b, I) = [k \in 1 .. N |-> b[at[k]]]
  BY DEF Kept
<1>6. DOMAIN at = 1 .. N
  BY DEF Ranked
<1> HIDE DEF at, N
<1>7. 1 .. N = 1 .. h
  BY <1>1, <1>4, <1>6
<1>8. \A k \in 1 .. h : b[at[k]] = b[a + k]
  BY <1>1, <1>4
<1>9. QED
  BY <1>5, <1>7, <1>8, Zenon DEF LinesAt

\* Five lines stand above the addresses of a block.
Size(iface) == 5 + Height(iface)

\* The lines of a block: none of them is blank.
LEMMA BlockOf ==
    ASSUME NEW iface, Readable(iface)
    PROVE  /\ Height(iface) \in Nat \ {0} /\ Size(iface) \in Nat \ {0}
           /\ Block(iface) = [k \in 1 .. Size(iface) |-> Block(iface)[k]]
           /\ \A k \in 1 .. Size(iface) :
                Block(iface)[k].op = "tab" /\ ~IsBlank(Block(iface)[k].line)
           /\ Block(iface)[1].line.label = iface.name
           /\ Block(iface)[3].line.value = StateName(iface)
           /\ Block(iface)[4].line.value = OrPlaceholder(iface.mac)
           /\ \A k \in 1 .. Height(iface) :
                Block(iface)[5 + k].line.value = AddressLines(iface.addrs)[k]
<1> DEFINE texts == AddressLines(iface.addrs)
           h == Height(iface)
           f1 == Field(iface.name, FlagList(iface))
           f2 == Field("index:", iface.index)
           f3 == Field("state:", StateName(iface))
           f4 == Field("mac:", OrPlaceholder(iface.mac))
           f5 == Field("mtu:", iface.mtu)
           five == <<f1, f2, f3, f4, f5>>
           more == [i \in 1 .. h |-> Field(IF i = 1 THEN "addresses:" ELSE "", texts[i])]
           C == {f1, f2, f3, f4, f5} \cup {more[i] : i \in 1 .. h}
<1>1. h \in Nat \ {0} /\ DOMAIN texts = 1 .. h /\ \A i \in 1 .. h : texts[i] # ""
  BY AddressesRead DEF Readable, Height
<1>2. Block(iface) = five \o more
  BY <1>1 DEF Block
<1>3. \A label, value : /\ Field(label, value).op = "tab"
                        /\ Field(label, value).line.label = label
                        /\ Field(label, value).line.value = value
  BY DEF Field, Tab
<1>4. FlagList(iface) # ""
  BY DEF FlagList
<1>5. \A x \in {f1, f2, f3, f4, f5} : x.op = "tab" /\ ~IsBlank(x.line)
  <2>1. f1.op = "tab" /\ ~IsBlank(f1.line)
    BY <1>3, <1>4 DEF IsBlank
  <2>2. f2.op = "tab" /\ ~IsBlank(f2.line)
    BY <1>3 DEF IsBlank
  <2>3. f3.op = "tab" /\ ~IsBlank(f3.line)
    BY <1>3 DEF IsBlank
  <2>4. f4.op = "tab" /\ ~IsBlank(f4.line)
    BY <1>3 DEF IsBlank
  <2>5. f5.op = "tab" /\ ~IsBlank(f5.line)
    BY <1>3 DEF IsBlank
  <2> HIDE DEF f1, f2, f3, f4, f5
  <2>6. QED
    BY <2>1, <2>2, <2>3, <2>4, <2>5
<1>6. \A i \in 1 .. h : /\ more[i].op = "tab" /\ ~IsBlank(more[i].line)
                        /\ more[i].line.value = texts[i]
  <2>1. ASSUME NEW i \in 1 .. h
        PROVE  more[i].op = "tab" /\ more[i].line.value = texts[i]
    <3> DEFINE label == IF i = 1 THEN "addresses:" ELSE ""
               text == texts[i]
    <3>1. more[i] = Field(label, text)
      OBVIOUS
    <3> HIDE DEF more, label, text
    <3>2. Field(label, text).op = "tab" /\ Field(label, text).line.value = text
      BY <1>3, Zenon
    <3>3. QED
      BY <3>1, <3>2 DEF text
  <2>2. ASSUME NEW i \in 1 .. h PROVE ~IsBlank(more[i].line)
    <3>1. texts[i] # ""
      BY <1>1
    <3>2. QED
      BY <2>1, <3>1, Zenon DEF IsBlank
  <2>3. QED
    BY <2>1, <2>2, Zenon
<1>7. f1.line.label = iface.name /\ f3.line.value = StateName(iface)
      /\ f4.line.value = OrPlaceholder(iface.mac)
  BY <1>3
<1>8. h \in Nat /\ more = [i \in 1 .. h |-> more[i]]
  BY <1>1
<1>9. /\ f1 \in C /\ f2 \in C /\ f3 \in C /\ f4 \in C /\ f5 \in C
      /\ \A i \in 1 .. h : more[i] \in C
      /\ \A x \in C : x \in {f1, f2, f3, f4, f5} \/ \E i \in 1 .. h : x = more[i]
  <2> HIDE DEF f1, f2, f3, f4, f5, more, h
  <2>1. QED
    OBVIOUS
<1> HIDE DEF f1, f2, f3, f4, f5, more, h, C
<1>10. more \in Seq(C) /\ Len(more) = h
  <2>1. more \in [1 .. h -> C]
    BY <1>8, <1>9
  <2>2. QED
    BY <1>8, <2>1, SeqDef, LenOf
<1>11. /\ five \in Seq(C) /\ Len(five) = 5
       /\ five[1] = f1 /\ five[3] = f3 /\ five[4] = f4
  BY <1>9
<1> HIDE DEF five
<1> DEFINE block == Block(iface)
<1>12. /\ block \in Seq(C) /\ Len(block) = 5 + h
       /\ \A k \in 1 .. 5 + h : block[k] = IF k <= 5 THEN five[k] ELSE more[k - 5]
  <2>1. block = five \o more
    BY <1>2
  <2> HIDE DEF block
  <2>2. /\ five \o more \in Seq(C) /\ Len(five \o more) = Len(five) + Len(more)
        /\ \A k \in 1 .. Len(five) + Len(more) :
             (five \o more)[k] = IF k <= Len(five) THEN five[k] ELSE more[k - Len(five)]
    BY <1>10, <1>11, ConcatProperties
  <2>3. QED
    BY <1>10, <1>11, <2>1, <2>2, Zenon
<1> HIDE DEF block
<1>13. block = [k \in 1 .. 5 + h |-> block[k]] /\ \A k \in 1 .. 5 + h : block[k] \in C
  BY <1>12, SeqDef, LenProperties, ElementOfSeq
<1>14. ASSUME NEW k \in 1 .. 5 + h PROVE block[k].op = "tab" /\ ~IsBlank(block[k].line)
  BY <1>5, <1>6, <1>9, <1>13
<1>15. block[1] = f1 /\ block[3] = f3 /\ block[4] = f4
  <2>1. 1 \in 1 .. 5 + h /\ 3 \in 1 .. 5 + h /\ 4 \in 1 .. 5 + h
    BY <1>8
  <2>2. block[1] = five[1] /\ block[3] = five[3] /\ block[4] = five[4]
    BY <1>12, <2>1
  <2>3. QED
    BY <1>11, <2>2
<1>16. \A k \in 1 .. h : block[5 + k].line.value = texts[k]
  <2>1. ASSUME NEW k \in 1 .. h PROVE block[5 + k] = more[k]
    <3>1. 5 + k \in 1 .. 5 + h /\ ~(5 + k <= 5) /\ 5 + k - 5 = k
      BY <1>8
    <3>2. QED
      BY <1>12, <3>1
  <2>2. QED
    BY <1>6, <2>1
<1>17. 5 + h \in Nat \ {0}
  BY <1>8
<1>18. QED
  BY <1>1, <1>7, <1>13, <1>14, <1>15, <1>16, <1>17, Zenon DEF block, h, Size

\* One block of ReadBlocks.
ReadBlock(b) ==
    [name |-> b[1].label, up |-> b[3].value = "UP", mac |-> Unplaced(b[4].value),
     addrs |-> Addresses(Each(Kept(b, {i \in DOMAIN b : i > 5 /\ ~IsBlank(b[i])}),
                              LAMBDA line : line.value))]

\* A block tells its interface, with the blank line below it or without.
LEMMA BlockRead ==
    ASSUME NEW iface, Readable(iface), NEW size \in {Size(iface), Size(iface) + 1},
           NEW b, DOMAIN b = 1 .. size,
           \A k \in 1 .. Size(iface) : b[k] = Block(iface)[k].line,
           size # Size(iface) => IsBlank(b[size])
    PROVE  ReadBlock(b) = Told(iface)
<1> DEFINE h == Height(iface)
           texts == AddressLines(iface.addrs)
           I == {i \in DOMAIN b : i > 5 /\ ~IsBlank(b[i])}
           kept == Kept(b, I)
<1>1. h \in Nat \ {0} /\ Size(iface) = 5 + h
  BY BlockOf DEF Size
<1>2. \A k \in 1 .. Size(iface) : ~IsBlank(b[k])
  BY BlockOf
<1>3. /\ b[1].label = iface.name /\ b[3].value = StateName(iface)
      /\ b[4].value = OrPlaceholder(iface.mac)
  <2>1. 1 \in 1 .. Size(iface) /\ 3 \in 1 .. Size(iface) /\ 4 \in 1 .. Size(iface)
    BY <1>1
  <2>2. /\ b[1] = Block(iface)[1].line /\ b[3] = Block(iface)[3].line
        /\ b[4] = Block(iface)[4].line
    BY <2>1
  <2>3. QED
    BY <2>2, BlockOf
<1>4. \A k \in 1 .. h : b[5 + k].value = texts[k]
  <2>1. ASSUME NEW k \in 1 .. h PROVE b[5 + k].value = texts[k]
    <3>1. 5 + k \in 1 .. Size(iface)
      BY <1>1
    <3>2. b[5 + k] = Block(iface)[5 + k].line
      BY <3>1
    <3>3. QED
      BY <3>2, BlockOf
  <2>2. QED
    BY <2>1
<1>5. I = {5 + k : k \in 1 .. h}
  <2>1. ASSUME NEW i \in I PROVE \E k \in 1 .. h : i = 5 + k
    <3>1. i \in 1 .. size /\ i > 5 /\ ~IsBlank(b[i])
      OBVIOUS
    <3>2. i \in 1 .. Size(iface)
      <4>1. CASE size = Size(iface)
        BY <3>1, <4>1
      <4>2. CASE size # Size(iface)
        <5>1. size = Size(iface) + 1 /\ i # size
          BY <3>1, <4>2
        <5>2. QED
          BY <1>1, <3>1, <5>1
      <4>3. QED
        BY <4>1, <4>2
    <3>3. i - 5 \in 1 .. h /\ i = 5 + (i - 5)
      BY <1>1, <3>1, <3>2
    <3>4. QED
      BY <3>3
  <2>2. ASSUME NEW k \in 1 .. h PROVE 5 + k \in I
    <3>1. 5 + k \in 1 .. Size(iface) /\ 5 + k > 5 /\ 5 + k \in 1 .. size
      BY <1>1
    <3>2. QED
      BY <1>2, <3>1
  <2>3. QED
    BY <2>1, <2>2
<1> HIDE DEF I
<1>6. kept = [k \in 1 .. h |-> b[5 + k]]
  <2>1. 5 \in Nat /\ h \in Nat
    BY <1>1
  <2> HIDE DEF h, kept
  <2>2. I = Run(5, h)
    BY <1>5 DEF Run
  <2>3. Kept(b, I) = LinesAt(b, 5, h)
    BY <2>1, <2>2, KeptRun
  <2>4. QED
    BY <2>3 DEF LinesAt, kept
<1>7. DOMAIN kept = 1 .. h /\ \A k \in 1 .. h : kept[k].value = texts[k]
  BY <1>4, <1>6
<1> HIDE DEF kept, h, texts
<1>8. Each(kept, LAMBDA line : line.value) = texts
  <2>1. Each(kept, LAMBDA line : line.value) = [k \in 1 .. h |-> kept[k].value]
    BY <1>7 DEF Each
  <2>2. [k \in 1 .. h |-> kept[k].value] = [k \in 1 .. h |-> texts[k]]
    BY <1>7, Zenon
  <2>3. texts = [k \in 1 .. h |-> texts[k]]
    BY AddressesRead DEF Readable, Height, h, texts
  <2>4. QED
    BY <2>1, <2>2, <2>3, Zenon
<1>9. Addresses(texts) = iface.addrs
  BY AddressesRead DEF Readable, texts
<1>10. Unplaced(b[4].value) = iface.mac
  BY <1>3, PlaceholderRead DEF Readable
<1>11. (b[3].value = "UP") = ("up" \in iface.flags)
  BY <1>3 DEF StateName
<1>12. ReadBlock(b) = [name |-> iface.name, up |-> b[3].value = "UP",
                       mac |-> iface.mac, addrs |-> iface.addrs]
  <2>1. ReadBlock(b) = [name |-> b[1].label, up |-> b[3].value = "UP",
                        mac |-> Unplaced(b[4].value),
                        addrs |-> Addresses(Each(kept, LAMBDA line : line.value))]
    BY Zenon DEF ReadBlock, kept, I
  <2>2. QED
    BY <1>3, <1>8, <1>9, <1>10, <2>1, Zenon
<1>13. QED
  BY <1>11, <1>12, Zenon DEF Told

\* The lines that details prints for interface i of ifs: a blank one above all but the first.
Part(ifs, i) == (IF i > 1 THEN <<BlankLine>> ELSE <<>>) \o Block(ifs[i])

\* How many blank lines stand above interface i.
Lead(i) == IF i > 1 THEN 1 ELSE 0

\* A part is the block with the blank line in front of it, if there is one.
LEMMA PartIs ==
    ASSUME NEW ifs, NEW i \in Nat, Readable(ifs[i])
    PROVE  LET m == Lead(i) + Size(ifs[i])
           IN  /\ m \in Nat \ {0} /\ Part(ifs, i) = [k \in 1 .. m |-> Part(ifs, i)[k]]
               /\ i > 1 => Part(ifs, i)[1] = BlankLine
               /\ \A k \in 1 .. Size(ifs[i]) : Part(ifs, i)[Lead(i) + k] = Block(ifs[i])[k]
<1> DEFINE s == Size(ifs[i])
           block == Block(ifs[i])
           front == IF i > 1 THEN <<BlankLine>> ELSE <<>>
           C == {BlankLine} \cup {block[k] : k \in 1 .. s}
<1>1. s \in Nat \ {0} /\ block = [k \in 1 .. s |-> block[k]]
  BY BlockOf
<1>2. BlankLine \in C /\ \A k \in 1 .. s : block[k] \in C
  OBVIOUS
<1> HIDE DEF s, block, C
<1>3. block \in Seq(C) /\ Len(block) = s
  <2>1. block \in [1 .. s -> C]
    BY <1>1, <1>2
  <2>2. QED
    BY <1>1, <2>1, SeqDef, LenOf
<1>4. front \in Seq(C) /\ Len(front) = Lead(i) /\ (i > 1 => front[1] = BlankLine)
  <2>1. CASE i > 1
    BY <1>2, <2>1 DEF Lead
  <2>2. CASE ~(i > 1)
    BY <2>2 DEF Lead
  <2>3. QED
    BY <2>1, <2>2
<1> HIDE DEF front
<1> DEFINE part == Part(ifs, i)
           m == Lead(i) + s
<1>5. part = front \o block
  BY DEF Part, front, block
<1>6. Lead(i) \in Nat /\ (i > 1 => Lead(i) = 1)
  BY DEF Lead
<1> HIDE DEF part
<1>7. /\ part \in Seq(C) /\ Len(part) = m
      /\ \A k \in 1 .. m : part[k] = IF k <= Lead(i) THEN front[k] ELSE block[k - Lead(i)]
  <2>1. /\ front \o block \in Seq(C) /\ Len(front \o block) = Len(front) + Len(block)
        /\ \A k \in 1 .. Len(front) + Len(block) :
             (front \o block)[k] = IF k <= Len(front) THEN front[k] ELSE block[k - Len(front)]
    BY <1>3, <1>4, ConcatProperties
  <2>2. QED
    BY <1>3, <1>4, <1>5, <2>1, Zenon
<1>8. m \in Nat \ {0}
  BY <1>1, <1>6
<1>9. part = [k \in 1 .. m |-> part[k]]
  BY <1>7, SeqDef, LenProperties
<1>10. i > 1 => part[1] = BlankLine
  <2>1. i > 1 => 1 \in 1 .. m /\ 1 <= Lead(i)
    BY <1>6, <1>8
  <2>2. QED
    BY <1>4, <1>7, <2>1
<1>11. ASSUME NEW k \in 1 .. s PROVE part[Lead(i) + k] = block[k]
  <2> DEFINE j == Lead(i) + k
  <2>1. j \in 1 .. m /\ ~(j <= Lead(i)) /\ j - Lead(i) = k
    <3>1. \A x, y \in Nat : (~(x + y <= x) \/ y = 0) /\ x + y - x = y
      OBVIOUS
    <3>2. k \in Nat /\ k # 0 /\ k <= s /\ s \in Nat
      BY <1>1
    <3>3. ~(j <= Lead(i)) /\ j - Lead(i) = k
      BY <1>6, <3>1, <3>2
    <3>4. j \in 1 .. m
      BY <1>6, <3>2
    <3>5. QED
      BY <3>3, <3>4
  <2> HIDE DEF j, m
  <2>2. part[j] = block[j - Lead(i)]
    BY <1>7, <2>1
  <2>3. QED
    BY <2>1, <2>2 DEF j
<1>12. QED
  BY <1>8, <1>9, <1>10, <1>11, Zenon DEF part, block, s

\* A text that is flushed at its end is shown line by line.
LEMMA TextShown ==
    ASSUME Whole, NEW m \in Nat, NEW text, TableRows(text, m), doc.calls = text \o <<Flush>>
    PROVE  Shown = LinesOf(text, m)
<1> DEFINE C == {Flush} \cup {text[p] : p \in 1 .. m}
<1>1. text = [p \in 1 .. m |-> text[p]] /\ \A p \in 1 .. m : text[p].op = "tab"
  BY DEF TableRows
<1>2. Flush \in C /\ \A p \in 1 .. m : text[p] \in C
  OBVIOUS
<1> HIDE DEF C
<1>3. text \in Seq(C) /\ Len(text) = m /\ DOMAIN text = 1 .. m
  <2>1. text \in [1 .. m -> C]
    BY <1>1, <1>2
  <2>2. Len(text) = m /\ DOMAIN text = 1 .. m
    BY <1>1, LenOf
  <2>3. QED
    BY <2>1, <2>2, SeqDef
<1>4. <<>> \in Seq(C) /\ Len(<<>>) = 0 /\ DOMAIN <<>> = {}
  OBVIOUS
<1>5. doc.calls = text \o <<Flush>> \o <<>>
  <2>1. <<Flush>> \in Seq(C)
    BY <1>2
  <2>2. text \o <<Flush>> \in Seq(C)
    BY <1>3, <2>1, ConcatProperties
  <2>3. QED
    BY <2>2, ConcatEmptySeq
<1>6. \A p \in DOMAIN text : text[p].op # "flush"
  BY <1>1, <1>3
<1>7. ASSUME NEW x \in Seq(C), \A i \in DOMAIN x : x[i].op # "flush",
             doc.calls = text \o <<Flush>> \o x
      PROVE  Shown = [i \in 1 .. Len(text) + Len(x) |->
                        IF i <= Len(text) THEN text[i].line ELSE x[i - Len(text)].line]
  BY <1>2, <1>3, <1>6, <1>7, ShownWhole
<1> DEFINE below == <<>>
<1>8. /\ below \in Seq(C) /\ Len(below) = 0 /\ DOMAIN below = {}
      /\ doc.calls = text \o <<Flush>> \o below
  BY <1>4, <1>5
<1> HIDE DEF below
<1>9. Shown = [i \in 1 .. Len(text) + Len(below) |->
                 IF i <= Len(text) THEN text[i].line ELSE below[i - Len(text)].line]
  BY <1>7, <1>8, Zenon
<1>10. Len(text) + Len(below) = m
  BY <1>3, <1>8
<1>11. DOMAIN Shown = 1 .. m /\ Shown = [p \in 1 .. m |-> Shown[p]]
  BY <1>9, <1>10
<1>12. ASSUME NEW p \in 1 .. m PROVE Shown[p] = text[p].line
  <2>1. p <= Len(text)
    BY <1>3
  <2>2. QED
    BY <1>9, <1>10, <2>1
<1>13. [p \in 1 .. m |-> Shown[p]] = [p \in 1 .. m |-> text[p].line]
  BY <1>12, Zenon
<1>14. QED
  BY <1>11, <1>13, Zenon DEF LinesOf

\* Where the blocks end if the blank line above a block belongs to the one before it.
BlockEnds(n, o) == [i \in 0 .. n |-> IF i = 0 THEN 0 ELSE IF i < n THEN o[i] + 1 ELSE o[n]]

\* A block begins behind the blank line of its part, and is not empty.
LEMMA BlockEndsRise ==
    ASSUME NEW n \in Nat, NEW o \in [0 .. n -> Nat], o[0] = 0,
           NEW len \in [1 .. n -> Nat \ {0}],
           \A i \in 1 .. n : o[i] = o[i - 1] + len[i] /\ 1 + Lead(i) < len[i]
    PROVE  LET q == BlockEnds(n, o)
           IN  /\ q \in [0 .. n -> Nat] /\ q[0] = 0 /\ q[n] = o[n]
               /\ \A i \in 1 .. n : /\ q[i - 1] = o[i - 1] + Lead(i) /\ q[i - 1] < q[i]
                                    /\ i < n => q[i] = o[i] + 1
<1> DEFINE q == BlockEnds(n, o)
<1>1. \A i \in 0 .. n : /\ o[i] \in Nat
                        /\ q[i] = IF i = 0 THEN 0 ELSE IF i < n THEN o[i] + 1 ELSE o[n]
  BY DEF BlockEnds
<1>2. q \in [0 .. n -> Nat]
  BY DEF BlockEnds
<1> HIDE DEF q
<1>3. n \in 0 .. n /\ 0 \in 0 .. n
  OBVIOUS
<1>4. q[0] = 0 /\ q[n] = o[n]
  BY <1>1, <1>3
<1>5. ASSUME NEW i \in 1 .. n
      PROVE  q[i - 1] = o[i - 1] + Lead(i) /\ q[i - 1] < q[i] /\ (i < n => q[i] = o[i] + 1)
  <2>1. i \in 0 .. n /\ i - 1 \in 0 .. n /\ i \in Nat /\ i # 0
    OBVIOUS
  <2>2. q[i - 1] = o[i - 1] + Lead(i)
    <3>1. CASE i = 1
      <4>1. i - 1 = 0 /\ Lead(i) = 0
        BY <3>1 DEF Lead
      <4>2. q[i - 1] = 0 /\ o[i - 1] = 0
        BY <1>4, <4>1
      <4>3. QED
        BY <4>1, <4>2
    <3>2. CASE i # 1
      <4>1. Lead(i) = 1 /\ i - 1 # 0 /\ i - 1 < n
        BY <2>1, <3>2 DEF Lead
      <4>2. QED
        BY <1>1, <2>1, <4>1
    <3>3. QED
      BY <3>1, <3>2
  <2>3. (i < n => q[i] = o[i] + 1) /\ (~(i < n) => q[i] = o[i])
    <3>1. ~(i < n) => i = n
      OBVIOUS
    <3>2. QED
      BY <1>1, <1>4, <2>1, <3>1
  <2>4. /\ o[i - 1] \in Nat /\ o[i] \in Nat /\ len[i] \in Nat /\ Lead(i) \in Nat
        /\ o[i] = o[i - 1] + len[i] /\ 1 + Lead(i) < len[i]
    BY <1>1, <2>1 DEF Lead
  <2>5. q[i - 1] < q[i]
    BY <2>2, <2>3, <2>4
  <2>6. QED
    BY <2>2, <2>3, <2>5
<1>6. QED
  BY <1>2, <1>4, <1>5 DEF q

\* interfaces --verbose tells every interface from its neighbours: a block begins at the
\* top and below every blank line, and nowhere else.
LEMMA DetailsTold ==
    ASSUME Whole, NEW ifs, IsList(ifs), \A i \in DOMAIN ifs : Readable(ifs[i]),
           doc.calls = DetailsTable(ifs)
    PROVE  ReadBlocks(Shown) = Each(ifs, Told)
<1> DEFINE n == Len(ifs)
           parts == [i \in DOMAIN ifs |-> Part(ifs, i)]
           len == [i \in 1 .. n |-> Lead(i) + Size(ifs[i])]
           text == Seqs!FlattenSeq(parts)
<1>1. n \in Nat /\ DOMAIN ifs = 1 .. n
  BY ListIs
<1>2. \A i \in 1 .. n : Readable(ifs[i])
  BY <1>1
<1>3. DOMAIN parts = 1 .. n /\ parts = [i \in 1 .. n |-> parts[i]]
      /\ \A i \in 1 .. n : parts[i] = Part(ifs, i)
  BY <1>1
<1>4. \A i \in 1 .. n : len[i] = Lead(i) + Size(ifs[i])
  OBVIOUS
<1>5. len \in [1 .. n -> Nat \ {0}]
  <2>1. \A i \in 1 .. n : Lead(i) + Size(ifs[i]) \in Nat \ {0}
    <3>1. \A i \in 1 .. n : Size(ifs[i]) \in Nat \ {0}
      BY <1>2, BlockOf
    <3>2. QED
      BY <3>1 DEF Lead
  <2>2. QED
    BY <2>1
<1>6. doc.calls = text \o <<Flush>>
  BY DEF DetailsTable, Part
<1> HIDE DEF n, parts, len
<1>7. ASSUME NEW i \in 1 .. n
      PROVE  /\ parts[i] = [k \in 1 .. len[i] |-> parts[i][k]]
             /\ i > 1 => parts[i][1] = BlankLine
             /\ \A k \in 1 .. Size(ifs[i]) : parts[i][Lead(i) + k] = Block(ifs[i])[k]
             /\ Size(ifs[i]) \in Nat /\ 5 < Size(ifs[i]) /\ Lead(i) \in {0, 1}
             /\ Lead(i) = 1 <=> i > 1
  <2>1. Readable(ifs[i]) /\ i \in Nat
    BY <1>1, <1>2
  <2>2. LET m == Lead(i) + Size(ifs[i])
        IN  /\ m \in Nat \ {0} /\ Part(ifs, i) = [k \in 1 .. m |-> Part(ifs, i)[k]]
            /\ i > 1 => Part(ifs, i)[1] = BlankLine
            /\ \A k \in 1 .. Size(ifs[i]) : Part(ifs, i)[Lead(i) + k] = Block(ifs[i])[k]
    BY <2>1, PartIs
  <2>3. parts[i] = Part(ifs, i) /\ len[i] = Lead(i) + Size(ifs[i])
    BY <1>3, <1>4
  <2>4. Height(ifs[i]) \in Nat \ {0}
    BY <2>1, BlockOf
  <2>5. Size(ifs[i]) \in Nat /\ 5 < Size(ifs[i])
    BY <2>4 DEF Size
  <2>6. Lead(i) \in {0, 1} /\ (Lead(i) = 1 <=> i > 1)
    BY DEF Lead
  <2>7. QED
    BY <2>2, <2>3, <2>5, <2>6, Zenon
<1>8. PICK o : Laid(text, parts, len, n, o)
  BY <1>1, <1>3, <1>5, <1>7, LaidOut
<1> HIDE DEF text
<1>9. /\ o \in [0 .. n -> Nat] /\ o[0] = 0
      /\ text = [p \in 1 .. o[n] |-> text[p]]
      /\ \A i \in 1 .. n : o[i - 1] < o[i] /\ o[i] = o[i - 1] + len[i]
      /\ \A i \in 1 .. n : \A k \in 1 .. len[i] : text[o[i - 1] + k] = parts[i][k]
  BY <1>8 DEF Laid
<1>10. /\ \A p \in 1 .. o[n] : \E i \in 1 .. n : \E k \in 1 .. len[i] : p = o[i - 1] + k
       /\ \A i \in 1 .. n : o[i - 1] + 1 <= o[i] /\ o[i] <= o[n] /\ o[i - 1] \in Nat /\ o[i] \in Nat
  BY <1>1, <1>5, <1>8, LaidPlaces
<1> DEFINE m == o[n]
<1>11. m \in Nat
  BY <1>1, <1>9
\* Each line is blank and begins a part, or is a line of a block.
<1>12. ASSUME NEW i \in 1 .. n, NEW k \in 1 .. len[i]
       PROVE  /\ parts[i][k].op = "tab"
              /\ IsBlank(parts[i][k].line) <=> i > 1 /\ k = 1
  <2>1. Readable(ifs[i])
    BY <1>2
  <2>2. /\ Size(ifs[i]) \in Nat /\ Lead(i) \in {0, 1} /\ len[i] = Lead(i) + Size(ifs[i])
        /\ Lead(i) = 1 <=> i > 1
    BY <1>4, <1>7
  <2>3. CASE i > 1 /\ k = 1
    <3>1. parts[i][k] = BlankLine
      BY <1>7, <2>3
    <3>2. BlankLine.op = "tab" /\ IsBlank(BlankLine.line)
      BY DEF BlankLine, Tab, IsBlank
    <3>3. QED
      BY <2>3, <3>1, <3>2
  <2>4. CASE ~(i > 1 /\ k = 1)
    <3> DEFINE j == k - Lead(i)
    <3>1. j \in 1 .. Size(ifs[i]) /\ k = Lead(i) + j
      BY <2>2, <2>4
    <3> HIDE DEF j
    <3>2. parts[i][k] = Block(ifs[i])[j]
      BY <1>7, <3>1
    <3>3. Block(ifs[i])[j].op = "tab" /\ ~IsBlank(Block(ifs[i])[j].line)
      BY <2>1, <3>1, BlockOf
    <3>4. QED
      BY <2>4, <3>2, <3>3
  <2>5. QED
    BY <2>3, <2>4
<1> DEFINE shown == LinesOf(text, m)
           starts == {p \in DOMAIN shown : p = 1 \/ IsBlank(shown[p - 1])}
           q == BlockEnds(n, o)
<1>13. Shown = shown
  <2>1. TableRows(text, m)
    <3>1. ASSUME NEW p \in 1 .. m PROVE text[p].op = "tab"
      <4>1. PICK i \in 1 .. n : \E k \in 1 .. len[i] : p = o[i - 1] + k
        BY <1>10
      <4>2. PICK k \in 1 .. len[i] : p = o[i - 1] + k
        BY <4>1
      <4>3. text[p] = parts[i][k]
        BY <1>9, <4>2
      <4>4. QED
        BY <1>12, <4>3
    <3>2. QED
      BY <1>9, <3>1 DEF TableRows
  <2> HIDE DEF m, shown
  <2>2. QED
    BY <1>6, <1>11, <2>1, TextShown DEF shown
<1>14. /\ DOMAIN shown = 1 .. m /\ shown = [p \in 1 .. m |-> shown[p]]
       /\ \A p \in 1 .. m : shown[p] = text[p].line
  BY DEF LinesOf
<1> HIDE DEF shown
<1>15. ASSUME NEW i \in 1 .. n, NEW k \in 1 .. len[i]
       PROVE  o[i - 1] + k \in 1 .. m /\ shown[o[i - 1] + k] = parts[i][k].line
  <2>1. o[i - 1] + k \in 1 .. m
    <3>1. /\ o[i - 1] \in Nat /\ o[i] \in Nat /\ o[i] <= m /\ len[i] \in Nat
          /\ o[i] = o[i - 1] + len[i]
      BY <1>5, <1>9, <1>10
    <3> HIDE DEF m
    <3>2. QED
      BY <1>11, <3>1
  <2>2. text[o[i - 1] + k] = parts[i][k]
    BY <1>9
  <2>3. shown[o[i - 1] + k] = text[o[i - 1] + k].line
    BY <1>14, <2>1
  <2>4. QED
    BY <2>1, <2>2, <2>3
<1>16. /\ q \in [0 .. n -> Nat] /\ q[0] = 0 /\ q[n] = m
       /\ \A i \in 1 .. n : /\ q[i - 1] = o[i - 1] + Lead(i) /\ q[i - 1] < q[i]
                            /\ i < n => q[i] = o[i] + 1
  <2>1. \A i \in 1 .. n : o[i] = o[i - 1] + len[i] /\ 1 + Lead(i) < len[i]
    <3>1. ASSUME NEW i \in 1 .. n PROVE o[i] = o[i - 1] + len[i] /\ 1 + Lead(i) < len[i]
      <4>1. /\ Size(ifs[i]) \in Nat /\ 5 < Size(ifs[i]) /\ Lead(i) \in {0, 1}
            /\ len[i] = Lead(i) + Size(ifs[i])
        BY <1>4, <1>7
      <4>2. 1 + Lead(i) < len[i]
        BY <4>1
      <4>3. QED
        BY <1>9, <4>2
    <3>2. QED
      BY <3>1
  <2>2. LET r == BlockEnds(n, o)
        IN  /\ r \in [0 .. n -> Nat] /\ r[0] = 0 /\ r[n] = o[n]
            /\ \A i \in 1 .. n : /\ r[i - 1] = o[i - 1] + Lead(i) /\ r[i - 1] < r[i]
                                 /\ i < n => r[i] = o[i] + 1
    BY <1>1, <1>5, <1>9, <2>1, BlockEndsRise
  <2>3. QED
    BY <2>2
<1> HIDE DEF m, q
<1>17. starts = Starts(n, q)
  <2>1. ASSUME NEW p \in starts PROVE p \in Starts(n, q)
    <3>1. p \in 1 .. m /\ (p = 1 \/ IsBlank(shown[p - 1]))
      BY <1>14
    <3>2. CASE p = 1
      <4>1. 1 \in 1 .. n
        <5>1. n # 0
          BY <1>9, <3>1 DEF m
        <5>2. QED
          BY <1>1, <5>1
      <4>2. 1 - 1 = 0 /\ q[1 - 1] = 0
        BY <1>16
      <4>3. p = q[1 - 1] + 1
        BY <3>2, <4>2
      <4>4. QED
        BY <4>1, <4>3 DEF Starts
    <3>3. CASE p # 1
      <4>1. p - 1 \in 1 .. m /\ IsBlank(shown[p - 1])
        BY <1>11, <3>1, <3>3
      <4>2. PICK i \in 1 .. n : \E k \in 1 .. len[i] : p - 1 = o[i - 1] + k
        BY <1>10, <4>1 DEF m
      <4>3. PICK k \in 1 .. len[i] : p - 1 = o[i - 1] + k
        BY <4>2
      <4>4. IsBlank(parts[i][k].line)
        BY <1>15, <4>1, <4>3
      <4>5. i > 1 /\ k = 1
        BY <1>12, <4>4
      <4>6. q[i - 1] = o[i - 1] + 1
        BY <1>7, <1>16, <4>5
      <4>7. p = q[i - 1] + 1
        <5>1. o[i - 1] \in Nat
          BY <1>10
        <5>2. QED
          BY <3>1, <4>3, <4>5, <4>6, <5>1
      <4>8. QED
        BY <4>7 DEF Starts
    <3>4. QED
      BY <3>2, <3>3
  <2>2. ASSUME NEW i \in 1 .. n PROVE q[i - 1] + 1 \in starts
    <3>1. q[i - 1] = o[i - 1] + Lead(i)
      BY <1>16
    <3>2. /\ Lead(i) \in {0, 1} /\ (Lead(i) = 1 <=> i > 1) /\ Size(ifs[i]) \in Nat
          /\ 5 < Size(ifs[i]) /\ len[i] = Lead(i) + Size(ifs[i]) /\ o[i - 1] \in Nat
      BY <1>4, <1>7, <1>10
    <3>3. Lead(i) + 1 \in 1 .. len[i] /\ q[i - 1] + 1 = o[i - 1] + (Lead(i) + 1)
      BY <3>1, <3>2
    <3>4. q[i - 1] + 1 \in 1 .. m
      BY <1>15, <3>3
    <3>5. CASE i = 1
      <4>1. i - 1 = 0
        BY <3>5
      <4>2. q[i - 1] = 0
        BY <1>16, <4>1
      <4>3. q[i - 1] + 1 = 1
        BY <4>2
      <4>4. QED
        BY <1>14, <3>4, <4>3
    <3>6. CASE i # 1
      <4>1. i > 1 /\ 1 \in 1 .. len[i] /\ Lead(i) = 1
        BY <3>2, <3>6
      <4>2. IsBlank(parts[i][1].line)
        BY <1>12, <4>1
      <4>3. IsBlank(shown[o[i - 1] + 1])
        BY <1>15, <4>1, <4>2
      <4> DEFINE x == q[i - 1] + 1
      <4>4. x \in DOMAIN shown /\ x - 1 = o[i - 1] + 1
        BY <1>14, <3>1, <3>2, <3>4, <4>1
      <4>5. \A y \in DOMAIN shown : IsBlank(shown[y - 1]) => y \in starts
        OBVIOUS
      <4> HIDE DEF starts, x
      <4>6. IsBlank(shown[x - 1])
        BY <4>3, <4>4
      <4>7. x \in starts
        BY <4>4, <4>5, <4>6
      <4>8. QED
        BY <4>7 DEF x
    <3>7. QED
      BY <3>5, <3>6
  <2>3. QED
    BY <2>1, <2>2 DEF Starts
<1> HIDE DEF starts
<1>18. Sections(shown, starts) = CutLines(shown, n, q)
  <2>1. shown = [p \in 1 .. q[n] |-> shown[p]]
    BY <1>14, <1>16
  <2>2. q \in [0 .. n -> Nat] /\ q[0] = 0 /\ \A i \in 1 .. n : q[i - 1] < q[i]
    BY <1>16
  <2>3. QED
    BY <1>1, <1>17, <2>1, <2>2, SectionsAre
<1>19. ASSUME NEW i \in 1 .. n
       PROVE  ReadBlock(CutLines(shown, n, q)[i]) = Told(ifs[i])
  <2> DEFINE b == CutLines(shown, n, q)[i]
             size == q[i] - q[i - 1]
             s == Size(ifs[i])
  <2>1. b = [k \in 1 .. size |-> shown[q[i - 1] + k]]
    BY DEF CutLines
  <2>2. DOMAIN b = 1 .. size /\ \A k \in 1 .. size : b[k] = shown[q[i - 1] + k]
    BY <2>1
  <2> HIDE DEF b, size
  <2>3. /\ Lead(i) \in {0, 1} /\ s \in Nat /\ 5 < s
        /\ len[i] = Lead(i) + s /\ o[i - 1] \in Nat /\ o[i] = o[i - 1] + len[i]
        /\ q[i - 1] = o[i - 1] + Lead(i) /\ (i < n => q[i] = o[i] + 1)
    BY <1>4, <1>7, <1>9, <1>10, <1>16
  <2>4. (i < n => size = s + 1) /\ (i = n => size = s)
    <3>1. i = n => q[i] = o[i]
      BY <1>16 DEF m
    <3> HIDE DEF s
    <3>2. QED
      BY <2>3, <3>1 DEF size
  <2>5. size \in {s, s + 1} /\ (size # s => i < n)
    <3>1. i < n \/ i = n
      BY <1>1
    <3>2. QED
      BY <2>4, <3>1
  <2> HIDE DEF s
  <2>6. ASSUME NEW k \in 1 .. s PROVE b[k] = Block(ifs[i])[k].line
    <3>1. k \in 1 .. size /\ Lead(i) + k \in 1 .. len[i]
      BY <2>3, <2>5
    <3>2. q[i - 1] + k = o[i - 1] + (Lead(i) + k)
      BY <2>3
    <3>3. b[k] = parts[i][Lead(i) + k].line
      BY <1>15, <2>2, <3>1, <3>2
    <3>4. parts[i][Lead(i) + k] = Block(ifs[i])[k]
      BY <1>7 DEF s
    <3>5. QED
      BY <3>3, <3>4
  <2>7. ASSUME size # s PROVE IsBlank(b[size])
    <3>1. i < n /\ size = s + 1
      BY <2>4, <2>5, <2>7
    <3>2. i + 1 \in 1 .. n /\ i + 1 > 1 /\ (i + 1) - 1 = i
      BY <1>1, <3>1
    <3>3. 1 \in 1 .. len[i + 1] /\ IsBlank(parts[i + 1][1].line)
      <4>1. len[i + 1] \in Nat \ {0}
        BY <1>5, <3>2
      <4>2. 1 \in 1 .. len[i + 1]
        BY <4>1
      <4>3. QED
        BY <1>12, <3>2, <4>2
    <3>4. shown[o[(i + 1) - 1] + 1] = parts[i + 1][1].line
      BY <1>15, <3>2, <3>3
    <3>5. shown[o[i] + 1] = parts[i + 1][1].line
      BY <3>2, <3>4
    <3>6. size \in 1 .. size /\ q[i - 1] + size = o[i] + 1
      BY <2>3, <3>1
    <3>7. b[size] = shown[o[i] + 1]
      BY <2>2, <3>6
    <3>8. QED
      BY <3>3, <3>5, <3>7
  <2>8. Readable(ifs[i])
    BY <1>2
  <2>9. ReadBlock(b) = Told(ifs[i])
    BY <2>2, <2>5, <2>6, <2>7, <2>8, BlockRead DEF s
  <2>10. QED
    BY <2>9 DEF b
<1>20. ReadBlocks(shown) = [i \in 1 .. n |-> ReadBlock(CutLines(shown, n, q)[i])]
  <2>1. ReadBlocks(shown) = [i \in DOMAIN Sections(shown, starts) |->
                              ReadBlock(Sections(shown, starts)[i])]
    BY Zenon DEF ReadBlocks, ReadBlock, Each, starts
  <2>2. DOMAIN CutLines(shown, n, q) = 1 .. n
    BY DEF CutLines
  <2>3. QED
    BY <1>18, <2>1, <2>2, Zenon
<1>21. Each(ifs, Told) = [i \in 1 .. n |-> Told(ifs[i])]
  BY <1>1 DEF Each
<1>22. QED
  BY <1>13, <1>19, <1>20, <1>21, Zenon

(***************************************************************************)
(* The documents of the program.                                            *)
(***************************************************************************)
\* Parts made of lines for the tabwriter make a text of them.
LEMMA TextOfParts ==
    ASSUME NEW n \in Nat, NEW parts, parts = [i \in 1 .. n |-> parts[i]],
           NEW len \in [1 .. n -> Nat \ {0}],
           \A i \in 1 .. n : /\ parts[i] = [k \in 1 .. len[i] |-> parts[i][k]]
                             /\ \A k \in 1 .. len[i] : parts[i][k].op = "tab"
    PROVE  \E m \in Nat : TableRows(Seqs!FlattenSeq(parts), m)
<1> DEFINE text == Seqs!FlattenSeq(parts)
<1>1. PICK o : Laid(text, parts, len, n, o)
  BY LaidOut
<1> HIDE DEF text
<1>2. /\ o \in [0 .. n -> Nat]
      /\ text = [p \in 1 .. o[n] |-> text[p]]
      /\ \A i \in 1 .. n : \A k \in 1 .. len[i] : text[o[i - 1] + k] = parts[i][k]
  BY <1>1 DEF Laid
<1>3. \A p \in 1 .. o[n] : \E i \in 1 .. n : \E k \in 1 .. len[i] : p = o[i - 1] + k
  BY <1>1, LaidPlaces
<1>4. ASSUME NEW p \in 1 .. o[n] PROVE text[p].op = "tab"
  <2>1. PICK i \in 1 .. n : \E k \in 1 .. len[i] : p = o[i - 1] + k
    BY <1>3
  <2>2. PICK k \in 1 .. len[i] : p = o[i - 1] + k
    BY <2>1
  <2>3. text[p] = parts[i][k] /\ parts[i][k].op = "tab"
    BY <1>2, <2>2
  <2>4. QED
    BY <2>3
<1>5. o[n] \in Nat
  BY <1>2
<1> DEFINE m == o[n]
<1>6. text = [p \in 1 .. m |-> text[p]] /\ \A p \in 1 .. m : text[p].op = "tab"
  BY <1>2, <1>4
<1> HIDE DEF m
<1>7. TableRows(text, m)
  BY <1>6 DEF TableRows
<1>8. QED
  BY <1>5, <1>7 DEF text, m

\* Both listings of the interfaces end with the flush of the tabwriter.
LEMMA InterfacesFlush ==
    ASSUME NEW ifs, IsList(ifs), \A i \in DOMAIN ifs : Readable(ifs[i])
    PROVE  /\ FlushesInTime(DetailsTable(ifs))
           /\ (\A i \in DOMAIN ifs : ifs[i].name # placeholder) =>
                FlushesInTime(InterfacesTable(ifs))
<1> DEFINE n == Len(ifs)
<1>1. n \in Nat /\ DOMAIN ifs = 1 .. n
  BY ListIs
<1>2. \A i \in 1 .. n : Readable(ifs[i])
  BY <1>1
<1> HIDE DEF n
<1>3. FlushesInTime(DetailsTable(ifs))
  <2> DEFINE parts == [i \in DOMAIN ifs |-> Part(ifs, i)]
             len == [i \in 1 .. n |-> Lead(i) + Size(ifs[i])]
             text == Seqs!FlattenSeq(parts)
  <2>1. /\ parts = [i \in 1 .. n |-> parts[i]]
        /\ \A i \in 1 .. n : parts[i] = Part(ifs, i) /\ len[i] = Lead(i) + Size(ifs[i])
    BY <1>1
  <2>2. len \in [1 .. n -> Nat \ {0}]
    <3>1. \A i \in 1 .. n : Size(ifs[i]) \in Nat \ {0}
      BY <1>2, BlockOf
    <3>2. \A i \in 1 .. n : Lead(i) + Size(ifs[i]) \in Nat \ {0}
      BY <3>1 DEF Lead
    <3>3. QED
      BY <3>2
  <2>3. DetailsTable(ifs) = text \o <<Flush>>
    BY DEF DetailsTable, Part
  <2> HIDE DEF parts, len
  <2>4. ASSUME NEW i \in 1 .. n
        PROVE  /\ parts[i] = [k \in 1 .. len[i] |-> parts[i][k]]
               /\ \A k \in 1 .. len[i] : parts[i][k].op = "tab"
    <3>1. Readable(ifs[i]) /\ i \in Nat /\ Lead(i) \in {0, 1} /\ (Lead(i) = 1 <=> i > 1)
      BY <1>1, <1>2 DEF Lead
    <3>2. LET m == Lead(i) + Size(ifs[i])
          IN  /\ m \in Nat \ {0} /\ Part(ifs, i) = [k \in 1 .. m |-> Part(ifs, i)[k]]
              /\ i > 1 => Part(ifs, i)[1] = BlankLine
              /\ \A k \in 1 .. Size(ifs[i]) : Part(ifs, i)[Lead(i) + k] = Block(ifs[i])[k]
      BY <3>1, PartIs
    <3>3. Size(ifs[i]) \in Nat \ {0} /\ \A k \in 1 .. Size(ifs[i]) : Block(ifs[i])[k].op = "tab"
      BY <3>1, BlockOf
    <3>4. /\ parts[i] = Part(ifs, i) /\ len[i] = Lead(i) + Size(ifs[i])
      BY <2>1
    <3>5. parts[i] = [k \in 1 .. len[i] |-> parts[i][k]]
      BY <3>2, <3>4, Zenon
    <3>6. ASSUME NEW k \in 1 .. len[i] PROVE parts[i][k].op = "tab"
      <4>1. CASE k > Lead(i)
        <5> DEFINE j == k - Lead(i)
        <5>1. j \in 1 .. Size(ifs[i]) /\ k = Lead(i) + j
          BY <3>1, <3>3, <3>4, <4>1
        <5> HIDE DEF j
        <5>2. Part(ifs, i)[Lead(i) + j] = Block(ifs[i])[j]
          BY <3>2, <5>1
        <5>3. QED
          BY <3>3, <3>4, <5>1, <5>2
      <4>2. CASE ~(k > Lead(i))
        <5>1. k = 1 /\ i > 1
          BY <3>1, <3>3, <3>4, <4>2
        <5>2. BlankLine.op = "tab"
          BY DEF BlankLine, Tab
        <5>3. QED
          BY <3>2, <3>4, <5>1, <5>2
      <4>3. QED
        BY <4>1, <4>2
    <3>7. QED
      BY <3>5, <3>6
  <2>5. \E m \in Nat : TableRows(text, m)
    BY <1>1, <2>1, <2>2, <2>4, TextOfParts
  <2>6. PICK m \in Nat : TableRows(text, m)
    BY <2>5
  <2> HIDE DEF text
  <2> DEFINE C == {Flush} \cup {text[p] : p \in 1 .. m}
  <2>7. text = [p \in 1 .. m |-> text[p]] /\ \A p \in 1 .. m : text[p].op = "tab"
    BY <2>6 DEF TableRows
  <2>8. Flush \in C /\ \A p \in 1 .. m : text[p] \in C
    OBVIOUS
  <2> HIDE DEF C
  <2>9. text \in Seq(C) /\ DOMAIN text = 1 .. m
    <3>1. text \in [1 .. m -> C]
      BY <2>7, <2>8
    <3>2. QED
      BY <3>1, SeqDef
  <2> DEFINE rest == <<>>
  <2>10. rest \in Seq(C) /\ DOMAIN rest = {}
    OBVIOUS
  <2>11. text \o <<Flush>> \o rest = text \o <<Flush>>
    <3>1. <<Flush>> \in Seq(C)
      BY <2>8
    <3>2. text \o <<Flush>> \in Seq(C)
      BY <2>9, <3>1, ConcatProperties
    <3>3. QED
      BY <3>2, ConcatEmptySeq
  <2> HIDE DEF rest
  <2>12. FlushesInTime(text \o <<Flush>> \o rest)
    <3>1. /\ \A i \in DOMAIN text : text[i].op = "tab"
          /\ \A i \in DOMAIN rest : rest[i].op = "out"
      BY <2>7, <2>9, <2>10
    <3>2. QED
      BY <2>8, <2>9, <2>10, <3>1, TableFlushes
  <2>13. QED
    BY <2>3, <2>11, <2>12, Zenon
<1>4. ASSUME \A i \in DOMAIN ifs : ifs[i].name # placeholder
      PROVE  FlushesInTime(InterfacesTable(ifs))
  <2> DEFINE parts == Each(ifs, InterfaceRows)
             len == [i \in 1 .. n |-> Height(ifs[i])]
             text == Seqs!FlattenSeq(parts)
  <2>1. /\ parts = [i \in 1 .. n |-> parts[i]]
        /\ \A i \in 1 .. n : parts[i] = InterfaceRows(ifs[i]) /\ len[i] = Height(ifs[i])
    BY <1>1 DEF Each
  <2>2. ASSUME NEW i \in 1 .. n
        PROVE  /\ Height(ifs[i]) \in Nat \ {0}
               /\ InterfaceRows(ifs[i]) = [k \in 1 .. Height(ifs[i]) |-> InterfaceRows(ifs[i])[k]]
               /\ \A k \in 1 .. Height(ifs[i]) : InterfaceRows(ifs[i])[k].op = "tab"
    <3>1. Readable(ifs[i]) /\ ifs[i].name # placeholder
      BY <1>1, <1>2, <1>4
    <3>2. QED
      BY <3>1, RowsOf
  <2>3. len \in [1 .. n -> Nat \ {0}]
    BY <2>2
  <2> HIDE DEF parts, len
  <2>4. \A i \in 1 .. n : /\ parts[i] = [k \in 1 .. len[i] |-> parts[i][k]]
                          /\ \A k \in 1 .. len[i] : parts[i][k].op = "tab"
    BY <2>1, <2>2, Zenon
  <2>5. \E m \in Nat : TableRows(text, m)
    BY <1>1, <2>1, <2>3, <2>4, TextOfParts
  <2>6. PICK m \in Nat : TableRows(text, m)
    BY <2>5
  <2>7. InterfacesTable(ifs) = <<Header(4)>> \o text \o <<Flush>>
    BY DEF InterfacesTable, parts
  <2> HIDE DEF text
  <2>8. text = [p \in 1 .. m |-> text[p]] /\ \A p \in 1 .. m : text[p].op = "tab"
    BY <2>6 DEF TableRows
  <2>9. Header(4).op = "tab" /\ Out("none").op = "out"
    BY DEF Header, Tab, Out
  <2>10. FlushesInTime(<<Header(4)>> \o text \o <<Flush>>)
    BY <2>8, <2>9, TableOfRows, Zenon
  <2>11. QED
    BY <2>7, <2>10, Zenon
<1>5. QED
  BY <1>3, <1>4

\* What there may be to print is what the calls make of a result.
LEMMA DocumentOf ==
    ASSUME NEW c \in Commands, NEW d \in Documents[c]
    PROVE  \E result \in Results[c] :
             d.of = result /\ d.calls = CallsOf(c, result) /\ d.unknown = Unnamed(c, result)
<1>1. Documents[c] = {Document(c, result) : result \in Results[c]}
  BY ResultsAssumption DEF AllDocuments
<1>2. PICK result \in Results[c] : d = Document(c, result)
  BY <1>1
<1>3. QED
  BY <1>2 DEF Document

\* The results that are shown can be read.
LEMMA ResultsAre ==
    ASSUME NEW c \in Commands, NEW result \in Results[c]
    PROVE  /\ c \notin {"ping", "usage", "about"} => IsList(result)
           /\ c \in {"ports", "connections"} =>
                \A i \in DOMAIN result : result[i].process # UnknownProcess
           /\ c \in {"interfaces", "details"} => \A i \in DOMAIN result : Readable(result[i])
           /\ c = "interfaces" => \A i \in DOMAIN result : result[i].name # placeholder
           /\ c = "ping" =>
                /\ IsList(result.packets) /\ result.sent = Len(result.packets)
                /\ result.received = Cardinality({i \in DOMAIN result.packets :
                                                    result.packets[i].status = "OK"})
<1>1. c \notin {"ping", "usage", "about"} => IsList(result)
  BY ResultsAssumption
<1>2. c \in {"ports", "connections"} =>
        \A i \in DOMAIN result : result[i].process # UnknownProcess
  BY ResultsAssumption
<1>3. ASSUME c \in {"interfaces", "details"}, NEW i \in DOMAIN result
      PROVE  Readable(result[i]) /\ (c = "interfaces" => result[i].name # placeholder)
  <2>1. /\ c = "interfaces" => result[i].name # placeholder
        /\ result[i].mac # placeholder /\ IsList(result[i].addrs)
        /\ \A j \in DOMAIN result[i].addrs : result[i].addrs[j] \notin {"", placeholder}
    BY <1>3, ResultsAssumption
  <2>2. QED
    BY <2>1 DEF Readable, TextsOnly
<1>4. c = "ping" =>
        /\ IsList(result.packets) /\ result.sent = Len(result.packets)
        /\ result.received = Cardinality({i \in DOMAIN result.packets :
                                            result.packets[i].status = "OK"})
  BY ResultsAssumption
<1>5. QED
  BY <1>1, <1>2, <1>3, <1>4

\* Every document of every command leaves nothing behind in the tabwriter: TypeCorrect,
\* NoHoles and ErrorIfCut hold of all that the program prints.
THEOREM DocumentsFlush == Flushed
<1> SUFFICES ASSUME NEW c \in Commands, NEW d \in Documents[c]
             PROVE  FlushesInTime(d.calls)
  BY DEF Flushed
<1>1. PICK result \in Results[c] : d.calls = CallsOf(c, result)
  BY DocumentOf
<1>2. c \in {"ports", "connections", "interfaces", "details", "dns", "ping", "usage", "about"}
  BY ResultsAssumption
<1>3. CASE c \in {"ports", "connections", "dns"}
  <2>1. IsList(result)
    BY <1>3, ResultsAre
  <2> DEFINE S == {result[i] : i \in DOMAIN result}
             r == [packets |-> result]
  <2>2. result \in Seq(S) /\ r.packets = result
    BY <2>1 DEF IsList
  <2> HIDE DEF S, r
  <2>3. /\ FlushesInTime(PortsTable(result)) /\ FlushesInTime(ConnectionsTable(result))
        /\ FlushesInTime(DnsTable(result))
    BY <2>2, TablesAreFlushed
  <2>4. CallsOf(c, result) \in {PortsTable(result), ConnectionsTable(result), DnsTable(result)}
    BY <1>3 DEF CallsOf
  <2>5. QED
    BY <1>1, <2>3, <2>4
<1>4. CASE c = "ping"
  <2>1. IsList(result.packets)
    BY <1>4, ResultsAre
  <2> DEFINE s == result.packets
             S == {s[i] : i \in DOMAIN s}
  <2>2. s \in Seq(S)
    BY <2>1 DEF IsList
  <2> HIDE DEF S
  <2>3. FlushesInTime(PingTable(result))
    BY <2>2, TablesAreFlushed
  <2>4. CallsOf(c, result) = PingTable(result)
    BY <1>4 DEF CallsOf
  <2>5. QED
    BY <1>1, <2>3, <2>4
<1>5. CASE c \in {"interfaces", "details"}
  <2>1. /\ IsList(result) /\ \A i \in DOMAIN result : Readable(result[i])
        /\ c = "interfaces" => \A i \in DOMAIN result : result[i].name # placeholder
    BY <1>5, ResultsAre
  <2>2. CASE c = "interfaces"
    <3>1. CallsOf(c, result) = InterfacesTable(result)
      BY <2>2 DEF CallsOf
    <3>2. FlushesInTime(InterfacesTable(result))
      BY <2>1, <2>2, InterfacesFlush
    <3>3. QED
      BY <1>1, <3>1, <3>2
  <2>3. CASE c = "details"
    <3>1. CallsOf(c, result) = DetailsTable(result)
      BY <2>3 DEF CallsOf
    <3>2. FlushesInTime(DetailsTable(result))
      BY <2>1, InterfacesFlush
    <3>3. QED
      BY <1>1, <3>1, <3>2
  <2>4. QED
    BY <1>5, <2>2, <2>3
<1>6. CASE c \in {"usage", "about"}
  <2>1. CallsOf(c, result) \in {UsageText, AboutText}
    BY <1>6 DEF CallsOf
  <2>2. \A j \in 1 .. Len(UsageText) : ~Waits(UsageText[j])
    BY DEF UsageText, Out, Waits
  <2>3. \A j \in 1 .. Len(AboutText) : ~Waits(AboutText[j])
    <3> DEFINE text == [k \in 1 .. 6 |-> Out("about")]
    <3>1. 6 \in Nat /\ text = [k \in 1 .. 6 |-> text[k]] /\ \A k \in 1 .. 6 : text[k].op = "out"
      BY DEF Out
    <3> HIDE DEF text
    <3>2. Len(text) = 6
      BY <3>1, LenOf
    <3>3. \A j \in 1 .. Len(text) : ~Waits(text[j])
      BY <3>1, <3>2 DEF Waits
    <3>4. QED
      BY <3>3 DEF AboutText, text
  <2>4. QED
    BY <1>1, <2>1, <2>2, <2>3 DEF FlushesInTime
<1>7. QED
  BY <1>2, <1>3, <1>4, <1>5, <1>6

\* What the invariants say of a command that returns without an error: what it found out
\* can be read from what it has shown.
LEMMA ToldAtEnd ==
    ASSUME IInv, NoteInv, pc = "done", err = "none", command \notin Careless
    PROVE  Agrees
<1>1. Whole /\ command \in Commands /\ doc \in Documents[command]
  BY AtEnd DEF IInv, TypeOK
<1>2. PICK result \in Results[command] : /\ doc.of = result
                                         /\ doc.calls = CallsOf(command, result)
                                         /\ doc.unknown = Unnamed(command, result)
  BY <1>1, DocumentOf
<1>3. note = Unnamed(command, result)
  BY <1>2 DEF NoteInv
<1>4. command \in {"ports", "connections", "interfaces", "details", "dns", "ping",
                   "usage", "about"}
  BY <1>1, ResultsAssumption
<1>5. CASE command \in {"ports", "connections"}
  <2>1. IsList(result) /\ \A i \in DOMAIN result : result[i].process # UnknownProcess
    BY <1>1, <1>5, ResultsAre
  <2>2. doc.calls \in {PortsTable(result), ConnectionsTable(result)}
    BY <1>2, <1>5 DEF CallsOf
  <2>3. /\ Len(Rows) = Len(result)
        /\ HowMany(Rows, LAMBDA row : row.process = UnknownProcess) = CountUnknown(result)
    BY <1>1, <2>1, <2>2, PortsTold
  <2>4. note = CountUnknown(result)
    BY <1>3, <1>5 DEF Unnamed
  <2>5. QED
    BY <1>2, <1>5, <2>3, <2>4 DEF Agrees, Rows
<1>6. CASE command = "interfaces"
  <2>1. IsList(result) /\ \A i \in DOMAIN result : Readable(result[i]) /\ result[i].name # placeholder
    BY <1>1, <1>6, ResultsAre
  <2>2. doc.calls = InterfacesTable(result)
    BY <1>2, <1>6 DEF CallsOf
  <2>3. ReadInterfaces(Rows) = Each(result, Told)
    BY <1>1, <2>1, <2>2, InterfacesTold
  <2>4. QED
    BY <1>2, <1>6, <2>3 DEF Agrees, Rows
<1>7. CASE command = "details"
  <2>1. IsList(result) /\ \A i \in DOMAIN result : Readable(result[i])
    BY <1>1, <1>7, ResultsAre
  <2>2. doc.calls = DetailsTable(result)
    BY <1>2, <1>7 DEF CallsOf
  <2>3. ReadBlocks(Shown) = Each(result, Told)
    BY <1>1, <2>1, <2>2, DetailsTold
  <2>4. QED
    BY <1>2, <1>7, <2>3 DEF Agrees
<1>8. CASE command = "dns"
  <2>1. IsList(result)
    BY <1>1, <1>8, ResultsAre
  <2>2. doc.calls = DnsTable(result)
    BY <1>2, <1>8 DEF CallsOf
  <2>3. /\ Last.records = Len(Body) /\ Len(Body) = Len(result)
        /\ Last.breakdown # <<>> => \A t \in {TypeA, TypeAAAA} :
             Last.breakdown[t] = HowMany(Body, LAMBDA rec : rec.type = t)
    BY <1>1, <2>1, <2>2, DnsTold
  <2>4. QED
    BY <1>2, <1>8, <2>3 DEF Agrees, Body, Last
<1>9. CASE command = "ping"
  <2>1. /\ IsList(result.packets) /\ result.sent = Len(result.packets)
        /\ result.received = Cardinality({i \in DOMAIN result.packets :
                                            result.packets[i].status = "OK"})
    BY <1>1, <1>9, ResultsAre
  <2>2. doc.calls = PingTable(result)
    BY <1>2, <1>9 DEF CallsOf
  <2>3. /\ Last.sent = Len(Body)
        /\ Last.received = HowMany(Body, LAMBDA row : row.time # placeholder)
        /\ Last.lost = HowMany(Body, LAMBDA row : row.status # "OK")
    BY <1>1, <2>1, <2>2, PingTold
  <2>4. QED
    BY <1>9, <2>3 DEF Agrees, Body, Last
<1>10. CASE command \in {"usage", "about"}
  BY <1>10 DEF Agrees
<1>11. QED
  BY <1>4, <1>5, <1>6, <1>7, <1>8, <1>9, <1>10

\* Whatever there is to show, however many rows it takes and wherever stdout fails: a
\* table without an error tells what the command found out.
THEOREM ResultTold == Spec => []TellsTheResult
<1>1. Init => IInv /\ NoteInv
  BY InitIInv, NoteStep
<1>2. IInv /\ NoteInv /\ [Next]_vars => IInv' /\ NoteInv'
  BY DocumentsFlush, NextStep, NoteStep
<1>3. IInv /\ NoteInv => TellsTheResult
  BY ToldAtEnd DEF TellsTheResult
<1>4. QED
  BY <1>1, <1>2, <1>3, PTL DEF Spec

\* With the documents of this program the theorems of OutputProofs need no hypothesis:
\* wherever stdout fails, no table has a hole, lines keep their order, and a command that
\* checks errors returns one exactly if a line is missing.
THEOREM OutputHolds == Spec => [](TypeOK /\ CutButNotHoled /\ ToldIfCut)
<1>1. Spec => []TypeOK
  BY DocumentsFlush, TypeCorrect
<1>2. Spec => []CutButNotHoled
  BY DocumentsFlush, NoHoles
<1>3. Spec => []ToldIfCut
  BY DocumentsFlush, ErrorIfCut
<1>4. QED
  BY <1>1, <1>2, <1>3, PTL
=============================================================================
