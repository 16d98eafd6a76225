----------------------------- MODULE ProbeProofs -----------------------------
(***************************************************************************)
(* Proofs about Probe for every answer of the resolver, every identifier    *)
(* and every packet number.                                                 *)
(***************************************************************************)
EXTENDS Probe, OrdersProofs

(***************************************************************************)
(* Arithmetic.                                                              *)
(***************************************************************************)
\* Bytes and words by their bounds.
LEMMA ByteIs == \A n : n \in Byte <=> n \in Nat /\ n <= 255
  BY DEF Byte

\* The same for words.
LEMMA WordIs == \A n : n \in Word <=> n \in Nat /\ n <= 65535
<1>1. PICK k \in Int : k = 65535
  OBVIOUS
<1>2. Word = 0 .. k
  BY <1>1, SMT DEF Word
<1>3. \A n : n \in 0 .. k <=> n \in Nat /\ n <= k
  OBVIOUS
<1>4. \A n : n \in Word <=> n \in Nat /\ n <= k
  BY <1>2, <1>3
<1>5. QED
  BY <1>4, <1>1

\* A 16-bit number is made of its two bytes, also when it is cut out of a longer one.
LEMMA Bytes ==
    ASSUME NEW n \in Nat
    PROVE  /\ Uint16(n) \in Word /\ Uint16(n) \div 256 \in Byte /\ LowByte(n) \in Byte
           /\ 256 * (Uint16(n) \div 256) + LowByte(n) = Uint16(n)
           /\ n \in Word => Uint16(n) = n
<1> DEFINE u == n % 65536
           q == n \div 65536
           a == u \div 256
           b == u % 256
<1>1. u \in Nat /\ u <= 65535 /\ q \in Nat /\ n = 65536 * q + u
  OBVIOUS
<1>2. n \in Word => u = n
  BY WordIs
<1> HIDE DEF u, q
<1>3. a \in Nat /\ b \in Nat /\ b <= 255 /\ u = 256 * a + b
  BY <1>1
<1> HIDE DEF a, b
<1>4. a <= 255
  BY <1>1, <1>3
<1>5. n = 256 * (256 * q + a) + b /\ 256 * q + a \in Int
  BY <1>1, <1>3
<1>6. n % 256 = b
  BY <1>3, <1>5
<1>7. Uint16(n) = u /\ Uint16(n) \div 256 = a /\ LowByte(n) = b
  BY <1>6 DEF Uint16, LowByte, u, a, b
<1>8. u \in Word /\ a \in Byte /\ b \in Byte
  BY <1>1, <1>3, <1>4, WordIs, ByteIs
<1>9. QED
  BY <1>2, <1>3, <1>7, <1>8

\* Numbers agree in 16 bits if and only if their difference is a multiple of 2^16.
LEMMA SameUint16 ==
    ASSUME NEW n \in Nat, NEW m \in Nat
    PROVE  Uint16(n) = Uint16(m) <=> (n - m) % 65536 = 0
  BY DEF Uint16

(***************************************************************************)
(* The checksum.                                                            *)
(***************************************************************************)
\* The recursive functions of Folded and of Total are the ones that solve their equations.
FoldEquation(f) ==
    f = [s \in Nat |-> IF s = Uint16(s) THEN s ELSE f[Uint16(s) + s \div 65536]]

SumEquation(f, words) ==
    f = [k \in 0 .. Len(words) |-> IF k = 0 THEN 0 ELSE f[k - 1] + words[k]]

\* The recursive functions are the solutions of their equations.
LEMMA FoldedIs == \A n : Folded(n) = (CHOOSE f : FoldEquation(f))[n]
  BY DEF Folded, FoldEquation

\* The same for the sum.
LEMMA TotalIs == \A words : Total(words) = (CHOOSE f : SumEquation(f, words))[Len(words)]
  BY DEF Total, SumEquation

\* The number between 1 and 65535 that is congruent to s modulo 65535; 0 for 0.
Residue(s) == IF s = 0 THEN 0 ELSE IF s % 65535 = 0 THEN 65535 ELSE s % 65535

\* Adding the carries makes a number smaller and does not change its residue.
LEMMA AddCarries ==
    ASSUME NEW s \in Nat
    PROVE  LET t == Uint16(s) + (s \div 65536)
           IN  /\ Residue(s) \in Word
               /\ \E q \in Int : s = 65535 * q + Residue(s)
               /\ s = Uint16(s) => Residue(s) = s
               /\ s # Uint16(s) => t \in Nat /\ t < s /\ Residue(t) = Residue(s)
<1> DEFINE u == s % 65536
           v == s \div 65536
           q == s \div 65535
           r == s % 65535
<1>1. u \in Nat /\ u <= 65535 /\ v \in Nat /\ s = 65536 * v + u
  OBVIOUS
<1>2. q \in Nat /\ r \in Nat /\ r <= 65534 /\ s = 65535 * q + r
  OBVIOUS
<1>3. (u + v) % 65535 = r
  <2>1. u + v = 65535 * (q - v) + r
    BY <1>1, <1>2
  <2> HIDE DEF u, v, q, r
  <2>2. q - v \in Int
    BY <1>1, <1>2
  <2>3. PICK m \in Int : m = q - v
    BY <2>2
  <2>4. u + v = 65535 * m + r
    BY <2>1, <2>3
  <2>5. QED
    BY <2>4, <1>1, <1>2
<1>4. Uint16(s) = u /\ Uint16(s) + (s \div 65536) = u + v
  BY DEF Uint16
<1>5. Residue(s) = IF s = 0 THEN 0 ELSE IF r = 0 THEN 65535 ELSE r
  BY DEF Residue
<1>6. Residue(u + v) = IF u + v = 0 THEN 0 ELSE IF r = 0 THEN 65535 ELSE r
  BY <1>3 DEF Residue
<1> HIDE DEF u, v, q, r
<1>7. Residue(s) \in Word
  BY <1>2, <1>5, WordIs
<1>8. \E p \in Int : s = 65535 * p + Residue(s)
  <2>1. CASE s # 0 /\ r = 0
    <3>1. s = 65535 * (q - 1) + 65535 /\ q - 1 \in Int
      BY <1>2, <2>1
    <3>2. QED
      BY <3>1, <2>1, <1>5
  <2>2. CASE ~(s # 0 /\ r = 0)
    BY <2>2, <1>2, <1>5
  <2>3. QED
    BY <2>1, <2>2
<1>9. s = u => Residue(s) = s
  BY <1>1, <1>2, <1>5
<1>10. s # u => u + v \in Nat /\ u + v < s /\ u + v # 0 /\ s # 0
  BY <1>1
<1>11. s # u => u + v \in Nat /\ u + v < s /\ Residue(u + v) = Residue(s)
  BY <1>5, <1>6, <1>10
<1>12. /\ s = Uint16(s) => Residue(s) = s
       /\ s # Uint16(s) =>
            LET t == Uint16(s) + (s \div 65536)
            IN  t \in Nat /\ t < s /\ Residue(t) = Residue(s)
  BY <1>4, <1>9, <1>11
<1>13. QED
  BY <1>7, <1>8, <1>12

\* Folding leaves the residue.
LEMMA FoldedIsResidue == \A n \in Nat : Folded(n) = Residue(n)
<1>1. \E f : FoldEquation(f)
  <2> DEFINE g == [s \in Nat |-> Residue(s)]
  <2>1. ASSUME NEW s \in Nat
        PROVE  Residue(s) = IF s = Uint16(s) THEN s ELSE g[Uint16(s) + s \div 65536]
    BY AddCarries
  <2>2. FoldEquation(g)
    BY <2>1 DEF FoldEquation
  <2>3. QED
    BY <2>2
<1>2. PICK f : FoldEquation(f) /\ \A n : Folded(n) = f[n]
  BY <1>1, FoldedIs
<1>3. \A s \in Nat : f[s] = IF s = Uint16(s) THEN s ELSE f[Uint16(s) + s \div 65536]
  BY <1>2 DEF FoldEquation
<1> DEFINE Bad == {n \in Nat : f[n] # Residue(n)}
<1>4. SUFFICES ASSUME Bad # {} PROVE FALSE
  BY <1>2
<1>5. PICK n \in Bad : \A m \in Bad : n <= m
  BY <1>4, Least
<1>6. n \in Nat /\ f[n] # Residue(n) /\ \A m \in Nat : m < n => f[m] = Residue(m)
  BY <1>5
<1> HIDE DEF Bad
<1> DEFINE t == Uint16(n) + (n \div 65536)
<1>7. /\ n = Uint16(n) => Residue(n) = n
      /\ n # Uint16(n) => t \in Nat /\ t < n /\ Residue(t) = Residue(n)
  BY <1>6, AddCarries
<1>8. f[n] = IF n = Uint16(n) THEN n ELSE f[t]
  BY <1>3, <1>6
<1> HIDE DEF t
<1>9. QED
  BY <1>6, <1>7, <1>8

\* The partial sums behind Total.
LEMMA PartialSums ==
    ASSUME NEW words, Len(words) \in Nat
    PROVE  \E f : /\ Total(words) = f[Len(words)]
                  /\ f[0] = 0
                  /\ \A k \in 1 .. Len(words) : f[k] = f[k - 1] + words[k]
<1> DEFINE Sums(f, m) == f = [k \in 0 .. m |-> IF k = 0 THEN 0 ELSE f[k - 1] + words[k]]
           Bad == {m \in Nat : ~\E f : Sums(f, m)}
<1>1. ASSUME Bad # {} PROVE FALSE
  <2>1. PICK m \in Bad : \A n \in Bad : m <= n
    BY <1>1, Least
  <2>2. CASE m = 0
    <3>1. Sums([k \in 0 .. m |-> 0], m)
      BY <2>2
    <3>2. QED
      BY <3>1, <2>1
  <2>3. CASE m # 0
    <3>1. m - 1 \in Nat /\ m - 1 \notin Bad
      <4>1. m \in Nat
        BY <2>1
      <4> HIDE DEF Bad
      <4>2. QED
        BY <4>1, <2>1, <2>3
    <3>2. PICK f : Sums(f, m - 1)
      BY <3>1
    <3> DEFINE g == [k \in 0 .. m |-> IF k = m THEN f[m - 1] + words[m] ELSE f[k]]
    <3>3. ASSUME NEW k \in 0 .. m
          PROVE  g[k] = IF k = 0 THEN 0 ELSE g[k - 1] + words[k]
      <4>1. CASE k = m
        BY <4>1, <3>1, <2>3
      <4>2. CASE k # m
        BY <4>2, <3>1, <3>2
      <4>3. QED
        BY <4>1, <4>2
    <3>4. Sums(g, m)
      BY <3>3
    <3>5. QED
      BY <3>4, <2>1
  <2>4. QED
    BY <2>2, <2>3
<1>2. \E f : SumEquation(f, words)
  BY <1>1 DEF SumEquation
<1>3. PICK f : SumEquation(f, words) /\ Total(words) = f[Len(words)]
  BY <1>2, TotalIs
<1>4. /\ f[0] = 0
      /\ \A k \in 1 .. Len(words) : f[k] = f[k - 1] + words[k]
  BY <1>3 DEF SumEquation
<1>5. QED
  BY <1>3, <1>4

\* The sequence b is a with d added to its element p.
Grown(a, b, p, d) ==
    /\ Len(a) = Len(b) /\ p \in 1 .. Len(a)
    /\ b[p] = a[p] + d
    /\ \A k \in 1 .. Len(a) : k # p => b[k] = a[k]

\* What is added to one word is added to the total.
LEMMA TotalGrows ==
    ASSUME NEW a \in Seq(Nat), NEW b \in Seq(Nat), NEW p, NEW d \in Nat, Grown(a, b, p, d)
    PROVE  Total(a) \in Nat /\ Total(b) = Total(a) + d
<1> DEFINE n == Len(a)
<1>1. n \in Nat /\ \A k \in 1 .. n : a[k] \in Nat
  BY LenProperties
<1>2. /\ n = Len(b) /\ p \in 1 .. n
      /\ \A k \in 1 .. n : b[k] = IF k = p THEN a[k] + d ELSE a[k]
  BY DEF Grown
<1> HIDE DEF n
<1>3. PICK f : /\ Total(a) = f[n] /\ f[0] = 0
               /\ \A k \in 1 .. n : f[k] = f[k - 1] + a[k]
  BY <1>1, PartialSums DEF n
<1>4. PICK g : /\ Total(b) = g[n] /\ g[0] = 0
               /\ \A k \in 1 .. n : g[k] = g[k - 1] + b[k]
  <2>1. Len(b) \in Nat
    BY <1>1, <1>2
  <2>2. \E g : /\ Total(b) = g[Len(b)] /\ g[0] = 0
               /\ \A k \in 1 .. Len(b) : g[k] = g[k - 1] + b[k]
    BY <2>1, PartialSums
  <2>3. QED
    BY <2>2, <1>2
<1> DEFINE good(k) == f[k] \in Nat /\ g[k] = IF k < p THEN f[k] ELSE f[k] + d
           Bad == {k \in 0 .. n : ~good(k)}
<1>5. ASSUME Bad # {} PROVE FALSE
  <2>1. Bad \in SUBSET Nat
    BY <1>1
  <2>2. 0 \in 0 .. n /\ 0 < p
    BY <1>1, <1>2
  <2>3. PICK k \in Bad : \A m \in Bad : k <= m
    BY <2>1, <1>5, Least
  <2>4. k # 0
    BY <1>3, <1>4, <2>3, <2>2
  <2>5. k \in 1 .. n /\ k - 1 \in 0 .. n /\ k - 1 < k /\ k - 1 \notin Bad
    BY <1>1, <2>3, <2>4
  <2>6. good(k - 1)
    BY <2>5
  <2>7. f[k] = f[k - 1] + a[k] /\ g[k] = g[k - 1] + b[k] /\ a[k] \in Nat
    BY <1>1, <1>3, <1>4, <2>5
  <2>8. b[k] = IF k = p THEN a[k] + d ELSE a[k]
    BY <2>5, <1>2
  <2>9. p \in Nat /\ k \in Nat
    BY <2>5, <1>1, <1>2
  <2> HIDE DEF Bad
  <2>10. PICK x \in Nat : x = f[k - 1] /\ g[k - 1] = IF k <= p THEN x ELSE x + d
    BY <2>6, <2>9
  <2>11. PICK y \in Nat : y = a[k] /\ f[k] = x + y
    BY <2>7, <2>10
  <2>12. CASE k < p
    <3>1. g[k] = x + y
      BY <2>7, <2>8, <2>9, <2>10, <2>11, <2>12
    <3>2. QED
      BY <3>1, <2>11, <2>12, <2>3 DEF Bad
  <2>13. CASE k = p
    <3>1. g[k] = x + (y + d)
      BY <2>7, <2>8, <2>9, <2>10, <2>11, <2>13
    <3>2. x + (y + d) = (x + y) + d /\ x + y \in Nat
      OBVIOUS
    <3>3. f[k] \in Nat /\ g[k] = f[k] + d
      BY <3>2, <3>1, <2>11
    <3>4. QED
      BY <3>3, <2>9, <2>13, <2>3 DEF Bad
  <2>14. CASE p < k
    <3>1. g[k] = (x + d) + y
      BY <2>7, <2>8, <2>9, <2>10, <2>11, <2>14
    <3>2. (x + d) + y = (x + y) + d /\ x + y \in Nat
      OBVIOUS
    <3>3. f[k] \in Nat /\ g[k] = f[k] + d
      BY <3>2, <3>1, <2>11
    <3>4. QED
      BY <3>3, <2>9, <2>14, <2>3 DEF Bad
  <2>15. QED
    BY <2>9, <2>12, <2>13, <2>14
<1>6. good(n) /\ ~(n < p)
  <2>1. n \in 0 .. n /\ ~(n < p)
    BY <1>1, <1>2
  <2>2. n \notin Bad
    BY <1>5
  <2>3. QED
    BY <2>1, <2>2
<1>7. QED
  BY <1>3, <1>4, <1>6 DEF n

(***************************************************************************)
(* The request.                                                             *)
(***************************************************************************)
\* The message m is a request of that sum and number that is like z beside its sum.
IsRequest(m, z, family, sum, n) ==
    /\ m \in Seq(Byte) /\ Len(m) = 64
    /\ m[1] = EchoRequest[family] /\ m[2] = 0
    /\ m[3] = sum \div 256 /\ m[4] = LowByte(sum)
    /\ m[7] = Uint16(n) \div 256 /\ m[8] = LowByte(n)
    /\ \A i \in 1 .. Len(m) : i \notin {3, 4} => m[i] = z[i]

\* The bytes of a request with a given sum: those of the header, then the payload.
LEMMA RequestBytes ==
    ASSUME NEW family \in Families, NEW sum \in Word, NEW id \in Word, NEW n \in Nat
    PROVE  IsRequest(Header(family, sum, id, n) \o Payload, Header(family, 0, id, n) \o Payload,
                     family, sum, n)
<1>1. PICK m : m = Header(family, sum, id, n) \o Payload
  OBVIOUS
<1> DEFINE h(x) == Header(family, x, id, n)
<1>2. \A x \in Word : x \in Nat /\ x \div 256 \in Byte /\ LowByte(x) \in Byte
  <2>1. ASSUME NEW x \in Word PROVE x \in Nat /\ x \div 256 \in Byte /\ LowByte(x) \in Byte
    <3>1. x \in Nat
      BY WordIs
    <3>2. QED
      BY <3>1, Bytes
  <2>2. QED
    BY <2>1
<1>3. 0 \in Word /\ 0 \in Byte /\ EchoRequest[family] \in Byte
  <2>1. 0 \in Word
    BY WordIs
  <2>2. 0 \in Byte /\ 8 \in Byte /\ 128 \in Byte
    BY ByteIs
  <2>3. QED
    BY <2>1, <2>2 DEF EchoRequest, Families
<1>4. ASSUME NEW x \in Word
      PROVE  /\ h(x) \in Seq(Byte) /\ Len(h(x)) = 8
             /\ h(x)[1] = EchoRequest[family] /\ h(x)[2] = 0
             /\ h(x)[3] = x \div 256 /\ h(x)[4] = LowByte(x)
             /\ h(x)[5] = id \div 256 /\ h(x)[6] = LowByte(id)
             /\ h(x)[7] = Uint16(n) \div 256 /\ h(x)[8] = LowByte(n)
  <2>1. /\ x \div 256 \in Byte /\ LowByte(x) \in Byte
        /\ id \div 256 \in Byte /\ LowByte(id) \in Byte
        /\ Uint16(n) \div 256 \in Byte /\ LowByte(n) \in Byte
    BY <1>2, Bytes
  <2>2. PICK e, a, b, c, d, f, g : /\ e = EchoRequest[family] /\ a = x \div 256 /\ b = LowByte(x)
                                   /\ c = id \div 256 /\ d = LowByte(id)
                                   /\ f = Uint16(n) \div 256 /\ g = LowByte(n)
    OBVIOUS
  <2>3. h(x) = <<e, 0, a, b, c, d, f, g>>
    BY <2>2 DEF Header
  <2>4. e \in Byte /\ a \in Byte /\ b \in Byte /\ c \in Byte /\ d \in Byte /\ f \in Byte /\ g \in Byte
    BY <2>1, <2>2, <1>3
  <2> HIDE DEF h
  <2>5. h(x) \in Seq(Byte) /\ Len(h(x)) = 8
    BY <2>3, <2>4, <1>3
  <2>6. /\ h(x)[1] = e /\ h(x)[2] = 0 /\ h(x)[3] = a /\ h(x)[4] = b
        /\ h(x)[5] = c /\ h(x)[6] = d /\ h(x)[7] = f /\ h(x)[8] = g
    BY <2>3
  <2>7. QED
    BY <2>2, <2>5, <2>6
<1>5. Payload \in Seq(Byte) /\ Len(Payload) = 56
  <2>1. \A k \in 1 .. 56 : LowByte(k - 1) \in Byte
    BY Bytes
  <2>2. QED
    BY <2>1 DEF Payload, PayloadSize
<1> HIDE DEF h
<1>6. ASSUME NEW x \in Word
      PROVE  /\ h(x) \o Payload \in Seq(Byte) /\ Len(h(x) \o Payload) = 64
             /\ \A i \in 1 .. Len(h(x) \o Payload) :
                  (h(x) \o Payload)[i] = IF i <= 8 THEN h(x)[i] ELSE Payload[i - 8]
  <2>1. h(x) \in Seq(Byte) /\ Len(h(x)) = 8
    BY <1>4
  <2>2. PICK s \in Seq(Byte), t \in Seq(Byte) : s = h(x) /\ t = Payload
    BY <2>1, <1>5
  <2>3. Len(s) = 8 /\ Len(t) = 56
    BY <2>1, <2>2, <1>5
  <2>4. /\ s \o t \in Seq(Byte) /\ Len(s \o t) = Len(s) + Len(t)
        /\ \A i \in 1 .. Len(s) + Len(t) : (s \o t)[i] = IF i <= Len(s) THEN s[i] ELSE t[i - Len(s)]
    BY ConcatProperties
  <2>5. Len(s \o t) = 64
    BY <2>3, <2>4
  <2>6. \A i \in 1 .. Len(s \o t) : (s \o t)[i] = IF i <= 8 THEN s[i] ELSE t[i - 8]
    BY <2>3, <2>4, <2>5
  <2>7. QED
    BY <2>2, <2>4, <2>5, <2>6
<1>7. m = h(sum) \o Payload /\ Header(family, 0, id, n) \o Payload = h(0) \o Payload
  BY <1>1 DEF h
<1>8. \A i \in 1 .. 8 : i \notin {3, 4} => h(sum)[i] = h(0)[i]
  <2>1. \A i \in 1 .. 8 : i \in {1, 2, 3, 4, 5, 6, 7, 8}
    OBVIOUS
  <2>2. QED
    BY <2>1, <1>3, <1>4
<1>9. m \in Seq(Byte) /\ Len(m) = 64 /\ Len(h(0) \o Payload) = 64
  BY <1>3, <1>6, <1>7
<1>10. \A i \in 1 .. Len(m) : /\ m[i] = IF i <= 8 THEN h(sum)[i] ELSE Payload[i - 8]
                              /\ (h(0) \o Payload)[i] = IF i <= 8 THEN h(0)[i] ELSE Payload[i - 8]
  <2>1. \A x \in Word : \A i \in 1 .. Len(h(x) \o Payload) :
          (h(x) \o Payload)[i] = IF i <= 8 THEN h(x)[i] ELSE Payload[i - 8]
    BY <1>6
  <2>2. Len(m) = Len(h(0) \o Payload)
    BY <1>9
  <2>3. \A i \in 1 .. Len(m) : m[i] = IF i <= 8 THEN h(sum)[i] ELSE Payload[i - 8]
    BY <2>1, <1>7
  <2>4. QED
    BY <2>1, <2>2, <2>3, <1>3
<1>11. ASSUME NEW i \in 1 .. Len(m), i \notin {3, 4} PROVE m[i] = (h(0) \o Payload)[i]
  <2>1. Len(m) \in Nat
    BY <1>9
  <2>2. CASE i <= 8
    <3>1. i \in 1 .. 8
      BY <2>1, <2>2
    <3>2. QED
      BY <3>1, <2>2, <1>8, <1>10, <1>11
  <2>3. CASE ~(i <= 8)
    BY <2>3, <1>10
  <2>4. QED
    BY <2>2, <2>3
<1>12. \A i \in 1 .. 8 : i \in 1 .. Len(m) /\ i <= 8
  BY <1>9
<1>13. \A i \in 1 .. 8 : m[i] = h(sum)[i]
  BY <1>10, <1>12
<1>14. 1 \in 1 .. 8 /\ 2 \in 1 .. 8 /\ 3 \in 1 .. 8 /\ 4 \in 1 .. 8 /\ 7 \in 1 .. 8 /\ 8 \in 1 .. 8
  OBVIOUS
<1>15. /\ m[1] = h(sum)[1] /\ m[2] = h(sum)[2] /\ m[3] = h(sum)[3] /\ m[4] = h(sum)[4]
       /\ m[7] = h(sum)[7] /\ m[8] = h(sum)[8]
  BY <1>13, <1>14
<1>16. \A i \in 1 .. Len(m) : i \notin {3, 4} => m[i] = (Header(family, 0, id, n) \o Payload)[i]
  BY <1>7, <1>11
<1>17. /\ m[1] = EchoRequest[family] /\ m[2] = 0
       /\ m[3] = sum \div 256 /\ m[4] = LowByte(sum)
       /\ m[7] = Uint16(n) \div 256 /\ m[8] = LowByte(n)
  BY <1>4, <1>15
<1>18. IsRequest(m, Header(family, 0, id, n) \o Payload, family, sum, n)
  BY <1>9, <1>16, <1>17 DEF IsRequest
<1>19. QED
  BY <1>1, <1>18

\* A message of an even length: its words are the pairs of its bytes.
LEMMA EvenWords ==
    ASSUME NEW m \in Seq(Byte), NEW N \in Nat, Len(m) = 2 * N
    PROVE  /\ Words(m) \in Seq(Nat) /\ Len(Words(m)) = N
           /\ \A k \in 1 .. N : /\ 2 * k - 1 \in 1 .. Len(m) /\ 2 * k \in 1 .. Len(m)
                                /\ Words(m)[k] = 256 * m[2 * k - 1] + m[2 * k]
<1>1. (Len(m) + 1) \div 2 = N
  OBVIOUS
<1>2. ASSUME NEW k \in 1 .. N
      PROVE  /\ 2 * k - 1 \in 1 .. Len(m) /\ 2 * k \in 1 .. Len(m)
             /\ 256 * m[2 * k - 1] + (IF 2 * k <= Len(m) THEN m[2 * k] ELSE 0)
                  = 256 * m[2 * k - 1] + m[2 * k]
             /\ 256 * m[2 * k - 1] + m[2 * k] \in Nat
  <2>1. 2 * k - 1 \in 1 .. Len(m) /\ 2 * k \in 1 .. Len(m) /\ 2 * k <= Len(m)
    OBVIOUS
  <2>2. m[2 * k - 1] \in Byte /\ m[2 * k] \in Byte
    BY <2>1
  <2>3. m[2 * k - 1] \in Nat /\ m[2 * k] \in Nat
    BY <2>2, ByteIs
  <2>4. QED
    BY <2>1, <2>3
<1>3. Words(m) = [k \in 1 .. N |->
                    256 * m[2 * k - 1] + (IF 2 * k <= Len(m) THEN m[2 * k] ELSE 0)]
  BY <1>1 DEF Words
<1>4. QED
  BY <1>2, <1>3

\* The sum is the second word of a request, and the only one that depends on it.
LEMMA SumWord ==
    ASSUME NEW family \in Families, NEW sum \in Word, NEW id \in Word, NEW n \in Nat
    PROVE  LET m == Header(family, sum, id, n) \o Payload
               z == Header(family, 0, id, n) \o Payload
           IN  Total(Words(z)) \in Nat /\ Total(Words(m)) = Total(Words(z)) + sum
<1>1. PICK m, z : /\ m = Header(family, sum, id, n) \o Payload
                  /\ z = Header(family, 0, id, n) \o Payload
  OBVIOUS
<1>2. 0 \in Word /\ sum \in Nat
  BY WordIs
<1>3. IsRequest(m, z, family, sum, n) /\ IsRequest(z, z, family, 0, n)
  BY <1>1, <1>2, RequestBytes
<1>4. /\ m \in Seq(Byte) /\ Len(m) = 64 /\ m[3] = sum \div 256 /\ m[4] = LowByte(sum)
      /\ z \in Seq(Byte) /\ Len(z) = 64 /\ z[3] = 0 \div 256 /\ z[4] = LowByte(0)
      /\ \A i \in 1 .. Len(m) : i \notin {3, 4} => m[i] = z[i]
  BY <1>3 DEF IsRequest
<1>5. z[3] = 0 /\ z[4] = 0
  BY <1>4 DEF LowByte
<1>6. 256 * m[3] + m[4] = sum
  BY <1>2, <1>4, Bytes
<1>7. PICK N \in Nat : N = 32
  OBVIOUS
<1>8. Len(m) = 2 * N /\ Len(z) = 2 * N
  BY <1>4, <1>7
<1> DEFINE a == Words(z)
           b == Words(m)
<1>9. /\ a \in Seq(Nat) /\ Len(a) = N
      /\ \A k \in 1 .. N : /\ 2 * k - 1 \in 1 .. Len(z) /\ 2 * k \in 1 .. Len(z)
                           /\ a[k] = 256 * z[2 * k - 1] + z[2 * k]
  BY <1>4, <1>8, EvenWords, ZenonT(30)
<1>10. /\ b \in Seq(Nat) /\ Len(b) = N
       /\ \A k \in 1 .. N : /\ 2 * k - 1 \in 1 .. Len(m) /\ 2 * k \in 1 .. Len(m)
                            /\ b[k] = 256 * m[2 * k - 1] + m[2 * k]
  BY <1>4, <1>8, EvenWords, ZenonT(30)
<1> HIDE DEF a, b
<1>11. ASSUME NEW k \in 1 .. N, k # 2 PROVE b[k] = a[k]
  <2>1. 2 * k - 1 \notin {3, 4} /\ 2 * k \notin {3, 4}
    BY <1>11
  <2>2. m[2 * k - 1] = z[2 * k - 1] /\ m[2 * k] = z[2 * k]
    BY <2>1, <1>4, <1>10
  <2>3. a[k] = 256 * z[2 * k - 1] + z[2 * k] /\ b[k] = 256 * m[2 * k - 1] + m[2 * k]
    BY <1>9, <1>10
  <2>4. QED
    BY <2>2, <2>3, Zenon
<1>12. 2 \in 1 .. N /\ 2 * 2 - 1 = 3 /\ 2 * 2 = 4
  BY <1>7
<1>13. a[2] = 0 /\ b[2] = sum
  <2>1. a[2] = 256 * z[3] + z[4]
    BY <1>9, <1>12
  <2>2. b[2] = 256 * m[3] + m[4]
    BY <1>10, <1>12
  <2>3. QED
    BY <2>1, <2>2, <1>5, <1>6
<1>14. b[2] = a[2] + sum
  BY <1>13, <1>2
<1>15. Grown(a, b, 2, sum)
  BY <1>9, <1>10, <1>11, <1>12, <1>14 DEF Grown
<1>16. Total(a) \in Nat /\ Total(b) = Total(a) + sum
  BY <1>2, <1>9, <1>10, <1>15, TotalGrows
<1>17. QED
  BY <1>1, <1>16 DEF a, b

\* The checksum that is sent makes the total a positive multiple of 65535.
LEMMA ChecksumFits ==
    ASSUME NEW id \in Word, NEW n \in Nat
    PROVE  LET sum == Total(Words(BuildEchoRequest("v4", id, n)))
           IN  /\ ChecksumOf("v4", id, n) \in Word
               /\ sum > 0 /\ sum % 65535 = 0
<1> DEFINE c == ChecksumOf("v4", id, n)
           T == Total(Words(Header("v4", 0, id, n) \o Payload))
           F == Folded(T)
<1>1. "v4" \in Families /\ 0 \in Word
  BY WordIs DEF Families
<1>2. c = 65535 - F
  BY DEF ChecksumOf, Checksum
<1>3. T \in Nat
  BY <1>1, SumWord
<1> HIDE DEF T
<1>4. F = Residue(T)
  BY <1>3, FoldedIsResidue
<1>5. Residue(T) \in Word /\ \E q \in Int : T = 65535 * q + Residue(T)
  BY <1>3, AddCarries
<1> HIDE DEF F, c
<1>6. PICK q \in Int : T = 65535 * q + F
  BY <1>4, <1>5
<1>7. F \in Nat /\ F <= 65535
  BY <1>4, <1>5, WordIs
<1>8. c \in Word /\ c \in Nat
  BY <1>2, <1>7, WordIs
<1>9. Total(Words(BuildEchoRequest("v4", id, n))) = T + c
  BY <1>1, <1>8, SumWord DEF BuildEchoRequest, c, T
<1>10. T + c > 0 /\ (T + c) % 65535 = 0
  <2>1. PICK p \in Int : p = q + 1
    OBVIOUS
  <2>2. T + c = 65535 * p + 0
    BY <1>2, <1>3, <1>6, <1>7, <2>1
  <2>3. T + c > 0
    <3>1. CASE T = 0
      BY <3>1, <1>2, <1>4, <1>7 DEF Residue
    <3>2. CASE T # 0
      BY <3>2, <1>3, <1>8
    <3>3. QED
      BY <3>1, <3>2
  <2>4. (T + c) % 65535 = 0
    BY <2>2
  <2>5. QED
    BY <2>3, <2>4
<1>11. QED
  BY <1>8, <1>9, <1>10 DEF c

(***************************************************************************)
(* The records of an answer.                                                *)
(***************************************************************************)
Record == [type : {TypeA, TypeAAAA}, text : Nat]

\* The keys by which dns sorts: the type, then the text.
KeyOf == [x \in Record |-> <<x.type, x.text>>]

Usable(addrs) == {i \in DOMAIN addrs : addrs[i].form # "none"}

\* What the conversion makes of an address is a record.
LEMMA RecordType ==
    /\ \A a \in Address : RecordOf(a) \in Record /\ RecordOf(a).text = a.text
    /\ \A x \in Record : /\ x.type \in Int /\ x.text \in Int
                         /\ KeyOf[x] = <<x.type, x.text>>
    /\ KeyOf \in [Record -> [1 .. 2 -> Int]]
<1>1. \A a \in Address : RecordOf(a) \in Record /\ RecordOf(a).text = a.text
  BY DEF Address, Record, RecordOf
<1>2. \A x \in Record : x.type \in Int /\ x.text \in Int
  BY DEF Record, TypeA, TypeAAAA
<1>3. \A t, u \in Int : <<t, u>> \in [1 .. 2 -> Int]
  OBVIOUS
<1>4. \A x \in Record : <<x.type, x.text>> \in [1 .. 2 -> Int]
  BY <1>2, <1>3
<1>5. KeyOf \in [Record -> [1 .. 2 -> Int]]
  BY <1>4 DEF KeyOf
<1>6. QED
  BY <1>1, <1>2, <1>5 DEF KeyOf

\* What dns lists: a record of each usable address, as often as the resolver said it,
\* and none with a smaller key than one listed before it.
LEMMA RecordsListed ==
    ASSUME NEW addrs \in Seq(Address), NEW r, r = RecordsFromAddrs(addrs)
    PROVE  /\ r \in Seq(Record)
           /\ Len(r) = Cardinality(Usable(addrs))
           /\ \A X : Cardinality(Places(r, X))
                       = Cardinality({i \in Usable(addrs) : RecordOf(addrs[i]) \in X})
           /\ \A i, j \in DOMAIN r : i < j => ~LexLess(KeyOf[r[j]], KeyOf[r[i]])
<1> DEFINE I == Usable(addrs)
           U == Kept(addrs, I)
           M == [i \in DOMAIN U |-> RecordOf(U[i])]
           keys == [i \in DOMAIN M |-> KeyOf[M[i]]]
<1>1. I \in SUBSET DOMAIN addrs
  BY DEF Usable
<1>2. U \in Seq(Address)
  BY <1>1, KeptElements
<1>3. DOMAIN U = 1 .. Len(U) /\ Len(U) \in Nat /\ \A i \in DOMAIN U : U[i] \in Address
  BY <1>2, LenProperties
<1>4. Len(U) = Cardinality(I)
  <2>1. Cardinality(I) \in Nat
    BY <1>1, PlacesFinite
  <2>2. QED
    BY <2>1 DEF Kept
<1> HIDE DEF U, I
<1>5. M \in Seq(Record) /\ DOMAIN M = DOMAIN U /\ Len(M) = Len(U)
  <2>1. \A i \in DOMAIN U : RecordOf(U[i]) \in Record
    BY <1>3, RecordType
  <2>2. M \in [1 .. Len(U) -> Record]
    BY <1>3, <2>1
  <2> HIDE DEF M
  <2>3. M \in Seq(Record) /\ Len(M) = Len(U)
    BY <1>3, <2>2
  <2>4. QED
    BY <1>3, <2>2, <2>3
<1>6. \A X : Places(M, X) = Places(U, {a \in Address : RecordOf(a) \in X})
  BY <1>3, <1>5 DEF Places
<1>7. keys = [i \in DOMAIN M |-> <<M[i].type, M[i].text>>]
  BY <1>5, <1>3, RecordType
<1>8. r = StableSort(M, keys)
  BY <1>7 DEF RecordsFromAddrs, Sort, Usable, U, I
<1>9. keys \in [DOMAIN M -> [1 .. 2 -> Int]]
  BY <1>3, <1>5, RecordType
<1> HIDE DEF M
<1>10. r \in Seq(Record) /\ IsStableSort(r, M, keys)
  BY <1>5, <1>8, <1>9, StableSortSorts
<1>11. Len(r) = Cardinality(I)
  BY <1>4, <1>5, <1>10 DEF IsStableSort
<1>12. ASSUME NEW X
       PROVE  Cardinality(Places(r, X)) = Cardinality({i \in I : RecordOf(addrs[i]) \in X})
  <2> DEFINE Y == {a \in Address : RecordOf(a) \in X}
  <2>1. Cardinality(Places(r, X)) = Cardinality(Places(M, X))
    BY <1>5, <1>10, SortPlaces
  <2>2. Places(M, X) = Places(U, Y)
    BY <1>6
  <2>3. Cardinality(Places(U, Y)) = Cardinality({i \in I : addrs[i] \in Y})
    BY <1>1, KeptPlaces DEF U
  <2>4. {i \in I : addrs[i] \in Y} = {i \in I : RecordOf(addrs[i]) \in X}
    BY <1>1, LenProperties
  <2> HIDE DEF Y
  <2>5. QED
    BY <2>1, <2>2, <2>3, <2>4
<1>13. \A i, j \in DOMAIN r : i < j => ~LexLess(KeyOf[r[j]], KeyOf[r[i]])
  BY <1>5, <1>10, RecordType, SortedKeys
<1>14. QED
  BY <1>10, <1>11, <1>12, <1>13 DEF I

\* An address is listed if and only if it is usable.
LEMMA ListedIsUsable ==
    ASSUME NEW addrs \in Seq(Address), NEW r, r = RecordsFromAddrs(addrs)
    PROVE  /\ \A k \in Usable(addrs) : \E i \in DOMAIN r : r[i] = RecordOf(addrs[k])
           /\ \A i \in DOMAIN r : \E k \in Usable(addrs) : r[i] = RecordOf(addrs[k])
<1> DEFINE At(x) == {k \in Usable(addrs) : RecordOf(addrs[k]) \in {x}}
<1>1. /\ r \in Seq(Record)
      /\ \A X : Cardinality(Places(r, X))
                  = Cardinality({k \in Usable(addrs) : RecordOf(addrs[k]) \in X})
  BY RecordsListed
<1>2. ASSUME NEW x PROVE Places(r, {x}) = {} <=> At(x) = {}
  <2>1. Cardinality(Places(r, {x})) = Cardinality(At(x))
    BY <1>1
  <2>2. At(x) \in SUBSET DOMAIN addrs /\ Places(r, {x}) \in SUBSET DOMAIN r
    BY DEF Usable, Places
  <2> HIDE DEF At
  <2>3. IsFiniteSet(At(x)) /\ IsFiniteSet(Places(r, {x}))
    BY <1>1, <2>2, PlacesFinite
  <2>4. QED
    BY <2>1, <2>3, FS_EmptySet
<1>3. ASSUME NEW k \in Usable(addrs) PROVE \E i \in DOMAIN r : r[i] = RecordOf(addrs[k])
  <2>1. k \in At(RecordOf(addrs[k]))
    OBVIOUS
  <2> HIDE DEF At
  <2>2. PICK i : i \in Places(r, {RecordOf(addrs[k])})
    BY <2>1, <1>2
  <2>3. QED
    BY <2>2 DEF Places
<1>4. ASSUME NEW i \in DOMAIN r PROVE \E k \in Usable(addrs) : r[i] = RecordOf(addrs[k])
  <2>1. i \in Places(r, {r[i]})
    BY DEF Places
  <2>2. At(r[i]) # {}
    <3> HIDE DEF At
    <3>1. QED
      BY <2>1, <1>2
  <2>3. QED
    BY <2>2
<1>5. QED
  BY <1>3, <1>4

\* The invariant behind the listing: what was resolved is what the answer says.
ResolvedInv ==
    Answered => records = RecordsFromAddrs(answer) /\ target = Choice(answer)

\* The records of a resolved answer are its usable addresses.
LEMMA ListingAnswers == answer \in Seq(Address) /\ ResolvedInv => RecordsAreTheAnswer
<1> SUFFICES ASSUME answer \in Seq(Address), ResolvedInv, Answered
             PROVE  /\ \A i \in DOMAIN records :
                         Cardinality({j \in DOMAIN records : records[j] = records[i]})
                            = Times(records[i].type, records[i].text)
                    /\ Len(records) = Cardinality({i \in DOMAIN answer : answer[i].form # "none"})
                    /\ Counts(records)[TypeA] + Counts(records)[TypeAAAA] = Len(records)
  BY DEF RecordsAreTheAnswer
<1>1. /\ records \in Seq(Record)
      /\ Len(records) = Cardinality(Usable(answer))
      /\ \A X : Cardinality(Places(records, X))
                  = Cardinality({i \in Usable(answer) : RecordOf(answer[i]) \in X})
  BY RecordsListed DEF ResolvedInv
<1>2. DOMAIN records = 1 .. Len(records) /\ Len(records) \in Nat
      /\ \A i \in DOMAIN records : records[i] \in Record
  BY <1>1, LenProperties
<1>3. ASSUME NEW i \in DOMAIN records
      PROVE  Cardinality({j \in DOMAIN records : records[j] = records[i]})
                = Times(records[i].type, records[i].text)
  <2> DEFINE x == records[i]
             forms == IF x.type = TypeA THEN {"4", "mapped"} ELSE {"16"}
  <2>1. {j \in DOMAIN records : records[j] = x} = Places(records, {x})
    BY DEF Places
  <2>2. x \in Record
    BY <1>2
  <2> HIDE DEF x
  <2>3. ASSUME NEW a \in Address
        PROVE  a.form # "none" /\ RecordOf(a) = x <=> a.text = x.text /\ a.form \in forms
    <3>1. /\ a.form \in {"none", "4", "mapped", "16"}
          /\ x = [type |-> x.type, text |-> x.text] /\ x.type \in {1, 2}
      BY <2>2 DEF Address, Forms, Record, TypeA, TypeAAAA
    <3>2. RecordOf(a) = [type |-> IF a.form \in {"4", "mapped"} THEN 1 ELSE 2, text |-> a.text]
      BY DEF RecordOf, To4, TypeA, TypeAAAA
    <3>3. forms = IF x.type = 1 THEN {"4", "mapped"} ELSE {"16"}
      BY DEF TypeA
    <3> HIDE DEF forms
    <3>4. QED
      BY <3>1, <3>2, <3>3
  <2>4. \A k \in DOMAIN answer : answer[k] \in Address
    BY LenProperties
  <2> HIDE DEF forms
  <2>5. {k \in Usable(answer) : RecordOf(answer[k]) \in {x}}
          = {k \in DOMAIN answer : answer[k].text = x.text /\ answer[k].form \in forms}
    BY <2>3, <2>4 DEF Usable
  <2>6. Times(x.type, x.text)
          = Cardinality({k \in DOMAIN answer : answer[k].text = x.text /\ answer[k].form \in forms})
    BY DEF Times, forms
  <2>7. Cardinality(Places(records, {x})) = Times(x.type, x.text)
    BY <1>1, <2>5, <2>6
  <2>8. QED
    BY <2>1, <2>7 DEF x
<1>4. Len(records) = Cardinality({i \in DOMAIN answer : answer[i].form # "none"})
  BY <1>1 DEF Usable
<1>5. Counts(records)[TypeA] + Counts(records)[TypeAAAA] = Len(records)
  <2> DEFINE A == {i \in DOMAIN records : records[i].type = TypeA}
             B == {i \in DOMAIN records : records[i].type = TypeAAAA}
  <2>1. Counts(records)[TypeA] = Cardinality(A) /\ Counts(records)[TypeAAAA] = Cardinality(B)
    BY DEF Counts
  <2>2. A \cup B = 1 .. Len(records) /\ A \cap B = {}
    BY <1>2 DEF Record, TypeA, TypeAAAA
  <2>3. A \in SUBSET DOMAIN records /\ B \in SUBSET DOMAIN records
    OBVIOUS
  <2> HIDE DEF A, B
  <2>4. /\ IsFiniteSet(A) /\ Cardinality(A) \in Nat
        /\ IsFiniteSet(B) /\ Cardinality(B) \in Nat
    BY <2>3, <1>1, PlacesFinite
  <2>5. Cardinality(A \cup B) = Cardinality(A) + Cardinality(B) - Cardinality(A \cap B)
    BY <2>4, FS_Union
  <2>6. Cardinality(A \cup B) = Len(records) /\ Cardinality(A \cap B) = 0
    BY <1>2, <2>2, IntervalCount, FS_EmptySet
  <2>7. QED
    BY <2>1, <2>4, <2>5, <2>6
<1>6. QED
  BY <1>3, <1>4, <1>5

(***************************************************************************)
(* The address that ping probes.                                            *)
(***************************************************************************)
LEMMA KeptMembers ==
    ASSUME NEW S, NEW s \in Seq(S), NEW I \in SUBSET DOMAIN s, NEW u, u = Kept(s, I)
    PROVE  /\ u \in Seq(S) /\ (u = <<>> <=> I = {})
           /\ \A n \in DOMAIN u : \E k \in I : u[n] = s[k]
           /\ \A k \in I : \E n \in DOMAIN u : u[n] = s[k]
<1>1. /\ u \in Seq(S)
      /\ \E at \in Bijection(1 .. Len(u), I) : \A n \in 1 .. Len(u) : u[n] = s[at[n]]
  BY KeptElements
<1>2. PICK at \in Bijection(1 .. Len(u), I) : \A n \in 1 .. Len(u) : u[n] = s[at[n]]
  BY <1>1
<1>3. DOMAIN u = 1 .. Len(u) /\ Len(u) \in Nat
  BY <1>1, LenProperties
<1>4. /\ \A n \in 1 .. Len(u) : at[n] \in I
      /\ \A k \in I : \E n \in 1 .. Len(u) : at[n] = k
  BY DEF Bijection, Injection, Surjection
<1>5. /\ \A n \in DOMAIN u : \E k \in I : u[n] = s[k]
      /\ \A k \in I : \E n \in DOMAIN u : u[n] = s[k]
  BY <1>2, <1>3, <1>4
<1>6. u = <<>> <=> DOMAIN u = {}
  BY <1>1, <1>3
<1>7. u = <<>> <=> I = {}
  BY <1>5, <1>6
<1>8. QED
  BY <1>1, <1>5, <1>7

\* Lowest finds an address of the least text.
LEMMA LowestIsLeast ==
    ASSUME NEW ips \in Seq(Address), ips # <<>>
    PROVE  \E i \in DOMAIN ips : /\ Lowest(ips) = ips[i]
                                 /\ \A j \in DOMAIN ips : ips[i].text <= ips[j].text
<1>1. \A i \in DOMAIN ips : ips[i].text \in Nat
  <2>1. \A i \in DOMAIN ips : ips[i] \in Address
    BY LenProperties
  <2>2. QED
    BY <2>1 DEF Address
<1>2. DOMAIN ips # {}
  <2>1. DOMAIN ips = 1 .. Len(ips) /\ Len(ips) \in Nat
    BY LenProperties
  <2>2. Len(ips) # 0
    OBVIOUS
  <2>3. 1 \in 1 .. Len(ips)
    BY <2>1, <2>2
  <2>4. QED
    BY <2>1, <2>3
<1> DEFINE T == {ips[i].text : i \in DOMAIN ips}
<1>3. T \in SUBSET Nat /\ T # {}
  BY <1>1, <1>2
<1>4. PICK t \in T : \A u \in T : t <= u
  <2> HIDE DEF T
  <2>1. QED
    BY <1>3, Least
<1>5. \E i \in DOMAIN ips : \A j \in DOMAIN ips : ips[i].text <= ips[j].text
  BY <1>4
<1> DEFINE c == CHOOSE i \in DOMAIN ips : \A j \in DOMAIN ips : ips[i].text <= ips[j].text
<1>6. c \in DOMAIN ips /\ \A j \in DOMAIN ips : ips[c].text <= ips[j].text
  BY <1>5
<1>7. Lowest(ips) = ips[c]
  BY DEF Lowest
<1> HIDE DEF c
<1>8. QED
  BY <1>6, <1>7

\* The address chosen is the usable one with the least key.
LEMMA ChoiceIsLeast ==
    ASSUME NEW addrs \in Seq(Address)
    PROVE  \/ Usable(addrs) = {} /\ Choice(addrs) = {}
           \/ \E x \in Address, k \in Usable(addrs) :
                /\ Choice(addrs) = {x} /\ x.form \in {"4", "16"}
                /\ RecordOf(x) = RecordOf(addrs[k])
                /\ \A l \in Usable(addrs) : \/ RecordOf(addrs[l]).type > RecordOf(x).type
                                            \/ /\ RecordOf(addrs[l]).type = RecordOf(x).type
                                               /\ RecordOf(addrs[l]).text >= RecordOf(x).text
<1> DEFINE I4 == {i \in DOMAIN addrs : To4(addrs[i])}
           I6 == {i \in DOMAIN addrs : addrs[i].form # "none" /\ ~To4(addrs[i])}
           v4 == Kept(addrs, I4)
           v6 == Kept(addrs, I6)
<1>1. \A i \in DOMAIN addrs : addrs[i] \in Address
  BY LenProperties
<1>2. \A y \in Address : /\ y.text \in Nat /\ y.form \in {"none", "4", "mapped", "16"}
                         /\ To4(y) => y.form # "none"
                         /\ RecordOf(y).text = y.text
                         /\ RecordOf(y).type = IF To4(y) THEN 1 ELSE 2
  BY DEF Address, Forms, RecordOf, To4, TypeA, TypeAAAA
<1>3. Usable(addrs) = I4 \cup I6
  BY <1>1, <1>2 DEF Usable
<1>4. /\ v4 \in Seq(Address) /\ (v4 = <<>> <=> I4 = {})
      /\ \A n \in DOMAIN v4 : \E k \in I4 : v4[n] = addrs[k]
      /\ \A k \in I4 : \E n \in DOMAIN v4 : v4[n] = addrs[k]
  <2>1. I4 \in SUBSET DOMAIN addrs
    OBVIOUS
  <2> HIDE DEF I4
  <2>2. QED
    BY <2>1, KeptMembers
<1>5. /\ v6 \in Seq(Address) /\ (v6 = <<>> <=> I6 = {})
      /\ \A n \in DOMAIN v6 : \E k \in I6 : v6[n] = addrs[k]
      /\ \A k \in I6 : \E n \in DOMAIN v6 : v6[n] = addrs[k]
  <2>1. I6 \in SUBSET DOMAIN addrs
    OBVIOUS
  <2> HIDE DEF I6
  <2>2. QED
    BY <2>1, KeptMembers
<1>6. Choice(addrs) = IF v4 # <<>> THEN {[form |-> "4", text |-> Lowest(v4).text]}
                      ELSE IF v6 # <<>> THEN {Lowest(v6)} ELSE {}
  BY DEF Choice
<1> HIDE DEF v4, v6
<1>7. CASE v4 # <<>>
  <2>1. PICK i \in DOMAIN v4 : /\ Lowest(v4) = v4[i]
                               /\ \A j \in DOMAIN v4 : v4[i].text <= v4[j].text
    BY <1>4, <1>7, LowestIsLeast
  <2>2. PICK k \in I4 : v4[i] = addrs[k]
    BY <1>4
  <2> DEFINE x == [form |-> "4", text |-> addrs[k].text]
  <2>3. k \in Usable(addrs) /\ addrs[k] \in Address /\ To4(addrs[k])
    BY <1>1, <1>3
  <2>4. x \in Address /\ x.form = "4" /\ x.text = addrs[k].text /\ To4(x)
    BY <1>2, <2>3 DEF Address, Forms, To4
  <2>5. Choice(addrs) = {x}
    BY <1>6, <1>7, <2>1, <2>2
  <2>6. RecordOf(x) = RecordOf(addrs[k])
    BY <2>3, <2>4 DEF RecordOf
  <2>7. \A l \in I4 : addrs[k].text <= addrs[l].text
    BY <1>4, <2>1, <2>2
  <2> HIDE DEF x
  <2>8. RecordOf(x).type = 1 /\ RecordOf(x).text = addrs[k].text
    BY <1>2, <2>3, <2>6
  <2>9. ASSUME NEW l \in Usable(addrs)
        PROVE  \/ RecordOf(addrs[l]).type > RecordOf(x).type
               \/ /\ RecordOf(addrs[l]).type = RecordOf(x).type
                  /\ RecordOf(addrs[l]).text >= RecordOf(x).text
    <3>1. addrs[l] \in Address /\ l \in I4 \cup I6
      BY <1>1, <1>3
    <3>2. CASE l \in I4
      <4>1. RecordOf(addrs[l]).type = 1 /\ RecordOf(addrs[l]).text = addrs[l].text
        BY <1>2, <3>1, <3>2
      <4>2. addrs[k].text <= addrs[l].text /\ addrs[k].text \in Nat /\ addrs[l].text \in Nat
        BY <1>2, <2>3, <2>7, <3>1, <3>2
      <4>3. QED
        BY <4>1, <4>2, <2>8
    <3>3. CASE l \in I6
      <4>1. RecordOf(addrs[l]).type = 2
        BY <1>2, <3>1, <3>3
      <4>2. QED
        BY <4>1, <2>8
    <3>4. QED
      BY <3>1, <3>2, <3>3
  <2>10. QED
    BY <2>3, <2>4, <2>5, <2>6, <2>9
<1>8. CASE v4 = <<>> /\ v6 # <<>>
  <2>1. PICK i \in DOMAIN v6 : /\ Lowest(v6) = v6[i]
                               /\ \A j \in DOMAIN v6 : v6[i].text <= v6[j].text
    BY <1>5, <1>8, LowestIsLeast
  <2>2. PICK k \in I6 : v6[i] = addrs[k]
    BY <1>5
  <2> DEFINE x == addrs[k]
  <2>3. k \in Usable(addrs) /\ x \in Address /\ ~To4(x) /\ x.form # "none"
    BY <1>1, <1>3
  <2>4. x.form = "16"
    BY <1>2, <2>3 DEF To4
  <2>5. Choice(addrs) = {x}
    BY <1>6, <1>8, <2>1, <2>2
  <2>6. \A l \in I6 : x.text <= addrs[l].text
    BY <1>5, <2>1, <2>2
  <2>7. RecordOf(x).type = 2 /\ RecordOf(x).text = x.text
    BY <1>2, <2>3
  <2>8. RecordOf(x) = RecordOf(addrs[k])
    OBVIOUS
  <2> HIDE DEF x
  <2>9. ASSUME NEW l \in Usable(addrs)
        PROVE  \/ RecordOf(addrs[l]).type > RecordOf(x).type
               \/ /\ RecordOf(addrs[l]).type = RecordOf(x).type
                  /\ RecordOf(addrs[l]).text >= RecordOf(x).text
    <3>1. addrs[l] \in Address /\ l \in I6
      BY <1>1, <1>3, <1>4, <1>8
    <3>2. RecordOf(addrs[l]).type = 2 /\ RecordOf(addrs[l]).text = addrs[l].text
      BY <1>2, <3>1
    <3>3. x.text <= addrs[l].text /\ x.text \in Nat /\ addrs[l].text \in Nat
      BY <1>2, <2>3, <2>6, <3>1
    <3>4. QED
      BY <2>7, <3>2, <3>3
  <2>10. QED
    BY <2>3, <2>4, <2>5, <2>8, <2>9
<1>9. CASE v4 = <<>> /\ v6 = <<>>
  BY <1>3, <1>4, <1>5, <1>6, <1>9
<1>10. QED
  BY <1>7, <1>8, <1>9

\* The target of a resolved answer is the address of its first record.
LEMMA FirstIsProbed == answer \in Seq(Address) /\ ResolvedInv => PingTakesTheFirstRecord
<1> SUFFICES ASSUME answer \in Seq(Address), ResolvedInv, Answered
             PROVE  IF records = <<>> THEN target = {}
                    ELSE {RecordOf(a) : a \in target} = {records[1]}
  BY DEF PingTakesTheFirstRecord
<1>1. records = RecordsFromAddrs(answer) /\ target = Choice(answer)
  BY DEF ResolvedInv
<1>2. /\ records \in Seq(Record)
      /\ \A i, j \in DOMAIN records : i < j => ~LexLess(KeyOf[records[j]], KeyOf[records[i]])
  BY <1>1, RecordsListed
<1>3. /\ \A k \in Usable(answer) : \E i \in DOMAIN records : records[i] = RecordOf(answer[k])
      /\ \A i \in DOMAIN records : \E k \in Usable(answer) : records[i] = RecordOf(answer[k])
  BY <1>1, ListedIsUsable
<1>4. DOMAIN records = 1 .. Len(records) /\ Len(records) \in Nat
      /\ \A i \in DOMAIN records : records[i] \in Record
  BY <1>2, LenProperties
<1>5. records = <<>> <=> DOMAIN records = {}
  BY <1>2, <1>4
<1>6. CASE Usable(answer) = {} /\ Choice(answer) = {}
  BY <1>1, <1>3, <1>5, <1>6
<1>7. ASSUME NEW x \in Address, NEW k \in Usable(answer),
             Choice(answer) = {x}, RecordOf(x) = RecordOf(answer[k]),
             \A l \in Usable(answer) : \/ RecordOf(answer[l]).type > RecordOf(x).type
                                       \/ /\ RecordOf(answer[l]).type = RecordOf(x).type
                                          /\ RecordOf(answer[l]).text >= RecordOf(x).text
      PROVE  records # <<>> /\ {RecordOf(a) : a \in target} = {records[1]}
  <2>1. PICK p \in DOMAIN records : records[p] = RecordOf(x)
    BY <1>3, <1>7
  <2>2. records # <<>> /\ 1 \in DOMAIN records /\ p \in Nat /\ 1 <= p
    BY <1>4, <1>5, <2>1
  <2>3. PICK l \in Usable(answer) : records[1] = RecordOf(answer[l])
    BY <1>3, <2>2
  <2> DEFINE f == records[1]
             g == records[p]
  <2>4. f \in Record /\ g \in Record
    BY <1>4, <2>1, <2>2
  <2>5. f.type > g.type \/ (f.type = g.type /\ f.text >= g.text)
    BY <1>7, <2>1, <2>3
  <2>6. p = 1 \/ ~LexLess(KeyOf[g], KeyOf[f])
    BY <1>2, <2>1, <2>2
  <2> HIDE DEF f, g
  <2>7. /\ f.type \in Int /\ f.text \in Int /\ g.type \in Int /\ g.text \in Int
        /\ KeyOf[f] = <<f.type, f.text>> /\ KeyOf[g] = <<g.type, g.text>>
    BY <2>4, RecordType
  <2>8. ASSUME p # 1 PROVE f = g
    <3>1. ~LexLess(<<g.type, g.text>>, <<f.type, f.text>>)
      BY <2>6, <2>7, <2>8
    <3>2. \A a, b, c, d \in Int : LexLess(<<a, b>>, <<c, d>>) <=> a < c \/ (a = c /\ b < d)
      <4>1. TAKE a, b, c, d \in Int
      <4>2. LexLess(<<a, b>>, <<c, d>>) <=> \E i \in {1, 2} : /\ <<a, b>>[i] < <<c, d>>[i]
                                                  /\ \A j \in 1 .. i - 1 : <<a, b>>[j] = <<c, d>>[j]
        BY DEF LexLess
      <4>3. 1 .. 1 - 1 = {} /\ 1 .. 2 - 1 = {1}
        OBVIOUS
      <4>4. LexLess(<<a, b>>, <<c, d>>) <=>
              \/ <<a, b>>[1] < <<c, d>>[1]
              \/ <<a, b>>[2] < <<c, d>>[2] /\ <<a, b>>[1] = <<c, d>>[1]
        BY <4>2, <4>3
      <4>5. QED
        BY <4>4
    <3>3. g.type = f.type /\ g.text = f.text
      BY <3>1, <3>2, <2>5, <2>7
    <3>4. /\ f = [type |-> f.type, text |-> f.text]
          /\ g = [type |-> g.type, text |-> g.text]
      BY <2>4 DEF Record
    <3>5. QED
      BY <3>3, <3>4
  <2>9. f = g
    BY <2>8 DEF f, g
  <2>10. target = {x}
    BY <1>1, <1>7
  <2>11. QED
    BY <2>1, <2>2, <2>9, <2>10 DEF f, g
<1>8. QED
  BY <1>6, <1>7, ChoiceIsLeast

(***************************************************************************)
(* What is sent and what arrives.                                           *)
(***************************************************************************)
\* A message of a request's size with the number n at its place.
Numbered(msg, n) ==
    /\ msg \in Seq(Byte) /\ Len(msg) = 64
    /\ msg[7] = Uint16(n) \div 256 /\ msg[8] = LowByte(n)

\* A request is numbered.
LEMMA RequestIsNumbered ==
    ASSUME NEW family \in Families, NEW id \in Word, NEW n \in Nat
    PROVE  /\ Numbered(BuildEchoRequest(family, id, n), n)
           /\ BuildEchoRequest(family, id, n)[1] = EchoRequest[family]
<1>1. ChecksumOf(family, id, n) \in Word
  <2>1. CASE family = "v4"
    BY <2>1, ChecksumFits
  <2>2. CASE family # "v4"
    BY <2>2, WordIs DEF ChecksumOf
  <2>3. QED
    BY <2>1, <2>2
<1>2. IsRequest(BuildEchoRequest(family, id, n), Header(family, 0, id, n) \o Payload,
                family, ChecksumOf(family, id, n), n)
  BY <1>1, RequestBytes DEF BuildEchoRequest
<1>3. QED
  BY <1>2 DEF IsRequest, Numbered

\* Another type leaves the number where it is.
LEMMA Retyped ==
    ASSUME NEW msg, NEW n, Numbered(msg, n), NEW b \in Byte
    PROVE  Numbered([msg EXCEPT ![1] = b], n) /\ [msg EXCEPT ![1] = b][1] = b
<1>1. msg \in Seq(Byte) /\ Len(msg) = 64
  BY DEF Numbered
<1>2. DOMAIN msg = 1 .. Len(msg)
  BY <1>1, LenProperties
<1>3. 1 \in DOMAIN msg /\ 7 \in DOMAIN msg /\ 8 \in DOMAIN msg
  BY <1>1, <1>2
<1> DEFINE r == [msg EXCEPT ![1] = b]
<1>4. r \in Seq(Byte) /\ Len(r) = Len(msg)
  <2>1. 1 \in 1 .. Len(msg) /\ msg \in Seq(Byte)
    BY <1>1
  <2>2. QED
    BY <2>1, ExceptSeq
<1>5. r[1] = b /\ r[7] = msg[7] /\ r[8] = msg[8]
  BY <1>3
<1>6. QED
  BY <1>1, <1>4, <1>5 DEF Numbered

Sizes == {0, HeaderSize - 1, HeaderSize, HeaderSize + PayloadSize}

SameNumber(n, q) == (n - q) % 65536 = 0

\* waitForReply takes a message, cut to a size, by its type and its number.
Recognised(msg, size, family, n, q) ==
    /\ SubSeq(msg, 1, size) \in Seq(Byte)
    /\ Accepts(SubSeq(msg, 1, size), family, q) <=>
         /\ ~(size < HeaderSize)
         /\ msg[1] = EchoReply[family]
         /\ SameNumber(n, q)

\* What waitForReply accepts of a numbered message.
LEMMA Acceptance ==
    ASSUME NEW family \in Families, NEW n \in Nat, NEW q \in Nat, NEW msg, Numbered(msg, n),
           NEW size \in Sizes
    PROVE  Recognised(msg, size, family, n, q)
<1> DEFINE m == SubSeq(msg, 1, size)
<1>1. msg \in Seq(Byte) /\ Len(msg) = 64
  BY DEF Numbered
<1>2. size \in {0, 7, 8, 64}
  BY DEF Sizes, HeaderSize, PayloadSize
<1>3. m \in Seq(Byte) /\ Len(m) = size /\ \A i \in 1 .. size : m[i] = msg[i]
  <2>1. \A i \in 1 .. Len(msg) : msg[i] \in Byte
    <3>1. msg \in Seq(Byte)
      BY <1>1
    <3>2. QED
      BY <3>1
  <2>2. size \in Nat /\ size <= Len(msg) /\ Len(msg) \in Nat
    BY <1>1, <1>2
  <2>3. \A i \in 1 .. size : msg[i] \in Byte
    BY <2>1, <2>2
  <2>4. /\ m \in Seq(Byte) /\ Len(m) = IF 1 <= size THEN size - 1 + 1 ELSE 0
        /\ \A i \in 1 .. size - 1 + 1 : m[i] = msg[1 + i - 1]
    BY <2>2, <2>3, SubSeqProperties
  <2> HIDE DEF m
  <2>5. size - 1 + 1 = size /\ \A i \in 1 .. size : 1 + i - 1 = i
    BY <2>2
  <2>6. QED
    BY <2>2, <2>4, <2>5
<1> HIDE DEF m
<1>4. CASE size < 8
  BY <1>2, <1>3, <1>4 DEF Recognised, Accepts, HeaderSize, m
<1>5. CASE size >= 8
  <2>1. m[1] = msg[1] /\ m[7] = msg[7] /\ m[8] = msg[8]
    BY <1>2, <1>3, <1>5
  <2>2. 256 * m[7] + m[8] = Uint16(n)
    BY <2>1, Bytes DEF Numbered
  <2>3. Len(m) >= HeaderSize /\ ~(Len(m) < HeaderSize) /\ ~(size < HeaderSize)
    BY <1>2, <1>3, <1>5 DEF HeaderSize
  <2>4. ReplySequence(m) = Uint16(n)
    BY <2>2, <2>3 DEF ReplySequence
  <2>5. Accepts(m, family, q) <=> m[1] = EchoReply[family] /\ Uint16(n) = Uint16(q)
    BY <2>3, <2>4 DEF Accepts
  <2>6. Uint16(n) = Uint16(q) <=> (n - q) % 65536 = 0
    BY SameUint16
  <2>7. Accepts(m, family, q) <=>
          ~(size < HeaderSize) /\ msg[1] = EchoReply[family] /\ (n - q) % 65536 = 0
    BY <2>1, <2>3, <2>5, <2>6
  <2>8. QED
    BY <1>3, <2>7 DEF m, Recognised, SameNumber
<1>6. QED
  BY <1>2, <1>4, <1>5

(***************************************************************************)
(* Invariance.                                                              *)
(***************************************************************************)
\* Nothing has arrived before the probe is over.
ArrivalInv == pc # "done" => origin = Nothing

IInv == TypeOK /\ ResolvedInv /\ ArrivalInv /\ ChecksumHolds /\ AcceptedIsTheReply

\* An address is of one of the two families.
LEMMA FamilyType == \A a : FamilyOf(a) \in Families
  BY DEF FamilyOf, Families

\* Every run begins in the invariant.
LEMMA InitIInv == Init => IInv
<1> SUFFICES ASSUME Init PROVE IInv
  OBVIOUS
<1>1. TypeOK
  <2>1. origin.kind = "none" /\ origin.sequence = 0
    BY DEF Init, Nothing
  <2>2. /\ records \in Seq([type : {TypeA, TypeAAAA}, text : Nat])
        /\ request \in Seq(Byte) /\ arrived \in Seq(Byte)
    BY DEF Init
  <2>3. target \in SUBSET Address /\ sequence \in Nat /\ answer \in Answers
    BY DEF Init
  <2>4. accepted \in BOOLEAN /\ pc \in {"lookup", "send", "wait", "done"}
    BY DEF Init
  <2>5. QED
    BY <2>1, <2>2, <2>3, <2>4 DEF TypeOK
<1>2. ResolvedInv /\ ArrivalInv /\ ChecksumHolds /\ AcceptedIsTheReply
  BY DEF Init, ResolvedInv, Answered, ArrivalInv, ChecksumHolds, AcceptedIsTheReply
<1>3. QED
  BY <1>1, <1>2 DEF IInv

\* The answer is converted and a target chosen.
LEMMA ResolveStep == IInv /\ Resolve => IInv'
<1> SUFFICES ASSUME IInv, Resolve PROVE IInv'
  OBVIOUS
<1>1. /\ pc = "lookup" /\ pc' \in {"send", "done"}
      /\ records' = RecordsFromAddrs(answer) /\ target' = Choice(answer)
      /\ answer' = answer /\ sequence' = sequence /\ request' = request
      /\ arrived' = arrived /\ origin' = origin /\ accepted' = accepted
  BY DEF Resolve
<1>2. TypeOK /\ origin = Nothing
  BY <1>1 DEF IInv, ArrivalInv
<1>3. answer \in Seq(Address)
  BY <1>2, AnswersAssumption DEF TypeOK
<1>4. records' \in Seq([type : {TypeA, TypeAAAA}, text : Nat])
  BY <1>1, <1>3, RecordsListed DEF Record
<1>5. target' \in SUBSET Address
  BY <1>1, <1>3, ChoiceIsLeast
<1>6. TypeOK'
  BY <1>1, <1>2, <1>4, <1>5 DEF TypeOK
<1>7. ResolvedInv' /\ ArrivalInv'
  BY <1>1, <1>2 DEF ResolvedInv, ArrivalInv
<1>8. ChecksumHolds' /\ AcceptedIsTheReply'
  BY <1>1, <1>2 DEF IInv, ChecksumHolds, AcceptedIsTheReply
<1>9. QED
  BY <1>6, <1>7, <1>8 DEF IInv

\* A request is built and sent.
LEMMA SendStep == IInv /\ Send => IInv'
<1> SUFFICES ASSUME IInv, Send PROVE IInv'
  OBVIOUS
<1>1. PICK a \in target, n \in SequenceNumbers, id \in Identifiers :
        /\ sequence' = n
        /\ request' = BuildEchoRequest(FamilyOf(a), id, n)
  BY DEF Send
<1>2. /\ pc = "send" /\ pc' = "wait"
      /\ answer' = answer /\ records' = records /\ target' = target
      /\ arrived' = arrived /\ origin' = origin /\ accepted' = accepted
  BY DEF Send
<1>3. TypeOK /\ origin = Nothing
  BY <1>2 DEF IInv, ArrivalInv
<1>4. FamilyOf(a) \in Families /\ id \in Word /\ n \in Nat
  BY FamilyType, IdentifiersAssumption, SequenceNumbersAssumption
<1>5. Numbered(request', n) /\ request'[1] = EchoRequest[FamilyOf(a)]
  BY <1>1, <1>4, RequestIsNumbered
<1>6. TypeOK'
  <2>1. request' \in Seq(Byte) /\ sequence' \in Nat
    BY <1>1, <1>4, <1>5 DEF Numbered
  <2>2. QED
    BY <1>2, <1>3, <2>1 DEF TypeOK
<1>7. ResolvedInv' /\ ArrivalInv' /\ AcceptedIsTheReply'
  BY <1>2, <1>3 DEF IInv, ResolvedInv, Answered, ArrivalInv, AcceptedIsTheReply
<1>8. ChecksumHolds'
  <2>1. FamilyOf(a) = "v4" => Total(Words(request')) > 0 /\ Total(Words(request')) % 65535 = 0
    BY <1>1, <1>4, ChecksumFits
  <2>2. request'[1] = EchoRequest["v4"] => FamilyOf(a) = "v4"
    BY <1>4, <1>5 DEF EchoRequest, Families
  <2>3. QED
    BY <2>1, <2>2 DEF ChecksumHolds
<1>9. QED
  BY <1>6, <1>7, <1>8 DEF IInv

\* A message arrives and is looked at.
LEMMA ReceiveStep == IInv /\ Receive => IInv'
<1> SUFFICES ASSUME IInv, Receive PROVE IInv'
  OBVIOUS
<1> DEFINE Kinds(sent, family) ==
             [reply |-> ReplyTo(sent, family), request |-> sent,
              unreachable |-> [sent EXCEPT ![1] = 3]]
<1>1. PICK a \in target, n \in SequenceNumbers, id \in Identifiers, size \in Sizes :
      LET family == FamilyOf(a)
          kinds == Kinds(BuildEchoRequest(family, id, n), family)
      IN  \E kind \in DOMAIN kinds :
             /\ arrived' = SubSeq(kinds[kind], 1, size)
             /\ origin' = [kind |-> IF size < HeaderSize THEN "short" ELSE kind, sequence |-> n]
             /\ accepted' = Accepts(arrived', family, sequence)
  BY DEF Receive, Sizes
<1> DEFINE family == FamilyOf(a)
           sent == BuildEchoRequest(family, id, n)
<1>2. PICK kind \in DOMAIN Kinds(sent, family) :
        /\ arrived' = SubSeq(Kinds(sent, family)[kind], 1, size)
        /\ origin' = [kind |-> IF size < HeaderSize THEN "short" ELSE kind, sequence |-> n]
        /\ accepted' = Accepts(arrived', family, sequence)
  BY <1>1
<1>3. /\ pc = "wait" /\ pc' = "done"
      /\ answer' = answer /\ records' = records /\ target' = target
      /\ sequence' = sequence /\ request' = request
  BY DEF Receive
<1>4. TypeOK /\ sequence \in Nat
  BY DEF IInv, TypeOK
<1>5. family \in Families /\ id \in Word /\ n \in Nat
  BY FamilyType, IdentifiersAssumption, SequenceNumbersAssumption
<1> HIDE DEF family
<1>6. Numbered(sent, n) /\ sent[1] = EchoRequest[family]
  BY <1>5, RequestIsNumbered
<1> HIDE DEF sent
<1> DEFINE msg == Kinds(sent, family)[kind]
<1>7. kind \in {"reply", "request", "unreachable"}
  OBVIOUS
<1>8. Numbered(msg, n) /\ (msg[1] = EchoReply[family] <=> kind = "reply")
  <2>1. EchoReply[family] \in Byte /\ 3 \in Byte
    BY <1>5 DEF EchoReply, Families, Byte
  <2>2. EchoRequest[family] # EchoReply[family] /\ 3 # EchoReply[family]
    BY <1>5 DEF EchoReply, EchoRequest, Families
  <2>3. CASE kind = "reply"
    <3>1. msg = [sent EXCEPT ![1] = EchoReply[family]]
      BY <2>3 DEF ReplyTo
    <3>2. QED
      BY <2>1, <2>3, <3>1, <1>6, Retyped
  <2>4. CASE kind = "request"
    <3>1. msg = sent
      BY <2>4
    <3>2. QED
      BY <2>2, <2>4, <3>1, <1>6
  <2>5. CASE kind = "unreachable"
    <3>1. msg = [sent EXCEPT ![1] = 3]
      BY <2>5
    <3>2. QED
      BY <2>1, <2>2, <2>5, <3>1, <1>6, Retyped
  <2>6. QED
    BY <1>7, <2>3, <2>4, <2>5
<1>9. arrived' = SubSeq(msg, 1, size)
  BY <1>2
<1> HIDE DEF msg, Kinds
<1>10. /\ arrived' \in Seq(Byte)
       /\ accepted' <=> /\ ~(size < HeaderSize)
                        /\ kind = "reply"
                        /\ SameNumber(n, sequence)
  <2>1. Recognised(msg, size, family, n, sequence)
    BY <1>4, <1>5, <1>8, Acceptance
  <2>2. /\ SubSeq(msg, 1, size) \in Seq(Byte)
        /\ Accepts(SubSeq(msg, 1, size), family, sequence) <=>
             ~(size < HeaderSize) /\ msg[1] = EchoReply[family] /\ SameNumber(n, sequence)
    BY <2>1 DEF Recognised
  <2>3. accepted' = Accepts(SubSeq(msg, 1, size), family, sequence)
    BY <1>2, <1>9
  <2>4. arrived' \in Seq(Byte)
    BY <2>2, <1>9
  <2>5. accepted' <=>
          ~(size < HeaderSize) /\ msg[1] = EchoReply[family] /\ SameNumber(n, sequence)
    BY <2>2, <2>3, Zenon
  <2>6. QED
    BY <2>4, <2>5, <1>8
<1>11. /\ origin'.kind = IF size < HeaderSize THEN "short" ELSE kind
       /\ origin'.sequence = n
  BY <1>2
<1>12. accepted' \in BOOLEAN
  BY <1>2 DEF Accepts
<1>13. TypeOK'
  <2>1. origin'.kind \in {"none", "short", "reply", "request", "unreachable"}
    BY <1>7, <1>11
  <2>2. QED
    BY <1>3, <1>4, <1>5, <1>10, <1>11, <1>12, <2>1 DEF TypeOK
<1>14. AcceptedIsTheReply'
  <2>1. origin'.kind = "reply" <=> ~(size < HeaderSize) /\ kind = "reply"
    BY <1>7, <1>11
  <2>2. accepted' <=> origin'.kind = "reply" /\ SameNumber(origin'.sequence, sequence')
    BY <2>1, <1>3, <1>10, <1>11
  <2>3. QED
    BY <2>2 DEF AcceptedIsTheReply, SameNumber
<1>15. ResolvedInv' /\ ArrivalInv' /\ ChecksumHolds'
  BY <1>3 DEF IInv, ResolvedInv, Answered, ArrivalInv, ChecksumHolds
<1>16. QED
  BY <1>13, <1>14, <1>15 DEF IInv

\* Every step keeps the invariant.
LEMMA NextIInv == IInv /\ [Next]_vars => IInv'
<1>1. IInv /\ UNCHANGED vars => IInv'
  BY DEF IInv, TypeOK, ResolvedInv, Answered, ArrivalInv, ChecksumHolds, AcceptedIsTheReply, vars
<1>2. QED
  BY <1>1, ResolveStep, SendStep, ReceiveStep DEF Next, Finished

\* The invariant holds in every state of every run.
LEMMA Invariance == Spec => []IInv
  BY InitIInv, NextIInv, PTL DEF Spec

(***************************************************************************)
(* Theorems.                                                                *)
(***************************************************************************)
\* Every value keeps its type: what is sent and what arrives are bytes, whatever the
\* identifier and the number are (icmp.go:31-53).
THEOREM TypeCorrect == Spec => []TypeOK
  BY Invariance, PTL DEF IInv

\* The records of dns are the usable addresses of the answer, each as often as the
\* resolver said it, whatever it answers (dns.go:141-187).
THEOREM RecordsReal == Spec => []RecordsAreTheAnswer
<1>1. IInv => RecordsAreTheAnswer
  BY ListingAnswers, AnswersAssumption DEF IInv, TypeOK
<1>2. QED
  BY <1>1, Invariance, PTL

\* ping probes the address that dns lists first, for every answer of the resolver.
THEOREM FirstRecordProbed == Spec => []PingTakesTheFirstRecord
<1>1. IInv => PingTakesTheFirstRecord
  BY FirstIsProbed, AnswersAssumption DEF IInv, TypeOK
<1>2. QED
  BY <1>1, Invariance, PTL

\* A receiver accepts the checksum of every ICMPv4 request, for every identifier and
\* every packet number (icmp.go:56-69).
THEOREM ChecksumCorrect == Spec => []ChecksumHolds
  BY Invariance, PTL DEF IInv

\* waitForReply accepts the replies to the packet that it waits for and nothing else,
\* up to the 16 bits of the number, whatever that number is.
THEOREM ReplyRecognised == Spec => []AcceptedIsTheReply
  BY Invariance, PTL DEF IInv

=============================================================================
