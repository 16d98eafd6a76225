---------------------------- MODULE OrdersProofs ----------------------------
(***************************************************************************)
(* What the operators of Orders return, for every listing: the ranking     *)
(* behind the sort and the filters, the order of the keys, and the two      *)
(* sequences made with them.                                                *)
(***************************************************************************)
EXTENDS Orders, FunctionTheorems, FiniteSetTheorems, SequenceTheorems,
        WellFoundedInduction, TLAPS

\* Every non-empty set of numbers has a least one.
LEMMA Least ==
    ASSUME NEW S \in SUBSET Nat, S # {}
    PROVE  \E n \in S : \A m \in S : n <= m
<1>1. PICK n \in S : \A m \in S : ~(<<m, n>> \in OpToRel(<, Nat))
  BY NatLessThanWellFounded, WFMin
<1>2. \A m \in S : ~(m < n)
  BY <1>1 DEF OpToRel
<1>3. QED
  BY <1>2

StrictOrder(R, I) ==
    /\ \A i \in I : <<i, i>> \notin R
    /\ \A i, j, k \in I : <<i, j>> \in R /\ <<j, k>> \in R => <<i, k>> \in R
    /\ \A i, j \in I : i = j \/ <<i, j>> \in R \/ <<j, i>> \in R

Below(i, I, R) == {j \in I : <<j, i>> \in R}

\* The elements below i are fewer than all, and fewer than those below a larger one.
LEMMA BelowCount ==
    ASSUME NEW I, IsFiniteSet(I), NEW R, StrictOrder(R, I), NEW i \in I
    PROVE  /\ Cardinality(Below(i, I, R)) \in Nat
           /\ Cardinality(Below(i, I, R)) < Cardinality(I)
           /\ \A k \in I : <<i, k>> \in R =>
                Cardinality(Below(i, I, R)) < Cardinality(Below(k, I, R))
<1> DEFINE B(j) == Below(j, I, R)
<1>1. \A j \in I : B(j) \subseteq I /\ j \notin B(j)
  BY DEF Below, StrictOrder
<1>2. \A j \in I : IsFiniteSet(B(j))
  BY <1>1, FS_Subset
<1>3. \A j \in I : Cardinality(B(j)) \in Nat
  BY <1>2, FS_CardinalityType
<1>4. IsFiniteSet(B(i) \cup {i}) /\ Cardinality(B(i) \cup {i}) = Cardinality(B(i)) + 1
  BY <1>1, <1>2, FS_AddElement
<1>5. Cardinality(I) \in Nat
  BY FS_CardinalityType
<1>6. Cardinality(B(i) \cup {i}) <= Cardinality(I)
  <2>1. B(i) \cup {i} \subseteq I
    BY <1>1
  <2>2. QED
    BY <2>1, FS_Subset
<1>7. ASSUME NEW k \in I, <<i, k>> \in R
      PROVE  Cardinality(B(i)) < Cardinality(B(k))
  <2>1. B(i) \cup {i} \subseteq B(k)
    BY <1>7 DEF Below, StrictOrder
  <2>2. Cardinality(B(i) \cup {i}) <= Cardinality(B(k))
    BY <2>1, <1>2, FS_Subset
  <2>3. QED
    BY <2>2, <1>3, <1>4
<1>8. QED
  BY <1>3, <1>4, <1>5, <1>6, <1>7

\* Ranked lists each element of I once, in the order R.
LEMMA RankedLists ==
    ASSUME NEW I, IsFiniteSet(I), NEW R, StrictOrder(R, I)
    PROVE  /\ Cardinality(I) \in Nat
           /\ Ranked(I, R) \in Bijection(1 .. Cardinality(I), I)
           /\ \A n, m \in 1 .. Cardinality(I) :
                n < m => <<Ranked(I, R)[n], Ranked(I, R)[m]>> \in R
<1> DEFINE N == Cardinality(I)
           rank == [i \in I |-> Cardinality(Below(i, I, R)) + 1]
           at == Ranked(I, R)
<1>1. N \in Nat
  BY FS_CardinalityType
<1>2. rank \in [I -> 1 .. N]
  BY <1>1, BelowCount
<1>3. \A i, k \in I : <<i, k>> \in R => rank[i] < rank[k]
  BY BelowCount
<1>4. \A i, k \in I : rank[i] = rank[k] => i = k
  <2>1. \A i \in I : rank[i] \in Int
    BY <1>1, <1>2
  <2>2. \A i, k \in I : i = k \/ rank[i] < rank[k] \/ rank[k] < rank[i]
    BY <1>3 DEF StrictOrder
  <2> HIDE DEF rank
  <2>3. QED
    BY <2>1, <2>2
<1>5. rank \in Surjection(I, 1 .. N)
  <2>1. rank \in Injection(I, 1 .. N)
    BY <1>2, <1>4, Fun_IsInj
  <2>2. IsFiniteSet(1 .. N) /\ Cardinality(1 .. N) = N
    BY <1>1, FS_Interval
  <2>3. QED
    BY <2>1, <2>2, FS_Injection
<1>6. ASSUME NEW n \in 1 .. N
      PROVE  at[n] \in I /\ rank[at[n]] = n
  <2>1. PICK i \in I : rank[i] = n
    BY <1>5 DEF Surjection
  <2>2. Cardinality(Below(i, I, R)) = n - 1
    BY <2>1, BelowCount, <1>1
  <2>3. at[n] = CHOOSE j \in I : Cardinality(Below(j, I, R)) = n - 1
    BY <1>6 DEF Ranked, Below
  <2>4. at[n] \in I /\ Cardinality(Below(at[n], I, R)) = n - 1
    BY <2>2, <2>3
  <2>5. QED
    BY <2>4, <1>1
<1>7. at \in [1 .. N -> I]
  BY <1>6 DEF Ranked
<1>8. at \in Injection(1 .. N, I)
  BY <1>6, <1>7, Fun_IsInj
<1>9. \A i \in I : at[rank[i]] = i
  BY <1>2, <1>4, <1>6
<1>10. at \in Surjection(1 .. N, I)
  BY <1>2, <1>7, <1>9, Fun_IsSurj
<1>11. ASSUME NEW n \in 1 .. N, NEW m \in 1 .. N, n < m
       PROVE  <<at[n], at[m]>> \in R
  <2>1. at[n] \in I /\ at[m] \in I /\ rank[at[n]] = n /\ rank[at[m]] = m
    BY <1>6
  <2>2. rank[at[m]] < rank[at[n]] \/ at[m] = at[n] \/ <<at[n], at[m]>> \in R
    BY <1>3, <2>1 DEF StrictOrder
  <2>3. QED
    BY <1>1, <1>11, <2>1, <2>2
<1>12. QED
  BY <1>1, <1>8, <1>10, <1>11 DEF Bijection


(***************************************************************************)
(* The order of the keys.                                                   *)
(***************************************************************************)

\* LexLess is a strict order on the keys of a fixed length.
LEMMA LexOrder ==
    ASSUME NEW n \in Nat
    PROVE  /\ \A a \in [1 .. n -> Int] : ~LexLess(a, a)
           /\ \A a, b, c \in [1 .. n -> Int] :
                LexLess(a, b) /\ LexLess(b, c) => LexLess(a, c)
           /\ \A a, b \in [1 .. n -> Int] : a = b \/ LexLess(a, b) \/ LexLess(b, a)
<1>1. \A a \in [1 .. n -> Int] : ~LexLess(a, a)
  BY DEF LexLess
<1>2. ASSUME NEW a \in [1 .. n -> Int], NEW b \in [1 .. n -> Int], NEW c \in [1 .. n -> Int],
             LexLess(a, b), LexLess(b, c)
      PROVE  LexLess(a, c)
  <2>1. PICK i \in 1 .. n : a[i] < b[i] /\ \A k \in 1 .. i - 1 : a[k] = b[k]
    BY <1>2 DEF LexLess
  <2>2. PICK j \in 1 .. n : b[j] < c[j] /\ \A k \in 1 .. j - 1 : b[k] = c[k]
    BY <1>2 DEF LexLess
  <2>3. CASE i < j
    <3>1. a[i] < c[i] /\ \A k \in 1 .. i - 1 : a[k] = c[k]
      BY <2>1, <2>2, <2>3
    <3>2. QED
      BY <3>1 DEF LexLess
  <2>4. CASE j < i
    <3>1. a[j] < c[j] /\ \A k \in 1 .. j - 1 : a[k] = c[k]
      BY <2>1, <2>2, <2>4
    <3>2. QED
      BY <3>1 DEF LexLess
  <2>5. CASE i = j
    <3>1. a[i] < c[i] /\ \A k \in 1 .. i - 1 : a[k] = c[k]
      BY <2>1, <2>2, <2>5
    <3>2. QED
      BY <3>1 DEF LexLess
  <2>6. QED
    BY <2>3, <2>4, <2>5
<1>3. ASSUME NEW a \in [1 .. n -> Int], NEW b \in [1 .. n -> Int], a # b
      PROVE  LexLess(a, b) \/ LexLess(b, a)
  <2> DEFINE D == {i \in 1 .. n : a[i] # b[i]}
  <2>1. D # {} /\ D \subseteq Nat
    BY <1>3
  <2>2. PICK i \in D : \A j \in D : ~(<<j, i>> \in OpToRel(<, Nat))
    BY <2>1, NatLessThanWellFounded, WFMin
  <2>3. \A j \in D : ~(j < i)
    BY <2>1, <2>2 DEF OpToRel
  <2>4. i \in 1 .. n /\ a[i] # b[i] /\ a[i] \in Int /\ b[i] \in Int
    OBVIOUS
  <2>5. \A j \in 1 .. i - 1 : a[j] = b[j] /\ b[j] = a[j]
    <3>1. \A j \in 1 .. i - 1 : j \in 1 .. n /\ j < i
      BY <2>4
    <3>2. QED
      BY <2>3, <3>1
  <2>6. a[i] < b[i] \/ b[i] < a[i]
    BY <2>4
  <2>7. QED
    BY <2>4, <2>5, <2>6 DEF LexLess
<1>4. QED
  BY <1>1, <1>2, <1>3

(***************************************************************************)
(* Filters and sorts.                                                       *)
(***************************************************************************)

\* What is kept of a listing are its elements at I, each once and in their order.
LEMMA KeptElements ==
    ASSUME NEW S, NEW s \in Seq(S), NEW I \in SUBSET DOMAIN s
    PROVE  /\ Kept(s, I) \in Seq(S)
           /\ \E at \in Bijection(1 .. Len(Kept(s, I)), I) :
                /\ \A n \in 1 .. Len(Kept(s, I)) : Kept(s, I)[n] = s[at[n]]
                /\ \A n, m \in 1 .. Len(Kept(s, I)) : n < m => at[n] < at[m]
<1> DEFINE R == {p \in I \X I : p[1] < p[2]}
           N == Cardinality(I)
           at == Ranked(I, R)
<1>1. DOMAIN s = 1 .. Len(s) /\ Len(s) \in Nat /\ s \in [1 .. Len(s) -> S]
  BY LenProperties
<1>2. IsFiniteSet(I)
  <2>1. IsFiniteSet(1 .. Len(s))
    BY <1>1, FS_Interval
  <2>2. QED
    BY <1>1, <2>1, FS_Subset
<1>3. StrictOrder(R, I)
  BY <1>1 DEF StrictOrder
<1>4. /\ N \in Nat /\ at \in Bijection(1 .. N, I)
      /\ \A n, m \in 1 .. N : n < m => <<at[n], at[m]>> \in R
  BY <1>2, <1>3, RankedLists
<1>5. at \in [1 .. N -> I]
  BY <1>4 DEF Bijection, Injection
<1>6. Kept(s, I) = [n \in 1 .. N |-> s[at[n]]]
  BY DEF Kept
<1> HIDE DEF at
<1>7. \A n \in 1 .. N : s[at[n]] \in S
  BY <1>1, <1>5
<1>8. Kept(s, I) \in Seq(S) /\ Len(Kept(s, I)) = N
  BY <1>4, <1>6, <1>7
<1>9. \A n, m \in 1 .. N : n < m => at[n] < at[m]
  BY <1>4
<1>10. QED
  BY <1>4, <1>6, <1>8, <1>9

\* The first n positive numbers are n.
LEMMA IntervalCount == \A n \in Nat : IsFiniteSet(1 .. n) /\ Cardinality(1 .. n) = n
<1> TAKE n \in Nat
<1>1. CASE n = 0
  <2>1. 1 .. n = {}
    BY <1>1
  <2>2. QED
    BY <1>1, <2>1, FS_EmptySet
<1>2. CASE n # 0
  <2>1. IsFiniteSet(1 .. n) /\ Cardinality(1 .. n) = n - 1 + 1
    BY <1>2, FS_Interval
  <2>2. QED
    BY <2>1
<1>3. QED
  BY <1>1, <1>2

\* r holds the same elements as s, each once, in the order of their keys; equal
\* keys keep their order.
IsStableSort(r, s, keys) ==
    /\ Len(r) = Len(s)
    /\ \E at \in Bijection(DOMAIN s, DOMAIN s) :
         /\ \A n \in DOMAIN s : r[n] = s[at[n]]
         /\ \A n, m \in DOMAIN s : n < m =>
              \/ LexLess(keys[at[n]], keys[at[m]])
              \/ keys[at[n]] = keys[at[m]] /\ at[n] < at[m]

\* sort.SliceStable with the keys of the ports sorts, whatever the listing is.
THEOREM StableSortSorts ==
    ASSUME NEW S, NEW s \in Seq(S), NEW k \in Nat,
           NEW keys \in [DOMAIN s -> [1 .. k -> Int]]
    PROVE  StableSort(s, keys) \in Seq(S) /\ IsStableSort(StableSort(s, keys), s, keys)
<1> DEFINE D == DOMAIN s
           before(i, j) == LexLess(keys[i], keys[j]) \/ (keys[i] = keys[j] /\ i < j)
           R == {p \in D \X D : before(p[1], p[2])}
           at == Ranked(D, R)
<1>1. D = 1 .. Len(s) /\ Len(s) \in Nat /\ s \in [1 .. Len(s) -> S]
  BY LenProperties
<1>2. IsFiniteSet(D) /\ Cardinality(D) = Len(s)
  <2>1. IsFiniteSet(1 .. Len(s)) /\ Cardinality(1 .. Len(s)) = Len(s)
    BY <1>1, IntervalCount
  <2>2. QED
    BY <1>1, <2>1
<1>3. \A i, j \in D : <<i, j>> \in R <=> before(i, j)
  OBVIOUS
<1>4. StrictOrder(R, D)
  <2>1. \A i \in D : ~before(i, i)
    BY <1>1, LexOrder
  <2>2. \A i, j \in D : i = j \/ before(i, j) \/ before(j, i)
    <3>1. \A i, j \in D : keys[i] = keys[j] \/ LexLess(keys[i], keys[j]) \/ LexLess(keys[j], keys[i])
      BY LexOrder
    <3>2. QED
      BY <1>1, <3>1
  <2>3. ASSUME NEW i \in D, NEW j \in D, NEW l \in D, before(i, j), before(j, l)
        PROVE  before(i, l)
    <3>1. LexLess(keys[i], keys[j]) /\ LexLess(keys[j], keys[l]) => LexLess(keys[i], keys[l])
      BY LexOrder
    <3>2. QED
      BY <1>1, <2>3, <3>1
  <2> HIDE DEF R, before
  <2>4. QED
    BY <1>3, <2>1, <2>2, <2>3 DEF StrictOrder
<1>5. /\ at \in Bijection(1 .. Len(s), D)
      /\ \A n, m \in 1 .. Len(s) : n < m => <<at[n], at[m]>> \in R
  BY <1>2, <1>4, RankedLists
<1>6. at \in [D -> D]
  BY <1>1, <1>5 DEF Bijection, Injection
<1>7. StableSort(s, keys) = [n \in D |-> s[at[n]]]
  BY DEF StableSort
<1> HIDE DEF at, R, before
<1>8. \A n, m \in D : n < m => before(at[n], at[m])
  <2>1. \A n, m \in D : n < m => <<at[n], at[m]>> \in R
    BY <1>1, <1>5
  <2>2. QED
    BY <1>3, <1>6, <2>1
<1>9. \A n \in D : s[at[n]] \in S
  BY <1>1, <1>6
<1>10. StableSort(s, keys) \in Seq(S) /\ Len(StableSort(s, keys)) = Len(s)
  BY <1>1, <1>7, <1>9
<1>11. \A n \in D : StableSort(s, keys)[n] = s[at[n]]
  BY <1>7
<1>12. at \in Bijection(D, D)
  BY <1>1, <1>5
<1>13. QED
  BY <1>8, <1>10, <1>11, <1>12 DEF before, IsStableSort

\* No element of a sorted listing has a smaller key than one before it.
LEMMA SortedKeys ==
    ASSUME NEW S, NEW s \in Seq(S), NEW r \in Seq(S), NEW k \in Nat,
           NEW key \in [S -> [1 .. k -> Int]],
           IsStableSort(r, s, [i \in DOMAIN s |-> key[s[i]]])
    PROVE  \A i, j \in DOMAIN r : i < j => ~LexLess(key[r[j]], key[r[i]])
<1> DEFINE keys == [i \in DOMAIN s |-> key[s[i]]]
<1>1. PICK at \in Bijection(DOMAIN s, DOMAIN s) :
        /\ \A n \in DOMAIN s : r[n] = s[at[n]]
        /\ \A n, m \in DOMAIN s : n < m =>
             LexLess(keys[at[n]], keys[at[m]]) \/ keys[at[n]] = keys[at[m]]
  BY DEF IsStableSort
<1>2. DOMAIN r = DOMAIN s
  BY LenProperties DEF IsStableSort
<1>3. at \in [DOMAIN s -> DOMAIN s]
  BY DEF Bijection, Injection
<1>4. \A n \in DOMAIN s : s[n] \in S /\ keys[n] = key[s[n]]
  BY LenProperties
<1> HIDE DEF keys
<1>5. ASSUME NEW n \in DOMAIN r, NEW m \in DOMAIN r, n < m
      PROVE  ~LexLess(key[r[m]], key[r[n]])
  <2>1. LexLess(key[r[n]], key[r[m]]) \/ key[r[n]] = key[r[m]]
    BY <1>1, <1>2, <1>3, <1>4, <1>5
  <2>2. key[r[n]] \in [1 .. k -> Int] /\ key[r[m]] \in [1 .. k -> Int]
    BY LenProperties
  <2>3. QED
    BY <2>1, <2>2, LexOrder
<1>6. QED
  BY <1>5

(***************************************************************************)
(* Sequences.                                                               *)
(***************************************************************************)

\* What a sequence is after an element was appended.
LEMMA Appended ==
    ASSUME NEW S, NEW s \in Seq(S), NEW e \in S, NEW r, r = Append(s, e)
    PROVE  /\ Len(s) \in Nat /\ DOMAIN s = 1 .. Len(s)
           /\ r \in Seq(S) /\ Len(r) = Len(s) + 1 /\ DOMAIN r = 1 .. Len(s) + 1
           /\ \A i \in DOMAIN s : r[i] = s[i]
           /\ r[Len(s) + 1] = e
           /\ \A i \in DOMAIN r : i \in DOMAIN s \/ i = Len(s) + 1
<1>1. Len(s) \in Nat /\ DOMAIN s = 1 .. Len(s)
  BY LenProperties
<1>2. r \in Seq(S) /\ Len(r) = Len(s) + 1
  BY AppendProperties
<1>3. DOMAIN r = 1 .. Len(s) + 1
  BY <1>2, LenProperties
<1>4. \A i \in 1 .. Len(s) : r[i] = s[i]
  BY AppendProperties
<1>5. r[Len(s) + 1] = e
  BY AppendProperties
<1>6. \A i \in DOMAIN r : i \in DOMAIN s \/ i = Len(s) + 1
  BY <1>1, <1>3
<1>7. QED
  BY <1>1, <1>2, <1>3, <1>4, <1>5, <1>6

(***************************************************************************)
(* Counting: how often the elements of a set stand in a sequence.           *)
(***************************************************************************)
\* Where s has an element of X.
Places(s, X) == {i \in DOMAIN s : s[i] \in X}

\* The places in a sequence are finitely many.
LEMMA PlacesFinite ==
    ASSUME NEW S, NEW s \in Seq(S), NEW P \in SUBSET DOMAIN s
    PROVE  IsFiniteSet(P) /\ Cardinality(P) \in Nat
<1>1. DOMAIN s = 1 .. Len(s) /\ Len(s) \in Nat
  BY LenProperties
<1>2. IsFiniteSet(DOMAIN s)
  BY <1>1, IntervalCount
<1>3. IsFiniteSet(P)
  BY <1>2, FS_Subset
<1>4. QED
  BY <1>3, FS_CardinalityType

\* A bijection keeps the size of what it carries over.
LEMMA CarriedOver ==
    ASSUME NEW D, NEW I, NEW at \in Bijection(D, I), NEW A \in SUBSET D, NEW B \in SUBSET I,
           \A n \in D : n \in A <=> at[n] \in B, IsFiniteSet(A)
    PROVE  IsFiniteSet(B) /\ Cardinality(B) = Cardinality(A)
<1> DEFINE g == [n \in A |-> at[n]]
<1>1. /\ at \in [D -> I] /\ \A m, n \in D : at[m] = at[n] => m = n
      /\ \A i \in I : \E n \in D : at[n] = i
  <2>1. at \in Injection(D, I) /\ at \in Surjection(D, I)
    BY DEF Bijection
  <2>2. QED
    BY <2>1 DEF Injection, Surjection, IsInjective
<1>2. g \in [A -> B]
  BY <1>1
<1>3. \A m, n \in A : g[m] = g[n] => m = n
  BY <1>1
<1>4. \A i \in B : \E n \in A : g[n] = i
  BY <1>1
<1>5. g \in Bijection(A, B)
  <2> HIDE DEF g
  <2>1. g \in Injection(A, B)
    BY <1>2, <1>3, Fun_IsInj
  <2>2. g \in Surjection(A, B)
    BY <1>2, <1>4, Fun_IsSurj
  <2>3. QED
    BY <2>1, <2>2 DEF Bijection
<1>6. ExistsBijection(A, B)
  BY <1>5 DEF ExistsBijection
<1>7. QED
  BY <1>6, FS_Bijection

\* A selection has an element as often as it stood at the indexes selected.
LEMMA KeptPlaces ==
    ASSUME NEW S, NEW s \in Seq(S), NEW I \in SUBSET DOMAIN s, NEW X
    PROVE  Cardinality(Places(Kept(s, I), X)) = Cardinality({i \in I : s[i] \in X})
<1> DEFINE k == Kept(s, I)
           A == Places(k, X)
           B == {i \in I : s[i] \in X}
<1>1. PICK at \in Bijection(1 .. Len(k), I) : \A n \in 1 .. Len(k) : k[n] = s[at[n]]
  BY KeptElements
<1>2. k \in Seq(S)
  BY KeptElements
<1> HIDE DEF k
<1>3. DOMAIN k = 1 .. Len(k)
  BY <1>2, LenProperties
<1>4. A \in SUBSET DOMAIN k
  BY DEF Places
<1>5. IsFiniteSet(A)
  BY <1>2, <1>4, PlacesFinite
<1>6. at \in [1 .. Len(k) -> I]
  BY DEF Bijection, Injection
<1>7. \A n \in 1 .. Len(k) : n \in A <=> at[n] \in B
  BY <1>1, <1>3, <1>6 DEF Places
<1>8. A \in SUBSET (1 .. Len(k)) /\ B \in SUBSET I
  BY <1>3, <1>4
<1>9. Cardinality(B) = Cardinality(A)
  <2> DEFINE N == 1 .. Len(k)
  <2>1. /\ at \in Bijection(N, I) /\ A \in SUBSET N /\ B \in SUBSET I
        /\ \A n \in N : n \in A <=> at[n] \in B
    BY <1>7, <1>8
  <2> HIDE DEF N, A, B
  <2>2. QED
    BY <1>5, <2>1, CarriedOver
<1>10. QED
  BY <1>9 DEF A, B, k

\* A sort has each element as often as before.
LEMMA SortPlaces ==
    ASSUME NEW S, NEW s \in Seq(S), NEW r \in Seq(S), NEW keys, IsStableSort(r, s, keys), NEW X
    PROVE  Cardinality(Places(r, X)) = Cardinality(Places(s, X))
<1>1. PICK at \in Bijection(DOMAIN s, DOMAIN s) : \A n \in DOMAIN s : r[n] = s[at[n]]
  BY DEF IsStableSort
<1>2. DOMAIN r = DOMAIN s
  BY LenProperties DEF IsStableSort
<1>3. at \in [DOMAIN s -> DOMAIN s]
  BY DEF Bijection, Injection
<1>4. /\ Places(r, X) \in SUBSET DOMAIN s /\ Places(s, X) \in SUBSET DOMAIN s
      /\ \A n \in DOMAIN s : n \in Places(r, X) <=> at[n] \in Places(s, X)
  BY <1>1, <1>2, <1>3 DEF Places
<1>5. IsFiniteSet(Places(r, X))
  BY <1>4, PlacesFinite
<1>6. QED
  BY <1>4, <1>5, CarriedOver

\* The elements of two sequences are counted apart.
LEMMA ConcatPlaces ==
    ASSUME NEW S, NEW a \in Seq(S), NEW b \in Seq(S), NEW X
    PROVE  Cardinality(Places(a \o b, X)) = Cardinality(Places(a, X)) + Cardinality(Places(b, X))
<1> DEFINE c == a \o b
           n == Len(a)
           A == Places(a, X)
           B == Places(b, X)
           D == {i \in n + 1 .. n + Len(b) : i - n \in B}
           shift == [i \in 1 .. Len(b) |-> i + n]
<1>1. /\ n \in Nat /\ DOMAIN a = 1 .. n
      /\ Len(b) \in Nat /\ DOMAIN b = 1 .. Len(b)
  BY LenProperties
<1>2. /\ c \in Seq(S) /\ Len(c) = n + Len(b)
      /\ \A i \in 1 .. n + Len(b) : c[i] = IF i <= n THEN a[i] ELSE b[i - n]
  BY ConcatProperties
<1>3. DOMAIN c = 1 .. n + Len(b)
  BY <1>2, LenProperties
<1> HIDE DEF c, n
<1>4. A \in SUBSET (1 .. n) /\ B \in SUBSET (1 .. Len(b)) /\ IsFiniteSet(A) /\ IsFiniteSet(B)
  BY <1>1, PlacesFinite DEF Places
<1>5. shift \in Bijection(1 .. Len(b), n + 1 .. n + Len(b))
  <2>1. shift \in [1 .. Len(b) -> n + 1 .. n + Len(b)]
    BY <1>1
  <2>2. \A i, j \in 1 .. Len(b) : shift[i] = shift[j] => i = j
    BY <1>1
  <2>3. ASSUME NEW k \in n + 1 .. n + Len(b) PROVE \E i \in 1 .. Len(b) : shift[i] = k
    <3>1. k - n \in 1 .. Len(b) /\ shift[k - n] = k
      BY <1>1
    <3>2. QED
      BY <3>1
  <2> HIDE DEF shift
  <2>4. QED
    BY <2>1, <2>2, <2>3, Fun_IsInj, Fun_IsSurj DEF Bijection
<1>6. \A i \in 1 .. Len(b) : i \in B <=> shift[i] \in D
  BY <1>1
<1>7. IsFiniteSet(D) /\ Cardinality(D) = Cardinality(B)
  <2> DEFINE N == 1 .. Len(b)
             M == n + 1 .. n + Len(b)
  <2>1. /\ shift \in Bijection(N, M) /\ B \in SUBSET N /\ D \in SUBSET M /\ IsFiniteSet(B)
        /\ \A i \in N : i \in B <=> shift[i] \in D
    BY <1>4, <1>5, <1>6
  <2> HIDE DEF N, M, D, A, B, shift
  <2>2. QED
    BY <2>1, CarriedOver
<1>8. Places(c, X) = A \cup D
  <2>1. ASSUME NEW i \in 1 .. n + Len(b)
        PROVE  i \in Places(c, X) <=> i \in A \cup D
    <3>1. CASE i <= n
      <4>1. i \in 1 .. n /\ i \notin n + 1 .. n + Len(b) /\ c[i] = a[i]
        BY <1>1, <1>2, <3>1
      <4>2. QED
        BY <1>1, <1>3, <4>1 DEF Places
    <3>2. CASE i > n
      <4>1. /\ i \notin 1 .. n /\ i \in n + 1 .. n + Len(b) /\ i - n \in 1 .. Len(b)
            /\ c[i] = b[i - n]
        BY <1>1, <1>2, <3>2
      <4>2. QED
        BY <1>1, <1>3, <4>1 DEF Places
    <3>3. QED
      BY <1>1, <3>1, <3>2
  <2>2. A \cup D \subseteq 1 .. n + Len(b) /\ Places(c, X) \subseteq 1 .. n + Len(b)
    BY <1>1, <1>3, <1>4 DEF Places
  <2>3. QED
    BY <2>1, <2>2
<1>9. A \cap D = {}
  BY <1>1, <1>4
<1> HIDE DEF A, D, B
<1>10. Cardinality(A \cup D) = Cardinality(A) + Cardinality(D) - Cardinality(A \cap D)
  BY <1>4, <1>7, FS_Union
<1>11. Cardinality(A \cap D) = 0
  BY <1>9, FS_EmptySet
<1>12. Cardinality(A) \in Nat /\ Cardinality(D) \in Nat
  BY <1>4, <1>7, FS_CardinalityType
<1>13. QED
  BY <1>7, <1>8, <1>10, <1>11, <1>12 DEF A, B, c
=============================================================================
