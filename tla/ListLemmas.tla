----------------------------- MODULE ListLemmas -----------------------------
(***************************************************************************)
(* What the proofs need of naturals, sequences and counting. Induction is  *)
(* by the least counterexample, and a value computed along a sequence is   *)
(* the last value of a function that exists by that induction.             *)
(***************************************************************************)
EXTENDS Integers, SequencesExt, SequenceTheorems, FiniteSetTheorems,
        WellFoundedInduction, TLAPS

IsBelow == {p \in Nat \X Nat : p[1] < p[2]}

\* A non-empty set of naturals has a least element.
LEMMA LeastExists ==
  ASSUME NEW S \in SUBSET Nat, S # {}
  PROVE  \E n \in S : \A m \in S : n <= m
<1>1. IsWellFoundedOn(IsBelow, Nat)
  BY NatLessThanWellFounded, Zenon DEF OpToRel, IsBelow
<1>2. PICK n \in S : \A m \in S : <<m, n>> \notin IsBelow
  BY <1>1, WFMin, Zenon
<1>3. \A m \in S : n <= m
  <2>1. TAKE m \in S
  <2>2. <<m, n>> \notin IsBelow
    BY <1>2
  <2>3. m \in Nat /\ n \in Nat
    OBVIOUS
  <2> QED BY <2>2, <2>3 DEF IsBelow
<1> QED BY <1>3

\* A set of naturals that begins at 0 and has each number's successor, up to n, has all.
LEMMA UpTo ==
  ASSUME NEW n \in Nat, NEW T, 0 \in T, \A i \in 1..n : i - 1 \in T => i \in T
  PROVE  0..n \subseteq T
<1> SUFFICES ASSUME (0..n) \ T # {} PROVE FALSE
  OBVIOUS
<1>1. PICK i \in (0..n) \ T : \A m \in (0..n) \ T : i <= m
  <2> DEFINE U == (0..n) \ T
  <2>1. U \in SUBSET Nat /\ U # {}
    OBVIOUS
  <2> QED BY <2>1, LeastExists
<1>2. i \in 1..n
  BY <1>1
<1>3. i - 1 \in 0..n /\ ~(i <= i - 1)
  BY <1>2
<1>4. i - 1 \in T
  BY <1>1, <1>3
<1> QED BY <1>1, <1>2, <1>4

\* Values of S that are computed in n steps, each from the one before.
Steps(S, n) == [S \X (1..n) -> S]
IsFold(f, S, n, g, s) ==
  f \in [0..n -> S] /\ f[0] = s /\ \A i \in 1..n : f[i] = g[<<f[i - 1], i>>]

LEMMA FoldExists ==
  ASSUME NEW S, NEW n \in Nat, NEW g \in Steps(S, n), NEW s \in S
  PROVE  \E f : IsFold(f, S, n, g, s)
<1> USE DEF Steps, IsFold
<1> DEFINE Upto(f, m) == f \in [0..m -> S] /\ f[0] = s
                         /\ \A i \in 1..m : f[i] = g[<<f[i - 1], i>>]
           T == {m \in 0..n : \E f : Upto(f, m)}
<1>1. 0 \in T
  <2> DEFINE f == [i \in 0..0 |-> s]
  <2>1. Upto(f, 0)
    OBVIOUS
  <2>2. \E k : Upto(k, 0)
    <3> HIDE DEF Upto, f
    <3> QED BY <2>1, Zenon
  <2> QED
    <3> HIDE DEF Upto
    <3> QED BY <2>2
<1>2. ASSUME NEW m \in 1..n, m - 1 \in T PROVE m \in T
  <2>1. PICK f : Upto(f, m - 1)
    <3> HIDE DEF Upto
    <3> QED BY <1>2
  <2> DEFINE h == [i \in 0..m |-> IF i = m THEN g[<<f[m - 1], m>>] ELSE f[i]]
  <2>2. f \in [0..(m - 1) -> S] /\ f[0] = s
        /\ \A i \in 1..(m - 1) : f[i] = g[<<f[i - 1], i>>]
    BY <2>1
  <2>3. f[m - 1] \in S
    BY <2>2
  <2>4. h \in [0..m -> S]
    <3>1. ASSUME NEW i \in 0..m PROVE h[i] \in S
      <4>1. CASE i = m
        BY <4>1, <2>3
      <4>2. CASE i # m
        <5>1. i \in 0..(m - 1)
          BY <4>2
        <5> QED BY <5>1, <4>2, <2>2
      <4> QED BY <4>1, <4>2
    <3> QED BY <3>1
  <2>5. h[0] = s
    BY <2>2
  <2>6. ASSUME NEW i \in 1..m PROVE h[i] = g[<<h[i - 1], i>>]
    <3>1. i - 1 \in 0..m /\ i - 1 # m /\ i \in 0..m
      OBVIOUS
    <3>2. h[i - 1] = f[i - 1]
      BY <3>1
    <3>3. CASE i = m
      <4>1. h[i] = g[<<f[m - 1], m>>]
        BY <3>1, <3>3
      <4> QED
        <5> HIDE DEF h
        <5> QED BY <4>1, <3>2, <3>3
    <3>4. CASE i # m
      <4>1. i \in 1..(m - 1)
        BY <3>4
      <4>2. h[i] = f[i]
        BY <3>1, <3>4
      <4> QED BY <4>1, <4>2, <3>2, <2>2
    <3> QED BY <3>3, <3>4
  <2>7. Upto(h, m)
    <3> HIDE DEF h
    <3> QED BY <2>4, <2>5, <2>6
  <2>8. \E k : Upto(k, m)
    <3> HIDE DEF Upto, h
    <3> QED BY <2>7, Zenon
  <2> QED
    <3> HIDE DEF Upto
    <3> QED BY <2>8
<1>3. \E f : Upto(f, n)
  <2> HIDE DEF T
  <2>1. 0..n \subseteq T
    BY <1>1, <1>2, UpTo
  <2>2. n \in T
    BY <2>1
  <2> USE DEF T
  <2> HIDE DEF Upto
  <2> QED BY <2>2
<1> QED BY <1>3

\* What is counted among the first n numbers is n at most, and if with each number all
\* below it are counted, it is the first ones.
LEMMA Counted ==
  ASSUME NEW n \in Nat, NEW D \in SUBSET (1..n)
  PROVE  /\ IsFiniteSet(D) /\ Cardinality(D) \in 0..n
         /\ (\A i, j \in 1..n : i < j /\ j \in D => i \in D) => D = 1..Cardinality(D)
<1>1. IsFiniteSet(1..n) /\ Cardinality(1..n) = n
  BY FS_Interval
<1>2. IsFiniteSet(D) /\ Cardinality(D) <= n
  BY <1>1, FS_Subset
<1>3. Cardinality(D) \in Nat
  BY <1>2, FS_CardinalityType
<1>4. ASSUME \A i, j \in 1..n : i < j /\ j \in D => i \in D
      PROVE  D = 1..Cardinality(D)
  <2>1. CASE D = 1..n
    BY <2>1, <1>1
  <2>2. CASE D # 1..n
    <3> DEFINE U == (1..n) \ D
    <3>1. U \in SUBSET Nat /\ U # {}
      <4>1. D \subseteq 1..n /\ 1..n \subseteq Nat
        OBVIOUS
      <4>2. U # {}
        BY <2>2, <4>1, Zenon
      <4> QED BY <4>1, <4>2, Zenon
    <3>2. PICK k \in U : \A m \in U : k <= m
      BY <3>1, LeastExists
    <3>3. k \in 1..n /\ k \notin D
      BY <3>2
    <3>4. ASSUME NEW m \in 1..(k - 1) PROVE m \in D
      BY <3>2, <3>3
    <3>5. ASSUME NEW m \in D PROVE m \in 1..(k - 1)
      <4>1. m \in 1..n /\ m # k /\ ~(k < m)
        BY <3>3, <1>4
      <4> QED BY <4>1, <3>3
    <3>6. D = 1..(k - 1)
      BY <3>4, <3>5
    <3>7. Cardinality(1..(k - 1)) = k - 1
      <4>1. 1 \in Int /\ k - 1 \in Int /\ k >= 1
        BY <3>3
      <4>2. Cardinality(1..(k - 1)) = IF 1 > k - 1 THEN 0 ELSE k - 1 - 1 + 1
        BY <4>1, FS_Interval
      <4> QED BY <4>1, <4>2
    <3> QED BY <3>6, <3>7
  <2> QED BY <2>1, <2>2
<1> QED BY <1>2, <1>3, <1>4

\* The first elements of a sequence.
FirstOf(r, S, q, n) == r \in Seq(S) /\ Len(r) = n /\ \A i \in 1..n : r[i] = q[i]

LEMMA FirstOfIs ==
  ASSUME NEW S, NEW q \in Seq(S), NEW n \in 0..Len(q)
  PROVE  FirstOf(SubSeq(q, 1, n), S, q, n)
<1>1. n \in Nat /\ Len(q) \in Nat /\ \A i \in 1..n : q[i] \in S
  OBVIOUS
<1> DEFINE r == SubSeq(q, 1, n)
<1>2. r \in Seq(S) /\ Len(r) = n /\ \A i \in 1..n : r[i] = q[i]
  BY <1>1
<1> HIDE DEF r
<1> QED BY <1>2, Zenon DEF FirstOf, r

\* An element is put into a sequence: what was before it, and what comes after it.
Inserts(r, S, q, k, x) ==
  /\ r \in Seq(S) /\ Len(r) = Len(q) + 1
  /\ \A i \in 1..(k - 1) : r[i] = q[i]
  /\ r[k] = x
  /\ \A i \in (k + 1)..(Len(q) + 1) : r[i] = q[i - 1]

LEMMA InsertAtIs ==
  ASSUME NEW S, NEW q \in Seq(S), NEW x \in S, NEW k \in 1..(Len(q) + 1)
  PROVE  Inserts(InsertAt(q, k, x), S, q, k, x)
<1> DEFINE n == Len(q)
           a == SubSeq(q, 1, k - 1)
           b == SubSeq(q, k, n)
<1>1. n \in Nat /\ k \in Nat /\ 1 <= k /\ k <= n + 1 /\ \A i \in 1..n : q[i] \in S
  OBVIOUS
<1>2. /\ a \in Seq(S) /\ Len(a) = k - 1
      /\ \A i \in 1..(k - 1) : a[i] = q[i]
  OBVIOUS
<1>3. /\ b \in Seq(S) /\ Len(b) = n - k + 1
      /\ \A i \in 1..(n - k + 1) : b[i] = q[k + i - 1]
  OBVIOUS
<1>4. InsertAt(q, k, x) = (a \o <<x>>) \o b
  BY DEF InsertAt
<1> DEFINE c == a \o <<x>>
<1> HIDE DEF a, b, n
<1>5. /\ c \in Seq(S) /\ Len(c) = k
      /\ \A i \in 1..(k - 1) : c[i] = q[i]
      /\ c[k] = x
  BY <1>1, <1>2
<1> HIDE DEF c
<1>6. /\ c \o b \in Seq(S) /\ Len(c \o b) = n + 1
      /\ \A i \in 1..(n + 1) : (c \o b)[i] = IF i <= k THEN c[i] ELSE b[i - k]
  <2>1. c \in Seq(S) /\ b \in Seq(S) /\ Len(c) = k /\ Len(b) = n - k + 1
    BY <1>3, <1>5
  <2>2. /\ c \o b \in Seq(S) /\ Len(c \o b) = Len(c) + Len(b)
        /\ \A i \in 1..(Len(c) + Len(b)) :
             (c \o b)[i] = IF i <= Len(c) THEN c[i] ELSE b[i - Len(c)]
    BY <2>1, ConcatProperties
  <2>3. Len(c) + Len(b) = n + 1
    BY <2>1, <1>1
  <2> QED BY <2>1, <2>2, <2>3
<1> DEFINE d == c \o b
<1> HIDE DEF d
<1>7. \A i \in 1..(k - 1) : d[i] = q[i]
  BY <1>1, <1>5, <1>6 DEF d
<1>8. d[k] = x
  BY <1>1, <1>5, <1>6 DEF d
<1>9. \A i \in (k + 1)..(n + 1) : d[i] = q[i - 1]
  <2> TAKE i \in (k + 1)..(n + 1)
  <2>1. i \in 1..(n + 1) /\ ~(i <= k) /\ i - k \in 1..(n - k + 1) /\ k + (i - k) - 1 = i - 1
    BY <1>1
  <2>2. d[i] = b[i - k]
    BY <2>1, <1>6 DEF d
  <2> QED BY <2>1, <2>2, <1>3
<1>10. InsertAt(q, k, x) = d
  BY <1>4 DEF c, d
<1>11. d \in Seq(S) /\ Len(d) = Len(q) + 1
  BY <1>6 DEF d, n
<1> QED BY <1>7, <1>8, <1>9, <1>10, <1>11, Zenon DEF Inserts, n

=============================================================================
