------------------------------ MODULE TxListProofs -----------------------------
(***************************************************************************)
(* For every set of transactions, finite or not, every price bump and      *)
(* every limit: TxList is type correct, its removals open no gap in a      *)
(* strict list, and as long as no price wraps around it implements TxMap.  *)
(* All three rest on one invariant: the heap is the one increasing         *)
(* sequence of the map's nonces, the cache that of their transactions, and *)
(* the caps bound every transaction.                                       *)
(***************************************************************************)
EXTENDS TxList, DataTheorems

-------------------------------------------------------------------------------
(***************************************************************************)
(* The elements of a sequence are what is at its positions.                *)
(***************************************************************************)
LEMMA ElementAt ==
  ASSUME NEW q \in Seq(Nat)
  PROVE  /\ \A i \in 1..Len(q) : q[i] \in ToSet(q) /\ q[i] \in Nat
         /\ \A x \in ToSet(q) : \E i \in 1..Len(q) : x = q[i]
         /\ ToSet(q) \in SUBSET Nat
  <1>1. DOMAIN q = 1..Len(q) /\ \A i \in 1..Len(q) : q[i] \in Nat
    OBVIOUS
  <1> QED BY <1>1 DEF ToSet

LEMMA Ordered ==
  ASSUME NEW q \in Seq(Nat), Increasing(q), NEW i \in 1..Len(q), NEW j \in 1..Len(q)
  PROVE  /\ q[i] \in Nat /\ q[j] \in Nat
         /\ i < j <=> q[i] < q[j]
         /\ i = j <=> q[i] = q[j]
  <1>1. i < j => q[i] < q[j]
    BY DEF Increasing
  <1>2. j < i => q[j] < q[i]
    BY DEF Increasing
  <1>3. q[i] \in Nat /\ q[j] \in Nat
    OBVIOUS
  <1> QED BY <1>1, <1>2, <1>3

(***************************************************************************)
(* The order of the nonces: a finite set of naturals has exactly one       *)
(* increasing sequence.                                                    *)
(***************************************************************************)
LEMMA IncreasingAgree ==
  ASSUME NEW p \in Seq(Nat), NEW q \in Seq(Nat), Increasing(p), Increasing(q),
         ToSet(p) = ToSet(q)
  PROVE  \A i \in 1..Len(p) : i <= Len(q) => p[i] = q[i]
  <1> DEFINE D == {i \in 1..Len(p) : i <= Len(q) /\ p[i] # q[i]}
  <1> SUFFICES ASSUME D # {} PROVE FALSE
    OBVIOUS
  <1>1. D \in SUBSET Nat
    OBVIOUS
  <1>2. PICK i \in D : \A j \in D : i <= j
    <2> HIDE DEF D
    <2> QED BY <1>1, LeastNat
  <1>3. i \in 1..Len(p) /\ i \in 1..Len(q) /\ p[i] # q[i]
    OBVIOUS
  <1>4. \A j \in 1..Len(p) : j < i => p[j] = q[j]
    BY <1>2, <1>3
  <1> HIDE DEF D
  <1>5. PICK j \in 1..Len(q) : p[i] = q[j]
    BY <1>3, ElementAt
  <1>6. PICK l \in 1..Len(p) : q[i] = p[l]
    BY <1>3, ElementAt
  <1>7. ~ p[i] < q[i]
    <2> SUFFICES ASSUME p[i] < q[i] PROVE FALSE
      OBVIOUS
    <2>1. j < i
      BY <1>3, <1>5, Ordered
    <2>2. j \in 1..Len(p) /\ p[j] = p[i]
      BY <1>3, <1>4, <1>5, <2>1
    <2> QED BY <1>3, <2>1, <2>2, Ordered
  <1>8. ~ q[i] < p[i]
    <2> SUFFICES ASSUME q[i] < p[i] PROVE FALSE
      OBVIOUS
    <2>1. l < i
      BY <1>3, <1>6, Ordered
    <2>2. l \in 1..Len(q) /\ q[l] = q[i]
      BY <1>3, <1>4, <1>6, <2>1
    <2> QED BY <1>3, <2>1, <2>2, Ordered
  <1>9. p[i] \in Nat /\ q[i] \in Nat /\ p[i] # q[i]
    BY <1>3
  <1>10. \A x, y \in Nat : x # y => x < y \/ y < x
    OBVIOUS
  <1> QED BY <1>7, <1>8, <1>9, <1>10

LEMMA IncreasingLonger ==
  ASSUME NEW p \in Seq(Nat), NEW q \in Seq(Nat), Increasing(p), Increasing(q),
         ToSet(p) = ToSet(q)
  PROVE  Len(p) <= Len(q)
  <1> SUFFICES ASSUME Len(q) < Len(p) PROVE FALSE
    OBVIOUS
  <1> DEFINE i == Len(q) + 1
  <1>1. i \in 1..Len(p)
    OBVIOUS
  <1>2. PICK j \in 1..Len(q) : p[i] = q[j]
    BY <1>1, ElementAt
  <1>3. j \in 1..Len(p) /\ j < i /\ p[j] = q[j]
    BY IncreasingAgree
  <1> QED BY <1>1, <1>2, <1>3, Ordered

LEMMA IncreasingUnique ==
  ASSUME NEW p \in Seq(Nat), NEW q \in Seq(Nat), Increasing(p), Increasing(q),
         ToSet(p) = ToSet(q)
  PROVE  p = q
  <1>1. Len(p) = Len(q)
    BY IncreasingLonger
  <1>2. \A i \in 1..Len(p) : p[i] = q[i]
    BY <1>1, IncreasingAgree
  <1> QED BY <1>1, <1>2, SeqEqual

LEMMA IncreasingExists ==
  ASSUME NEW S \in SUBSET Nat, IsFiniteSet(S)
  PROVE  \E q \in [1..Cardinality(S) -> S] : Increasing(q) /\ ToSet(q) = S
  <1> DEFINE Order(R) == \E q \in [1..Cardinality(R) -> R] : Increasing(q) /\ ToSet(q) = R
             T == {n \in Nat : \A R \in SUBSET Nat :
                                 IsFiniteSet(R) /\ Cardinality(R) = n => Order(R)}
  <1>1. Cardinality(S) \in Nat
    BY FS_CardinalityType
  <1>2. 0 \in T
    <2> SUFFICES ASSUME NEW R \in SUBSET Nat, IsFiniteSet(R), Cardinality(R) = 0
                 PROVE  Order(R)
      OBVIOUS
    <2>1. R = {}
      BY FS_EmptySet
    <2> DEFINE q == [i \in 1..0 |-> 0]
    <2>2. q \in [1..Cardinality(R) -> R] /\ Increasing(q) /\ ToSet(q) = R
      BY <2>1 DEF Increasing, ToSet
    <2> QED BY <2>2
  <1>3. ASSUME NEW n \in Nat, n \in T PROVE n + 1 \in T
    <2> SUFFICES ASSUME NEW R \in SUBSET Nat, IsFiniteSet(R), Cardinality(R) = n + 1
                 PROVE  Order(R)
      OBVIOUS
    <2>1. R # {}
      BY FS_EmptySet
    <2>2. PICK x \in R : \A y \in R : x <= y
      BY <2>1, LeastNat
    <2> DEFINE Q == R \ {x}
    <2>3. IsFiniteSet(Q) /\ Cardinality(Q) = n
      <3>1. IsFiniteSet(Q) /\ Cardinality(Q) = Cardinality(R) - 1
        BY FS_RemoveElement
      <3> QED BY <3>1
    <2>4. PICK q \in [1..n -> Q] : Increasing(q) /\ ToSet(q) = Q
      BY <1>3, <2>3
    <2> DEFINE r == [i \in 1..(n + 1) |-> IF i = 1 THEN x ELSE q[i - 1]]
    <2>5. r \in [1..(n + 1) -> R]
      OBVIOUS
    <2>6. Increasing(r)
      <3> SUFFICES ASSUME NEW i \in 1..(n + 1), NEW j \in 1..(n + 1), i < j
                   PROVE  r[i] < r[j]
        BY DEF Increasing
      <3>1. j - 1 \in 1..n /\ r[j] = q[j - 1]
        OBVIOUS
      <3>2. CASE i = 1
        <4>1. q[j - 1] \in Q
          BY <3>1
        <4>2. q[j - 1] \in R /\ q[j - 1] # x /\ q[j - 1] \in Nat /\ x \in Nat
          BY <4>1
        <4>3. x <= q[j - 1]
          BY <2>2, <4>2
        <4> QED BY <3>1, <3>2, <4>2, <4>3
      <3>3. CASE i # 1
        <4>1. i - 1 \in 1..n /\ r[i] = q[i - 1]
          BY <3>3
        <4> QED BY <2>4, <3>1, <4>1 DEF Increasing
      <3> QED BY <3>2, <3>3
    <2>7. ToSet(r) = R
      <3>1. ASSUME NEW y \in R PROVE \E i \in 1..(n + 1) : r[i] = y
        <4>1. CASE y = x
          BY <4>1
        <4>2. CASE y # x
          <5>1. PICK i \in 1..n : q[i] = y
            BY <2>4, <4>2 DEF ToSet
          <5>2. i + 1 \in 1..(n + 1) /\ r[i + 1] = y
            BY <5>1
          <5> QED BY <5>2
        <4> QED BY <4>1, <4>2
      <3> HIDE DEF r
      <3>2. ToSet(r) = {r[i] : i \in 1..(n + 1)}
        BY <2>5 DEF ToSet
      <3>3. \A i \in 1..(n + 1) : r[i] \in R
        BY <2>5
      <3>4. ToSet(r) \subseteq R
        BY <3>2, <3>3
      <3>5. R \subseteq ToSet(r)
        BY <3>1, <3>2
      <3> QED BY <3>4, <3>5
    <2> HIDE DEF r
    <2> QED BY <2>5, <2>6, <2>7
  <1> HIDE DEF T
  <1>4. Cardinality(S) \in T
    BY <1>1, <1>2, <1>3, NatSetInduction
  <1> QED BY <1>4 DEF T

LEMMA AscendingFacts ==
  ASSUME NEW S \in SUBSET Nat, IsFiniteSet(S)
  PROVE  /\ Ascending(S) \in Seq(Nat) /\ Ascending(S) \in Seq(S)
         /\ Len(Ascending(S)) = Cardinality(S)
         /\ Cardinality(S) \in Nat
         /\ Increasing(Ascending(S)) /\ ToSet(Ascending(S)) = S
  <1> DEFINE q == Ascending(S)
  <1>1. q \in [1..Cardinality(S) -> S] /\ Increasing(q) /\ ToSet(q) = S
    BY IncreasingExists DEF Ascending
  <1>2. Cardinality(S) \in Nat
    BY FS_CardinalityType
  <1> DEFINE n == Cardinality(S)
  <1> HIDE DEF q, n
  <1>3. q \in [1..n -> S] /\ q \in [1..n -> Nat] /\ n \in Nat
    BY <1>1, <1>2 DEF n
  <1>4. q \in Seq(Nat) /\ q \in Seq(S) /\ Len(q) = n
    BY <1>3
  <1> QED BY <1>1, <1>3, <1>4 DEF q, n

LEMMA AscendingIs ==
  ASSUME NEW S \in SUBSET Nat, IsFiniteSet(S),
         NEW q \in Seq(Nat), Increasing(q), ToSet(q) = S
  PROVE  q = Ascending(S)
  BY AscendingFacts, IncreasingUnique

(***************************************************************************)
(* What is popped first, and what is left.                                 *)
(***************************************************************************)
First(S, k) == {Ascending(S)[i] : i \in 1..k}

LEMMA FirstPart ==
  ASSUME NEW S \in SUBSET Nat, IsFiniteSet(S), NEW k \in 0..Cardinality(S)
  PROVE  LET p == SubSeq(Ascending(S), 1, k)
         IN  /\ p \in Seq(Nat) /\ Len(p) = k
             /\ \A i \in 1..k : p[i] = Ascending(S)[i]
             /\ ToSet(p) = First(S, k) /\ First(S, k) \in SUBSET S
             /\ p = Ascending(First(S, k))
  <1> DEFINE q == Ascending(S)
             p == SubSeq(q, 1, k)
  <1>1. /\ q \in Seq(Nat) /\ q \in Seq(S) /\ Len(q) = Cardinality(S) /\ Increasing(q)
        /\ Cardinality(S) \in Nat
    BY AscendingFacts
  <1> HIDE DEF q
  <1>2. p \in Seq(Nat) /\ Len(p) = k /\ \A i \in 1..k : p[i] = q[i]
    BY <1>1
  <1>3. \A i \in 1..k : q[i] \in S
    BY <1>1
  <1> HIDE DEF p
  <1>4. ToSet(p) = {q[i] : i \in 1..k}
    BY <1>2 DEF ToSet
  <1>5. Increasing(p)
    BY <1>1, <1>2 DEF Increasing
  <1>6. ToSet(p) \in SUBSET S /\ IsFiniteSet(ToSet(p))
    BY <1>3, <1>4, FS_Subset
  <1>7. p = Ascending(ToSet(p))
    BY <1>2, <1>5, <1>6, AscendingIs
  <1> QED BY <1>2, <1>4, <1>6, <1>7 DEF p, q, First

LEMMA LastPart ==
  ASSUME NEW S \in SUBSET Nat, IsFiniteSet(S), NEW k \in 0..Cardinality(S)
  PROVE  LET p == SubSeq(Ascending(S), k + 1, Len(Ascending(S)))
         IN  /\ p \in Seq(Nat) /\ Len(p) = Cardinality(S) - k
             /\ \A i \in 1..(Cardinality(S) - k) : p[i] = Ascending(S)[k + i]
             /\ ToSet(p) = S \ First(S, k)
             /\ p = Ascending(S \ First(S, k))
  <1> DEFINE q == Ascending(S)
             n == Cardinality(S)
             p == SubSeq(q, k + 1, Len(q))
  <1>1. /\ q \in Seq(Nat) /\ q \in Seq(S) /\ Len(q) = n /\ Increasing(q)
        /\ n \in Nat /\ ToSet(q) = S
    BY AscendingFacts
  <1>0. k \in 0..n
    OBVIOUS
  <1> HIDE DEF q, n
  <1>2. p \in Seq(Nat) /\ Len(p) = n - k /\ \A i \in 1..(n - k) : p[i] = q[k + i]
    BY <1>0, <1>1
  <1> HIDE DEF p
  <1>3. Increasing(p)
    <2> SUFFICES ASSUME NEW i \in 1..(n - k), NEW j \in 1..(n - k), i < j
                 PROVE  p[i] < p[j]
      BY <1>2 DEF Increasing
    <2>1. k + i \in 1..Len(q) /\ k + j \in 1..Len(q) /\ k + i < k + j
      BY <1>0, <1>1
    <2>2. q[k + i] < q[k + j]
      BY <1>1, <2>1, Ordered
    <2> QED BY <1>2, <2>2
  <1>4. ToSet(p) = S \ First(S, k)
    <2>1. First(S, k) = {q[i] : i \in 1..k}
      BY DEF First, q
    <2>2. ASSUME NEW x \in ToSet(p) PROVE x \in S \ First(S, k)
      <3>1. PICK i \in 1..(n - k) : x = q[k + i]
        BY <1>2, <2>2, ElementAt
      <3>2. k + i \in 1..Len(q)
        BY <1>0, <1>1
      <3>3. x \in S
        BY <1>1, <3>1, <3>2
      <3>4. ASSUME NEW j \in 1..k, x = q[j] PROVE FALSE
        <4>1. j \in 1..Len(q) /\ j # k + i
          BY <1>0, <1>1
        <4>2. q[j] # q[k + i]
          BY <1>1, <3>2, <4>1, Ordered
        <4> QED BY <3>1, <3>4, <4>2
      <3> QED BY <2>1, <3>3, <3>4
    <2>3. ASSUME NEW x \in S \ First(S, k) PROVE x \in ToSet(p)
      <3>1. PICK i \in 1..Len(q) : x = q[i]
        BY <1>1, ElementAt
      <3>2. i \notin 1..k
        BY <2>1, <2>3, <3>1
      <3>3. i - k \in 1..(n - k) /\ k + (i - k) = i
        BY <1>0, <1>1, <3>2
      <3>4. p[i - k] = x
        BY <1>2, <3>1, <3>3
      <3> QED BY <1>2, <3>3, <3>4, ElementAt
    <2> QED BY <2>2, <2>3
  <1>5. p = Ascending(S \ First(S, k))
    BY <1>2, <1>3, <1>4, FS_Subset, AscendingIs
  <1> QED BY <1>2, <1>4, <1>5 DEF p, q, n

(***************************************************************************)
(* What is popped first is below what is left.                             *)
(***************************************************************************)
LEMMA FirstIsLower ==
  ASSUME NEW S \in SUBSET Nat, IsFiniteSet(S), NEW k \in 0..Cardinality(S),
         NEW m \in First(S, k), NEW n \in S \ First(S, k)
  PROVE  m < n
  <1> DEFINE q == Ascending(S)
  <1>1. /\ q \in Seq(Nat) /\ Len(q) = Cardinality(S) /\ Increasing(q) /\ ToSet(q) = S
        /\ Cardinality(S) \in Nat
    BY AscendingFacts
  <1>2. First(S, k) = {q[i] : i \in 1..k}
    BY DEF First
  <1> HIDE DEF q
  <1>3. PICK i \in 1..k : m = q[i]
    BY <1>2
  <1>4. PICK j \in 1..Len(q) : n = q[j]
    BY <1>1, ElementAt
  <1>5. j \notin 1..k
    BY <1>2, <1>4
  <1>6. i \in 1..Len(q) /\ i < j
    BY <1>1, <1>5
  <1> QED BY <1>1, <1>3, <1>4, <1>6, Ordered

(***************************************************************************)
(* The nonces below a threshold are the first ones, as many as Below says. *)
(***************************************************************************)
LEMMA BelowPart ==
  ASSUME NEW S \in SUBSET Nat, IsFiniteSet(S), NEW t \in Nat
  PROVE  LET k == Below(Ascending(S), t)
         IN  /\ k \in 0..Cardinality(S)
             /\ \A i \in 1..Cardinality(S) : Ascending(S)[i] < t <=> i <= k
             /\ First(S, k) = {n \in S : n < t}
  <1> DEFINE q == Ascending(S)
             n == Cardinality(S)
             D == {i \in 1..n : ~ q[i] < t}
  <1>1. /\ q \in Seq(Nat) /\ Len(q) = n /\ Increasing(q) /\ ToSet(q) = S /\ n \in Nat
    BY AscendingFacts
  <1>2. First(S, Below(q, t)) = {q[i] : i \in 1..Below(q, t)}
    BY DEF First
  <1> HIDE DEF q, n
  <1>3. PICK k \in 0..n : \A i \in 1..n : q[i] < t <=> i <= k
    <2>1. CASE D = {}
      <3>1. \A i \in 1..n : q[i] < t <=> i <= n
        BY <2>1
      <3> QED BY <1>1, <3>1
    <2>2. CASE D # {}
      <3>1. D \in SUBSET Nat
        BY <1>1
      <3> HIDE DEF D
      <3>2. PICK l \in D : \A j \in D : l <= j
        BY <2>2, <3>1, LeastNat
      <3> USE DEF D
      <3>3. l - 1 \in 0..n /\ l \in 1..n /\ ~ q[l] < t
        BY <1>1
      <3>4. ASSUME NEW i \in 1..n PROVE q[i] < t <=> i <= l - 1
        <4>1. CASE i < l
          BY <1>1, <3>2, <3>3, <4>1
        <4>2. CASE ~ i < l
          <5>1. ~ q[i] < q[l] /\ q[i] \in Nat /\ q[l] \in Nat
            BY <1>1, <3>3, <4>2, Ordered
          <5> QED BY <1>1, <3>3, <4>2, <5>1
        <4> QED BY <4>1, <4>2
      <3> QED BY <3>3, <3>4
    <2> QED BY <2>1, <2>2
  <1>4. {i \in DOMAIN q : q[i] < t} = 1..k
    BY <1>1, <1>3
  <1>5. Below(q, t) = k
    <2>1. k \in Nat
      BY <1>1
    <2>2. Cardinality(1..k) = k
      BY <2>1, FS_Interval
    <2> QED BY <1>4, <2>2 DEF Below
  <1>6. {q[i] : i \in 1..k} = {m \in S : m < t}
    <2>1. ASSUME NEW i \in 1..k PROVE q[i] \in S /\ q[i] < t
      BY <1>1, <1>3, ElementAt
    <2>2. ASSUME NEW m \in S, m < t PROVE \E i \in 1..k : m = q[i]
      <3>1. PICK i \in 1..n : m = q[i]
        BY <1>1, ElementAt
      <3>2. i \in 1..k
        BY <1>1, <1>3, <2>2, <3>1
      <3> QED BY <3>1, <3>2
    <2> QED BY <2>1, <2>2
  <1> QED BY <1>2, <1>3, <1>5, <1>6 DEF q, n

(***************************************************************************)
(* The two halves of a concatenation.                                      *)
(***************************************************************************)
LEMMA Concatenated ==
  ASSUME NEW c \in Seq(Nat), NEW b \in Seq(Nat)
  PROVE  /\ c \o b \in Seq(Nat) /\ Len(c \o b) = Len(c) + Len(b)
         /\ \A i \in 1..Len(c) : (c \o b)[i] = c[i]
         /\ \A i \in 1..Len(b) : (c \o b)[Len(c) + i] = b[i]
  <1>1. c \o b \in Seq(Nat) /\ Len(c \o b) = Len(c) + Len(b)
    OBVIOUS
  <1>2. ASSUME NEW i \in 1..Len(c) PROVE (c \o b)[i] = c[i]
    OBVIOUS
  <1>3. ASSUME NEW i \in 1..Len(b) PROVE (c \o b)[Len(c) + i] = b[i]
    OBVIOUS
  <1> QED BY <1>1, <1>2, <1>3

(***************************************************************************)
(* A push keeps the order.                                                 *)
(***************************************************************************)
LEMMA HeapPushed ==
  ASSUME NEW S \in SUBSET Nat, IsFiniteSet(S), NEW n \in Nat \ S
  PROVE  HeapPush(Ascending(S), n) = Ascending(S \cup {n})
  <1> DEFINE q == Ascending(S)
             len == Cardinality(S)
             k == Below(q, n)
             r == [i \in 1..(len + 1) |->
                     IF i <= k THEN q[i] ELSE IF i = k + 1 THEN n ELSE q[i - 1]]
             h == HeapPush(q, n)
  <1>1. /\ q \in Seq(Nat) /\ Len(q) = len /\ Increasing(q) /\ ToSet(q) = S /\ len \in Nat
    BY AscendingFacts
  <1>2. k \in 0..len /\ \A i \in 1..len : q[i] < n <=> i <= k
    BY BelowPart
  <1>3. h = SubSeq(q, 1, k) \o <<n>> \o SubSeq(q, k + 1, Len(q))
    BY DEF HeapPush
  <1> HIDE DEF q, len, k, h
  <1>4. h = r
    <2> DEFINE a == SubSeq(q, 1, k)
               b == SubSeq(q, k + 1, len)
    <2>1. a \in Seq(Nat) /\ Len(a) = k /\ \A i \in 1..k : a[i] = q[i]
      BY <1>1, <1>2
    <2>2. /\ b \in Seq(Nat) /\ Len(b) = len - k
          /\ \A i \in 1..(len - k) : b[i] = q[k + i]
      BY <1>1, <1>2
    <2>3. h = (a \o <<n>>) \o b
      BY <1>1, <1>3
    <2> HIDE DEF a, b
    <2> DEFINE c == a \o <<n>>
    <2>4. c \in Seq(Nat) /\ Len(c) = k + 1 /\ c[k + 1] = n /\ \A i \in 1..k : c[i] = q[i]
      BY <1>1, <1>2, <2>1
    <2>5. h = c \o b
      BY <2>3
    <2> HIDE DEF c
    <2>6. /\ h \in Seq(Nat) /\ Len(h) = len + 1
          /\ \A i \in 1..(k + 1) : h[i] = c[i]
          /\ \A i \in 1..(len - k) : h[k + 1 + i] = b[i]
      <3>1. Len(c) = k + 1 /\ Len(b) = len - k /\ k + 1 + (len - k) = len + 1
        BY <1>1, <1>2, <2>2, <2>4
      <3>2. /\ c \o b \in Seq(Nat) /\ Len(c \o b) = Len(c) + Len(b)
            /\ \A i \in 1..Len(c) : (c \o b)[i] = c[i]
            /\ \A i \in 1..Len(b) : (c \o b)[Len(c) + i] = b[i]
        BY <2>2, <2>4, Concatenated
      <3> QED BY <2>5, <3>1, <3>2
    <2>7. ASSUME NEW i \in 1..(len + 1) PROVE h[i] = r[i]
      <3>1. CASE i <= k
        BY <1>1, <1>2, <2>4, <2>6, <3>1
      <3>2. CASE i = k + 1
        BY <1>1, <1>2, <2>4, <2>6, <3>2
      <3>3. CASE i > k + 1
        <4> DEFINE j == i - (k + 1)
        <4>1. j \in 1..(len - k) /\ k + 1 + j = i /\ k + j = i - 1
          BY <1>1, <1>2, <3>3
        <4>2. h[k + 1 + j] = b[j] /\ b[j] = q[k + j]
          BY <2>2, <2>6, <4>1
        <4>3. r[i] = q[i - 1]
          BY <1>1, <1>2, <3>3
        <4> HIDE DEF j, r
        <4> QED BY <4>1, <4>2, <4>3
      <3> QED BY <1>1, <1>2, <3>1, <3>2, <3>3
    <2>8. DOMAIN h = 1..(len + 1) /\ h = [i \in 1..(len + 1) |-> h[i]]
      BY <1>1, <2>6
    <2> QED BY <2>7, <2>8
  <1>5. \A i \in 1..(len + 1) : \/ i <= k /\ i \in 1..len /\ r[i] = q[i]
                                \/ i = k + 1 /\ r[i] = n
                                \/ i > k + 1 /\ i - 1 \in 1..len /\ r[i] = q[i - 1]
    BY <1>1, <1>2
  <1>6. \A i \in 1..len : q[i] \in S /\ q[i] \in Nat
    BY <1>1, ElementAt
  <1>7. r \in Seq(Nat) /\ Len(r) = len + 1
    <2>1. \A i \in 1..(len + 1) : r[i] \in Nat
      BY <1>5, <1>6
    <2>2. len + 1 \in Nat /\ r \in [1..(len + 1) -> Nat]
      BY <1>1, <2>1
    <2> HIDE DEF r
    <2> QED BY <2>2
  <1> HIDE DEF r
  <1>8. Increasing(r)
    <2> SUFFICES ASSUME NEW i \in 1..(len + 1), NEW j \in 1..(len + 1), i < j
                 PROVE  r[i] < r[j]
      BY <1>7 DEF Increasing
    <2>1. CASE i <= k /\ j <= k
      <3>1. i \in 1..Len(q) /\ j \in 1..Len(q) /\ r[i] = q[i] /\ r[j] = q[j]
        BY <1>1, <1>2, <1>5, <2>1
      <3> QED BY <1>1, <3>1, Ordered
    <2>2. CASE i <= k /\ j = k + 1
      BY <1>1, <1>2, <1>5, <2>2
    <2>3. CASE i <= k /\ j > k + 1
      <3>1. i \in 1..Len(q) /\ j - 1 \in 1..Len(q) /\ r[i] = q[i] /\ r[j] = q[j - 1]
        BY <1>1, <1>2, <1>5, <2>3
      <3>2. i < j - 1
        BY <1>1, <1>2, <2>3
      <3>3. q[i] < q[j - 1]
        BY <1>1, <3>1, <3>2, Ordered
      <3> QED BY <3>1, <3>3
    <2>4. CASE i = k + 1
      <3>1. j - 1 \in 1..len /\ ~ j - 1 <= k /\ r[i] = n /\ r[j] = q[j - 1]
        BY <1>1, <1>2, <1>5, <2>4
      <3>2. ~ q[j - 1] < n /\ q[j - 1] \in S /\ q[j - 1] \in Nat
        BY <1>2, <1>6, <3>1
      <3>3. q[j - 1] # n
        BY <3>2
      <3> QED BY <3>1, <3>2, <3>3
    <2>5. CASE i > k + 1
      <3>1. i - 1 \in 1..Len(q) /\ j - 1 \in 1..Len(q) /\ r[i] = q[i - 1] /\ r[j] = q[j - 1]
        BY <1>1, <1>2, <1>5, <2>5
      <3>2. i - 1 < j - 1
        OBVIOUS
      <3>3. q[i - 1] < q[j - 1]
        BY <1>1, <3>1, <3>2, Ordered
      <3> QED BY <3>1, <3>3
    <2> QED BY <1>1, <1>2, <2>1, <2>2, <2>3, <2>4, <2>5
  <1>9. ToSet(r) = S \cup {n}
    <2>1. ASSUME NEW x \in ToSet(r) PROVE x \in S \cup {n}
      <3>1. PICK i \in 1..(len + 1) : x = r[i]
        BY <1>7, ElementAt
      <3> QED BY <1>5, <1>6, <3>1
    <2>2. ASSUME NEW x \in S PROVE x \in ToSet(r)
      <3>1. PICK i \in 1..len : x = q[i]
        BY <1>1, ElementAt
      <3>2. CASE i <= k
        <4>1. i \in 1..Len(r) /\ r[i] = x
          BY <1>1, <1>2, <1>5, <1>7, <3>1, <3>2
        <4> QED BY <1>7, <4>1, ElementAt
      <3>3. CASE i > k
        <4>1. i + 1 \in 1..Len(r) /\ i + 1 > k + 1 /\ (i + 1) - 1 = i
          BY <1>1, <1>2, <1>7, <3>3
        <4>2. r[i + 1] = q[i]
          BY <1>1, <1>2, <1>5, <1>7, <4>1
        <4> QED BY <1>7, <3>1, <4>1, <4>2, ElementAt
      <3> QED BY <1>1, <1>2, <3>2, <3>3
    <2>3. n \in ToSet(r)
      <3>1. k + 1 \in 1..Len(r) /\ r[k + 1] = n
        BY <1>1, <1>2, <1>5, <1>7
      <3> QED BY <1>7, <3>1, ElementAt
    <2> QED BY <2>1, <2>2, <2>3
  <1>10. S \cup {n} \in SUBSET Nat /\ IsFiniteSet(S \cup {n})
    BY FS_AddElement
  <1>11. r = Ascending(S \cup {n})
    BY <1>7, <1>8, <1>9, <1>10, AscendingIs
  <1> QED BY <1>4, <1>11 DEF h, q

(***************************************************************************)
(* Above the i-th nonce are those that follow it, so the k highest nonces  *)
(* are the last k.                                                         *)
(***************************************************************************)
LEMMA HighestPart ==
  ASSUME NEW S \in SUBSET Nat, IsFiniteSet(S), NEW k \in 0..Cardinality(S)
  PROVE  {n \in S : Cardinality({m \in S : m > n}) < Cardinality(S) - k} = S \ First(S, k)
  <1> DEFINE q == Ascending(S)
             len == Cardinality(S)
             Above(n) == {m \in S : m > n}
  <1>1. /\ q \in Seq(Nat) /\ Len(q) = len /\ Increasing(q) /\ ToSet(q) = S /\ len \in Nat
    BY AscendingFacts
  <1>2. ASSUME NEW i \in 1..len PROVE Cardinality(Above(q[i])) = len - i
    <2>1. i \in 0..Cardinality(S)
      BY <1>1
    <2>2. Above(q[i]) = S \ First(S, i)
      <3>1. First(S, i) = {q[j] : j \in 1..i}
        BY DEF First
      <3> HIDE DEF q, len
      <3>2. \A j \in 1..len : q[j] > q[i] <=> j > i
        BY <1>1, Ordered
      <3>3. \A j \in 1..len : q[j] \in First(S, i) <=> j <= i
        <4> SUFFICES ASSUME NEW j \in 1..len, NEW l \in 1..i, q[j] = q[l] PROVE j <= i
          BY <1>1, <3>1
        <4>1. l \in 1..len
          BY <1>1
        <4>2. j = l
          BY <1>1, <4>1, Ordered
        <4> QED BY <4>2
      <3>4. \A m \in S : \E j \in 1..len : m = q[j]
        BY <1>1, ElementAt
      <3>5. \A m \in S : m > q[i] <=> m \notin First(S, i)
        BY <1>1, <3>2, <3>3, <3>4
      <3> QED BY <3>5
    <2>3. IsFiniteSet(S \ First(S, i))
      BY FS_Subset
    <2>4. Len(Ascending(S \ First(S, i))) = len - i
      BY <2>1, LastPart
    <2>5. Len(Ascending(S \ First(S, i))) = Cardinality(S \ First(S, i))
      BY <2>3, AscendingFacts
    <2> QED BY <2>2, <2>4, <2>5
  <1>3. \A n \in S : Cardinality(Above(n)) < len - k <=> n \in S \ First(S, k)
    <2>1. First(S, k) = {q[j] : j \in 1..k}
      BY DEF First
    <2> HIDE DEF q, len, Above
    <2> SUFFICES ASSUME NEW i \in 1..len
                 PROVE  Cardinality(Above(q[i])) < len - k <=> q[i] \notin First(S, k)
      BY <1>1, ElementAt
    <2>2. Cardinality(Above(q[i])) < len - k <=> k < i
      BY <1>1, <1>2 DEF len
    <2>3. q[i] \in First(S, k) <=> i <= k
      <3>1. ASSUME NEW l \in 1..k, q[i] = q[l] PROVE i <= k
        <4>1. l \in 1..len
          BY <1>1 DEF len
        <4>2. i = l
          BY <1>1, <3>1, <4>1, Ordered
        <4> QED BY <4>2
      <3>2. ASSUME i <= k PROVE q[i] \in First(S, k)
        <4>1. i \in 1..k
          BY <1>1, <3>2
        <4> QED BY <2>1, <4>1
      <3> QED BY <2>1, <3>1, <3>2
    <2> QED BY <1>1, <2>2, <2>3 DEF len
  <1> QED BY <1>3

(***************************************************************************)
(* Ready stops at the first gap: what it pops is the run of consecutive    *)
(* nonces from the lowest one, which nothing wraps around.                 *)
(***************************************************************************)
LEMMA Growth ==
  ASSUME NEW q \in Seq(Nat), Increasing(q), NEW i \in 1..Len(q)
  PROVE  q[1] + i - 1 <= q[i]
  <1> DEFINE D == {j \in 1..Len(q) : ~ q[1] + j - 1 <= q[j]}
  <1> SUFFICES ASSUME D # {} PROVE FALSE
    OBVIOUS
  <1>1. D \in SUBSET Nat
    OBVIOUS
  <1>2. PICK j \in D : \A l \in D : j <= l
    <2> HIDE DEF D
    <2> QED BY <1>1, LeastNat
  <1>3. j \in 1..Len(q) /\ ~ q[1] + j - 1 <= q[j]
    OBVIOUS
  <1> HIDE DEF D
  <1>4. j # 1
    <2>1. q[1] \in Nat
      <3>1. 1 \in 1..Len(q)
        BY <1>3
      <3> QED BY <3>1
    <2> QED BY <1>3, <2>1
  <1>5. j - 1 \in 1..Len(q) /\ j - 1 < j
    BY <1>3, <1>4
  <1>6. q[1] + (j - 1) - 1 <= q[j - 1]
    <2>1. j - 1 \notin D
      BY <1>2, <1>3, <1>5
    <2> QED BY <1>5, <2>1 DEF D
  <1>7. q[j - 1] < q[j] /\ q[j] \in Nat /\ q[j - 1] \in Nat
    BY <1>3, <1>5, Ordered
  <1>8. q[1] \in Nat
    <2>1. 1 \in 1..Len(q)
      BY <1>3
    <2> QED BY <2>1
  <1>9. ASSUME NEW low \in Nat, NEW x \in Nat, NEW y \in Nat, NEW l \in Nat,
               low + (l - 1) - 1 <= x, x < y
        PROVE  low + l - 1 <= y
    BY <1>9
  <1>10. j \in Nat /\ ~ q[1] + j - 1 <= q[j]
    BY <1>3
  <1> HIDE <1>9
  <1> QED BY <1>6, <1>7, <1>8, <1>9, <1>10

LEMMA RunPart ==
  ASSUME NEW S \in SUBSET Nat, IsFiniteSet(S), NEW k \in 1..Cardinality(S),
         \A i \in 1..k : Ascending(S)[i] = Ascending(S)[1] + i - 1,
         k < Cardinality(S) => Ascending(S)[k + 1] # Ascending(S)[1] + k
  PROVE  First(S, k) = {m \in S : m >= Ascending(S)[1] /\ Ascending(S)[1]..m \subseteq S}
  <1> DEFINE q == Ascending(S)
             len == Cardinality(S)
             low == q[1]
  <1>1. /\ q \in Seq(Nat) /\ Len(q) = len /\ Increasing(q) /\ ToSet(q) = S /\ len \in Nat
    BY AscendingFacts
  <1>2. First(S, k) = {q[j] : j \in 1..k}
    BY DEF First
  <1>3. k \in 1..len /\ (\A i \in 1..k : q[i] = low + i - 1)
        /\ (k < len => q[k + 1] # low + k)
    OBVIOUS
  <1> HIDE DEF q, len, low
  <1>4. low \in Nat /\ low = q[1]
    BY <1>1, <1>3 DEF low
  <1>5. ASSUME NEW i \in 1..k
        PROVE  q[i] \in S /\ q[i] >= low /\ low..q[i] \subseteq S
    <2>1. q[i] = low + i - 1
      BY <1>3
    <2>2. \A j \in 1..i : q[j] \in S /\ q[j] = low + j - 1
      <3>1. \A j \in 1..i : j \in 1..k /\ j \in 1..Len(q)
        BY <1>1, <1>3
      <3> QED BY <1>1, <1>3, <3>1, ElementAt
    <2>3. ASSUME NEW m \in low..q[i] PROVE m \in S
      <3>1. m - low + 1 \in 1..i /\ low + (m - low + 1) - 1 = m
        BY <1>4, <2>1
      <3> QED BY <2>2, <3>1
    <2> QED BY <1>4, <2>1, <2>2, <2>3
  <1>6. ASSUME NEW m \in S, m >= low, low..m \subseteq S
        PROVE  \E i \in 1..k : m = q[i]
    <2>1. PICK i \in 1..len : m = q[i]
      BY <1>1, ElementAt
    <2> SUFFICES ASSUME ~ i <= k PROVE FALSE
      BY <2>1
    <2> DEFINE next == k + 1
    <2>2. /\ next \in 1..Len(q) /\ k \in 1..Len(q) /\ i \in 1..Len(q)
          /\ next = k + 1 /\ k < next /\ next <= i /\ k < len
      BY <1>1, <1>3, <2>1
    <2>3. q[next] # low + k /\ q[k] = low + k - 1
      BY <1>3, <2>2
    <2> HIDE DEF next
    <2>4. q[k] < q[next] /\ q[k] \in Nat /\ q[next] \in Nat
      BY <1>1, <2>2, Ordered
    <2>5. q[next] <= m /\ m \in Nat
      <3>1. next < i => q[next] < q[i]
        BY <1>1, <2>2, Ordered
      <3>2. q[i] \in Nat
        BY <1>1, <2>2
      <3> QED BY <2>1, <2>2, <2>4, <3>1, <3>2
    <2>6. low + k < q[next] /\ low + k \in low..m
      <3>1. k \in Nat /\ low \in Nat
        BY <1>3, <1>4, <2>2
      <3>2. low + k - 1 < q[next] /\ q[next] # low + k
        BY <2>3, <2>4
      <3>3. low + k < q[next]
        BY <2>4, <3>1, <3>2
      <3> QED BY <2>4, <2>5, <3>1, <3>3
    <2>7. low + k \in S
      BY <1>6, <2>6
    <2>8. PICK l \in 1..Len(q) : low + k = q[l]
      BY <1>1, <2>7, ElementAt
    <2>9. q[k] < q[l]
      BY <1>4, <2>2, <2>3, <2>8
    <2>10. k < l
      BY <1>1, <2>2, <2>8, <2>9, Ordered
    <2>11. q[l] < q[next]
      BY <2>6, <2>8
    <2>12. l < next
      BY <1>1, <2>2, <2>8, <2>11, Ordered
    <2>13. l \in Int /\ k \in Int
      BY <1>1, <2>8
    <2> QED BY <2>2, <2>10, <2>12, <2>13
  <1>7. \A m \in S : m \in First(S, k) <=> m >= low /\ low..m \subseteq S
    BY <1>2, <1>5, <1>6
  <1>8. First(S, k) \subseteq S
    BY <1>2, <1>5
  <1>9. First(S, k) = {m \in S : m >= low /\ low..m \subseteq S}
    BY <1>7, <1>8
  <1> QED BY <1>9 DEF q, low

-------------------------------------------------------------------------------
(***************************************************************************)
(* The transactions.                                                       *)
(***************************************************************************)
LEMMA TxTypes ==
  ASSUME NEW tx \in Txs
  PROVE  /\ tx.nonce \in Numbers /\ tx.nonce \in 0..(Word - 1) /\ tx.nonce \in Nat
         /\ tx.gasPrice \in Nat /\ tx.gasLimit \in Nat /\ tx.value \in Nat
         /\ Cost(tx) \in Nat
  <1>1. /\ tx.nonce \in 0..(Word - 1) /\ tx.gasPrice \in Nat /\ tx.gasLimit \in Nat
        /\ tx.value \in Nat /\ Word \in Nat \ {0}
    BY TxsAssumption
  <1> DEFINE gas == tx.gasLimit * tx.gasPrice
  <1>2. gas \in Int
    BY <1>1
  <1> HIDE DEF gas
  <1>3. gas % Word \in Nat
    BY <1>1, <1>2
  <1>4. tx.value + (gas % Word) \in Nat
    BY <1>1, <1>3
  <1> QED BY <1>1, <1>4 DEF Cost, Numbers, gas

LEMMA NumbersNat == Numbers \in SUBSET Nat /\ Numbers \subseteq 0..(Word - 1)
  BY TxTypes DEF Numbers

LEMMA LimitsNat == Limits \subseteq Nat /\ Bumps \subseteq Nat
  BY TxsAssumption

(***************************************************************************)
(* The instance's operators are those of NonceOrder.                       *)
(***************************************************************************)
LEMMA SameCardinality ==
  ASSUME NEW S
  PROVE  Plain!Cardinality(S) = Cardinality(S)
  BY DEF Plain!Cardinality, Cardinality

LEMMA SameOrder ==
  ASSUME NEW S
  PROVE  Plain!Ascending(S) = Ascending(S)
  BY SameCardinality
     DEF Plain!Ascending, Ascending, Plain!Increasing, Increasing, Plain!ToSet, ToSet

(***************************************************************************)
(* The inductive invariant: the heap has the nonces of the map in order,   *)
(* the cache, if there is one, their transactions, and the caps bound      *)
(* every transaction.                                                      *)
(***************************************************************************)
Items == /\ items = [n \in DOMAIN items |-> items[n]]
         /\ IsFiniteSet(DOMAIN items) /\ DOMAIN items \subseteq Numbers
         /\ \A n \in DOMAIN items : items[n] \in Txs /\ items[n].nonce = n

Indexed == index = Ascending(DOMAIN items)

Cached == cache \in {NoCache, TxsAt(index)}

Capped == /\ costCap \in Nat /\ gasCap \in Nat
          /\ \A n \in DOMAIN items : /\ Cost(items[n]) <= costCap
                                     /\ items[n].gasLimit <= gasCap

LInv == strict \in BOOLEAN /\ Items /\ Indexed /\ Cached /\ Capped

(***************************************************************************)
(* The list of a map's transactions in order.                              *)
(***************************************************************************)
LEMMA ListType ==
  ASSUME NEW its, IsFiniteSet(DOMAIN its), DOMAIN its \subseteq Numbers,
         \A n \in DOMAIN its : its[n] \in Txs
  PROVE  LET q == Ascending(DOMAIN its)
         IN  /\ q \in Seq(Numbers) /\ IsInjective(q)
             /\ [i \in DOMAIN q |-> its[q[i]]] \in Seq(Txs)
  <1> DEFINE q == Ascending(DOMAIN its)
  <1>0. DOMAIN its \in SUBSET Nat
    BY NumbersNat
  <1>1. q \in Seq(Nat) /\ q \in Seq(DOMAIN its) /\ Increasing(q)
    BY <1>0, AscendingFacts
  <1> HIDE DEF q
  <1>2. q \in Seq(Numbers)
    BY <1>1, SeqMonotonic
  <1>3. IsInjective(q)
    <2> SUFFICES ASSUME NEW i \in DOMAIN q, NEW j \in DOMAIN q, q[i] = q[j] PROVE i = j
      BY DEF IsInjective
    <2>1. i \in 1..Len(q) /\ j \in 1..Len(q)
      BY <1>1
    <2> QED BY <1>1, <2>1, Ordered
  <1>4. [i \in DOMAIN q |-> its[q[i]]] \in Seq(Txs)
    <2>1. Len(q) \in Nat /\ DOMAIN q = 1..Len(q) /\ \A i \in 1..Len(q) : q[i] \in DOMAIN its
      BY <1>1
    <2>2. [i \in 1..Len(q) |-> its[q[i]]] \in [1..Len(q) -> Txs]
      BY <2>1
    <2> QED BY <2>1, <2>2
  <1> QED BY <1>2, <1>3, <1>4 DEF q

LEMMA LInvTypeOK == LInv => TypeOK
  <1> SUFFICES ASSUME LInv PROVE TypeOK
    OBVIOUS
  <1> USE DEF LInv, Items
  <1>1. index \in Seq(Numbers) /\ IsInjective(index) /\ TxsAt(index) \in Seq(Txs)
    BY ListType DEF Indexed, TxsAt
  <1> QED BY <1>1 DEF TypeOK, Cached, Capped

(***************************************************************************)
(* What is exact when no price and no gas limit is so high that a product  *)
(* wraps around.                                                           *)
(***************************************************************************)
LEMMA CostExact ==
  ASSUME NoWrap, NEW tx \in Txs
  PROVE  Cost(tx) = tx.value + tx.gasLimit * tx.gasPrice
  <1> DEFINE gas == tx.gasLimit * tx.gasPrice
  <1>1. gas \in 0..(Word - 1) /\ Word \in Nat \ {0}
    BY TxsAssumption DEF NoWrap
  <1> HIDE DEF gas
  <1>2. gas % Word = gas
    BY <1>1
  <1> QED BY <1>2 DEF Cost, gas

LEMMA ImprovesUnlessRejected ==
  ASSUME LInv, NoWrap, NEW tx \in Txs, NEW bump \in Bumps
  PROVE  Rejected(tx, bump) <=>
           ~ \A m \in DOMAIN items \cap {tx.nonce} : Plain!Improves(items[m], tx, bump)
  <1>1. CASE tx.nonce \notin DOMAIN items
    BY <1>1 DEF Rejected
  <1>2. CASE tx.nonce \in DOMAIN items
    <2> DEFINE old == items[tx.nonce]
               raised == old.gasPrice * (100 + bump)
    <2>1. old \in Txs
      BY <1>2 DEF LInv, Items
    <2>2. raised \in 0..(Word - 1) /\ Word \in Nat \ {0}
      BY <2>1, TxsAssumption DEF NoWrap
    <2>3. old.gasPrice \in Nat /\ tx.gasPrice \in Nat
      BY <2>1, TxTypes
    <2>4. Threshold(old, bump) = (raised % Word) \div 100
      BY DEF Threshold
    <2>5. Plain!Improves(old, tx, bump) <=>
            tx.gasPrice > old.gasPrice /\ tx.gasPrice >= raised \div 100
      BY DEF Plain!Improves
    <2>6. Rejected(tx, bump) <=>
            old.gasPrice >= tx.gasPrice \/ Threshold(old, bump) > tx.gasPrice
      BY <1>2 DEF Rejected
    <2> HIDE DEF raised
    <2>7. raised % Word = raised /\ raised \div 100 \in Int
      BY <2>2
    <2> HIDE DEF old
    <2>8. Rejected(tx, bump) <=> ~ Plain!Improves(old, tx, bump)
      BY <2>3, <2>4, <2>5, <2>6, <2>7
    <2> QED BY <1>2, <2>8 DEF old
  <1> QED BY <1>1, <1>2

(***************************************************************************)
(* Removing a set of nonces keeps the invariant, when the heap is put in   *)
(* order again and the caps still bound what is left.                      *)
(***************************************************************************)
LEMMA RemovedKeeps ==
  ASSUME LInv, NEW gone \in SUBSET DOMAIN items,
         Delete(gone), index' = Ascending(DOMAIN items \ gone),
         cache' \in {NoCache, TxsAt(index)'},
         costCap' \in Nat, gasCap' \in Nat,
         \A n \in DOMAIN items \ gone : /\ Cost(items[n]) <= costCap'
                                        /\ items[n].gasLimit <= gasCap',
         UNCHANGED strict
  PROVE  LInv'
  <1> USE DEF LInv, Items
  <1>1. /\ DOMAIN items' = DOMAIN items \ gone
        /\ \A n \in DOMAIN items \ gone : items'[n] = items[n]
        /\ items' = [n \in DOMAIN items \ gone |-> items[n]]
    BY DEF Delete
  <1>2. Items'
    <2>1. IsFiniteSet(DOMAIN items \ gone)
      BY FS_Subset
    <2>2. items' = [n \in DOMAIN items' |-> items'[n]]
      BY <1>1
    <2> QED BY <1>1, <2>1, <2>2
  <1>3. Indexed'
    BY <1>1 DEF Indexed
  <1>4. Capped'
    BY <1>1 DEF Capped, Cost
  <1> QED BY <1>2, <1>3, <1>4 DEF Cached

LEMMA SameKeeps ==
  ASSUME LInv, UNCHANGED <<strict, mapVars, costCap, gasCap>>
  PROVE  LInv'
  BY DEF LInv, mapVars, Items, Indexed, Cached, Capped, TxsAt, Cost

(***************************************************************************)
(* What a pop of the first k nonces does: the plain map takes them, the    *)
(* heap is in order, and a cache may keep what is left of it.              *)
(***************************************************************************)
LEMMA IndexFacts ==
  ASSUME LInv
  PROVE  /\ DOMAIN items \in SUBSET Nat /\ IsFiniteSet(DOMAIN items)
         /\ index = Ascending(DOMAIN items)
         /\ index \in Seq(Nat) /\ index \in Seq(DOMAIN items)
         /\ Len(index) = Cardinality(DOMAIN items) /\ Cardinality(DOMAIN items) \in Nat
         /\ Increasing(index) /\ ToSet(index) = DOMAIN items
         /\ DOMAIN index = 1..Len(index)
  <1>1. /\ DOMAIN items \in SUBSET Nat /\ IsFiniteSet(DOMAIN items)
        /\ index = Ascending(DOMAIN items)
    BY NumbersNat DEF LInv, Items, Indexed
  <1>2. index \in Seq(Nat)
    BY <1>1, AscendingFacts
  <1> QED BY <1>1, <1>2, AscendingFacts

LEMMA PoppedTakes ==
  ASSUME LInv, NEW k \in 0..Cardinality(DOMAIN items), Popped(k)
  PROVE  /\ Plain!Take(First(DOMAIN items, k))
         /\ Delete(First(DOMAIN items, k)) /\ First(DOMAIN items, k) \in SUBSET DOMAIN items
         /\ index' = Ascending(DOMAIN items \ First(DOMAIN items, k))
  <1> DEFINE F == First(DOMAIN items, k)
             p == SubSeq(index, 1, k)
  <1>1. ToSet(p) = F /\ p = Ascending(F) /\ F \in SUBSET DOMAIN items
    BY IndexFacts, FirstPart
  <1>2. SubSeq(index, k + 1, Len(index)) = Ascending(DOMAIN items \ F)
    BY IndexFacts, LastPart
  <1> HIDE DEF F
  <1>3. Delete(F) /\ index' = Ascending(DOMAIN items \ F) /\ Listed(TxsAt(Ascending(F)))
    BY <1>1, <1>2 DEF Popped
  <1>4. Plain!Take(F)
    <2>1. Plain!ByNonce(F) = TxsAt(Ascending(F))
      BY SameOrder DEF Plain!ByNonce, TxsAt
    <2> QED BY <1>3, <2>1
            DEF Plain!Take, Plain!Without, Plain!Nonces, Plain!Listed, Delete, Listed
  <1> QED BY <1>1, <1>3, <1>4 DEF F

(***************************************************************************)
(* The part of the cache that Forward keeps is the list of what is left.   *)
(***************************************************************************)
LEMMA CacheLeft ==
  ASSUME LInv, NEW k \in 0..Cardinality(DOMAIN items),
         Delete(First(DOMAIN items, k)),
         index' = Ascending(DOMAIN items \ First(DOMAIN items, k)),
         cache = TxsAt(index)
  PROVE  SubSeq(cache, k + 1, Len(cache)) = TxsAt(index)'
  <1> DEFINE S == DOMAIN items
             F == First(S, k)
             n == Cardinality(S)
             q == Ascending(S)
             r == Ascending(S \ F)
  <1>1. /\ SubSeq(q, k + 1, Len(q)) = r /\ Len(r) = n - k /\ r \in Seq(Nat)
        /\ \A i \in 1..(n - k) : r[i] = q[k + i]
        /\ ToSet(r) = S \ F
    <2>1. SubSeq(q, k + 1, Len(q)) = r
      BY IndexFacts, LastPart
    <2> HIDE DEF r
    <2> QED BY <2>1, IndexFacts, LastPart
  <1>2. index = q /\ Len(q) = n /\ n \in Nat /\ index' = r /\ DOMAIN q = 1..n
    BY IndexFacts
  <1>3. \A x \in S \ F : items'[x] = items[x]
    BY DEF Delete
  <1>4. cache = [i \in 1..n |-> items[q[i]]]
    BY <1>2 DEF TxsAt
  <1>5. TxsAt(index)' = [i \in 1..(n - k) |-> items'[r[i]]]
    BY <1>1, <1>2 DEF TxsAt
  <1>6. k \in 0..n
    OBVIOUS
  <1> HIDE DEF F, n, q, r, S
  <1>7. \A i \in 1..(n - k) : items'[r[i]] = cache[k + i]
    <2> SUFFICES ASSUME NEW i \in 1..(n - k) PROVE items'[r[i]] = cache[k + i]
      OBVIOUS
    <2>1. r[i] \in S \ F
      BY <1>1, ElementAt
    <2>2. k + i \in 1..n
      BY <1>2, <1>6
    <2> QED BY <1>1, <1>3, <1>4, <2>1, <2>2
  <1>8. SubSeq(cache, k + 1, Len(cache)) = [i \in 1..(n - k) |-> cache[k + i]]
    <2>1. \E T : cache \in Seq(T) /\ Len(cache) = n
      <3> DEFINE T == {items[q[i]] : i \in 1..n}
      <3>1. cache \in [1..n -> T]
        BY <1>4
      <3> HIDE DEF T
      <3>2. cache \in Seq(T) /\ Len(cache) = n
        BY <1>2, <3>1
      <3> QED BY <3>2
    <2>2. PICK T : cache \in Seq(T) /\ Len(cache) = n
      BY <2>1
    <2> QED BY <1>2, <1>6, <2>2
  <1> QED BY <1>5, <1>7, <1>8

LEMMA CacheFirst ==
  ASSUME LInv, NEW k \in 0..Cardinality(DOMAIN items),
         \A x \in First(DOMAIN items, k) : items'[x] = items[x],
         index' = Ascending(First(DOMAIN items, k)),
         cache = TxsAt(index)
  PROVE  SubSeq(cache, 1, k) = TxsAt(index)' /\ Len(cache) = Cardinality(DOMAIN items)
  <1> DEFINE S == DOMAIN items
             F == First(S, k)
             n == Cardinality(S)
             q == Ascending(S)
             r == Ascending(F)
  <1>1. /\ Len(r) = k /\ r \in Seq(Nat) /\ DOMAIN r = 1..k
        /\ \A i \in 1..k : r[i] = q[i]
        /\ ToSet(r) = F
    <2>1. SubSeq(q, 1, k) = r
      BY IndexFacts, FirstPart
    <2>2. Len(r) = k /\ r \in Seq(Nat) /\ (\A i \in 1..k : r[i] = q[i]) /\ ToSet(r) = F
      <3> DEFINE p == SubSeq(q, 1, k)
      <3>1. Len(p) = k /\ p \in Seq(Nat) /\ (\A i \in 1..k : p[i] = q[i]) /\ ToSet(p) = F
        BY IndexFacts, FirstPart
      <3> HIDE DEF r, p
      <3> QED BY <2>1, <3>1 DEF p
    <2> HIDE DEF r
    <2> QED BY <2>2
  <1>2. index = q /\ Len(q) = n /\ n \in Nat /\ index' = r /\ DOMAIN q = 1..n
    BY IndexFacts
  <1>3. cache = [i \in 1..n |-> items[q[i]]]
    BY <1>2 DEF TxsAt
  <1>4. TxsAt(index)' = [i \in 1..k |-> items'[r[i]]]
    BY <1>1, <1>2 DEF TxsAt
  <1>5. k \in 0..n /\ \A x \in F : items'[x] = items[x]
    OBVIOUS
  <1> HIDE DEF F, n, q, r, S
  <1>6. \A i \in 1..k : items'[r[i]] = cache[i]
    <2> SUFFICES ASSUME NEW i \in 1..k PROVE items'[r[i]] = cache[i]
      OBVIOUS
    <2>1. r[i] \in F
      BY <1>1, ElementAt
    <2>2. i \in 1..n
      BY <1>2, <1>5
    <2> QED BY <1>1, <1>3, <1>5, <2>1, <2>2
  <1>7. SubSeq(cache, 1, k) = [i \in 1..k |-> cache[i]] /\ Len(cache) = n
    <2> DEFINE T == {items[q[i]] : i \in 1..n}
    <2>1. cache \in [1..n -> T]
      BY <1>3
    <2> HIDE DEF T
    <2>2. cache \in Seq(T) /\ Len(cache) = n
      BY <1>2, <2>1
    <2> QED BY <1>2, <1>5, <2>2
  <1> QED BY <1>4, <1>6, <1>7 DEF n, S

(***************************************************************************)
(* Nothing taken from the plain map is an empty list.                      *)
(***************************************************************************)
LEMMA TakeNothing ==
  ASSUME LInv, UNCHANGED items, Listed(<<>>)
  PROVE  Plain!Take({})
  <1>1. {} \in SUBSET Nat /\ IsFiniteSet({}) /\ Cardinality({}) = 0
    BY FS_EmptySet
  <1>2. Ascending({}) \in Seq(Nat) /\ Len(Ascending({})) = 0
    BY <1>1, AscendingFacts
  <1>3. DOMAIN Ascending({}) = {}
    BY <1>2
  <1>4. Plain!ByNonce({}) = <<>>
    BY <1>3, SameOrder DEF Plain!ByNonce
  <1>5. items' = [n \in DOMAIN items \ {} |-> items[n]]
    BY DEF LInv, Items
  <1> QED BY <1>4, <1>5 DEF Plain!Take, Plain!Listed, Plain!Without, Plain!Nonces, Listed

-------------------------------------------------------------------------------
(***************************************************************************)
(* What each call does to the list is what it does to the plain map.       *)
(***************************************************************************)
LEMMA ForwardOutcome ==
  ASSUME LInv, NEW t \in Nat, Forward(t), UNCHANGED strict
  PROVE  LInv' /\ Plain!Forward(t)
  <1> DEFINE k == Below(index, t)
             S == DOMAIN items
             F == First(S, k)
  <1>1. k \in 0..Cardinality(S) /\ F = {n \in S : n < t}
    BY IndexFacts, BelowPart
  <1>2. Popped(k) /\ UNCHANGED <<costCap, gasCap>>
        /\ cache' = IF cache = NoCache THEN NoCache ELSE SubSeq(cache, k + 1, Len(cache))
    BY DEF Forward
  <1> HIDE DEF k
  <1>3. /\ Plain!Take(F) /\ Delete(F) /\ F \in SUBSET S
        /\ index' = Ascending(S \ F)
    BY <1>1, <1>2, PoppedTakes
  <1>4. cache' \in {NoCache, TxsAt(index)'}
    <2>1. CASE cache = NoCache
      BY <1>2, <2>1
    <2>2. CASE cache # NoCache
      <3>1. cache = TxsAt(index)
        BY <2>2 DEF LInv, Cached
      <3> QED BY <1>1, <1>2, <1>3, <2>2, <3>1, CacheLeft
    <2> QED BY <2>1, <2>2
  <1>5. LInv'
    <2>1. costCap' \in Nat /\ gasCap' \in Nat
          /\ \A n \in S \ F : Cost(items[n]) <= costCap' /\ items[n].gasLimit <= gasCap'
      BY <1>2 DEF LInv, Capped
    <2> HIDE DEF F
    <2> QED BY <1>3, <1>4, <2>1, RemovedKeeps
  <1>6. Plain!Forward(t)
    BY <1>1, <1>3 DEF Plain!Forward, Plain!Nonces
  <1> QED BY <1>5, <1>6

LEMMA CapOutcome ==
  ASSUME LInv, NEW t \in 0..Cardinality(DOMAIN items), Cap(t), UNCHANGED strict
  PROVE  /\ LInv' /\ Plain!Cap(t)
         /\ DOMAIN items' = First(DOMAIN items, t)
  <1> DEFINE S == DOMAIN items
             n == Cardinality(S)
             F == First(S, t)
             p == SubSeq(index, t + 1, Len(index))
  <1>1. /\ F \in SUBSET S /\ SubSeq(index, 1, t) = Ascending(F)
        /\ p = Ascending(S \ F) /\ ToSet(p) = S \ F /\ Len(p) = n - t
        /\ p \in Seq(Nat) /\ n \in Nat /\ Len(index) = n
    <2>1. S \in SUBSET Nat /\ IsFiniteSet(S) /\ n \in Nat /\ Len(index) = n
          /\ index = Ascending(S)
      BY IndexFacts
    <2>2. F \in SUBSET S /\ SubSeq(index, 1, t) = Ascending(F)
      BY <2>1, FirstPart
    <2>3. p = Ascending(S \ F) /\ ToSet(p) = S \ F /\ Len(p) = n - t /\ p \in Seq(Nat)
      BY <2>1, LastPart
    <2> QED BY <2>1, <2>2, <2>3
  <1>2. Plain!Highest(n - t) = S \ F
    <2>1. {m \in S : Cardinality({l \in S : l > m}) < n - t} = S \ F
      BY IndexFacts, HighestPart
    <2> QED BY <2>1, SameCardinality DEF Plain!Highest, Plain!Above, Plain!Nonces
  <1> HIDE DEF F, p
  <1>3. Plain!ByNonce(S \ F) = TxsAt(p)
    BY <1>1, SameOrder DEF Plain!ByNonce, TxsAt
  <1>4. Plain!Cap(t) <=> /\ out' = <<TRUE, Reverse(TxsAt(p)), {}, {}>>
                         /\ items' = [m \in S \ (S \ F) |-> items[m]]
    BY <1>2, <1>3, SameCardinality
       DEF Plain!Cap, Plain!Listed, Plain!Without, Plain!Nonces, Plain!Reverse, Reverse
  <1>5. UNCHANGED <<costCap, gasCap>>
    BY DEF Cap
  <1>6. S \ (S \ F) = F
    BY <1>1
  <1>7. CASE n - t <= 0
    <2>1. UNCHANGED mapVars /\ Listed(<<>>)
      BY <1>7 DEF Cap
    <2>2. Len(p) = 0 /\ p = <<>>
      BY <1>1, <1>7
    <2>3. S \ F = {} /\ F = S
      <3>1. \A x \in S \ F : \E i \in 1..Len(p) : x = p[i]
        BY <1>1, ElementAt
      <3>2. S \ F = {}
        BY <2>2, <3>1
      <3> QED BY <1>1, <3>2
    <2>4. Reverse(TxsAt(p)) = <<>>
      BY <2>2 DEF Reverse, TxsAt
    <2>5. items' = [m \in F |-> items[m]] /\ DOMAIN items' = F
      BY <2>1, <2>3 DEF mapVars, LInv, Items
    <2>6. LInv'
      BY <1>5, <2>1, SameKeeps
    <2> QED BY <1>4, <1>6, <2>1, <2>4, <2>5, <2>6 DEF Listed, F
  <1>8. CASE ~ n - t <= 0
    <2>1. /\ Delete(S \ F) /\ Listed(Reverse(TxsAt(p)))
          /\ index' = Ascending(F)
          /\ cache' = IF cache = NoCache THEN NoCache
                      ELSE SubSeq(cache, 1, Len(cache) - (n - t))
      BY <1>1, <1>8 DEF Cap, p
    <2>2. items' = [m \in F |-> items[m]] /\ DOMAIN items' = F
          /\ \A m \in F : items'[m] = items[m]
      BY <1>6, <2>1 DEF Delete
    <2>3. Plain!Cap(t)
      BY <1>4, <1>6, <2>1, <2>2 DEF Listed
    <2>4. cache' \in {NoCache, TxsAt(index)'}
      <3>1. CASE cache = NoCache
        BY <2>1, <3>1
      <3>2. CASE cache # NoCache
        <4>1. cache = TxsAt(index)
          BY <3>2 DEF LInv, Cached
        <4>2. SubSeq(cache, 1, t) = TxsAt(index)' /\ Len(cache) = n
          BY <2>1, <2>2, <4>1, CacheFirst DEF F
        <4>3. Len(cache) - (n - t) = t
          BY <1>1, <4>2
        <4> QED BY <2>1, <3>2, <4>2, <4>3
      <3> QED BY <3>1, <3>2
    <2>5. costCap' \in Nat /\ gasCap' \in Nat
          /\ \A m \in S \ (S \ F) : Cost(items[m]) <= costCap' /\ items[m].gasLimit <= gasCap'
      BY <1>5 DEF LInv, Capped
    <2>6. index' = Ascending(S \ (S \ F))
      BY <1>6, <2>1
    <2>7. LInv'
      BY <2>1, <2>4, <2>5, <2>6, RemovedKeeps
    <2> QED BY <2>2, <2>3, <2>7 DEF F
  <1> QED BY <1>7, <1>8

LEMMA ReadyOutcome ==
  ASSUME LInv, NEW start \in Nat, Ready(start), UNCHANGED strict
  PROVE  /\ LInv' /\ Plain!Ready(start)
         /\ \E k \in 0..Cardinality(DOMAIN items) :
              DOMAIN items' = DOMAIN items \ First(DOMAIN items, k)
  <1> DEFINE S == DOMAIN items
             n == Cardinality(S)
             low == index[1]
             F(k) == First(S, k)
  <1>1. /\ index = Ascending(S) /\ index \in Seq(Nat) /\ Len(index) = n /\ n \in Nat
        /\ Increasing(index) /\ ToSet(index) = S
    BY IndexFacts
  <1>2. UNCHANGED <<costCap, gasCap>>
    BY DEF Ready
  <1>3. CASE index = <<>> \/ Head(index) > start
    <2>1. UNCHANGED mapVars /\ Listed(<<>>)
      BY <1>3 DEF Ready
    <2>2. ~ \E m \in S : m <= start
      <3> SUFFICES ASSUME NEW m \in S, m <= start PROVE FALSE
        OBVIOUS
      <3>1. PICK i \in 1..Len(index) : m = index[i]
        BY <1>1, ElementAt
      <3>2. 1 \in 1..Len(index) /\ index # <<>> /\ Head(index) = index[1]
        BY <1>1, <3>1
      <3>3. index[1] > start
        BY <1>3, <3>2
      <3>4. index[1] <= index[i] /\ index[1] \in Nat /\ index[i] \in Nat
        BY <1>1, <3>1, <3>2, Ordered
      <3> QED BY <3>1, <3>3, <3>4
    <2>3. Plain!Take({})
      BY <2>1, TakeNothing DEF mapVars
    <2>4. Plain!Ready(start)
      BY <2>2, <2>3 DEF Plain!Ready, Plain!Nonces
    <2>5. LInv'
      BY <1>2, <2>1, SameKeeps
    <2>6. S \ F(0) = S /\ 0 \in 0..n
      <3>1. First(S, 0) = {}
        BY DEF First
      <3>2. S \ First(S, 0) = S
        BY <3>1
      <3>3. 0 \in 0..n
        BY <1>1
      <3> QED BY <3>2, <3>3
    <2> QED BY <2>1, <2>4, <2>5, <2>6 DEF mapVars
  <1>4. CASE ~ (index = <<>> \/ Head(index) > start)
    <2>1. PICK k \in 1..Len(index) : InRun(k) /\ (k < Len(index) => ~ InRun(k + 1)) /\ Popped(k)
      BY <1>4 DEF Ready
    <2>2. cache' = NoCache
      BY <1>4 DEF Ready
    <2>3. k \in 0..n /\ k \in 1..n /\ 1 \in 1..Len(index) /\ low \in Nat
      BY <1>1, <2>1
    <2>4. \A i \in 1..Len(index) : index[i] \in 0..(Word - 1) /\ Word \in Nat
      BY <1>1, ElementAt, NumbersNat, TxsAssumption DEF LInv, Items
    <2>5. \A i \in 1..Len(index) : (low + i - 1) % Word = low + i - 1
      <3> SUFFICES ASSUME NEW i \in 1..Len(index) PROVE (low + i - 1) % Word = low + i - 1
        OBVIOUS
      <3>1. low + i - 1 <= index[i]
        BY <1>1, Growth
      <3>2. low + i - 1 \in 0..(Word - 1) /\ Word \in Nat \ {0}
        BY <2>3, <2>4, <3>1, TxsAssumption
      <3> QED BY <3>2
    <2>6. \A i \in 1..k : index[i] = low + i - 1
      BY <2>1, <2>5 DEF InRun
    <2>7. k < n => index[k + 1] # low + k
      <3> SUFFICES ASSUME k < n, index[k + 1] = low + k PROVE FALSE
        OBVIOUS
      <3>1. k + 1 \in 1..Len(index) /\ low + (k + 1) - 1 = low + k
        BY <1>1, <2>3
      <3>2. (low + (k + 1) - 1) % Word = index[k + 1]
        BY <2>5, <3>1
      <3>3. \A i \in 1..(k + 1) : i \in 1..k \/ i = k + 1
        BY <2>3
      <3>4. InRun(k + 1)
        BY <2>1, <3>2, <3>3 DEF InRun
      <3> QED BY <1>1, <2>1, <3>4
    <2>8. F(k) = {m \in S : m >= low /\ low..m \subseteq S}
      <3>1. /\ \A i \in 1..k : Ascending(S)[i] = Ascending(S)[1] + i - 1
            /\ k < Cardinality(S) => Ascending(S)[k + 1] # Ascending(S)[1] + k
        BY <1>1, <2>6, <2>7
      <3>2. First(S, k) = {m \in S : m >= Ascending(S)[1] /\ Ascending(S)[1]..m \subseteq S}
        BY <2>3, <3>1, IndexFacts, RunPart
      <3> QED BY <1>1, <3>2
    <2>9. /\ Plain!Take(F(k)) /\ Delete(F(k)) /\ F(k) \in SUBSET S
          /\ index' = Ascending(S \ F(k))
      BY <2>1, <2>3, PoppedTakes
    <2> HIDE DEF F
    <2>10. Plain!Ready(start)
      <3>1. low \in S /\ low <= start
        BY <1>1, <1>4, <2>3, ElementAt
      <3>2. Plain!Run(low) = F(k)
        BY <2>8 DEF Plain!Run, Plain!Nonces
      <3>3. Plain!Ascending(S)[1] = low
        BY <1>1, SameOrder
      <3> QED BY <2>9, <3>1, <3>2, <3>3 DEF Plain!Ready, Plain!Nonces
    <2>11. LInv'
      <3>1. costCap' \in Nat /\ gasCap' \in Nat
            /\ \A m \in S \ F(k) : Cost(items[m]) <= costCap' /\ items[m].gasLimit <= gasCap'
        BY <1>2 DEF LInv, Capped
      <3> QED BY <2>2, <2>9, <3>1, RemovedKeeps
    <2>12. DOMAIN items' = S \ F(k)
      BY <2>9 DEF Delete
    <2> QED BY <2>3, <2>10, <2>11, <2>12 DEF F
  <1> QED BY <1>3, <1>4

LEMMA FlattenOutcome ==
  ASSUME LInv, Flatten, UNCHANGED strict
  PROVE  LInv' /\ Plain!Flatten /\ UNCHANGED items
  <1>1. /\ cache' = IF cache = NoCache THEN TxsAt(Ascending(DOMAIN items)) ELSE cache
        /\ out' = <<TRUE, cache', {}, {}>>
        /\ UNCHANGED <<items, index, costCap, gasCap>>
    BY DEF Flatten, Listed
  <1>2. cache' = TxsAt(index) /\ index = Ascending(DOMAIN items)
    BY <1>1 DEF LInv, Indexed, Cached
  <1>3. Plain!Flatten
    BY <1>1, <1>2, SameOrder
       DEF Plain!Flatten, Plain!Listed, Plain!ByNonce, Plain!Nonces, TxsAt
  <1>4. TxsAt(index)' = TxsAt(index)
    BY <1>1 DEF TxsAt
  <1>5. LInv'
    BY <1>1, <1>2, <1>4 DEF LInv, Items, Indexed, Cached, Capped, Cost
  <1> QED BY <1>1, <1>3, <1>5

(***************************************************************************)
(* The calls that filter.                                                  *)
(***************************************************************************)
LEMMA FollowersAre ==
  ASSUME LInv, NEW gone \in SUBSET DOMAIN items
  PROVE  Followers(gone) = Plain!Followers(gone) /\ Followers(gone) \in SUBSET DOMAIN items
  <1> DEFINE S == DOMAIN items
  <1>1. gone \in SUBSET Nat /\ S \in SUBSET Nat
    BY IndexFacts
  <1>2. CASE strict /\ gone # {}
    <2>1. PICK low \in gone : \A o \in gone : low <= o
      BY <1>1, <1>2, LeastNat
    <2>2. Followers(gone) = {n \in S \ gone : \A m \in gone : (\A o \in gone : m <= o) => n > m}
      BY <1>2 DEF Followers
    <2>3. Plain!Followers(gone) = {m \in S \ gone : \E n \in gone : m > n}
      BY <1>2 DEF Plain!Followers, Plain!Nonces
    <2>4. ASSUME NEW n \in S \ gone
          PROVE  (\A m \in gone : (\A o \in gone : m <= o) => n > m) <=> \E m \in gone : n > m
      <3>1. ASSUME \A m \in gone : (\A o \in gone : m <= o) => n > m PROVE \E m \in gone : n > m
        BY <2>1, <3>1
      <3>2. ASSUME NEW l \in gone, n > l, NEW m \in gone, \A o \in gone : m <= o PROVE n > m
        BY <1>1, <3>2
      <3> QED BY <3>1, <3>2
    <2> QED BY <2>2, <2>3, <2>4
  <1>3. CASE ~ (strict /\ gone # {})
    BY <1>3 DEF Followers, Plain!Followers, Plain!Nonces
  <1> QED BY <1>2, <1>3

LEMMA FilteredKeeps ==
  ASSUME LInv, NEW gone \in SUBSET DOMAIN items, FilterOut(gone),
         costCap' \in Nat, gasCap' \in Nat,
         \A n \in DOMAIN items \ gone : /\ Cost(items[n]) <= costCap'
                                        /\ items[n].gasLimit <= gasCap',
         UNCHANGED strict
  PROVE  LInv' /\ items' = Plain!Without(gone)
  <1>1. Delete(gone) /\ items' = [n \in DOMAIN items \ gone |-> items[n]]
    BY DEF FilterOut, Delete
  <1>2. index' = Ascending(DOMAIN items \ gone) /\ cache' \in {NoCache, TxsAt(index)'}
    <2>1. CASE gone = {}
      <3>1. items' = items /\ index' = index /\ cache' = cache
        BY <1>1, <2>1 DEF FilterOut, LInv, Items
      <3>2. TxsAt(index)' = TxsAt(index)
        BY <3>1 DEF TxsAt
      <3> QED BY <2>1, <3>1, <3>2 DEF LInv, Indexed, Cached
    <2>2. CASE gone # {}
      BY <2>2 DEF FilterOut
    <2> QED BY <2>1, <2>2
  <1>3. LInv'
    BY <1>1, <1>2, RemovedKeeps
  <1> QED BY <1>1, <1>3 DEF Plain!Without, Plain!Nonces

LEMMA RemoveOutcome ==
  ASSUME LInv, NEW nonce \in Nat, RemoveTx(nonce), UNCHANGED strict
  PROVE  /\ LInv' /\ Plain!RemoveTx(nonce)
         /\ \E gone \in SUBSET DOMAIN items :
              items' = Plain!Without(gone \cup Plain!Followers(gone))
  <1> DEFINE gone == {nonce} \cap DOMAIN items
             all == gone \cup Followers(gone)
  <1>1. /\ FilterOut(all) /\ UNCHANGED <<costCap, gasCap>>
        /\ Dropped(gone # {}, {}, TxSet(Followers(gone)))
    BY DEF RemoveTx
  <1>2. /\ gone \in SUBSET DOMAIN items /\ all \in SUBSET DOMAIN items
        /\ Followers(gone) = Plain!Followers(gone)
    <2>1. gone \in SUBSET DOMAIN items
      OBVIOUS
    <2> HIDE DEF gone
    <2> QED BY <2>1, FollowersAre
  <1>3. costCap' \in Nat /\ gasCap' \in Nat
        /\ \A m \in DOMAIN items \ all :
             Cost(items[m]) <= costCap' /\ items[m].gasLimit <= gasCap'
    BY <1>1 DEF LInv, Capped
  <1>4. LInv' /\ items' = Plain!Without(all)
    <2> HIDE DEF all
    <2> QED BY <1>1, <1>2, <1>3, FilteredKeeps
  <1>5. Plain!RemoveTx(nonce)
    BY <1>1, <1>2, <1>4 DEF Plain!RemoveTx, Plain!Dropped, Plain!Nonces, Dropped, TxSet
  <1> QED BY <1>2, <1>4, <1>5

LEMMA FilterOutcome ==
  ASSUME LInv, NEW cost \in Nat, NEW gas \in Nat, Filter(cost, gas), UNCHANGED strict
  PROVE  /\ LInv' /\ (NoWrap => Plain!Filter(cost, gas))
         /\ \E gone \in SUBSET DOMAIN items :
              items' = Plain!Without(gone \cup Plain!Followers(gone))
  <1> DEFINE gone == {n \in DOMAIN items : Cost(items[n]) > cost \/ items[n].gasLimit > gas}
             all == gone \cup Followers(gone)
  <1>1. /\ gone \in SUBSET DOMAIN items /\ all \in SUBSET DOMAIN items
        /\ Followers(gone) = Plain!Followers(gone)
    <2>1. gone \in SUBSET DOMAIN items
      OBVIOUS
    <2> HIDE DEF gone
    <2> QED BY <2>1, FollowersAre
  <1>2. \A n \in DOMAIN items : /\ Cost(items[n]) \in Nat /\ items[n].gasLimit \in Nat
                                /\ items[n] \in Txs
    BY TxTypes DEF LInv, Items
  <1>3. /\ LInv' /\ items' = Plain!Without(all)
        /\ Dropped(TRUE, TxSet(gone), TxSet(Followers(gone)))
    <2>1. CASE costCap <= cost /\ gasCap <= gas
      <3>1. UNCHANGED <<mapVars, costCap, gasCap>> /\ Dropped(TRUE, {}, {})
        BY <2>1 DEF Filter
      <3>2. \A n \in DOMAIN items : Cost(items[n]) <= cost /\ items[n].gasLimit <= gas
        BY <1>2, <2>1 DEF LInv, Capped
      <3>3. gone = {}
        BY <1>2, <3>2
      <3> HIDE DEF gone
      <3>4. Followers(gone) = {} /\ all = {}
        BY <3>3 DEF Followers
      <3>5. TxSet(gone) = {} /\ TxSet(Followers(gone)) = {}
        BY <3>3, <3>4 DEF TxSet
      <3>6. items' = Plain!Without(all)
        BY <3>1, <3>4 DEF mapVars, LInv, Items, Plain!Without, Plain!Nonces
      <3> QED BY <3>1, <3>5, <3>6, SameKeeps
    <2>2. CASE ~ (costCap <= cost /\ gasCap <= gas)
      <3>1. /\ costCap' = cost /\ gasCap' = gas /\ FilterOut(all)
            /\ Dropped(TRUE, TxSet(gone), TxSet(Followers(gone)))
        BY <2>2 DEF Filter
      <3>2. \A n \in DOMAIN items \ all : Cost(items[n]) <= costCap' /\ items[n].gasLimit <= gasCap'
        BY <1>2, <3>1
      <3> HIDE DEF all, gone
      <3>3. costCap' \in Nat /\ gasCap' \in Nat
        BY <3>1
      <3> QED BY <1>1, <3>1, <3>2, <3>3, FilteredKeeps
    <2> QED BY <2>1, <2>2
  <1>4. ASSUME NoWrap PROVE Plain!Filter(cost, gas)
    <2>1. \A n \in DOMAIN items :
            Plain!Over(items[n], cost, gas) <=> Cost(items[n]) > cost \/ items[n].gasLimit > gas
      BY <1>2, <1>4, CostExact DEF Plain!Over
    <2>2. {n \in Plain!Nonces : Plain!Over(items[n], cost, gas)} = gone
      BY <2>1 DEF Plain!Nonces
    <2> HIDE DEF gone
    <2> QED BY <1>1, <1>3, <2>2 DEF Plain!Filter, Plain!Dropped, Dropped, TxSet
  <1> QED BY <1>1, <1>3, <1>4

(***************************************************************************)
(* Add.                                                                    *)
(***************************************************************************)
LEMMA AddOutcome ==
  ASSUME LInv, NEW tx \in Txs, NEW bump \in Bumps, Add(tx, bump), UNCHANGED strict
  PROVE  LInv' /\ (NoWrap => Plain!Add(tx, bump)) /\ DOMAIN items \subseteq DOMAIN items'
  <1> DEFINE n == tx.nonce
             S == DOMAIN items
  <1>1. /\ n \in Numbers /\ n \in Nat /\ tx.gasLimit \in Nat /\ Cost(tx) \in Nat
        /\ tx.gasPrice \in Nat
    BY TxTypes
  <1>2. CASE Rejected(tx, bump) /\ Dropped(FALSE, {}, {})
             /\ UNCHANGED <<mapVars, costCap, gasCap>>
    <2>1. LInv'
      BY <1>2, SameKeeps
    <2>2. ASSUME NoWrap PROVE Plain!Add(tx, bump)
      <3>1. ~ \A m \in S \cap {n} : Plain!Improves(items[m], tx, bump)
        BY <1>2, <2>2, ImprovesUnlessRejected
      <3> QED BY <1>2, <3>1 DEF Plain!Add, Plain!Nonces, Plain!Dropped, Dropped, mapVars
    <2> QED BY <1>2, <2>1, <2>2 DEF mapVars
  <1>3. CASE /\ ~ Rejected(tx, bump)
             /\ Dropped(TRUE, TxSet(S \cap {n}), {})
             /\ Put(tx)
             /\ costCap' = Larger(costCap, Cost(tx))
             /\ gasCap' = Larger(gasCap, tx.gasLimit)
    <2>1. items' = [m \in S \cup {n} |-> IF m = n THEN tx ELSE items[m]]
          /\ cache' = NoCache
      BY <1>3 DEF Put
    <2>2. /\ DOMAIN items' = S \cup {n}
          /\ \A m \in S \cup {n} : items'[m] = IF m = n THEN tx ELSE items[m]
          /\ items' = [m \in S \cup {n} |-> items'[m]]
      BY <2>1
    <2>3. ASSUME NoWrap PROVE Plain!Add(tx, bump)
      <3>1. \A m \in S \cap {n} : Plain!Improves(items[m], tx, bump)
        BY <1>3, <2>3, ImprovesUnlessRejected
      <3> QED BY <1>3, <2>1, <3>1 DEF Plain!Add, Plain!Nonces, Plain!Dropped, Dropped, TxSet
    <2>4. Items'
      <3>1. IsFiniteSet(S \cup {n})
        BY FS_AddElement DEF LInv, Items
      <3> QED BY <1>1, <2>2, <3>1 DEF LInv, Items
    <2>5. Indexed'
      <3>1. CASE n \in S
        <4>1. index' = index /\ S \cup {n} = S
          BY <1>3, <3>1 DEF Put
        <4> QED BY <2>2, <4>1 DEF LInv, Indexed
      <3>2. CASE n \notin S
        <4>1. index' = HeapPush(index, n)
          BY <1>3, <3>2 DEF Put
        <4>2. HeapPush(Ascending(S), n) = Ascending(S \cup {n})
          BY <1>1, <3>2, IndexFacts, HeapPushed
        <4> QED BY <2>2, <4>1, <4>2 DEF LInv, Indexed
      <3> QED BY <3>1, <3>2
    <2>6. Capped'
      <3>1. costCap \in Nat /\ gasCap \in Nat
        BY DEF LInv, Capped
      <3>2. /\ costCap' \in Nat /\ costCap <= costCap' /\ Cost(tx) <= costCap'
            /\ gasCap' \in Nat /\ gasCap <= gasCap' /\ tx.gasLimit <= gasCap'
        BY <1>1, <1>3, <3>1 DEF Larger
      <3>3. \A m \in S : /\ Cost(items[m]) \in Nat /\ items[m].gasLimit \in Nat
                         /\ Cost(items[m]) <= costCap /\ items[m].gasLimit <= gasCap
        BY TxTypes DEF LInv, Items, Capped
      <3>4. ASSUME NEW m \in S \cup {n}
            PROVE  Cost(items'[m]) <= costCap' /\ items'[m].gasLimit <= gasCap'
        <4>1. CASE m = n
          BY <2>2, <3>2, <4>1
        <4>2. CASE m # n
          <5>1. m \in S /\ items'[m] = items[m]
            BY <2>2, <4>2
          <5> QED BY <3>1, <3>2, <3>3, <5>1
        <4> QED BY <4>1, <4>2
      <3> QED BY <2>2, <3>2, <3>4 DEF Capped, Cost
    <2>7. LInv'
      BY <2>1, <2>4, <2>5, <2>6 DEF LInv, Cached
    <2> QED BY <2>2, <2>3, <2>7
  <1> QED BY <1>2, <1>3 DEF Add

-------------------------------------------------------------------------------
(***************************************************************************)
(* The invariant, the refinement and the gaps.                             *)
(***************************************************************************)
LEMMA InitLInv == Init => LInv /\ Plain!Init
  <1> SUFFICES ASSUME Init PROVE LInv /\ Plain!Init
    OBVIOUS
  <1>1. /\ strict \in BOOLEAN /\ items = <<>> /\ index = <<>> /\ cache = NoCache
        /\ costCap = 0 /\ gasCap = 0
    BY DEF Init
  <1>2. DOMAIN items = {} /\ items = [n \in {} |-> items[n]]
    BY <1>1
  <1>3. Items
    BY <1>2, FS_EmptySet DEF Items
  <1>4. Indexed
    <2> DEFINE q == Ascending({})
    <2>1. q \in Seq(Nat) /\ Len(q) = 0
      BY FS_EmptySet, AscendingFacts
    <2> HIDE DEF q
    <2>2. q = <<>>
      BY <2>1
    <2> QED BY <1>1, <1>2, <2>2 DEF Indexed, q
  <1>5. Cached /\ Capped
    BY <1>1, <1>2 DEF Cached, Capped
  <1> QED BY <1>1, <1>3, <1>4, <1>5 DEF LInv, Init, Plain!Init

(***************************************************************************)
(* One step of the list.                                                   *)
(***************************************************************************)
GapsKept == strict /\ DOMAIN items' \subseteq DOMAIN items /\ Gapless(DOMAIN items) =>
              Gapless(DOMAIN items')

LEMMA SameGaps ==
  ASSUME DOMAIN items \subseteq DOMAIN items'
  PROVE  GapsKept
  <1> SUFFICES ASSUME DOMAIN items' \subseteq DOMAIN items, Gapless(DOMAIN items)
               PROVE  Gapless(DOMAIN items')
    BY DEF GapsKept
  <1>1. DOMAIN items' = DOMAIN items
    OBVIOUS
  <1> QED BY <1>1

LEMMA UpperGaps ==
  ASSUME DOMAIN items \in SUBSET Nat,
         \A m \in DOMAIN items', n \in DOMAIN items : m < n => n \in DOMAIN items'
  PROVE  GapsKept
  BY DEF GapsKept, Gapless

LEMMA LowerGaps ==
  ASSUME DOMAIN items \in SUBSET Nat,
         \A m \in DOMAIN items', n \in DOMAIN items : n < m => n \in DOMAIN items'
  PROVE  GapsKept
  BY DEF GapsKept, Gapless

LEMMA PoppedGaps ==
  ASSUME LInv, NEW k \in 0..Cardinality(DOMAIN items),
         DOMAIN items' = DOMAIN items \ First(DOMAIN items, k)
  PROVE  GapsKept
  <1> DEFINE S == DOMAIN items
             F == First(S, k)
  <1>1. ASSUME NEW m \in S \ F, NEW n \in S, m < n PROVE n \notin F
    <2> SUFFICES ASSUME n \in F PROVE FALSE
      OBVIOUS
    <2>1. n < m
      BY IndexFacts, FirstIsLower
    <2>2. m \in Nat /\ n \in Nat
      BY IndexFacts
    <2> QED BY <1>1, <2>1, <2>2
  <1> HIDE DEF F
  <1> QED BY <1>1, IndexFacts, UpperGaps DEF F

LEMMA FilteredGaps ==
  ASSUME LInv, NEW gone \in SUBSET DOMAIN items,
         items' = Plain!Without(gone \cup Plain!Followers(gone))
  PROVE  GapsKept
  <1> SUFFICES ASSUME strict PROVE GapsKept
    BY DEF GapsKept
  <1> DEFINE S == DOMAIN items
             F == {m \in S \ gone : \E n \in gone : m > n}
  <1>1. DOMAIN items' = S \ (gone \cup F)
    BY DEF Plain!Without, Plain!Followers, Plain!Nonces
  <1>2. S \in SUBSET Nat
    BY IndexFacts
  <1>3. ASSUME NEW m \in S \ (gone \cup F), NEW n \in S, n < m PROVE n \notin gone \cup F
    <2>1. n \notin gone
      BY <1>2, <1>3
    <2>2. ASSUME NEW l \in gone, n > l PROVE FALSE
      <3>1. m > l
        BY <1>2, <1>3, <2>2
      <3> QED BY <1>3, <3>1
    <2> QED BY <2>1, <2>2
  <1> HIDE DEF F
  <1>4. \A m \in DOMAIN items', n \in DOMAIN items : n < m => n \in DOMAIN items'
    BY <1>1, <1>3
  <1> QED BY <1>2, <1>4, LowerGaps

LEMMA StepOutcome ==
  ASSUME LInv, Next
  PROVE  LInv' /\ (NoWrap => Plain!Next) /\ GapsKept
  <1>1. UNCHANGED strict
    BY DEF Next
  <1>2. Numbers \subseteq Nat /\ Plain!Numbers = Numbers /\ Limits \subseteq Nat
    BY NumbersNat, LimitsNat DEF Plain!Numbers, Numbers
  <1>3. ASSUME NEW tx \in Txs, NEW bump \in Bumps, Add(tx, bump)
        PROVE  LInv' /\ (NoWrap => Plain!Next) /\ GapsKept
    <2>1. LInv' /\ (NoWrap => Plain!Add(tx, bump)) /\ DOMAIN items \subseteq DOMAIN items'
      BY <1>1, <1>3, AddOutcome
    <2> QED BY <1>1, <2>1, SameGaps DEF Plain!Next
  <1>4. ASSUME NEW n \in Numbers, Forward(n)
        PROVE  LInv' /\ (NoWrap => Plain!Next) /\ GapsKept
    <2>1. LInv' /\ Plain!Forward(n) /\ n \in Nat
      BY <1>1, <1>2, <1>4, ForwardOutcome
    <2>2. DOMAIN items' = {m \in DOMAIN items : ~ m < n}
      BY <2>1 DEF Plain!Forward, Plain!Take, Plain!Without, Plain!Nonces
    <2>3. DOMAIN items \in SUBSET Nat
      BY IndexFacts
    <2>4. \A m \in DOMAIN items', l \in DOMAIN items : m < l => l \in DOMAIN items'
      BY <2>1, <2>2, <2>3
    <2> QED BY <1>1, <1>2, <2>1, <2>3, <2>4, UpperGaps DEF Plain!Next
  <1>5. ASSUME NEW n \in Numbers, Ready(n)
        PROVE  LInv' /\ (NoWrap => Plain!Next) /\ GapsKept
    <2>1. /\ LInv' /\ Plain!Ready(n)
          /\ \E k \in 0..Cardinality(DOMAIN items) :
               DOMAIN items' = DOMAIN items \ First(DOMAIN items, k)
      BY <1>1, <1>2, <1>5, ReadyOutcome
    <2> QED BY <1>1, <1>2, <2>1, PoppedGaps DEF Plain!Next
  <1>6. ASSUME NEW n \in Numbers, RemoveTx(n)
        PROVE  LInv' /\ (NoWrap => Plain!Next) /\ GapsKept
    <2>1. /\ LInv' /\ Plain!RemoveTx(n)
          /\ \E gone \in SUBSET DOMAIN items :
               items' = Plain!Without(gone \cup Plain!Followers(gone))
      BY <1>1, <1>2, <1>6, RemoveOutcome
    <2> QED BY <1>1, <1>2, <2>1, FilteredGaps DEF Plain!Next
  <1>7. ASSUME NEW k \in 0..Cardinality(DOMAIN items), Cap(k)
        PROVE  LInv' /\ (NoWrap => Plain!Next) /\ GapsKept
    <2>1. LInv' /\ Plain!Cap(k) /\ DOMAIN items' = First(DOMAIN items, k)
      BY <1>1, <1>7, CapOutcome
    <2>2. DOMAIN items \in SUBSET Nat
      BY IndexFacts
    <2>3. \A m \in DOMAIN items', n \in DOMAIN items : n < m => n \in DOMAIN items'
      <3> SUFFICES ASSUME NEW m \in DOMAIN items', NEW n \in DOMAIN items, n < m,
                          n \notin DOMAIN items'
                   PROVE  FALSE
        OBVIOUS
      <3>1. m < n
        BY <2>1, IndexFacts, FirstIsLower
      <3>2. m \in Nat /\ n \in Nat
        BY <2>1, <2>2, IndexFacts, FirstPart
      <3> QED BY <3>1, <3>2
    <2>4. k \in 0..Plain!Cardinality(Plain!Nonces)
      BY SameCardinality DEF Plain!Nonces
    <2> QED BY <1>1, <2>1, <2>2, <2>3, <2>4, LowerGaps DEF Plain!Next
  <1>8. ASSUME NEW cost \in Limits, NEW gas \in Limits, Filter(cost, gas)
        PROVE  LInv' /\ (NoWrap => Plain!Next) /\ GapsKept
    <2>1. /\ LInv' /\ (NoWrap => Plain!Filter(cost, gas))
          /\ \E gone \in SUBSET DOMAIN items :
               items' = Plain!Without(gone \cup Plain!Followers(gone))
      BY <1>1, <1>2, <1>8, FilterOutcome
    <2> QED BY <1>1, <2>1, FilteredGaps DEF Plain!Next
  <1>9. ASSUME Flatten PROVE LInv' /\ (NoWrap => Plain!Next) /\ GapsKept
    <2>1. LInv' /\ Plain!Flatten /\ UNCHANGED items
      BY <1>1, <1>9, FlattenOutcome
    <2> QED BY <1>1, <2>1, SameGaps DEF Plain!Next
  <1> QED BY <1>3, <1>4, <1>5, <1>6, <1>7, <1>8, <1>9 DEF Next

LEMMA StutterOutcome ==
  ASSUME LInv, UNCHANGED vars
  PROVE  LInv' /\ UNCHANGED <<strict, items, out>> /\ GapsKept
  <1>1. LInv'
    BY SameKeeps DEF vars, mapVars
  <1> QED BY <1>1, SameGaps DEF vars

LEMMA LInvHolds == Spec => []LInv
  <1>1. Init => LInv
    BY InitLInv
  <1>2. LInv /\ [Next]_vars => LInv'
    BY StepOutcome, StutterOutcome
  <1> QED BY <1>1, <1>2, PTL DEF Spec

(***************************************************************************)
(* The list is type correct: no nonce is twice in the heap.                *)
(***************************************************************************)
THEOREM TypeCorrect == Spec => []TypeOK
  BY LInvHolds, LInvTypeOK, PTL

(***************************************************************************)
(* As long as no price wraps around, a list with its heap, its cache of    *)
(* the sorted list and its caps (nonce.go:42-330) answers every call as a  *)
(* plain map from nonces to transactions would, for any transactions,      *)
(* price bumps, limits and sequence of calls.                              *)
(***************************************************************************)
THEOREM ListImplementsMap ==
  ASSUME NoWrap
  PROVE  Spec => ImplementsTxMap
  <1>1. Init => Plain!Init
    BY InitLInv
  <1>2. LInv /\ [Next]_vars => [Plain!Next]_<<strict, items, out>>
    BY StepOutcome, StutterOutcome
  <1> QED BY <1>1, <1>2, LInvHolds, PTL DEF Spec, ImplementsTxMap, Plain!Spec

(***************************************************************************)
(* Nothing but Add opens a gap between the nonces of a strict list         *)
(* (nonce.go:199, 275-297, 316-326), whether or not prices wrap around.    *)
(***************************************************************************)
THEOREM StrictAlwaysKeepsGapless == Spec => StrictKeepsGapless
  <1>1. LInv /\ [Next]_vars => [GapsKept]_vars
    BY StepOutcome
  <1>2. [GapsKept]_vars =>
          [strict /\ DOMAIN items' \subseteq DOMAIN items /\ Gapless(DOMAIN items) =>
             Gapless(DOMAIN items')]_vars
    BY DEF GapsKept
  <1> QED BY <1>1, <1>2, LInvHolds, PTL DEF Spec, StrictKeepsGapless
===============================================================================
