------------------------------ MODULE DataTheorems -----------------------------
(***************************************************************************)
(* Facts about data that the proofs of several components rest on: sets of *)
(* naturals, sums over finite sets, and the calls on a nonce queue.        *)
(*                                                                         *)
(* What would be an induction with an operator as its parameter is one     *)
(* over the elements of a set: the smallest natural that is missing from   *)
(* the set has a predecessor.                                              *)
(***************************************************************************)
EXTENDS NonceQueue, Integers, FiniteSets, Functions,
        FiniteSetTheorems, SequenceTheorems, WellFoundedInduction, TLAPS

LessNat == {ss \in Nat \X Nat : ss[1] < ss[2]}

LEMMA LessNatWellFounded == IsWellFoundedOn(LessNat, Nat)
  BY NatLessThanWellFounded DEF OpToRel, LessNat

(***************************************************************************)
(* A set of naturals has a least element.                                  *)
(***************************************************************************)
LEMMA LeastNat ==
  ASSUME NEW S \in SUBSET Nat, S # {}
  PROVE  \E x \in S : \A y \in S : x <= y
  <1>1. PICK x \in S : \A y \in S : ~ (<<y, x>> \in LessNat)
    BY LessNatWellFounded, WFMin
  <1>2. ASSUME NEW y \in S, y < x PROVE FALSE
    <2>1. <<y, x>> \in Nat \X Nat /\ <<y, x>>[1] < <<y, x>>[2]
      BY <1>2
    <2>2. <<y, x>> \in LessNat
      BY <2>1, Zenon DEF LessNat
    <2> QED BY <1>1, <2>2
  <1> QED BY <1>2

(***************************************************************************)
(* Induction over the naturals for the elements of a set.                  *)
(***************************************************************************)
LEMMA NatSetInduction ==
  ASSUME NEW T, 0 \in T, \A n \in Nat : n \in T => n + 1 \in T
  PROVE  Nat \subseteq T
  <1> SUFFICES ASSUME Nat \ T # {} PROVE FALSE
    OBVIOUS
  <1>1. PICK x \in Nat \ T : \A y \in Nat \ T : x <= y
    BY LeastNat
  <1>2. x - 1 \in Nat /\ x - 1 < x
    OBVIOUS
  <1>3. x - 1 \in T
    BY <1>1, <1>2
  <1> QED BY <1>2, <1>3

(***************************************************************************)
(* The least element of a set of naturals, the greatest of a bounded one.  *)
(***************************************************************************)
LEMMA MinNat ==
  ASSUME NEW S \in SUBSET Nat, S # {}
  PROVE  Min(S) \in S /\ \A y \in S : Min(S) <= y
  BY LeastNat DEF Min

LEMMA MaxNat ==
  ASSUME NEW S \in SUBSET Nat, S # {}, NEW n \in Nat, \A y \in S : y <= n
  PROVE  Max(S) \in S /\ \A y \in S : Max(S) >= y
  <1> DEFINE D == {n - y : y \in S}
  <1>1. D \in SUBSET Nat
    <2>1. \A y \in S : n - y \in Nat
      OBVIOUS
    <2> QED BY <2>1
  <1>2. D # {}
    OBVIOUS
  <1>3. Min(D) \in D /\ \A e \in D : Min(D) <= e
    <2> HIDE DEF D
    <2> QED BY <1>1, <1>2, MinNat
  <1>4. PICK x \in S : Min(D) = n - x
    BY <1>3
  <1>5. ASSUME NEW y \in S PROVE x >= y
    <2>1. n - y \in D
      OBVIOUS
    <2> HIDE DEF D
    <2>2. n - x <= n - y
      BY <1>3, <1>4, <2>1
    <2> QED BY <2>2
  <1>6. \E z \in S : \A y \in S : z >= y
    BY <1>5
  <1> QED BY <1>6 DEF Max

(***************************************************************************)
(* The larger of two naturals.                                             *)
(***************************************************************************)
LEMMA MaxOfTwo ==
  ASSUME NEW m \in Nat, NEW n \in Nat
  PROVE  /\ Max({m, n}) \in {m, n}
         /\ Max({m, n}) >= m /\ Max({m, n}) >= n
  <1>1. \E x \in {m, n} : \A y \in {m, n} : x >= y
    <2>1. CASE m >= n
      BY <2>1
    <2>2. CASE n >= m
      BY <2>2
    <2> QED BY <2>1, <2>2
  <1> QED BY <1>1 DEF Max

LEMMA Pieces ==
  ASSUME NEW q \in NonceQueues, NEW m \in Nat, NEW n \in Nat,
         m > 0, n <= Len(q)
  PROVE  /\ SubSeq(q, m, n) \in NonceQueues
         /\ \A i \in 1..Len(SubSeq(q, m, n)) :
              \E j \in 1..Len(q) : SubSeq(q, m, n)[i] = q[j]
  <1> DEFINE s == SubSeq(q, m, n)
  <1>1. Len(q) \in Nat /\ \A k \in m..n : k \in 1..Len(q)
    BY LenProperties DEF NonceQueues
  <1>2. /\ s \in Seq(Nat)
        /\ Len(s) = IF m <= n THEN n - m + 1 ELSE 0
        /\ \A i \in 1..(n - m + 1) : s[i] = q[m + i - 1]
    BY <1>1, SubSeqProperties DEF NonceQueues
  <1>3. ASSUME NEW i \in 1..Len(s)
        PROVE  m + i - 1 \in 1..Len(q) /\ s[i] = q[m + i - 1]
    BY <1>1, <1>2, <1>3
  <1> QED BY <1>2, <1>3 DEF NonceQueues

-------------------------------------------------------------------------------
(***************************************************************************)
(* Sums over finite sets.                                                  *)
(***************************************************************************)
(***************************************************************************)
(* The recursion of a sum over the subsets of a finite set has a solution. *)
(***************************************************************************)
Pick(s) == CHOOSE x \in s : TRUE

Step(f, h, s) == IF s = {} THEN 0 ELSE f[Pick(s)] + h[s \ {Pick(s)}]

Iter(f, S) == CHOOSE h : h = [s \in SUBSET S |-> Step(f, h, s)]

LEMMA SumIsIter ==
  ASSUME NEW f, NEW S
  PROVE  SumFunctionOnSet(f, S) = Iter(f, S)[S]
  BY DEF SumFunctionOnSet, FoldFunctionOnSet, MapThenFoldSet, Iter, Step, Pick

LEMMA PickFacts ==
  ASSUME NEW S, IsFiniteSet(S), NEW s \in SUBSET S, s # {}
  PROVE  /\ Pick(s) \in s /\ s \ {Pick(s)} \in SUBSET S
         /\ IsFiniteSet(s) /\ Cardinality(s) \in Nat \ {0}
         /\ Cardinality(s \ {Pick(s)}) = Cardinality(s) - 1
  <1>1. Pick(s) \in s
    BY DEF Pick
  <1>2. IsFiniteSet(s) /\ Cardinality(s) \in Nat
    BY FS_Subset, FS_CardinalityType
  <1>3. Cardinality(s) # 0
    BY <1>2, FS_EmptySet
  <1> QED BY <1>1, <1>2, <1>3, FS_RemoveElement

LEMMA IterStep ==
  ASSUME NEW f, NEW S, IsFiniteSet(S)
  PROVE  \A s \in SUBSET S : Iter(f, S)[s] = Step(f, Iter(f, S), s)
  <1> DEFINE Upto(h, n) == h = [s \in SUBSET S |->
                                  IF Cardinality(s) <= n THEN Step(f, h, s) ELSE 0]
             T == {n \in Nat : \E h : Upto(h, n)}
  <1>1. \A s \in SUBSET S : Cardinality(s) \in Nat
    BY FS_Subset, FS_CardinalityType
  <1>2. 0 \in T
    <2> DEFINE h == [s \in SUBSET S |-> 0]
    <2>1. \A s \in SUBSET S : Cardinality(s) <= 0 => s = {}
      BY <1>1, FS_Subset, FS_EmptySet
    <2>2. \A s \in SUBSET S : (IF Cardinality(s) <= 0 THEN Step(f, h, s) ELSE 0) = 0
      BY <2>1 DEF Step
    <2>3. Upto(h, 0)
      BY <2>2
    <2> QED BY <2>3
  <1>3. ASSUME NEW n \in Nat, n \in T
        PROVE  n + 1 \in T
    <2>1. PICK h : Upto(h, n)
      BY <1>3
    <2> DEFINE g == [s \in SUBSET S |-> IF Cardinality(s) <= n + 1 THEN Step(f, h, s) ELSE 0]
    <2>2. ASSUME NEW s \in SUBSET S, Cardinality(s) <= n
          PROVE  g[s] = h[s]
      BY <1>1, <2>1, <2>2
    <2>3. ASSUME NEW s \in SUBSET S, Cardinality(s) <= n + 1
          PROVE  Step(f, g, s) = Step(f, h, s)
      <3>1. CASE s = {}
        BY <3>1 DEF Step
      <3>2. CASE s # {}
        <4>1. s \ {Pick(s)} \in SUBSET S /\ Cardinality(s \ {Pick(s)}) <= n
          BY <1>1, <2>3, <3>2, PickFacts
        <4>2. g[s \ {Pick(s)}] = h[s \ {Pick(s)}]
          BY <2>2, <4>1
        <4> HIDE DEF g
        <4> QED BY <3>2, <4>2 DEF Step
      <3> QED BY <3>1, <3>2
    <2>4. Upto(g, n + 1)
      <3> SUFFICES ASSUME NEW s \in SUBSET S
                   PROVE  g[s] = IF Cardinality(s) <= n + 1 THEN Step(f, g, s) ELSE 0
        OBVIOUS
      <3>1. g[s] = IF Cardinality(s) <= n + 1 THEN Step(f, h, s) ELSE 0
        OBVIOUS
      <3> HIDE DEF g
      <3> QED BY <2>3, <3>1
    <2> HIDE DEF g
    <2> QED BY <2>4
  <1> HIDE DEF T
  <1>4. Cardinality(S) \in T
    BY <1>1, <1>2, <1>3, NatSetInduction
  <1>5. PICK h : Upto(h, Cardinality(S))
    BY <1>4 DEF T
  <1>6. \A s \in SUBSET S : Cardinality(s) <= Cardinality(S)
    BY FS_Subset
  <1>7. h = [s \in SUBSET S |-> Step(f, h, s)]
    BY <1>5, <1>6
  <1>8. Iter(f, S) = [s \in SUBSET S |-> Step(f, Iter(f, S), s)]
    BY <1>7 DEF Iter
  <1> DEFINE g == Iter(f, S)
  <1> HIDE DEF g
  <1>9. g = [s \in SUBSET S |-> Step(f, g, s)]
    BY <1>8 DEF g
  <1> QED BY <1>9, Zenon DEF g

(***************************************************************************)
(* Two functions that agree on a set have the same sums over its subsets,  *)
(* whatever larger sets they are computed in.                              *)
(***************************************************************************)
LEMMA IterAgree ==
  ASSUME NEW f, NEW g, NEW S, NEW R \in SUBSET S, IsFiniteSet(S),
         \A x \in R : f[x] = g[x]
  PROVE  \A s \in SUBSET R : Iter(f, S)[s] = Iter(g, R)[s]
  <1> DEFINE T == {n \in Nat : \A s \in SUBSET R :
                     Cardinality(s) = n => Iter(f, S)[s] = Iter(g, R)[s]}
  <1>1. IsFiniteSet(R)
    BY FS_Subset
  <1>2. /\ \A s \in SUBSET S : Iter(f, S)[s] = Step(f, Iter(f, S), s)
        /\ \A s \in SUBSET R : Iter(g, R)[s] = Step(g, Iter(g, R), s)
    BY <1>1, IterStep
  <1>3. \A s \in SUBSET R : Cardinality(s) \in Nat /\ (Cardinality(s) = 0 <=> s = {})
    BY <1>1, FS_Subset, FS_CardinalityType, FS_EmptySet
  <1>4. 0 \in T
    BY <1>2, <1>3 DEF Step
  <1>5. ASSUME NEW n \in Nat, n \in T
        PROVE  n + 1 \in T
    <2> SUFFICES ASSUME NEW s \in SUBSET R, Cardinality(s) = n + 1
                 PROVE  Iter(f, S)[s] = Iter(g, R)[s]
      OBVIOUS
    <2>1. s # {}
      BY <1>3
    <2>2. /\ Pick(s) \in s /\ s \ {Pick(s)} \in SUBSET R
          /\ Cardinality(s \ {Pick(s)}) = n
      BY <1>1, <2>1, PickFacts
    <2>3. Iter(f, S)[s \ {Pick(s)}] = Iter(g, R)[s \ {Pick(s)}]
      BY <1>5, <2>2
    <2>4. s \in SUBSET S /\ f[Pick(s)] = g[Pick(s)]
      BY <2>2
    <2> QED BY <1>2, <2>1, <2>3, <2>4 DEF Step
  <1> HIDE DEF T
  <1>6. Nat \subseteq T
    BY <1>4, <1>5, NatSetInduction
  <1> QED BY <1>3, <1>6 DEF T

LEMMA SumAgree ==
  ASSUME NEW f, NEW g, NEW S, IsFiniteSet(S), \A x \in S : f[x] = g[x]
  PROVE  SumFunctionOnSet(f, S) = SumFunctionOnSet(g, S)
  <1>1. S \in SUBSET S
    OBVIOUS
  <1>2. Iter(f, S)[S] = Iter(g, S)[S]
    BY <1>1, IterAgree
  <1> QED BY <1>2, SumIsIter

LEMMA SumEmpty ==
  ASSUME NEW f
  PROVE  SumFunctionOnSet(f, {}) = 0
  <1>1. Iter(f, {})[{}] = Step(f, Iter(f, {}), {})
    <2>1. IsFiniteSet({}) /\ {} \in SUBSET {}
      BY FS_EmptySet
    <2> QED BY <2>1, IterStep
  <1> QED BY <1>1, SumIsIter DEF Step

LEMMA SumPick ==
  ASSUME NEW f, NEW S, IsFiniteSet(S), S # {}
  PROVE  SumFunctionOnSet(f, S) = f[Pick(S)] + SumFunctionOnSet(f, S \ {Pick(S)})
  <1> DEFINE R == S \ {Pick(S)}
  <1>1. R \in SUBSET S /\ R \in SUBSET R /\ S \in SUBSET S
    OBVIOUS
  <1>2. Iter(f, S)[S] = Step(f, Iter(f, S), S)
    BY <1>1, IterStep
  <1>3. Iter(f, S)[R] = Iter(f, R)[R]
    BY <1>1, IterAgree
  <1> QED BY <1>2, <1>3, SumIsIter DEF Step

LEMMA SumClosed ==
  ASSUME NEW V, 0 \in V, \A m, n \in V : m + n \in V,
         NEW f, NEW U, IsFiniteSet(U), \A x \in U : f[x] \in V
  PROVE  SumFunctionOnSet(f, U) \in V
  <1> DEFINE T == {n \in Nat : \A S \in SUBSET U : Cardinality(S) = n =>
                     SumFunctionOnSet(f, S) \in V}
  <1>1. \A S \in SUBSET U : Cardinality(S) \in Nat /\ (Cardinality(S) = 0 <=> S = {})
    BY FS_Subset, FS_CardinalityType, FS_EmptySet
  <1>2. 0 \in T
    BY <1>1, SumEmpty
  <1>3. ASSUME NEW n \in Nat, n \in T
        PROVE  n + 1 \in T
    <2> SUFFICES ASSUME NEW S \in SUBSET U, Cardinality(S) = n + 1
                 PROVE  SumFunctionOnSet(f, S) \in V
      OBVIOUS
    <2>1. S # {} /\ IsFiniteSet(S)
      BY <1>1, FS_Subset
    <2>2. /\ Pick(S) \in S /\ S \ {Pick(S)} \in SUBSET U
          /\ Cardinality(S \ {Pick(S)}) = n
      BY <2>1, PickFacts
    <2>3. SumFunctionOnSet(f, S \ {Pick(S)}) \in V /\ f[Pick(S)] \in V
      BY <1>3, <2>2
    <2> QED BY <2>1, <2>3, SumPick
  <1> HIDE DEF T
  <1>4. Nat \subseteq T
    BY <1>2, <1>3, NatSetInduction
  <1> QED BY <1>1, <1>4 DEF T

LEMMA SumInt ==
  ASSUME NEW f, NEW U, IsFiniteSet(U), \A x \in U : f[x] \in Int
  PROVE  SumFunctionOnSet(f, U) \in Int
  BY SumClosed

LEMMA SumZero ==
  ASSUME NEW f, NEW U, IsFiniteSet(U), \A x \in U : f[x] = 0
  PROVE  SumFunctionOnSet(f, U) = 0
  <1> DEFINE V == {0}
  <1>1. 0 \in V /\ (\A m, n \in V : m + n \in V) /\ \A x \in U : f[x] \in V
    OBVIOUS
  <1> HIDE DEF V
  <1>2. SumFunctionOnSet(f, U) \in V
    BY <1>1, SumClosed
  <1> QED BY <1>2 DEF V

(***************************************************************************)
(* The order of the summands does not matter.                              *)
(***************************************************************************)
LEMMA SumRemove ==
  ASSUME NEW f, NEW U, IsFiniteSet(U), \A x \in U : f[x] \in Int, NEW y \in U
  PROVE  SumFunctionOnSet(f, U) = f[y] + SumFunctionOnSet(f, U \ {y})
  <1> DEFINE T == {n \in Nat : \A S \in SUBSET U : Cardinality(S) = n =>
                     \A x \in S : SumFunctionOnSet(f, S) = f[x] + SumFunctionOnSet(f, S \ {x})}
  <1>1. \A S \in SUBSET U : Cardinality(S) \in Nat /\ (Cardinality(S) = 0 <=> S = {})
    BY FS_Subset, FS_CardinalityType, FS_EmptySet
  <1>2. \A S \in SUBSET U : IsFiniteSet(S) /\ SumFunctionOnSet(f, S) \in Int
    BY FS_Subset, SumInt
  <1>3. 0 \in T
    BY <1>1
  <1>4. ASSUME NEW n \in Nat, n \in T
        PROVE  n + 1 \in T
    <2> SUFFICES ASSUME NEW S \in SUBSET U, Cardinality(S) = n + 1, NEW x \in S
                 PROVE  SumFunctionOnSet(f, S) = f[x] + SumFunctionOnSet(f, S \ {x})
      OBVIOUS
    <2> DEFINE p == Pick(S)
    <2>1. p \in S /\ S \ {p} \in SUBSET U /\ Cardinality(S \ {p}) = n
      BY PickFacts
    <2>2. SumFunctionOnSet(f, S) = f[p] + SumFunctionOnSet(f, S \ {p})
      BY <1>2, SumPick
    <2> HIDE DEF p
    <2>3. CASE x = p
      BY <2>2, <2>3
    <2>4. CASE x # p
      <3>1. x \in S \ {p} /\ p \in S \ {x}
        BY <2>1, <2>4
      <3>2. SumFunctionOnSet(f, S \ {p}) = f[x] + SumFunctionOnSet(f, (S \ {p}) \ {x})
        BY <1>4, <2>1, <3>1
      <3>3. Cardinality(S \ {x}) = n /\ S \ {x} \in SUBSET U
        <4>1. IsFiniteSet(S) /\ n + 1 - 1 = n
          BY <1>2
        <4>2. Cardinality(S \ {x}) = Cardinality(S) - 1
          BY <4>1, FS_RemoveElement
        <4> QED BY <4>1, <4>2
      <3>4. SumFunctionOnSet(f, S \ {x}) = f[p] + SumFunctionOnSet(f, (S \ {x}) \ {p})
        BY <1>4, <3>1, <3>3
      <3> DEFINE rest == (S \ {x}) \ {p}
      <3>5. (S \ {p}) \ {x} = rest /\ rest \in SUBSET U
        OBVIOUS
      <3>6. f[x] \in Int /\ f[p] \in Int /\ SumFunctionOnSet(f, rest) \in Int
        BY <1>2, <2>1, <3>5
      <3>7. /\ SumFunctionOnSet(f, S \ {p}) = f[x] + SumFunctionOnSet(f, rest)
            /\ SumFunctionOnSet(f, S \ {x}) = f[p] + SumFunctionOnSet(f, rest)
        BY <3>2, <3>4, <3>5
      <3> HIDE DEF rest
      <3> QED BY <2>2, <3>6, <3>7
    <2> QED BY <2>3, <2>4
  <1> HIDE DEF T
  <1>5. Nat \subseteq T
    BY <1>3, <1>4, NatSetInduction
  <1> QED BY <1>1, <1>5 DEF T

LEMMA SumAdd ==
  ASSUME NEW f, NEW S, IsFiniteSet(S), NEW y, y \notin S, f[y] \in Int,
         \A x \in S : f[x] \in Int
  PROVE  SumFunctionOnSet(f, S \cup {y}) = f[y] + SumFunctionOnSet(f, S)
  <1>1. IsFiniteSet(S \cup {y}) /\ (S \cup {y}) \ {y} = S
    BY FS_AddElement
  <1> QED BY <1>1, SumRemove

LEMMA SumExcept ==
  ASSUME NEW S, IsFiniteSet(S), NEW f \in [S -> Int], NEW y \in S, NEW d \in Int
  PROVE  SumFunctionOnSet([f EXCEPT ![y] = @ + d], S) = SumFunctionOnSet(f, S) + d
  <1> DEFINE g == [f EXCEPT ![y] = @ + d]
  <1>1. g \in [S -> Int] /\ g[y] = f[y] + d /\ \A x \in S \ {y} : g[x] = f[x]
    OBVIOUS
  <1> HIDE DEF g
  <1>2. /\ SumFunctionOnSet(g, S) = g[y] + SumFunctionOnSet(g, S \ {y})
        /\ SumFunctionOnSet(f, S) = f[y] + SumFunctionOnSet(f, S \ {y})
    BY <1>1, SumRemove
  <1>3. IsFiniteSet(S \ {y})
    BY FS_RemoveElement
  <1>4. /\ SumFunctionOnSet(g, S \ {y}) = SumFunctionOnSet(f, S \ {y})
        /\ SumFunctionOnSet(f, S \ {y}) \in Int
    BY <1>1, <1>3, SumAgree, SumInt
  <1>5. SumFunctionOnSet(g, S) = SumFunctionOnSet(f, S) + d
    BY <1>1, <1>2, <1>4
  <1> QED BY <1>5 DEF g

-------------------------------------------------------------------------------
(***************************************************************************)
(* The calls on a nonce queue, for queues of any length.                   *)
(***************************************************************************)
(***************************************************************************)
(* What is reported is 0 or in the queue.                                  *)
(***************************************************************************)
LEMMA CachedNonceIn ==
  ASSUME NEW q \in NonceQueues
  PROVE  /\ CachedNonce(q) \in Nat
         /\ CachedNonce(q) = 0 \/ \E i \in 1..Len(q) : CachedNonce(q) = q[i]
  <1>1. ASSUME q # <<>> PROVE Len(q) \in 1..Len(q)
    BY <1>1, EmptySeq, LenProperties DEF NonceQueues
  <1> QED BY <1>1, ElementOfSeq DEF CachedNonce, NonceQueues

(***************************************************************************)
(* A push adds nothing but its nonce.                                      *)
(***************************************************************************)
LEMMA PushedElements ==
  ASSUME NEW q \in NonceQueues, NEW n \in Nat
  PROVE  /\ Pushed(q, n) \in NonceQueues
         /\ \A i \in 1..Len(Pushed(q, n)) :
              \/ Pushed(q, n)[i] = n
              \/ \E j \in 1..Len(q) : Pushed(q, n)[i] = q[j]
  <1>1. /\ Append(q, n) \in Seq(Nat)
        /\ Len(Append(q, n)) = Len(q) + 1
        /\ \A i \in 1..Len(q) : Append(q, n)[i] = q[i]
        /\ Append(q, n)[Len(q) + 1] = n
    BY AppendProperties DEF NonceQueues
  <1>2. Len(q) \in Nat
    BY LenProperties DEF NonceQueues
  <1>3. \A i \in 1..Len(Append(q, n)) : i \in 1..Len(q) \/ i = Len(q) + 1
    BY <1>1, <1>2
  <1> QED BY <1>1, <1>3 DEF Pushed, NonceQueues

(***************************************************************************)
(* What is left when elements are polled off the back, or off the front.   *)
(***************************************************************************)
LEMMA PrefixReports ==
  ASSUME NEW q \in NonceQueues, NEW m \in Nat, m <= Len(q)
  PROVE  CachedNonce(SubSeq(q, 1, m)) = IF m = 0 THEN 0 ELSE q[m]
  <1> DEFINE s == SubSeq(q, 1, m)
  <1>1. CASE m = 0
    <2>1. s = <<>>
      BY <1>1, SubSeqEmpty
    <2> QED BY <1>1, <2>1 DEF CachedNonce
  <1>2. CASE m # 0
    <2>1. Len(q) \in Nat /\ \A k \in 1..m : k \in 1..Len(q)
      BY LenProperties DEF NonceQueues
    <2>2. Len(s) = m /\ s[m] = q[m]
      BY <1>2, <2>1, SubSeqProperties DEF NonceQueues
    <2>3. s # <<>>
      BY <1>2, <2>2, EmptySeq
    <2> QED BY <1>2, <2>2, <2>3 DEF CachedNonce
  <1> QED BY <1>1, <1>2

LEMMA SuffixReports ==
  ASSUME NEW q \in NonceQueues, NEW m \in Nat, m > 0, m <= Len(q)
  PROVE  CachedNonce(SubSeq(q, m, Len(q))) = CachedNonce(q)
  <1> DEFINE s == SubSeq(q, m, Len(q))
             k == Len(q) - m + 1
  <1>1. Len(q) \in Nat /\ Len(q) # 0 /\ \A i \in m..Len(q) : i \in 1..Len(q)
    BY LenProperties DEF NonceQueues
  <1>2. Len(s) = k /\ \A i \in 1..k : s[i] = q[m + i - 1]
    BY <1>1, SubSeqProperties DEF NonceQueues
  <1>3. k \in 1..k /\ m + k - 1 = Len(q) /\ k # 0
    BY <1>1
  <1>4. s[k] = q[Len(q)]
    BY <1>2, <1>3
  <1>5. s # <<>> /\ q # <<>>
    BY <1>1, <1>2, <1>3, EmptySeq
  <1> HIDE DEF s, k
  <1>6. CachedNonce(s) = s[k] /\ CachedNonce(q) = q[Len(q)]
    BY <1>2, <1>5 DEF CachedNonce
  <1> QED BY <1>4, <1>6 DEF s

(***************************************************************************)
(* A pop at the top adds nothing, and leaves a queue that reports at most  *)
(* the nonce that failed.                                                  *)
(***************************************************************************)
LEMMA PopTopElements ==
  ASSUME NEW q \in NonceQueues, NEW n \in Nat
  PROVE  /\ PopTop(q, n) \in NonceQueues
         /\ \A i \in 1..Len(PopTop(q, n)) : \E j \in 1..Len(q) : PopTop(q, n)[i] = q[j]
         /\ CachedNonce(PopTop(q, n)) <= n
  <1> DEFINE S == {0} \cup {i \in 1..Len(q) : q[i] <= n}
  <1>1. Len(q) \in Nat
    BY LenProperties DEF NonceQueues
  <1>2. S \in SUBSET Nat /\ S # {} /\ \A y \in S : y <= Len(q)
    BY <1>1
  <1>3. Max(S) \in S
    <2> HIDE DEF S
    <2> QED BY <1>1, <1>2, MaxNat
  <1>4. PICK m \in S : m = Max(S)
    BY <1>3
  <1>5. m \in Nat /\ m <= Len(q) /\ (m = 0 \/ q[m] <= n)
    BY <1>1, <1>4
  <1>6. PopTop(q, n) = SubSeq(q, 1, m)
    BY <1>4 DEF PopTop
  <1> HIDE DEF S
  <1>7. /\ PopTop(q, n) \in NonceQueues
        /\ \A i \in 1..Len(PopTop(q, n)) : \E j \in 1..Len(q) : PopTop(q, n)[i] = q[j]
    BY <1>5, <1>6, Pieces
  <1>8. CachedNonce(PopTop(q, n)) <= n
    BY <1>5, <1>6, PrefixReports
  <1> QED BY <1>7, <1>8

(***************************************************************************)
(* A pop at the bottom adds nothing, and changes nothing that the queue    *)
(* reports: nonce.go:437 keeps the last element.                           *)
(***************************************************************************)
LEMMA PopBottomElements ==
  ASSUME NEW q \in NonceQueues, NEW n \in Nat
  PROVE  /\ PopBottom(q, n) \in NonceQueues
         /\ \A i \in 1..Len(PopBottom(q, n)) :
              \E j \in 1..Len(q) : PopBottom(q, n)[i] = q[j]
         /\ CachedNonce(PopBottom(q, n)) = CachedNonce(q)
  <1>1. CASE q = <<>>
    BY <1>1 DEF PopBottom
  <1>2. CASE q # <<>>
    <2> DEFINE S == {Len(q)} \cup {i \in 1..Len(q) : q[i] >= n}
    <2>1. Len(q) \in Nat /\ Len(q) > 0
      BY <1>2, LenProperties, EmptySeq DEF NonceQueues
    <2>2. S \in SUBSET Nat /\ S # {}
      BY <2>1
    <2>3. Min(S) \in S
      <3> HIDE DEF S
      <3> QED BY <2>2, MinNat
    <2>4. PICK m \in S : m = Min(S)
      BY <2>3
    <2>5. m \in Nat /\ m > 0 /\ m <= Len(q)
      BY <2>1, <2>4
    <2>6. PopBottom(q, n) = SubSeq(q, m, Len(q))
      BY <1>2, <2>4 DEF PopBottom
    <2> HIDE DEF S
    <2>7. /\ PopBottom(q, n) \in NonceQueues
          /\ \A i \in 1..Len(PopBottom(q, n)) :
               \E j \in 1..Len(q) : PopBottom(q, n)[i] = q[j]
      BY <2>1, <2>5, <2>6, Pieces
    <2>8. CachedNonce(PopBottom(q, n)) = CachedNonce(q)
      BY <2>5, <2>6, SuffixReports
    <2> QED BY <2>7, <2>8
  <1> QED BY <1>1, <1>2
===============================================================================
