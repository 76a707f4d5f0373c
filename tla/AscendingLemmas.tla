-------------------------- MODULE AscendingLemmas --------------------------
(***************************************************************************)
(* Facts the proofs of several modules need: induction over the naturals   *)
(* along a set, the elements of a set of numbers in ascending order, and   *)
(* that functions defined by recursion exist.                              *)
(***************************************************************************)
EXTENDS Ascending, Integers, FiniteSetsExt, FiniteSetTheorems, FunctionTheorems,
        WellFoundedInduction, TLAPS

-----------------------------------------------------------------------------
(* Numbers: the least element of a set, and induction along a set. *)

LEMMA LessOnNat == OpToRel(<, Nat) = {p \in Nat \X Nat : p[1] < p[2]}
BY DEF OpToRel

LEMMA LeastElement ==
    ASSUME NEW T \in SUBSET Nat, T # {}
    PROVE  Min(T) \in T /\ \A y \in T : Min(T) <= y
<1> DEFINE R == {p \in Nat \X Nat : p[1] < p[2]}
<1>1. IsWellFoundedOn(R, Nat)
  BY NatLessThanWellFounded, LessOnNat, Zenon
<1>2. \A x, y \in Nat : y < x => <<y, x>> \in R
  OBVIOUS
<1> HIDE DEF R
<1>3. PICK x \in T : \A y \in T : ~(<<y, x>> \in R)
  BY <1>1, WFMin
<1>4. \A y \in T : y \in Nat /\ x \in Nat /\ ~(y < x)
  BY <1>2, <1>3
<1>5. \A y \in T : x <= y
  BY <1>4
<1>. QED  BY <1>5 DEF Min

LEMMA InductionOnSet ==
    ASSUME NEW S, 0 \in S, \A n \in Nat : n \in S => n + 1 \in S
    PROVE  Nat \subseteq S
<1> SUFFICES ASSUME Nat \ S # {}
             PROVE  FALSE
  OBVIOUS
<1> DEFINE m == Min(Nat \ S)
<1>1. m \in Nat /\ m \notin S /\ \A y \in Nat \ S : m <= y
  BY LeastElement
<1> HIDE DEF m
<1>2. m # 0
  BY <1>1
<1>3. m - 1 \in Nat /\ m - 1 \in S /\ (m - 1) + 1 = m
  BY <1>1, <1>2
<1>. QED  BY <1>1, <1>3

-----------------------------------------------------------------------------
(* Positions in order. *)

LEMMA FiniteNumbers ==
    ASSUME NEW n \in Nat, NEW S \in SUBSET (1..n)
    PROVE  IsFiniteSet(S) /\ Cardinality(S) \in Nat
<1>1. IsFiniteSet(1..n)
  BY FS_Interval
<1>. QED  BY <1>1, FS_Subset, FS_CardinalityType

\* The rank of an element.
Rank(S, i) == Cardinality({j \in S : j <= i})

LEMMA RankGrows ==
    ASSUME NEW S \in SUBSET Int, IsFiniteSet(S), NEW i \in S, NEW k \in S, i < k
    PROVE  Rank(S, i) < Rank(S, k)
<1> DEFINE A == {j \in S : j <= i}
           B == {j \in S : j <= k}
<1>0. \A j \in S : j \in Int
  OBVIOUS
<1>1. A \in SUBSET B /\ k \in B /\ k \notin A /\ B \in SUBSET S
  <2>1. \A j \in S : j <= i => j <= k
    BY <1>0
  <2>2. k <= k /\ ~(k <= i)
    BY <1>0
  <2>3. A \in SUBSET B
    BY <2>1, Zenon
  <2>4. k \in B /\ k \notin A
    BY <2>2
  <2>. QED  BY <2>3, <2>4
<1>2. IsFiniteSet(B)
  BY <1>1, FS_Subset
<1>3. Cardinality(A) <= Cardinality(B) /\ Cardinality(A) # Cardinality(B)
  BY <1>1, <1>2, FS_Subset
<1>4. Cardinality(A) \in Nat /\ Cardinality(B) \in Nat
  BY <1>1, <1>2, FS_Subset, FS_CardinalityType
<1>. QED  BY <1>3, <1>4 DEF Rank

LEMMA RankBounds ==
    ASSUME NEW S \in SUBSET Int, IsFiniteSet(S), NEW i \in S
    PROVE  Rank(S, i) \in 1..Cardinality(S)
<1> DEFINE A == {j \in S : j <= i}
<1>1. A \in SUBSET S /\ i \in A
  OBVIOUS
<1>2. IsFiniteSet(A) /\ Cardinality(A) <= Cardinality(S)
  BY <1>1, FS_Subset
<1>3. Cardinality(A) \in Nat /\ Cardinality(S) \in Nat /\ Cardinality(A) # 0
  BY <1>1, <1>2, FS_CardinalityType, FS_EmptySet
<1>. QED  BY <1>2, <1>3 DEF Rank

\* An element is the one its rank counts to.
LEMMA NthOfRank ==
    ASSUME NEW S \in SUBSET Int, IsFiniteSet(S), NEW i \in S
    PROVE  Nth(S, Rank(S, i)) = i
<1>1. \A k \in S : Rank(S, k) = Rank(S, i) => k = i
  <2> SUFFICES ASSUME NEW k \in S, k # i
               PROVE  Rank(S, k) # Rank(S, i)
    OBVIOUS
  <2>1. \A x \in S : Rank(S, x) \in Nat
    <3> SUFFICES ASSUME NEW x \in S
                 PROVE  Rank(S, x) \in Nat
      OBVIOUS
    <3>1. {j \in S : j <= x} \in SUBSET S
      OBVIOUS
    <3>. QED  BY <3>1, FS_Subset, FS_CardinalityType DEF Rank
  <2>2. k \in Int /\ i \in Int /\ (i < k \/ k < i)
    OBVIOUS
  <2>. QED  BY <2>1, <2>2, RankGrows
<1>. QED  BY <1>1 DEF Nth, Rank

\* Every number up to the cardinality is the rank of an element.
LEMMA RankReaches ==
    ASSUME NEW S \in SUBSET Int, IsFiniteSet(S), NEW k \in 1..Cardinality(S)
    PROVE  Nth(S, k) \in S /\ Rank(S, Nth(S, k)) = k
<1> DEFINE n == Cardinality(S)
           f == [i \in S |-> Rank(S, i)]
<1>1. n \in Nat /\ IsFiniteSet(1..n) /\ Cardinality(1..n) = n
  <2>1. n \in Nat
    BY FS_CardinalityType
  <2> HIDE DEF n
  <2>2. IsFiniteSet(1..n) /\ Cardinality(1..n) = IF 1 > n THEN 0 ELSE n - 1 + 1
    BY <2>1, FS_Interval
  <2>. QED  BY <2>1, <2>2
<1>2. f \in [S -> 1..n]
  BY RankBounds
<1>3. IsInjective(f)
  <2> SUFFICES ASSUME NEW a \in S, NEW b \in S, Rank(S, a) = Rank(S, b)
               PROVE  a = b
    BY DEF IsInjective
  <2>1. Nth(S, Rank(S, a)) = a /\ Nth(S, Rank(S, b)) = b
    BY NthOfRank
  <2>. QED  BY <2>1
<1>4. f \in Injection(S, 1..n)
  BY <1>2, <1>3 DEF Injection
<1>5. f \in Surjection(S, 1..n)
  <2> HIDE DEF f
  <2>. QED  BY <1>1, <1>4, FS_Injection
<1>6. PICK i \in S : f[i] = k
  BY <1>5 DEF Surjection
<1>7. Rank(S, i) = k
  BY <1>6
<1>. QED  BY <1>7 DEF Nth, Rank

\* The positions of an interval.
LEMMA NthOfInterval ==
    ASSUME NEW a \in Int, NEW b \in Int, a <= b
    PROVE  /\ IsFiniteSet((a + 1)..b) /\ Cardinality((a + 1)..b) = b - a
           /\ \A k \in 1..(b - a) : Nth((a + 1)..b, k) = a + k
<1> DEFINE S == (a + 1)..b
<1>1. IsFiniteSet(S) /\ Cardinality(S) = b - a
  <2>1. a + 1 \in Int /\ (a + 1 > b => b - a = 0) /\ b - (a + 1) + 1 = b - a
    OBVIOUS
  <2>. QED  BY <2>1, FS_Interval
<1>2. ASSUME NEW k \in 1..(b - a)
      PROVE  Nth(S, k) = a + k
  <2>1. a + k \in S /\ {j \in S : j <= a + k} = (a + 1)..(a + k)
    OBVIOUS
  <2>2. Cardinality((a + 1)..(a + k)) = k
    BY FS_Interval
  <2>3. Rank(S, a + k) = k
    BY <2>1, <2>2 DEF Rank
  <2>. QED  BY <1>1, <2>1, <2>3, NthOfRank
<1>. QED  BY <1>1, <1>2

-----------------------------------------------------------------------------
(* Functions defined by recursion. *)

\* A value for every number up to N, each from the one before.
Defines(N, V, v0, G) == \E f \in [0..N -> V] : /\ f[0] = v0
                                               /\ \A i \in 1..N : f[i] = G[<<i, f[i - 1]>>]

LEMMA RecursionExists ==
    ASSUME NEW N \in Nat, NEW V, NEW v0 \in V, NEW G,
           \A i \in 1..N : \A v \in V : G[<<i, v>>] \in V
    PROVE  Defines(N, V, v0, G)
<1> DEFINE Steps(n, f) == f[0] = v0 /\ \A i \in 1..n : f[i] = G[<<i, f[i - 1]>>]
           S == {n \in Nat : n <= N => \E f \in [0..n -> V] : Steps(n, f)}
<1>1. 0 \in S
  <2>1. [i \in 0..0 |-> v0] \in [0..0 -> V] /\ Steps(0, [i \in 0..0 |-> v0])
    OBVIOUS
  <2>. QED  BY <2>1
<1>2. ASSUME NEW n \in Nat, n \in S
      PROVE  n + 1 \in S
  <2> SUFFICES ASSUME n + 1 <= N
               PROVE  \E f \in [0..(n + 1) -> V] : Steps(n + 1, f)
    OBVIOUS
  <2>1. PICK f \in [0..n -> V] : Steps(n, f)
    BY <1>2
  <2> DEFINE v == G[<<n + 1, f[n]>>]
             g == [i \in 0..(n + 1) |-> IF i = n + 1 THEN v ELSE f[i]]
  <2>2. n + 1 \in 1..N /\ n \in 0..n /\ f[n] \in V
    BY <2>1
  <2>3. v \in V
    BY <2>2
  <2>4. g \in [0..(n + 1) -> V]
    BY <2>1, <2>3
  <2>5. g[0] = v0
    BY <2>1
  <2>6. ASSUME NEW i \in 1..(n + 1)
        PROVE  g[i] = G[<<i, g[i - 1]>>]
    <3>1. i - 1 \in 0..n /\ g[i - 1] = f[i - 1]
      OBVIOUS
    <3>2. CASE i = n + 1
      <4>1. i - 1 = n /\ g[i - 1] = f[n]
        BY <3>1, <3>2
      <4>2. g[i] = v
        BY <3>2
      <4> HIDE DEF g
      <4>. QED  BY <3>2, <4>1, <4>2
    <3>3. CASE i \in 1..n
      BY <2>1, <3>1, <3>3
    <3>. QED  BY <3>2, <3>3
  <2>. QED  BY <2>4, <2>5, <2>6
<1> HIDE DEF S
<1>3. N \in S
  BY <1>1, <1>2, InductionOnSet
<1>. QED  BY <1>3 DEF S, Defines
=============================================================================
