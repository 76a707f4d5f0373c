----------------------------- MODULE TrieProofs -----------------------------
(***************************************************************************)
(* The incremental roots are exact: for every set of keys and values, both *)
(* cache policies and both snapshot backends, a root over a warm cache is  *)
(* the root of a stateless recomputation.                                  *)
(***************************************************************************)
EXTENDS SnapshotTrie, AscendingLemmas, SequenceTheorems

Path == Seq(Nibble)

-----------------------------------------------------------------------------
(* Prefixes. *)

LEMMA PrefixIs ==
    ASSUME NEW s \in Path, NEW t \in Path
    PROVE  IsPrefix(s, t) <=> Len(s) <= Len(t) /\ \A i \in 1..Len(s) : s[i] = t[i]
<1>1. CASE Len(s) <= Len(t)
  <2> DEFINE u == SubSeq(t, 1, Len(s))
  <2>1. /\ SubSeq(s, 1, Len(s)) = s
        /\ u \in Seq(Nibble) /\ Len(u) = Len(s) /\ \A i \in 1..Len(s) : u[i] = t[i]
    BY <1>1 DEF Path
  <2> HIDE DEF u
  <2>2. (\A i \in 1..Len(s) : s[i] = u[i]) => s = u
    BY <2>1, SeqEqual DEF Path
  <2>. QED  BY <1>1, <2>1, <2>2 DEF IsPrefix, u
<1>2. CASE ~(Len(s) <= Len(t))
  BY <1>2 DEF IsPrefix
<1>. QED  BY <1>1, <1>2

LEMMA LenOfPath == \A s \in Path : Len(s) \in Nat /\ \A i \in 1..Len(s) : s[i] \in Nibble
BY DEF Path

LEMMA PrefixTrans ==
    ASSUME NEW a \in Path, NEW b \in Path, NEW k \in Path, IsPrefix(a, b), IsPrefix(b, k)
    PROVE  IsPrefix(a, k)
BY PrefixIs, LenOfPath

\* Of two prefixes of a key the shorter is a prefix of the other.
LEMMA PrefixNested ==
    ASSUME NEW a \in Path, NEW b \in Path, NEW k \in Path,
           IsPrefix(a, k), IsPrefix(b, k), Len(a) <= Len(b)
    PROVE  IsPrefix(a, b)
BY PrefixIs, LenOfPath

LEMMA PrefixSame ==
    ASSUME NEW a \in Path, NEW b \in Path, IsPrefix(a, b), Len(a) = Len(b)
    PROVE  a = b
<1>1. \A i \in 1..Len(a) : a[i] = b[i]
  BY PrefixIs
<1>. QED  BY <1>1, SeqEqual DEF Path

LEMMA EmptyPath == <<>> \in Path
BY DEF Path

LEMMA PrefixSelf == \A a \in Path : IsPrefix(a, a) /\ IsPrefix(<<>>, a) /\ <<>> \in Path
<1>1. <<>> \in Path /\ Len(<<>>) = 0
  BY DEF Path
<1>. QED  BY <1>1, PrefixIs, LenOfPath

LEMMA ChildFacts ==
    ASSUME NEW p \in Path, NEW c \in Nibble
    PROVE  /\ Append(p, c) \in Path /\ Len(Append(p, c)) = Len(p) + 1
           /\ Append(p, c)[Len(p) + 1] = c /\ Append(p, c) # <<>>
           /\ \A i \in 1..Len(p) : Append(p, c)[i] = p[i]
BY DEF Path

\* The keys under a child are those that go on with its nibble.
LEMMA PrefixChild ==
    ASSUME NEW p \in Path, NEW c \in Nibble, NEW k \in Path
    PROVE  IsPrefix(Append(p, c), k)
              <=> IsPrefix(p, k) /\ Len(p) < Len(k) /\ k[Len(p) + 1] = c
<1> DEFINE a == Append(p, c)
<1>0. /\ a \in Path /\ Len(a) = Len(p) + 1 /\ a[Len(p) + 1] = c
      /\ \A i \in 1..Len(p) : a[i] = p[i]
  BY ChildFacts
<1> SUFFICES IsPrefix(a, k) <=> IsPrefix(p, k) /\ Len(p) < Len(k) /\ k[Len(p) + 1] = c
  OBVIOUS
<1> HIDE DEF a
<1>1. IsPrefix(a, k) <=> Len(p) + 1 <= Len(k) /\ \A i \in 1..(Len(p) + 1) : a[i] = k[i]
  BY <1>0, PrefixIs
<1>2. /\ Len(p) \in Nat /\ Len(k) \in Nat
      /\ \A i \in 1..(Len(p) + 1) : i = Len(p) + 1 \/ i \in 1..Len(p)
      /\ Len(p) + 1 \in 1..(Len(p) + 1) /\ \A i \in 1..Len(p) : i \in 1..(Len(p) + 1)
  BY LenOfPath
<1>3. (\A i \in 1..(Len(p) + 1) : a[i] = k[i])
         <=> (\A i \in 1..Len(p) : p[i] = k[i]) /\ k[Len(p) + 1] = c
  BY <1>0, <1>2
<1>. QED  BY <1>1, <1>2, <1>3, PrefixIs

LEMMA PrefixesAre ==
    ASSUME NEW k \in Path
    PROVE  Prefixes(k) = {p \in Path : IsPrefix(p, k)}
<1>1. ASSUME NEW n \in 0..Len(k)
      PROVE  SubSeq(k, 1, n) \in Path /\ IsPrefix(SubSeq(k, 1, n), k)
  <2>1. /\ SubSeq(k, 1, n) \in Path /\ Len(SubSeq(k, 1, n)) = n /\ n <= Len(k)
        /\ \A i \in 1..n : SubSeq(k, 1, n)[i] = k[i]
    BY DEF Path
  <2>. QED  BY <2>1, PrefixIs
<1>2. ASSUME NEW p \in Path, IsPrefix(p, k)
      PROVE  p \in Prefixes(k)
  <2>1. Len(p) \in 0..Len(k) /\ SubSeq(p, 1, Len(p)) = p
    BY <1>2, PrefixIs, LenOfPath DEF Path
  <2>2. p = SubSeq(k, 1, Len(p))
    BY <1>2, <2>1 DEF IsPrefix
  <2>. QED  BY <2>1, <2>2 DEF Prefixes
<1>. QED  BY <1>1, <1>2 DEF Prefixes

\* What is left of a path without its last nibble.
LEMMA FrontFacts ==
    ASSUME NEW p \in Path, p # <<>>
    PROVE  /\ Front(p) \in Path /\ Len(Front(p)) + 1 = Len(p)
           /\ p[Len(p)] \in Nibble /\ p = Append(Front(p), p[Len(p)])
<1>1. Len(p) \in Nat \ {0}
  BY DEF Path
<1> DEFINE f == SubSeq(p, 1, Len(p) - 1)
<1>2. /\ f \in Seq(Nibble) /\ Len(f) = Len(p) - 1 /\ p[Len(p)] \in Nibble
      /\ \A i \in 1..(Len(p) - 1) : f[i] = p[i]
  <2>1. 1 \in 1..(Len(p) + 1) /\ Len(p) - 1 \in 0..Len(p) /\ p \in Seq(Nibble)
    BY <1>1 DEF Path
  <2>2. f \in Seq(Nibble)
    BY <1>1, <2>1
  <2>3. Len(f) = Len(p) - 1
    BY <1>1, <2>1
  <2>4. \A i \in 1..(Len(p) - 1) : f[i] = p[i]
    BY <1>1, <2>1
  <2>5. p[Len(p)] \in Nibble
    BY <1>1, <2>1
  <2>. QED  BY <2>2, <2>3, <2>4, <2>5
<1> HIDE DEF f
<1>3. p = Append(f, p[Len(p)])
  <2> DEFINE a == Append(f, p[Len(p)])
  <2>1. /\ a \in Seq(Nibble) /\ Len(a) = Len(p)
        /\ a[Len(p)] = p[Len(p)] /\ \A i \in 1..(Len(p) - 1) : a[i] = f[i]
    BY <1>1, <1>2
  <2> HIDE DEF a
  <2>2. \A i \in 1..Len(p) : a[i] = p[i]
    BY <1>1, <1>2, <2>1
  <2>3. p = a
    BY <2>1, <2>2, SeqEqual DEF Path
  <2>. QED  BY <2>3 DEF a
<1>4. Front(p) = f
  BY DEF Front, f
<1>. QED  BY <1>1, <1>2, <1>3, <1>4 DEF Path

LEMMA FrontIsPrefix ==
    ASSUME NEW p \in Path, p # <<>>
    PROVE  Front(p) \in Path /\ IsPrefix(Front(p), p) /\ Len(Front(p)) + 1 = Len(p)
<1> DEFINE q == Front(p)
           c == p[Len(p)]
           a == Append(q, c)
<1>1. q \in Path /\ Len(q) + 1 = Len(p) /\ c \in Nibble /\ p = a
  BY FrontFacts
<1> HIDE DEF q, c
<1>2. IsPrefix(a, p)
  BY <1>1, PrefixSelf
<1>3. IsPrefix(q, p)
  BY <1>1, <1>2, PrefixChild
<1>. QED  BY <1>1, <1>3 DEF q

-----------------------------------------------------------------------------
(* Maps from keys to entries, and the paths of their tries. *)

Map == UNION {[K -> Entry] : K \in SUBSET Key}

LEMMA KeysOfMap ==
    ASSUME NEW m \in Map
    PROVE  /\ DOMAIN m \in SUBSET Key /\ IsFiniteSet(DOMAIN m)
           /\ \A k \in DOMAIN m : k \in Path /\ m[k] \in Entry
<1>1. PICK K \in SUBSET Key : m \in [K -> Entry]
  BY DEF Map
<1>. QED  BY <1>1, FS_Subset, TrieAssumption DEF Path

LEMMA BlockIs ==
    ASSUME NEW m \in Map, NEW p \in Path
    PROVE  /\ Block(m, p) \in SUBSET Path /\ IsFiniteSet(Block(m, p))
           /\ p \in Paths(m) <=> Block(m, p) # {}
<1>1. Block(m, p) \subseteq DOMAIN m
  BY DEF Block
<1>2. \A k \in DOMAIN m : p \in Prefixes(k) <=> IsPrefix(p, k)
  BY KeysOfMap, PrefixesAre
<1>. QED  BY <1>1, <1>2, KeysOfMap, FS_Subset DEF Paths, Block

LEMMA PathsArePaths ==
    ASSUME NEW m \in Map
    PROVE  Paths(m) \in SUBSET Path
BY KeysOfMap, PrefixesAre DEF Paths

LEMMA RootPath ==
    ASSUME NEW m \in Map
    PROVE  /\ Block(m, <<>>) = DOMAIN m
           /\ DOMAIN m # {} => <<>> \in Paths(m)
<1>1. Block(m, <<>>) = DOMAIN m
  BY KeysOfMap, PrefixSelf DEF Block
<1>. QED  BY <1>1, BlockIs, EmptyPath

-----------------------------------------------------------------------------
(* The longest common prefix of a block. *)

Longest(f, S) == /\ f \in Path
                 /\ \A k \in S : IsPrefix(f, k)
                 /\ \A q \in Path : (\A k \in S : IsPrefix(q, k)) => IsPrefix(q, f)

LEMMA LongestUnique ==
    ASSUME NEW S, NEW f, NEW g, Longest(f, S), Longest(g, S)
    PROVE  f = g
<1>1. IsPrefix(f, g) /\ IsPrefix(g, f) /\ f \in Path /\ g \in Path
  BY DEF Longest
<1>2. Len(f) = Len(g)
  BY <1>1, PrefixIs, LenOfPath
<1>. QED  BY <1>1, <1>2, PrefixSame

LEMMA LongestIs ==
    ASSUME NEW S \in SUBSET Path, S # {}
    PROVE  Longest(LongestCommonPrefix(S), S)
<1> DEFINE C == CommonPrefixes(S)
<1>1. C = {q \in Path : \A k \in S : IsPrefix(q, k)}
  <2>1. \A k \in S : Prefixes(k) = {p \in Path : IsPrefix(p, k)}
    BY PrefixesAre
  <2>. QED  BY <2>1 DEF CommonPrefixes
<1> HIDE DEF C
<1>2. PICK k \in S : k \in Path
  OBVIOUS
<1>3. <<>> \in C
  BY <1>1, PrefixSelf
<1> DEFINE T == {n \in Nat : \E q \in C : Len(k) - Len(q) = n}
<1>4. \A q \in C : Len(q) \in Nat /\ Len(k) \in Nat /\ Len(q) <= Len(k)
  BY <1>1, <1>2, PrefixIs, LenOfPath
<1>5. T \in SUBSET Nat /\ T # {}
  BY <1>3, <1>4
<1>6. Min(T) \in T /\ \A y \in T : Min(T) <= y
  BY <1>5, LeastElement
<1>7. PICK f \in C : Len(k) - Len(f) = Min(T)
  BY <1>6
<1>8. \A q \in C : Len(k) - Len(q) \in T
  BY <1>4
<1> HIDE DEF T
<1>9. \A q \in C : Len(q) <= Len(f)
  BY <1>4, <1>6, <1>7, <1>8
<1> DEFINE g == LongestCommonPrefix(S)
<1>10. g \in C /\ \A q \in C : Len(q) <= Len(g)
  BY <1>9 DEF LongestCommonPrefix, C
<1> HIDE DEF g
<1>11. ASSUME NEW q \in C
       PROVE  IsPrefix(q, g)
  BY <1>1, <1>2, <1>10, PrefixNested
<1>12. Longest(g, S)
  BY <1>1, <1>10, <1>11 DEF Longest
<1>. QED  BY <1>12 DEF g

-----------------------------------------------------------------------------
(* The order of the entries, and the ends of a block. *)

\* A finite set has a first element in every order that is transitive and
\* total on it.
FirstIn(R, S, m) == m \in S /\ \A x \in S \ {m} : <<m, x>> \in R

LEMMA FirstExists ==
    ASSUME NEW R, NEW S, IsFiniteSet(S), S # {},
           \A x, y \in S : x # y => <<x, y>> \in R \/ <<y, x>> \in R,
           \A x, y, z \in S : <<x, y>> \in R /\ <<y, z>> \in R => <<x, z>> \in R
    PROVE  \E m \in S : FirstIn(R, S, m)
<1> DEFINE I == {n \in Nat : \A T \in SUBSET S : T # {} /\ Cardinality(T) = n
                                => \E m \in T : FirstIn(R, T, m)}
<1>1. \A T \in SUBSET S : IsFiniteSet(T) /\ Cardinality(T) \in Nat
                            /\ (Cardinality(T) = 0 <=> T = {})
  BY FS_Subset, FS_CardinalityType, FS_EmptySet
<1>2. 0 \in I
  BY <1>1
<1>3. ASSUME NEW n \in Nat, n \in I
      PROVE  n + 1 \in I
  <2> SUFFICES ASSUME NEW T \in SUBSET S, T # {}, Cardinality(T) = n + 1
               PROVE  \E m \in T : FirstIn(R, T, m)
    BY <1>3
  <2>1. PICK t \in T : TRUE
    OBVIOUS
  <2> DEFINE U == T \ {t}
  <2>2. U \in SUBSET S /\ Cardinality(U) = n
    <3>1. IsFiniteSet(T) /\ U \in SUBSET S
      BY <1>1
    <3>2. Cardinality(U) = Cardinality(T) - 1
      BY <2>1, <3>1, FS_RemoveElement
    <3>. QED  BY <3>1, <3>2
  <2>3. CASE U = {}
    BY <2>1, <2>3 DEF FirstIn
  <2>4. CASE U # {}
    <3>1. PICK u \in U : FirstIn(R, U, u)
      BY <1>3, <2>2, <2>4
    <3>2. CASE <<t, u>> \in R
      <4>1. FirstIn(R, T, t)
        BY <2>1, <3>1, <3>2 DEF FirstIn
      <4>. QED  BY <4>1, <2>1
    <3>3. CASE <<u, t>> \in R
      BY <2>1, <3>1, <3>3 DEF FirstIn
    <3>. QED  BY <2>1, <3>1, <3>2, <3>3
  <2>. QED  BY <2>3, <2>4
<1> HIDE DEF I
<1>4. Cardinality(S) \in I
  BY <1>1, <1>2, <1>3, InductionOnSet
<1>. QED  BY <1>4 DEF I

\* The order compares digits; a key that has ended has the digit 0.
Digit(a, i) == IF i \in 1..Len(a) THEN a[i] + 1 ELSE 0

Before(a, b) == \E d \in Nat \ {0} : /\ Digit(a, d) < Digit(b, d)
                                     /\ \A i \in 1..(d - 1) : Digit(a, i) = Digit(b, i)

LEMMA DigitFacts ==
    ASSUME NEW a \in Path
    PROVE  \A i \in Nat \ {0} : /\ Digit(a, i) \in Nat
                                /\ Digit(a, i) = 0 <=> Len(a) < i
                                /\ i <= Len(a) => Digit(a, i) = a[i] + 1 /\ a[i] \in Nat
<1>1. Len(a) \in Nat /\ \A i \in 1..Len(a) : a[i] \in Nat
  BY LenOfPath, NibbleAssumption
<1>. QED  BY <1>1 DEF Digit

LEMMA DigitIn ==
    ASSUME NEW a \in Path, NEW i \in 1..Len(a)
    PROVE  Digit(a, i) = a[i] + 1 /\ a[i] \in Nat
BY LenOfPath, NibbleAssumption DEF Digit

\* Two keys have the same digits up to a position where both go on alike.
LEMMA SameDigits ==
    ASSUME NEW a \in Path, NEW b \in Path, NEW d \in Nat \ {0}, d <= Len(a), d <= Len(b)
    PROVE  (\A i \in 1..(d - 1) : Digit(a, i) = Digit(b, i))
              <=> SubSeq(a, 1, d - 1) = SubSeq(b, 1, d - 1)
<1> DEFINE u == SubSeq(a, 1, d - 1)
           w == SubSeq(b, 1, d - 1)
<1>1. Len(a) \in Nat /\ Len(b) \in Nat
  BY LenOfPath
<1>2. u \in Seq(Nibble) /\ Len(u) = d - 1 /\ \A i \in 1..(d - 1) : u[i] = a[i]
  BY <1>1 DEF Path
<1>3. w \in Seq(Nibble) /\ Len(w) = d - 1 /\ \A i \in 1..(d - 1) : w[i] = b[i]
  BY <1>1 DEF Path
<1> HIDE DEF u, w
<1>4. \A i \in 1..(d - 1) : /\ Digit(a, i) = u[i] + 1 /\ u[i] \in Nat
                             /\ Digit(b, i) = w[i] + 1 /\ w[i] \in Nat
  <2> SUFFICES ASSUME NEW i \in 1..(d - 1)
               PROVE  /\ Digit(a, i) = u[i] + 1 /\ u[i] \in Nat
                      /\ Digit(b, i) = w[i] + 1 /\ w[i] \in Nat
    OBVIOUS
  <2>1. i \in 1..Len(a) /\ i \in 1..Len(b)
    BY <1>1
  <2>2. Digit(a, i) = a[i] + 1 /\ a[i] \in Nat /\ Digit(b, i) = b[i] + 1 /\ b[i] \in Nat
    BY <2>1, DigitIn
  <2>. QED  BY <1>2, <1>3, <2>2
<1>5. u = w <=> \A i \in 1..(d - 1) : u[i] = w[i]
  BY <1>2, <1>3, SeqEqual
<1>6. (\A i \in 1..(d - 1) : Digit(a, i) = Digit(b, i)) <=> u = w
  BY <1>4, <1>5
<1>. QED  BY <1>6 DEF u, w

LEMMA PrecedesIs ==
    ASSUME NEW a \in Path, NEW b \in Path
    PROVE  Precedes(a, b) <=> Before(a, b)
<1>0. Len(a) \in Nat /\ Len(b) \in Nat /\ DOMAIN a = 1..Len(a) /\ DOMAIN b = 1..Len(b)
  BY DEF Path
<1>1. ASSUME IsStrictPrefix(a, b)
      PROVE  Before(a, b)
  <2>1. IsPrefix(a, b) /\ a # b
    BY <1>1 DEF IsStrictPrefix
  <2>2. Len(a) < Len(b) /\ \A i \in 1..Len(a) : a[i] = b[i]
    BY <1>0, <2>1, PrefixIs, PrefixSame
  <2> DEFINE d == Len(a) + 1
  <2>3. d \in Nat \ {0} /\ d <= Len(b) /\ Len(a) < d /\ d - 1 = Len(a)
    BY <1>0, <2>2
  <2>4. Digit(a, d) < Digit(b, d)
    BY <2>3, DigitFacts
  <2>5. \A i \in 1..(d - 1) : Digit(a, i) = Digit(b, i)
    <3> SUFFICES ASSUME NEW i \in 1..Len(a)
                 PROVE  Digit(a, i) = Digit(b, i)
      BY <2>3
    <3>1. i \in 1..Len(b) /\ a[i] = b[i]
      BY <1>0, <2>2
    <3>. QED  BY <3>1, DigitIn
  <2>. QED  BY <2>3, <2>4, <2>5 DEF Before
<1>2. ASSUME NEW i \in DOMAIN a \cap DOMAIN b, a[i] < b[i],
             SubSeq(a, 1, i - 1) = SubSeq(b, 1, i - 1)
      PROVE  Before(a, b)
  <2>1. i \in Nat \ {0} /\ i <= Len(a) /\ i <= Len(b)
    BY <1>0
  <2>2. Digit(a, i) < Digit(b, i)
    BY <1>2, <2>1, DigitFacts
  <2>. QED  BY <1>2, <2>1, <2>2, SameDigits DEF Before
<1>3. ASSUME NEW d \in Nat \ {0}, Digit(a, d) < Digit(b, d),
             \A i \in 1..(d - 1) : Digit(a, i) = Digit(b, i)
      PROVE  Precedes(a, b)
  <2>1. d <= Len(b) /\ \A i \in 1..(d - 1) : i <= Len(b)
    BY <1>0, <1>3, DigitFacts
  <2>2. CASE d <= Len(a)
    <3>1. d \in DOMAIN a \cap DOMAIN b /\ a[d] < b[d]
      <4>1. d \in 1..Len(a) /\ d \in 1..Len(b)
        BY <1>0, <2>1, <2>2
      <4>. QED  BY <1>0, <1>3, <4>1, DigitIn
    <3>2. SubSeq(a, 1, d - 1) = SubSeq(b, 1, d - 1)
      BY <1>3, <2>1, <2>2, SameDigits
    <3>. QED  BY <3>1, <3>2 DEF Precedes
  <2>3. CASE Len(a) < d
    <3>1. d - 1 <= Len(a)
      <4> SUFFICES ASSUME Len(a) < d - 1
                   PROVE  FALSE
        BY <1>0
      <4>1. d - 1 \in Nat \ {0} /\ d - 1 \in 1..(d - 1) /\ d - 1 <= Len(b)
        BY <1>0, <2>1
      <4>. QED  BY <1>0, <1>3, <4>1, DigitFacts
    <3>2. Len(a) = d - 1
      BY <1>0, <2>3, <3>1
    <3>3. \A i \in 1..Len(a) : a[i] = b[i]
      <4> SUFFICES ASSUME NEW i \in 1..Len(a)
                   PROVE  a[i] = b[i]
        OBVIOUS
      <4>1. i \in 1..Len(b) /\ Digit(a, i) = Digit(b, i)
        BY <1>0, <1>3, <2>1, <3>2
      <4>. QED  BY <4>1, DigitIn
    <3>4. IsPrefix(a, b) /\ a # b
      BY <1>0, <2>1, <2>3, <3>3, PrefixIs
    <3>. QED  BY <3>4 DEF Precedes, IsStrictPrefix
  <2>. QED  BY <1>0, <2>2, <2>3
<1>4. Precedes(a, b) => Before(a, b)
  BY <1>1, <1>2 DEF Precedes
<1>5. Before(a, b) => Precedes(a, b)
  BY <1>3 DEF Before
<1>. QED  BY <1>4, <1>5

LEMMA BeforeTransitive ==
    ASSUME NEW a \in Path, NEW b \in Path, NEW c \in Path, Before(a, b), Before(b, c)
    PROVE  Before(a, c)
<1>1. PICK d \in Nat \ {0} : /\ Digit(a, d) < Digit(b, d)
                             /\ \A i \in 1..(d - 1) : Digit(a, i) = Digit(b, i)
  BY DEF Before
<1>2. PICK e \in Nat \ {0} : /\ Digit(b, e) < Digit(c, e)
                             /\ \A i \in 1..(e - 1) : Digit(b, i) = Digit(c, i)
  BY DEF Before
<1>3. \A i \in Nat \ {0} : Digit(a, i) \in Nat /\ Digit(b, i) \in Nat /\ Digit(c, i) \in Nat
  BY DigitFacts
<1> DEFINE f == IF d <= e THEN d ELSE e
<1>4. f \in Nat \ {0} /\ Digit(a, f) < Digit(c, f)
  BY <1>1, <1>2, <1>3
<1>5. \A i \in 1..(f - 1) : Digit(a, i) = Digit(c, i)
  BY <1>1, <1>2
<1>. QED  BY <1>4, <1>5 DEF Before

LEMMA BeforeTotal ==
    ASSUME NEW a \in Path, NEW b \in Path, a # b
    PROVE  Before(a, b) \/ Before(b, a)
<1> DEFINE T == {i \in Nat \ {0} : Digit(a, i) # Digit(b, i)}
<1>0. Len(a) \in Nat /\ Len(b) \in Nat
  BY LenOfPath
<1>1. T # {}
  <2> SUFFICES ASSUME \A i \in Nat \ {0} : Digit(a, i) = Digit(b, i)
               PROVE  a = b
    OBVIOUS
  <2>1. Len(a) = Len(b)
    <3>1. Len(a) + 1 \in Nat \ {0} /\ Len(b) + 1 \in Nat \ {0}
      BY <1>0
    <3>2. Digit(a, Len(a) + 1) = 0 /\ Digit(b, Len(b) + 1) = 0
      BY <1>0, <3>1, DigitFacts
    <3>3. Len(b) < Len(a) + 1 /\ Len(a) < Len(b) + 1
      BY <1>0, <3>1, <3>2, DigitFacts
    <3>. QED  BY <1>0, <3>3
  <2>2. \A i \in 1..Len(a) : a[i] = b[i]
    BY <1>0, <2>1, DigitFacts
  <2>. QED  BY <2>1, <2>2, SeqEqual DEF Path
<1>2. Min(T) \in T /\ \A y \in T : Min(T) <= y
  BY <1>1, LeastElement
<1> DEFINE d == Min(T)
<1>3. d \in Nat \ {0} /\ Digit(a, d) # Digit(b, d)
  BY <1>2
<1>4. \A i \in 1..(d - 1) : Digit(a, i) = Digit(b, i)
  BY <1>2
<1> HIDE DEF d, T
<1>5. Digit(a, d) < Digit(b, d) \/ Digit(b, d) < Digit(a, d)
  BY <1>3, DigitFacts
<1>. QED  BY <1>3, <1>4, <1>5 DEF Before

LEMMA BeforeNotAfter ==
    ASSUME NEW a \in Path, NEW b \in Path, Before(a, b)
    PROVE  ~Before(b, a) /\ a # b
<1>1. PICK d \in Nat \ {0} : /\ Digit(a, d) < Digit(b, d)
                             /\ \A i \in 1..(d - 1) : Digit(a, i) = Digit(b, i)
  BY DEF Before
<1>2. \A i \in Nat \ {0} : Digit(a, i) \in Nat /\ Digit(b, i) \in Nat
  BY DigitFacts
<1>3. ASSUME NEW e \in Nat \ {0}, Digit(b, e) < Digit(a, e),
             \A i \in 1..(e - 1) : Digit(b, i) = Digit(a, i)
      PROVE  FALSE
  BY <1>1, <1>2, <1>3
<1>. QED  BY <1>1, <1>2, <1>3 DEF Before

LEMMA EndsExist ==
    ASSUME NEW S \in SUBSET Path, IsFiniteSet(S), S # {}
    PROVE  /\ FirstKey(S) \in S /\ \A l \in S \ {FirstKey(S)} : Before(FirstKey(S), l)
           /\ LastKey(S) \in S /\ \A l \in S \ {LastKey(S)} : Before(l, LastKey(S))
<1>1. \A x, y \in S : Precedes(x, y) <=> Before(x, y)
  BY PrecedesIs
<1> DEFINE R == {x \in S \X S : Before(x[1], x[2])}
           Q == {x \in S \X S : Before(x[2], x[1])}
<1>2. \A x, y \in S : <<x, y>> \in R <=> Before(x, y)
  OBVIOUS
<1>3. \A x, y \in S : <<x, y>> \in Q <=> Before(y, x)
  OBVIOUS
<1> HIDE DEF R, Q
<1>4. \A x, y \in S : x # y => Before(x, y) \/ Before(y, x)
  BY BeforeTotal
<1>5. \A x, y, z \in S : Before(x, y) /\ Before(y, z) => Before(x, z)
  <2> TAKE x, y, z \in S
  <2>1. x \in Path /\ y \in Path /\ z \in Path
    OBVIOUS
  <2>. QED  BY <2>1, BeforeTransitive
<1>6. \E m \in S : FirstIn(R, S, m)
  <2>1. \A x, y \in S : x # y => <<x, y>> \in R \/ <<y, x>> \in R
    BY <1>2, <1>4
  <2>2. \A x, y, z \in S : <<x, y>> \in R /\ <<y, z>> \in R => <<x, z>> \in R
    BY <1>2, <1>5
  <2>. QED  BY <2>1, <2>2, FirstExists
<1>7. \E m \in S : FirstIn(Q, S, m)
  <2>1. \A x, y \in S : x # y => <<x, y>> \in Q \/ <<y, x>> \in Q
    BY <1>3, <1>4
  <2>2. \A x, y, z \in S : <<x, y>> \in Q /\ <<y, z>> \in Q => <<x, z>> \in Q
    BY <1>3, <1>5
  <2>. QED  BY <2>1, <2>2, FirstExists
<1>8. \E m \in S : \A l \in S \ {m} : Precedes(m, l)
  BY <1>1, <1>2, <1>6 DEF FirstIn
<1>9. \E m \in S : \A l \in S \ {m} : Precedes(l, m)
  BY <1>1, <1>3, <1>7 DEF FirstIn
<1> DEFINE f == FirstKey(S)
           g == LastKey(S)
<1>10. f \in S /\ \A l \in S \ {f} : Precedes(f, l)
  BY <1>8 DEF FirstKey
<1>11. g \in S /\ \A l \in S \ {g} : Precedes(l, g)
  BY <1>9 DEF LastKey
<1>. QED  BY <1>1, <1>10, <1>11

\* What the first and the last key share, every key between them has.
LEMMA SharedBetween ==
    ASSUME NEW q \in Path, NEW a \in Path, NEW b \in Path, NEW k \in Path,
           IsPrefix(q, a), IsPrefix(q, b),
           k = a \/ Before(a, k), k = b \/ Before(k, b)
    PROVE  IsPrefix(q, k)
<1>0. Len(q) \in Nat /\ Len(a) \in Nat /\ Len(b) \in Nat /\ Len(k) \in Nat
  BY LenOfPath
<1>1. \A i \in 1..Len(q) : Digit(a, i) = Digit(q, i) /\ Digit(b, i) = Digit(q, i)
  <2> TAKE i \in 1..Len(q)
  <2>1. i \in 1..Len(a) /\ i \in 1..Len(b) /\ q[i] = a[i] /\ q[i] = b[i]
    BY <1>0, PrefixIs
  <2>. QED  BY <2>1, DigitIn
<1> DEFINE T == {i \in 1..Len(q) : Digit(k, i) # Digit(q, i)}
<1>2. CASE T = {}
  <2>1. \A i \in 1..Len(q) : i <= Len(k) /\ q[i] = k[i]
    <3> TAKE i \in 1..Len(q)
    <3>1. Digit(k, i) = Digit(q, i) /\ Digit(q, i) = q[i] + 1 /\ q[i] \in Nat
      BY <1>2, DigitIn
    <3>2. i \in 1..Len(k)
      BY <1>0, <3>1 DEF Digit
    <3>. QED  BY <3>1, <3>2, DigitIn, SMTT(30)
  <2>2. Len(q) <= Len(k)
    BY <1>0, <2>1
  <2>. QED  BY <2>1, <2>2, PrefixIs
<1>3. CASE T # {}
  <2>1. T \in SUBSET Nat
    OBVIOUS
  <2>2. Min(T) \in T /\ \A y \in T : Min(T) <= y
    BY <1>3, <2>1, LeastElement
  <2> DEFINE d == Min(T)
  <2>3. d \in 1..Len(q) /\ Digit(k, d) # Digit(q, d)
    BY <2>2
  <2>4. \A i \in 1..(d - 1) : Digit(k, i) = Digit(q, i) /\ i \in 1..Len(q)
    BY <1>0, <2>2
  <2> HIDE DEF d, T
  <2>5. Digit(k, d) \in Nat /\ Digit(q, d) \in Nat /\ d \in Nat \ {0}
    BY <2>3, DigitFacts
  <2>6. CASE Digit(k, d) < Digit(q, d)
    <3>1. Before(k, a)
      BY <1>1, <2>3, <2>4, <2>5, <2>6 DEF Before
    <3>. QED  BY <3>1, BeforeNotAfter
  <2>7. CASE Digit(q, d) < Digit(k, d)
    <3>1. Before(b, k)
      BY <1>1, <2>3, <2>4, <2>5, <2>7 DEF Before
    <3>. QED  BY <3>1, BeforeNotAfter
  <2>. QED  BY <2>3, <2>5, <2>6, <2>7
<1>. QED  BY <1>2, <1>3

\* The common prefix of the ends of a block is that of the whole block.
LEMMA EndsOfBlock ==
    ASSUME NEW S \in SUBSET Path, IsFiniteSet(S), S # {}
    PROVE  /\ CommonPrefix(FirstKey(S), LastKey(S)) = LongestCommonPrefix(S)
           /\ FirstKey(S) = LastKey(S) <=> \A k, l \in S : k = l
<1> DEFINE a == FirstKey(S)
           b == LastKey(S)
<1>1. /\ a \in S /\ \A l \in S \ {a} : Before(a, l)
      /\ b \in S /\ \A l \in S \ {b} : Before(l, b)
  BY EndsExist
<1> HIDE DEF a, b
<1>2. LongestCommonPrefix({a, b}) = LongestCommonPrefix(S)
  <2> DEFINE f == LongestCommonPrefix({a, b})
             g == LongestCommonPrefix(S)
  <2>1. Longest(f, {a, b}) /\ Longest(g, S)
    BY <1>1, LongestIs
  <2> HIDE DEF f, g
  <2>2. f \in Path /\ IsPrefix(f, a) /\ IsPrefix(f, b)
    BY <2>1 DEF Longest
  <2>3. \A k \in S : IsPrefix(f, k)
    <3> TAKE k \in S
    <3>1. (k = a \/ Before(a, k)) /\ (k = b \/ Before(k, b)) /\ k \in Path /\ a \in Path /\ b \in Path
      BY <1>1
    <3>. QED  BY <2>2, <3>1, SharedBetween
  <2>4. \A q \in Path : (\A k \in S : IsPrefix(q, k)) => IsPrefix(q, f)
    BY <1>1, <2>1 DEF Longest
  <2>5. Longest(f, S)
    BY <2>2, <2>3, <2>4 DEF Longest
  <2>6. f = g
    BY <2>1, <2>5, LongestUnique
  <2>. QED  BY <2>6 DEF f, g
<1>3. a = b => \A k \in S : k = a
  <2> SUFFICES ASSUME a = b, NEW k \in S, k # a
               PROVE  FALSE
    OBVIOUS
  <2>1. Before(a, k) /\ Before(k, a) /\ a \in Path /\ k \in Path
    BY <1>1
  <2>. QED  BY <2>1, BeforeNotAfter
<1>4. (\A k, l \in S : k = l) => a = b
  BY <1>1
<1>. QED  BY <1>2, <1>3, <1>4 DEF a, b, CommonPrefix

\* Keys are bounded in length.
LEMMA LongestKey ==
    ASSUME NEW m \in Map
    PROVE  \E H \in Nat : \A p \in Paths(m) : p \in Path /\ Len(p) <= H
<1> DEFINE S == DOMAIN m
<1>1. /\ S \in SUBSET Path /\ IsFiniteSet(S)
      /\ \A p \in Paths(m) : p \in Path /\ \E k \in S : IsPrefix(p, k)
  BY KeysOfMap, PrefixesAre DEF Paths
<1> HIDE DEF S
<1>2. CASE S = {}
  BY <1>1, <1>2
<1>3. CASE S # {}
  <2> DEFINE R == {x \in S \X S : Len(x[2]) <= Len(x[1])}
  <2>1. \A x, y \in S : <<x, y>> \in R <=> Len(y) <= Len(x)
    OBVIOUS
  <2>2. \A x \in S : Len(x) \in Nat
    BY <1>1, LenOfPath
  <2> HIDE DEF R
  <2>3. \A x, y \in S : x # y => <<x, y>> \in R \/ <<y, x>> \in R
    BY <2>1, <2>2
  <2>4. \A x, y, z \in S : <<x, y>> \in R /\ <<y, z>> \in R => <<x, z>> \in R
    BY <2>1, <2>2
  <2>5. PICK k \in S : FirstIn(R, S, k)
    BY <1>1, <1>3, <2>3, <2>4, FirstExists
  <2>6. \A x \in S : Len(x) <= Len(k)
    <3>1. \A x \in S \ {k} : <<k, x>> \in R
      BY <2>5 DEF FirstIn
    <3>2. \A x \in S \ {k} : Len(x) <= Len(k)
      BY <2>1, <3>1
    <3>. QED  BY <2>2, <3>2
  <2>7. ASSUME NEW p \in Paths(m)
        PROVE  Len(p) <= Len(k)
    <3>1. PICK x \in S : IsPrefix(p, x)
      BY <1>1
    <3>2. Len(p) <= Len(x)
      BY <1>1, <3>1, PrefixIs
    <3>. QED  BY <1>1, <2>2, <2>6, <3>2, LenOfPath
  <2>. QED  BY <1>1, <2>2, <2>5, <2>7
<1>. QED  BY <1>2, <1>3

-----------------------------------------------------------------------------
(* Nodes. *)

\* The path of the node that the routing prefix p leads to.
Full(m, p) == IF p = <<>> THEN p ELSE LongestCommonPrefix(Block(m, p))

Child(m, p, c) == Append(Full(m, p), c)

LEMMA BlockOfExtension ==
    ASSUME NEW m \in Map, NEW p \in Path, NEW q \in Path, IsPrefix(p, q)
    PROVE  Block(m, q) \subseteq Block(m, p)
BY KeysOfMap, PrefixTrans DEF Block

LEMMA FullIs ==
    ASSUME NEW m \in Map, NEW p \in Paths(m)
    PROVE  /\ p \in Path /\ Block(m, p) # {}
           /\ Full(m, p) \in Path /\ IsPrefix(p, Full(m, p))
           /\ Block(m, Full(m, p)) = Block(m, p)
           /\ p # <<>> => Longest(Full(m, p), Block(m, p))
<1>1. p \in Path /\ Block(m, p) # {} /\ Block(m, p) \in SUBSET Path
  BY PathsArePaths, BlockIs
<1>2. CASE p = <<>>
  BY <1>1, <1>2, PrefixSelf DEF Full
<1>3. CASE p # <<>>
  <2> DEFINE f == Full(m, p)
  <2>1. Longest(f, Block(m, p))
    BY <1>1, <1>3, LongestIs DEF Full
  <2> HIDE DEF f
  <2>2. IsPrefix(p, f) /\ f \in Path
    BY <1>1, <2>1 DEF Longest, Block
  <2>3. \A k \in Block(m, p) : k \in DOMAIN m /\ IsPrefix(f, k)
    BY <2>1 DEF Longest, Block
  <2>4. Block(m, p) \subseteq Block(m, f)
    BY <2>3 DEF Block
  <2>5. Block(m, f) \subseteq Block(m, p)
    BY <1>1, <2>2, BlockOfExtension
  <2>. QED  BY <1>1, <2>1, <2>2, <2>4, <2>5 DEF f
<1>. QED  BY <1>2, <1>3

LEMMA ChildIs ==
    ASSUME NEW m \in Map, NEW p \in Paths(m), NEW c \in Nibble
    PROVE  /\ Child(m, p, c) \in Path /\ Child(m, p, c) # <<>>
           /\ Len(p) < Len(Child(m, p, c)) /\ IsPrefix(p, Child(m, p, c))
           /\ IsPrefix(Full(m, p), Child(m, p, c))
           /\ Block(m, Child(m, p, c)) # {} <=> Child(m, p, c) \in Paths(m)
<1> DEFINE f == Full(m, p)
           a == Append(f, c)
<1>1. p \in Path /\ f \in Path /\ IsPrefix(p, f)
  BY FullIs
<1> HIDE DEF f
<1>2. /\ a \in Path /\ a # <<>> /\ Len(a) = Len(f) + 1
      /\ \A i \in 1..Len(f) : a[i] = f[i]
  BY <1>1, ChildFacts
<1> HIDE DEF a
<1>3. IsPrefix(f, a)
  BY <1>1, <1>2, PrefixIs, LenOfPath
<1>4. IsPrefix(p, a) /\ Len(p) < Len(a)
  BY <1>1, <1>2, <1>3, PrefixTrans, PrefixIs, LenOfPath
<1>5. Block(m, a) # {} <=> a \in Paths(m)
  BY <1>2, BlockIs
<1>. QED  BY <1>2, <1>3, <1>4, <1>5 DEF a, f, Child

\* The value of the node at p, and its hash.
ValueAt(m, p) == {MerkleValue(m[k]) : k \in DOMAIN m \cap {Full(m, p)}}

Hashed(m, p, children) ==
    PathMerkle(SubSeq(Full(m, p), Len(p) + 1, Len(Full(m, p))), Len(p),
               NodeMerkle(children, ValueAt(m, p)))

LEMMA ValueOfBlock ==
    ASSUME NEW m \in Map, NEW p \in Paths(m)
    PROVE  {x \in Block(m, p) : Len(x) = Len(Full(m, p))} = DOMAIN m \cap {Full(m, p)}
<1> DEFINE f == Full(m, p)
<1>1. f \in Path /\ Block(m, f) = Block(m, p)
  BY FullIs
<1> HIDE DEF f
<1>2. \A k \in DOMAIN m : k \in Path
  BY KeysOfMap
<1>3. \A x \in Block(m, p) : x \in DOMAIN m /\ IsPrefix(f, x)
  BY <1>1 DEF Block
<1>4. \A x \in Block(m, p) : Len(x) = Len(f) => x = f
  BY <1>1, <1>2, <1>3, PrefixSame
<1>5. f \in DOMAIN m => f \in Block(m, p)
  BY <1>1, PrefixSelf DEF Block
<1>6. {x \in Block(m, p) : Len(x) = Len(f)} = DOMAIN m \cap {f}
  BY <1>3, <1>4, <1>5
<1>. QED  BY <1>6 DEF f

PlainChildren(m, p, below) ==
    [c \in Nibble |-> IF Block(m, Child(m, p, c)) # {} THEN below[Child(m, p, c)]
                      ELSE MERKLE_NULL_NODE]

LEMMA MerkleForNodeIs ==
    ASSUME NEW m \in Map, NEW p \in Paths(m), NEW below
    PROVE  MerkleForNode(m, p, below) = Hashed(m, p, PlainChildren(m, p, below))
BY ValueOfBlock DEF MerkleForNode, Hashed, ValueAt, PlainChildren, Child, Full

\* A node takes the hashes of its children and no others.
LEMMA OnlyChildren ==
    ASSUME NEW m \in Map, NEW p \in Paths(m), NEW g, NEW h,
           \A q \in Paths(m) : Len(p) < Len(q) => g[q] = h[q]
    PROVE  MerkleForNode(m, p, g) = MerkleForNode(m, p, h)
<1>1. PlainChildren(m, p, g) = PlainChildren(m, p, h)
  BY ChildIs DEF PlainChildren
<1>. QED  BY <1>1, MerkleForNodeIs

LEMMA MerkleAtIs ==
    ASSUME NEW m \in Map
    PROVE  \A p \in Paths(m) : MerkleAt(m)[p] = MerkleForNode(m, p, MerkleAt(m))
<1>1. PICK H \in Nat : \A p \in Paths(m) : p \in Path /\ Len(p) <= H
  BY LongestKey
<1>2. \A p \in Paths(m) : Len(p) \in Nat
  BY <1>1, LenOfPath
<1> DEFINE F(g) == [p \in Paths(m) |-> MerkleForNode(m, p, g)]
           Deep(g, n) == /\ g = [p \in Paths(m) |-> g[p]]
                         /\ \A p \in Paths(m) :
                               H - Len(p) < n => g[p] = MerkleForNode(m, p, g)
           I == {n \in Nat : \E g : Deep(g, n)}
<1>3. 0 \in I
  <2>1. Deep([p \in Paths(m) |-> 0], 0)
    BY <1>1, <1>2
  <2>. QED  BY <2>1
<1>4. ASSUME NEW n \in Nat, n \in I
      PROVE  n + 1 \in I
  <2>1. PICK g : Deep(g, n)
    BY <1>4
  <2> DEFINE h == [p \in Paths(m) |-> IF H - Len(p) = n THEN MerkleForNode(m, p, g) ELSE g[p]]
  <2>2. ASSUME NEW p \in Paths(m), H - Len(p) < n + 1
        PROVE  h[p] = MerkleForNode(m, p, h)
    <3>1. \A q \in Paths(m) : Len(p) < Len(q) => g[q] = h[q]
      BY <1>2, <2>2
    <3>2. MerkleForNode(m, p, g) = MerkleForNode(m, p, h)
      <4> HIDE DEF h
      <4>. QED  BY <3>1, OnlyChildren
    <3>3. h[p] = MerkleForNode(m, p, g)
      BY <1>2, <2>1, <2>2
    <3>. QED  BY <3>2, <3>3
  <2>3. h = [p \in Paths(m) |-> h[p]]
    OBVIOUS
  <2> HIDE DEF h
  <2>4. Deep(h, n + 1)
    BY <2>2, <2>3
  <2>. QED  BY <2>4
<1> HIDE DEF I
<1>5. H + 1 \in I
  BY <1>3, <1>4, InductionOnSet
<1>6. PICK g : Deep(g, H + 1)
  BY <1>5 DEF I
<1>7. \A p \in Paths(m) : g[p] = MerkleForNode(m, p, g)
  BY <1>1, <1>2, <1>6
<1>8. g = F(g)
  BY <1>6, <1>7
<1> DEFINE c == CHOOSE f : f = F(f)
<1>9. c = F(c)
  BY <1>8
<1>10. MerkleAt(m) = c
  BY DEF MerkleAt
<1> HIDE DEF c
<1>. QED  BY <1>9, <1>10

-----------------------------------------------------------------------------
(* The walks, node by node. *)

\* What calls and cached hashes give for the children of full.
Results(f, full, C) == {<<c, f[Append(full, c)]>> : c \in C}

HashesOf(kept, g, full, cached, others) ==
    [c \in Nibble |-> IF c \in cached THEN kept[Append(full, c)]
                      ELSE IF c \in others THEN g[Append(full, c)].hash
                      ELSE MERKLE_NULL_NODE]

FreshOf(g, full, others) == UNION {g[Append(full, c)].fresh : c \in others}

NodeHash(rp, full, children, value) ==
    PathMerkle(SubSeq(full, Len(rp) + 1, Len(full)), Len(rp), NodeMerkle(children, value))

LEMMA CombinedIs ==
    ASSUME NEW pol, NEW rp, NEW full, NEW single, NEW value, NEW kept, NEW g,
           NEW cached \in SUBSET Nibble, NEW others \in SUBSET Nibble, cached \cap others = {},
           NEW hash, hash = NodeHash(rp, full, HashesOf(kept, g, full, cached, others), value)
    PROVE  Combined(pol, rp, full, single, value,
                    Results(kept, full, cached), Results(g, full, others))
              = [hash  |-> hash,
                 fresh |-> FreshOf(g, full, others) \cup Retained(pol, rp, hash, single)]
<1> DEFINE K(c)   == kept[Append(full, c)]
           G(c)   == g[Append(full, c)]
           hits   == {<<c, K(c)>> : c \in cached}
           walked == {<<c, G(c)>> : c \in others}
           hashes == hits \cup {<<w[1], w[2].hash>> : w \in walked}
           found  == [c \in Nibble |-> IF \E x \in hashes : x[1] = c
                                       THEN (CHOOSE x \in hashes : x[1] = c)[2]
                                       ELSE MERKLE_NULL_NODE]
           wanted == [c \in Nibble |-> IF c \in cached THEN K(c)
                                       ELSE IF c \in others THEN G(c).hash
                                       ELSE MERKLE_NULL_NODE]
<1>0. /\ hits = Results(kept, full, cached) /\ walked = Results(g, full, others)
      /\ wanted = HashesOf(kept, g, full, cached, others)
      /\ {G(c).fresh : c \in others} = {g[Append(full, c)].fresh : c \in others}
  BY DEF Results, HashesOf
<1>1. Combined(pol, rp, full, single, value, hits, walked)
         = LET h == NodeHash(rp, full, found, value)
           IN [hash  |-> h,
               fresh |-> (UNION {w[2].fresh : w \in walked}) \cup Retained(pol, rp, h, single)]
  BY DEF Combined, NodeHash
<1> HIDE DEF K, G
<1>w. /\ \A w \in walked : w[1] \in others /\ w = <<w[1], G(w[1])>>
      /\ \A c \in others : <<c, G(c)>> \in walked
  OBVIOUS
<1>2. {<<w[1], w[2].hash>> : w \in walked} = {<<c, G(c).hash>> : c \in others}
  <2> HIDE DEF walked
  <2>1. \A w \in walked : w[1] \in others /\ w[2] = G(w[1])
    BY <1>w
  <2>2. \A c \in others : \E w \in walked : w[1] = c
    BY <1>w
  <2>. QED  BY <2>1, <2>2
<1>3. {w[2].fresh : w \in walked} = {G(c).fresh : c \in others}
  <2> HIDE DEF walked
  <2>1. \A w \in walked : w[1] \in others /\ w[2] = G(w[1])
    BY <1>w
  <2>2. \A c \in others : \E w \in walked : w[1] = c
    BY <1>w
  <2>. QED  BY <2>1, <2>2
<1>4. \A x : x \in hashes <=> \/ \E c \in cached : x = <<c, K(c)>>
                              \/ \E c \in others : x = <<c, G(c).hash>>
  BY <1>2
<1>5. found = wanted
  <2> SUFFICES ASSUME NEW c \in Nibble
               PROVE  found[c] = wanted[c]
    OBVIOUS
  <2> HIDE DEF hashes
  <2>1. CASE c \in cached
    <3>1. /\ <<c, K(c)>> \in hashes
          /\ \A x \in hashes : x[1] = c => x = <<c, K(c)>>
      BY <1>4, <2>1
    <3>2. (CHOOSE x \in hashes : x[1] = c)[2] = K(c)
      BY <3>1
    <3>. QED  BY <2>1, <3>1, <3>2
  <2>2. CASE c \in others
    <3>1. /\ <<c, G(c).hash>> \in hashes
          /\ \A x \in hashes : x[1] = c => x = <<c, G(c).hash>>
      BY <1>4, <2>2
    <3>2. (CHOOSE x \in hashes : x[1] = c)[2] = G(c).hash
      BY <3>1
    <3>. QED  BY <2>2, <3>1, <3>2
  <2>3. CASE c \notin cached /\ c \notin others
    <3>1. ~\E x \in hashes : x[1] = c
      BY <1>4, <2>3
    <3>. QED  BY <2>3, <3>1
  <2>. QED  BY <2>1, <2>2, <2>3
<1> HIDE DEF found, wanted, hits, walked
<1>6. NodeHash(rp, full, found, value) = hash
  BY <1>0, <1>5
<1>7. UNION {w[2].fresh : w \in walked} = FreshOf(g, full, others)
  BY <1>0, <1>3 DEF FreshOf
<1>8. Combined(pol, rp, full, single, value, hits, walked)
         = [hash  |-> NodeHash(rp, full, found, value),
            fresh |-> (UNION {w[2].fresh : w \in walked})
                         \cup Retained(pol, rp, NodeHash(rp, full, found, value), single)]
  BY <1>1
<1>9. Combined(pol, rp, full, single, value, hits, walked)
         = [hash |-> hash, fresh |-> FreshOf(g, full, others) \cup Retained(pol, rp, hash, single)]
  BY <1>6, <1>7, <1>8, Zenon
<1>. QED  BY <1>0, <1>9, Zenon

\* Does a walk leave the hash of the node at p behind?
Keeps(m, pol, p) == pol = "Full" \/ \E k, l \in Block(m, p) : k # l

MemoChildren(m, kept, p, below) ==
    [c \in Nibble |-> IF Child(m, p, c) \in DOMAIN kept THEN kept[Child(m, p, c)]
                      ELSE IF Block(m, Child(m, p, c)) # {} THEN below[Child(m, p, c)].hash
                      ELSE MERKLE_NULL_NODE]

Visited(m, kept, p) == {c \in Nibble : /\ Child(m, p, c) \notin DOMAIN kept
                                       /\ Block(m, Child(m, p, c)) # {}}

MemoHash(m, kept, p, below) == Hashed(m, p, MemoChildren(m, kept, p, below))

MemoFresh(m, kept, pol, p, below) ==
    (UNION {below[Child(m, p, c)].fresh : c \in Visited(m, kept, p)})
       \cup (IF Keeps(m, pol, p) THEN {<<p, MemoHash(m, kept, p, below)>>} ELSE {})

Policy == {"Full", "SkipSingleton"}

LEMMA MemoNodeIs ==
    ASSUME NEW m \in Map, NEW p \in Paths(m), NEW kept, NEW pol \in Policy, NEW below,
           p \notin DOMAIN kept
    PROVE  MemoNode(m, kept, pol, p, below)
              = [hash  |-> MemoHash(m, kept, p, below),
                 fresh |-> MemoFresh(m, kept, pol, p, below)]
<1> DEFINE block  == Block(m, p)
           first  == FirstKey(block)
           last   == IF p # <<>> \/ pol = "SkipSingleton" THEN LastKey(block) ELSE first
           full   == IF p = <<>> THEN p ELSE CommonPrefix(first, last)
           cached == {c \in Nibble : Append(full, c) \in DOMAIN kept}
           others == {c \in Nibble \ cached : Block(m, Append(full, c)) # {}}
           value  == {MerkleValue(m[k]) : k \in DOMAIN m \cap {full}}
           children == HashesOf(kept, below, full, cached, others)
           hash   == NodeHash(p, full, children, value)
<1>1. block \in SUBSET Path /\ IsFiniteSet(block) /\ block # {}
  BY FullIs, BlockIs
<1>2. /\ CommonPrefix(FirstKey(block), LastKey(block)) = LongestCommonPrefix(block)
      /\ FirstKey(block) = LastKey(block) <=> \A k, l \in block : k = l
  <2> HIDE DEF block
  <2>. QED  BY <1>1, EndsOfBlock
<1>3. full = Full(m, p)
  BY <1>2 DEF Full
<1>4. MemoNode(m, kept, pol, p, below)
         = Combined(pol, p, full, first = last, value,
                    Results(kept, full, cached), Results(below, full, others))
  BY DEF MemoNode, Results
<1>5. Retained(pol, p, hash, first = last)
         = IF Keeps(m, pol, p) THEN {<<p, hash>>} ELSE {}
  <2>1. pol # "Full" => (first = last <=> \A k, l \in block : k = l)
    BY <1>2 DEF Policy
  <2> HIDE DEF first, last, hash
  <2>. QED  BY <2>1 DEF Retained, Keeps
<1> DEFINE single == first = last
<1>6. cached \in SUBSET Nibble /\ others \in SUBSET Nibble /\ cached \cap others = {}
  OBVIOUS
<1> HIDE DEF first, last, full, cached, others, value, single
<1>7. Combined(pol, p, full, single, value,
               Results(kept, full, cached), Results(below, full, others))
         = [hash  |-> hash,
            fresh |-> FreshOf(below, full, others) \cup Retained(pol, p, hash, single)]
  BY <1>6, CombinedIs
<1>8. children = MemoChildren(m, kept, p, below) /\ others = Visited(m, kept, p)
  BY <1>3 DEF cached, others, HashesOf, MemoChildren, Visited, Child
<1>9. value = ValueAt(m, p)
  BY <1>3 DEF value, ValueAt
<1>10. hash = MemoHash(m, kept, p, below)
  <2> HIDE DEF children
  <2>. QED  BY <1>3, <1>8, <1>9 DEF MemoHash, Hashed, NodeHash
<1>11. \A c \in Nibble : Append(full, c) = Child(m, p, c)
  BY <1>3 DEF Child
<1> HIDE DEF children, hash
<1>12. FreshOf(below, full, others)
          = UNION {below[Child(m, p, c)].fresh : c \in Visited(m, kept, p)}
  BY <1>3, <1>8 DEF Child, FreshOf
<1>13. Retained(pol, p, hash, single) = IF Keeps(m, pol, p) THEN {<<p, hash>>} ELSE {}
  BY <1>5 DEF single
<1>14. FreshOf(below, full, others) \cup Retained(pol, p, hash, single)
          = MemoFresh(m, kept, pol, p, below)
  BY <1>10, <1>12, <1>13, Zenon DEF MemoFresh
<1>15. MemoNode(m, kept, pol, p, below)
          = Combined(pol, p, full, single, value,
                     Results(kept, full, cached), Results(below, full, others))
  BY <1>4 DEF single
<1>. QED  BY <1>7, <1>10, <1>14, <1>15

\* A rebuild is a walk that finds nothing cached.
LEMMA RebuildNodeIs ==
    ASSUME NEW m \in Map, NEW p \in Paths(m), NEW pol \in Policy, NEW below
    PROVE  MemoNodeRebuild(m, pol, p, below) = MemoNode(m, NoCache, pol, p, below)
<1> DEFINE block  == Block(m, p)
           first  == FirstKey(block)
           last   == LastKey(block)
           full   == IF p = <<>> THEN p ELSE CommonPrefix(first, last)
           cached == {c \in Nibble : Append(full, c) \in DOMAIN NoCache}
           others == {c \in Nibble : Block(m, Append(full, c)) # {}}
           value  == {MerkleValue(m[k]) : k \in {x \in block : Len(x) = Len(full)}}
           children == HashesOf(NoCache, below, full, cached, others)
           hash   == NodeHash(p, full, children, value)
           single == first = last
<1>0. DOMAIN NoCache = {} /\ cached = {}
  BY DEF NoCache
<1>1. block \in SUBSET Path /\ IsFiniteSet(block) /\ block # {}
  BY FullIs, BlockIs
<1>2. /\ CommonPrefix(FirstKey(block), LastKey(block)) = LongestCommonPrefix(block)
      /\ FirstKey(block) = LastKey(block) <=> \A k, l \in block : k = l
  <2> HIDE DEF block
  <2>. QED  BY <1>1, EndsOfBlock
<1>3. full = Full(m, p)
  BY <1>2 DEF Full
<1>4. MemoNodeRebuild(m, pol, p, below)
         = Combined(pol, p, full, single, value, {}, Results(below, full, others))
  BY DEF MemoNodeRebuild, Results
<1>5. Retained(pol, p, hash, single)
         = IF Keeps(m, pol, p) THEN {<<p, hash>>} ELSE {}
  <2>1. single <=> \A k, l \in block : k = l
    BY <1>2
  <2> HIDE DEF single, hash
  <2>. QED  BY <2>1 DEF Retained, Keeps
<1>6. cached \in SUBSET Nibble /\ others \in SUBSET Nibble /\ cached \cap others = {}
  BY <1>0
<1>7. Results(NoCache, full, cached) = {}
  BY <1>0 DEF Results
<1> HIDE DEF first, last, full, cached, others, value, single
<1>8. Combined(pol, p, full, single, value,
               Results(NoCache, full, cached), Results(below, full, others))
         = [hash  |-> hash,
            fresh |-> FreshOf(below, full, others) \cup Retained(pol, p, hash, single)]
  BY <1>6, CombinedIs
<1>9. children = MemoChildren(m, NoCache, p, below) /\ others = Visited(m, NoCache, p)
  BY <1>0, <1>3 DEF others, HashesOf, MemoChildren, Visited, Child
<1>10. value = ValueAt(m, p)
  BY <1>3, ValueOfBlock DEF value, ValueAt
<1>11. hash = MemoHash(m, NoCache, p, below)
  <2> HIDE DEF children
  <2>. QED  BY <1>3, <1>9, <1>10 DEF MemoHash, Hashed, NodeHash
<1> HIDE DEF children, hash
<1>12. FreshOf(below, full, others)
          = UNION {below[Child(m, p, c)].fresh : c \in Visited(m, NoCache, p)}
  BY <1>3, <1>9 DEF Child, FreshOf
<1>13. MemoNode(m, NoCache, pol, p, below)
          = [hash  |-> MemoHash(m, NoCache, p, below),
             fresh |-> MemoFresh(m, NoCache, pol, p, below)]
  BY <1>0, MemoNodeIs
<1>14. FreshOf(below, full, others) \cup Retained(pol, p, hash, single)
          = MemoFresh(m, NoCache, pol, p, below)
  BY <1>5, <1>11, <1>12, Zenon DEF MemoFresh
<1>. QED  BY <1>4, <1>7, <1>8, <1>11, <1>13, <1>14

-----------------------------------------------------------------------------
(* What a walk returns. *)

\* Induction from the keys up.
LEMMA FromBelow ==
    ASSUME NEW m \in Map, NEW T,
           \A p \in Paths(m) : (\A q \in Paths(m) : Len(p) < Len(q) => q \in T) => p \in T
    PROVE  Paths(m) \subseteq T
<1>1. PICK H \in Nat : \A p \in Paths(m) : p \in Path /\ Len(p) <= H
  BY LongestKey
<1>2. \A p \in Paths(m) : Len(p) \in Nat
  BY <1>1, LenOfPath
<1> DEFINE I == {n \in Nat : \A p \in Paths(m) : H - Len(p) < n => p \in T}
<1>3. 0 \in I
  BY <1>1, <1>2
<1>4. ASSUME NEW n \in Nat, n \in I
      PROVE  n + 1 \in I
  <2> SUFFICES ASSUME NEW p \in Paths(m), H - Len(p) < n + 1
               PROVE  p \in T
    BY <1>4
  <2>1. \A q \in Paths(m) : Len(p) < Len(q) => q \in T
    BY <1>2, <1>4
  <2>. QED  BY <2>1
<1> HIDE DEF I
<1>5. H + 1 \in I
  BY <1>3, <1>4, InductionOnSet
<1>. QED  BY <1>1, <1>2, <1>5 DEF I

\* A walk over the map below the hashes in kept.
IsWalk(m, kept, pol, w) == w = [p \in Paths(m) |-> MemoNode(m, kept, pol, p, w)]

LEMMA OnlyVisited ==
    ASSUME NEW m \in Map, NEW p \in Paths(m), NEW kept, NEW pol \in Policy, NEW g, NEW h,
           \A q \in Paths(m) : Len(p) < Len(q) => g[q] = h[q]
    PROVE  MemoNode(m, kept, pol, p, g) = MemoNode(m, kept, pol, p, h)
<1>1. CASE p \in DOMAIN kept
  BY <1>1 DEF MemoNode
<1>2. CASE p \notin DOMAIN kept
  <2>1. \A c \in Nibble : Block(m, Child(m, p, c)) # {} => g[Child(m, p, c)] = h[Child(m, p, c)]
    BY ChildIs
  <2>2. MemoChildren(m, kept, p, g) = MemoChildren(m, kept, p, h)
    BY <2>1 DEF MemoChildren
  <2>3. {g[Child(m, p, c)].fresh : c \in Visited(m, kept, p)}
           = {h[Child(m, p, c)].fresh : c \in Visited(m, kept, p)}
    BY <2>1 DEF Visited
  <2>4. MemoHash(m, kept, p, g) = MemoHash(m, kept, p, h)
    BY <2>2 DEF MemoHash
  <2>5. MemoFresh(m, kept, pol, p, g) = MemoFresh(m, kept, pol, p, h)
    BY <2>3, <2>4 DEF MemoFresh
  <2>. QED  BY <1>2, <2>4, <2>5, MemoNodeIs
<1>. QED  BY <1>1, <1>2

LEMMA MemoAtIs ==
    ASSUME NEW m \in Map, NEW kept, NEW pol \in Policy
    PROVE  IsWalk(m, kept, pol, MemoAt(m, kept, pol))
<1>1. PICK H \in Nat : \A p \in Paths(m) : p \in Path /\ Len(p) <= H
  BY LongestKey
<1>2. \A p \in Paths(m) : Len(p) \in Nat
  BY <1>1, LenOfPath
<1> DEFINE Node(p, g) == MemoNode(m, kept, pol, p, g)
           F(g) == [p \in Paths(m) |-> Node(p, g)]
           Deep(g, n) == /\ g = [p \in Paths(m) |-> g[p]]
                         /\ \A p \in Paths(m) : H - Len(p) < n => g[p] = Node(p, g)
           I == {n \in Nat : \E g : Deep(g, n)}
<1>3. 0 \in I
  <2> HIDE DEF Node
  <2>1. Deep([p \in Paths(m) |-> 0], 0)
    BY <1>1, <1>2
  <2>. QED  BY <2>1
<1>4. ASSUME NEW n \in Nat, n \in I
      PROVE  n + 1 \in I
  <2>1. PICK g : Deep(g, n)
    BY <1>4
  <2> DEFINE h == [p \in Paths(m) |-> IF H - Len(p) = n THEN Node(p, g) ELSE g[p]]
  <2>2. ASSUME NEW p \in Paths(m), H - Len(p) < n + 1
        PROVE  h[p] = Node(p, h)
    <3>1. \A q \in Paths(m) : Len(p) < Len(q) => g[q] = h[q]
      BY <1>2, <2>2
    <3>2. Node(p, g) = Node(p, h)
      <4> HIDE DEF h
      <4>. QED  BY <3>1, OnlyVisited
    <3>3. h[p] = Node(p, g)
      <4> HIDE DEF Node
      <4>. QED  BY <1>2, <2>1, <2>2
    <3>. QED  BY <3>2, <3>3
  <2>3. h = [p \in Paths(m) |-> h[p]]
    OBVIOUS
  <2> HIDE DEF h, Node
  <2>4. Deep(h, n + 1)
    BY <2>2, <2>3
  <2>. QED  BY <2>4
<1> HIDE DEF I
<1>5. H + 1 \in I
  BY <1>3, <1>4, InductionOnSet
<1>6. PICK g : Deep(g, H + 1)
  BY <1>5 DEF I
<1> DEFINE c == CHOOSE f : f = F(f)
<1>9. c = F(c)
  <2> HIDE DEF Node
  <2>1. \A p \in Paths(m) : g[p] = Node(p, g)
    BY <1>1, <1>2, <1>6
  <2>2. g = F(g)
    BY <1>6, <2>1
  <2>. QED  BY <2>2
<1>10. MemoAt(m, kept, pol) = c
  BY DEF MemoAt
<1> HIDE DEF c
<1>. QED  BY <1>9, <1>10 DEF IsWalk

LEMMA RebuiltAtIs ==
    ASSUME NEW m \in Map, NEW pol \in Policy
    PROVE  IsWalk(m, NoCache, pol, RebuiltAt(m, pol))
<1> DEFINE F(g) == [p \in Paths(m) |-> MemoNodeRebuild(m, pol, p, g)]
           c == CHOOSE f : f = F(f)
           w == MemoAt(m, NoCache, pol)
<1>1. \A g : F(g) = [p \in Paths(m) |-> MemoNode(m, NoCache, pol, p, g)]
  BY RebuildNodeIs
<1>2. w = [p \in Paths(m) |-> MemoNode(m, NoCache, pol, p, w)]
  BY MemoAtIs DEF IsWalk
<1> HIDE DEF w
<1>3. w = F(w)
  BY <1>1, <1>2
<1>4. c = F(c)
  BY <1>3
<1>5. RebuiltAt(m, pol) = c
  BY DEF RebuiltAt
<1> HIDE DEF c
<1>6. c = [p \in Paths(m) |-> MemoNode(m, NoCache, pol, p, c)]
  BY <1>1, <1>4
<1>. QED  BY <1>5, <1>6 DEF IsWalk

LEMMA WalkHit ==
    ASSUME NEW m \in Map, NEW kept, NEW pol \in Policy, NEW w, IsWalk(m, kept, pol, w),
           NEW p \in Paths(m), p \in DOMAIN kept
    PROVE  w[p] = [hash |-> kept[p], fresh |-> {}]
BY DEF IsWalk, MemoNode

LEMMA WalkMiss ==
    ASSUME NEW m \in Map, NEW kept, NEW pol \in Policy, NEW w, IsWalk(m, kept, pol, w),
           NEW p \in Paths(m), p \notin DOMAIN kept
    PROVE  /\ w[p].hash = MemoHash(m, kept, p, w)
           /\ w[p].fresh = MemoFresh(m, kept, pol, p, w)
<1>1. w[p] = MemoNode(m, kept, pol, p, w)
  BY DEF IsWalk
<1>2. w[p] = [hash |-> MemoHash(m, kept, p, w), fresh |-> MemoFresh(m, kept, pol, p, w)]
  BY <1>1, MemoNodeIs
<1>. QED  BY <1>2

\* The hashes a cache holds are those of the map.
Right(m, kept) == \A p \in DOMAIN kept : p \in Paths(m) /\ kept[p] = MerkleAt(m)[p]

RightPairs(m, pairs) ==
    \A x \in pairs : /\ x = <<x[1], x[2]>> /\ x[1] \in Paths(m)
                     /\ x[2] = MerkleAt(m)[x[1]]

\* A walk below right hashes returns the stateless hash, and leaves right
\* hashes behind.
LEMMA WalkIsExact ==
    ASSUME NEW m \in Map, NEW kept, NEW pol \in Policy, NEW w,
           IsWalk(m, kept, pol, w), Right(m, kept)
    PROVE  \A p \in Paths(m) : w[p].hash = MerkleAt(m)[p] /\ RightPairs(m, w[p].fresh)
<1> DEFINE T == {p \in Paths(m) : w[p].hash = MerkleAt(m)[p] /\ RightPairs(m, w[p].fresh)}
<1>1. ASSUME NEW p \in Paths(m), \A q \in Paths(m) : Len(p) < Len(q) => q \in T
      PROVE  w[p].hash = MerkleAt(m)[p] /\ RightPairs(m, w[p].fresh)
  <2>1. CASE p \in DOMAIN kept
    <3>1. w[p] = [hash |-> kept[p], fresh |-> {}]
      BY <2>1, WalkHit
    <3>. QED  BY <2>1, <3>1 DEF Right, RightPairs
  <2>2. CASE p \notin DOMAIN kept
    <3>1. /\ w[p].hash = MemoHash(m, kept, p, w)
          /\ w[p].fresh = MemoFresh(m, kept, pol, p, w)
      BY <2>2, WalkMiss
    <3>2. \A c \in Nibble : Block(m, Child(m, p, c)) # {} <=> Child(m, p, c) \in Paths(m)
      BY ChildIs
    <3>3. \A c \in Nibble : Child(m, p, c) \in Paths(m) => Child(m, p, c) \in T
      BY <1>1, ChildIs
    <3>4. MemoChildren(m, kept, p, w) = PlainChildren(m, p, MerkleAt(m))
      <4> SUFFICES ASSUME NEW c \in Nibble
                   PROVE  MemoChildren(m, kept, p, w)[c] = PlainChildren(m, p, MerkleAt(m))[c]
        BY DEF MemoChildren, PlainChildren
      <4> DEFINE q == Child(m, p, c)
      <4>1. /\ MemoChildren(m, kept, p, w)[c] = IF q \in DOMAIN kept THEN kept[q]
                                                ELSE IF Block(m, q) # {} THEN w[q].hash
                                                ELSE MERKLE_NULL_NODE
            /\ PlainChildren(m, p, MerkleAt(m))[c] = IF Block(m, q) # {} THEN MerkleAt(m)[q]
                                                     ELSE MERKLE_NULL_NODE
        BY DEF MemoChildren, PlainChildren
      <4>2. Block(m, q) # {} => w[q].hash = MerkleAt(m)[q]
        BY <3>2, <3>3
      <4>3. q \in DOMAIN kept => Block(m, q) # {} /\ kept[q] = MerkleAt(m)[q]
        BY <3>2 DEF Right
      <4> HIDE DEF q
      <4>. QED  BY <4>1, <4>2, <4>3
    <3>5. w[p].hash = MerkleAt(m)[p]
      BY <3>1, <3>4, MerkleForNodeIs, MerkleAtIs DEF MemoHash
    <3>6. ASSUME NEW x \in w[p].fresh
          PROVE  x = <<x[1], x[2]>> /\ x[1] \in Paths(m) /\ x[2] = MerkleAt(m)[x[1]]
      <4>1. CASE x = <<p, MemoHash(m, kept, p, w)>>
        BY <3>1, <3>5, <4>1
      <4>2. CASE \E c \in Visited(m, kept, p) : x \in w[Child(m, p, c)].fresh
        BY <3>2, <3>3, <4>2 DEF Visited, RightPairs
      <4>. QED  BY <3>1, <3>6, <4>1, <4>2 DEF MemoFresh
    <3>. QED  BY <3>5, <3>6 DEF RightPairs
  <2>. QED  BY <2>1, <2>2
<1>2. Paths(m) \subseteq T
  <2>1. \A p \in Paths(m) : (\A q \in Paths(m) : Len(p) < Len(q) => q \in T) => p \in T
    BY <1>1
  <2> HIDE DEF T
  <2>. QED  BY <2>1, FromBelow
<1>. QED  BY <1>2

-----------------------------------------------------------------------------
(* Hashes and changes. *)

\* Two maps agree below a path.
Agree(m, n, p) == Block(m, p) = Block(n, p) /\ \A k \in Block(m, p) : m[k] = n[k]

LEMMA AgreeBelow ==
    ASSUME NEW m \in Map, NEW n \in Map, NEW p \in Path, NEW q \in Path,
           Agree(m, n, p), IsPrefix(p, q)
    PROVE  Agree(m, n, q)
<1>1. /\ Block(m, q) = {k \in Block(m, p) : IsPrefix(q, k)}
      /\ Block(n, q) = {k \in Block(n, p) : IsPrefix(q, k)}
  BY BlockOfExtension DEF Block
<1>. QED  BY <1>1 DEF Agree

\* The hash of a subtree is made of what is below its path.
LEMMA HashIsLocal ==
    ASSUME NEW m \in Map, NEW n \in Map
    PROVE  \A p \in Paths(m) : Agree(m, n, p) =>
              p \in Paths(n) /\ MerkleAt(m)[p] = MerkleAt(n)[p]
<1> DEFINE T == {p \in Paths(m) : Agree(m, n, p) =>
                    p \in Paths(n) /\ MerkleAt(m)[p] = MerkleAt(n)[p]}
<1>1. ASSUME NEW p \in Paths(m), \A q \in Paths(m) : Len(p) < Len(q) => q \in T, Agree(m, n, p)
      PROVE  p \in Paths(n) /\ MerkleAt(m)[p] = MerkleAt(n)[p]
  <2>1. p \in Path /\ p \in Paths(n)
    BY <1>1, FullIs, BlockIs DEF Agree
  <2>2. Full(m, p) = Full(n, p)
    BY <1>1 DEF Full, Agree
  <2>3. \A c \in Nibble : Child(m, p, c) = Child(n, p, c)
    BY <2>2 DEF Child
  <2>4. ValueAt(m, p) = ValueAt(n, p)
    <3> DEFINE V == {x \in Block(m, p) : Len(x) = Len(Full(m, p))}
    <3>1. V = DOMAIN m \cap {Full(m, p)} /\ V = DOMAIN n \cap {Full(n, p)}
      BY <1>1, <2>1, <2>2, ValueOfBlock DEF Agree
    <3>2. \A k \in V : m[k] = n[k]
      BY <1>1 DEF Agree
    <3> HIDE DEF V
    <3>. QED  BY <3>1, <3>2 DEF ValueAt
  <2>5. \A c \in Nibble : Agree(m, n, Child(m, p, c))
    BY <1>1, <2>1, ChildIs, AgreeBelow
  <2>6. PlainChildren(m, p, MerkleAt(m)) = PlainChildren(n, p, MerkleAt(n))
    <3>1. \A c \in Nibble : Block(m, Child(m, p, c)) = Block(n, Child(n, p, c))
      BY <2>3, <2>5 DEF Agree
    <3>2. \A c \in Nibble : Block(m, Child(m, p, c)) # {}
             => MerkleAt(m)[Child(m, p, c)] = MerkleAt(n)[Child(n, p, c)]
      <4> TAKE c \in Nibble
      <4> HAVE Block(m, Child(m, p, c)) # {}
      <4>1. Child(m, p, c) \in Paths(m) /\ Len(p) < Len(Child(m, p, c))
        BY ChildIs
      <4>2. Child(m, p, c) \in T
        BY <1>1, <4>1
      <4>. QED  BY <2>3, <2>5, <4>2
    <3>. QED  BY <3>1, <3>2 DEF PlainChildren
  <2>7. MerkleAt(m)[p] = Hashed(m, p, PlainChildren(m, p, MerkleAt(m)))
    BY MerkleAtIs, MerkleForNodeIs
  <2>8. MerkleAt(n)[p] = Hashed(n, p, PlainChildren(n, p, MerkleAt(n)))
    BY <2>1, MerkleAtIs, MerkleForNodeIs
  <2>. QED  BY <2>1, <2>2, <2>4, <2>6, <2>7, <2>8 DEF Hashed
<1>2. Paths(m) \subseteq T
  <2>1. \A p \in Paths(m) : (\A q \in Paths(m) : Len(p) < Len(q) => q \in T) => p \in T
    BY <1>1
  <2> HIDE DEF T
  <2>. QED  BY <2>1, FromBelow
<1>. QED  BY <1>2

\* Only keys of K are changed from m to n.
Changes(m, n, K) == \A k \in Path \ K : /\ k \in DOMAIN m <=> k \in DOMAIN n
                                        /\ k \in DOMAIN m => m[k] = n[k]

LEMMA AgreeElsewhere ==
    ASSUME NEW m \in Map, NEW n \in Map, NEW K, Changes(m, n, K),
           NEW p \in Path, \A k \in K : ~IsPrefix(p, k)
    PROVE  Agree(m, n, p)
<1>1. \A k \in DOMAIN m \cup DOMAIN n : k \in Path
  BY KeysOfMap
<1>. QED  BY <1>1 DEF Changes, Agree, Block

\* Every cached hash is that of the map, or a dirty key lies under it.
Settled(m, c, d) ==
    \A p \in DOMAIN c : \/ \E k \in d : IsPrefix(p, k)
                        \/ p \in Paths(m) /\ c[p] = MerkleAt(m)[p]

LEMMA ChangeSettled ==
    ASSUME NEW m \in Map, NEW n \in Map, NEW K, Changes(m, n, K),
           NEW c, NEW d, Settled(m, c, d)
    PROVE  Settled(n, c, d \cup K)
<1> SUFFICES ASSUME NEW p \in DOMAIN c, \A k \in d \cup K : ~IsPrefix(p, k)
             PROVE  p \in Paths(n) /\ c[p] = MerkleAt(n)[p]
  BY DEF Settled
<1>1. p \in Paths(m) /\ c[p] = MerkleAt(m)[p]
  BY DEF Settled
<1>2. Agree(m, n, p)
  BY <1>1, PathsArePaths, AgreeElsewhere
<1>. QED  BY <1>1, <1>2, HashIsLocal

LEMMA EvictedRight ==
    ASSUME NEW m \in Map, NEW c, NEW d, Settled(m, c, d)
    PROVE  Right(m, Evicted(c, d))
<1> SUFFICES ASSUME NEW p \in DOMAIN Evicted(c, d)
             PROVE  p \in Paths(m) /\ Evicted(c, d)[p] = MerkleAt(m)[p]
  BY DEF Right
<1>1. p \in DOMAIN c /\ Evicted(c, d)[p] = c[p] /\ ~\E k \in d : IsPrefix(p, k)
  BY DEF Evicted, Restrict
<1>. QED  BY <1>1 DEF Settled

LEMMA AsCacheIs ==
    ASSUME NEW m \in Map, NEW pairs, RightPairs(m, pairs)
    PROVE  /\ DOMAIN AsCache(pairs) = {x[1] : x \in pairs}
           /\ Right(m, AsCache(pairs))
<1>1. DOMAIN AsCache(pairs) = {x[1] : x \in pairs}
  BY DEF AsCache
<1>2. ASSUME NEW p \in DOMAIN AsCache(pairs)
      PROVE  p \in Paths(m) /\ AsCache(pairs)[p] = MerkleAt(m)[p]
  <2>1. AsCache(pairs)[p] = (CHOOSE x \in pairs : x[1] = p)[2]
    BY <1>2 DEF AsCache
  <2> DEFINE x == CHOOSE y \in pairs : y[1] = p
  <2>2. x \in pairs /\ x[1] = p
    BY <1>1, <1>2
  <2> HIDE DEF x
  <2>3. p \in Paths(m) /\ x[2] = MerkleAt(m)[p]
    BY <2>2 DEF RightPairs
  <2>. QED  BY <2>1, <2>3 DEF x
<1>. QED  BY <1>1, <1>2 DEF Right

LEMMA OverIs ==
    ASSUME NEW f, NEW g
    PROVE  /\ DOMAIN Over(f, g) = DOMAIN f \cup DOMAIN g
           /\ \A x \in DOMAIN f : Over(f, g)[x] = f[x]
           /\ \A x \in DOMAIN g \ DOMAIN f : Over(f, g)[x] = g[x]
BY DEF Over

LEMMA CacheAfterWalk ==
    ASSUME NEW m \in Map, NEW kept, Right(m, kept), NEW pairs, RightPairs(m, pairs)
    PROVE  /\ Right(m, Over(AsCache(pairs), kept))
           /\ DOMAIN Over(AsCache(pairs), kept) = {x[1] : x \in pairs} \cup DOMAIN kept
<1> DEFINE a == AsCache(pairs)
<1>1. DOMAIN a = {x[1] : x \in pairs} /\ Right(m, a)
  BY AsCacheIs
<1> HIDE DEF a
<1>2. /\ DOMAIN Over(a, kept) = DOMAIN a \cup DOMAIN kept
      /\ \A p \in DOMAIN a : Over(a, kept)[p] = a[p]
      /\ \A p \in DOMAIN kept \ DOMAIN a : Over(a, kept)[p] = kept[p]
  BY OverIs
<1>3. Right(m, Over(a, kept))
  BY <1>1, <1>2 DEF Right
<1>. QED  BY <1>1, <1>2, <1>3 DEF a

LEMMA RightSettled ==
    ASSUME NEW m, NEW c, Right(m, c)
    PROVE  Settled(m, c, {})
BY DEF Right, Settled

-----------------------------------------------------------------------------
(* Writes, and batches of them. *)

LEMMA EmptyMap == <<>> \in Map /\ DOMAIN <<>> = {}
<1>1. DOMAIN <<>> = {}
  OBVIOUS
<1>2. <<>> \in [{} -> Entry]
  OBVIOUS
<1>. QED  BY <1>1, <1>2 DEF Map

LEMMA InMap ==
    ASSUME NEW K \in SUBSET Key, NEW m \in [K -> Entry]
    PROVE  m \in Map
BY DEF Map

LEMMA PutIs ==
    ASSUME NEW m \in Map, NEW k \in Key, NEW v \in Entry
    PROVE  /\ Put(m, k, v) \in Map /\ DOMAIN Put(m, k, v) = DOMAIN m \cup {k}
           /\ Changes(m, Put(m, k, v), {k})
<1>1. /\ DOMAIN m \in SUBSET Key /\ \A x \in DOMAIN m : m[x] \in Entry
      /\ DOMAIN Put(m, k, v) = DOMAIN m \cup {k}
  BY KeysOfMap DEF Put
<1>2. Put(m, k, v) \in [DOMAIN m \cup {k} -> Entry]
  BY <1>1 DEF Put
<1>3. Changes(m, Put(m, k, v), {k})
  BY DEF Changes, Put
<1>4. DOMAIN m \cup {k} \in SUBSET Key
  BY <1>1
<1>. QED  BY <1>1, <1>2, <1>3, <1>4, InMap

LEMMA RemovedIs ==
    ASSUME NEW m \in Map, NEW k \in Key
    PROVE  /\ Restrict(m, DOMAIN m \ {k}) \in Map
           /\ DOMAIN Restrict(m, DOMAIN m \ {k}) = DOMAIN m \ {k}
           /\ Changes(m, Restrict(m, DOMAIN m \ {k}), {k})
<1> DEFINE r == Restrict(m, DOMAIN m \ {k})
<1>1. DOMAIN m \in SUBSET Key /\ \A x \in DOMAIN m : m[x] \in Entry
  BY KeysOfMap
<1>2. r = [x \in DOMAIN m \ {k} |-> m[x]]
  BY DEF Restrict
<1>3. r \in [DOMAIN m \ {k} -> Entry]
  BY <1>1, <1>2
<1>4. Changes(m, r, {k})
  BY <1>2 DEF Changes
<1>. QED  BY <1>1, <1>2, <1>3, <1>4, InMap

\* One update, and the counter beside it.
LEMMA UpdatedIs ==
    ASSUME NEW m \in Map, NEW u \in Update
    PROVE  Updated(m, u) \in Map /\ Changes(m, Updated(m, u), {u[1]})
BY PutIs, RemovedIs DEF Updated, Update

LEMMA ChangesTrans ==
    ASSUME NEW a, NEW b, NEW c, NEW K, NEW L, Changes(a, b, K), Changes(b, c, L), L \subseteq K
    PROVE  Changes(a, c, K)
BY DEF Changes

LEMMA CountedIs ==
    ASSUME NEW s \in [db : Map, len : Nat], s.len = Cardinality(DOMAIN s.db), NEW u \in Update
    PROVE  /\ Counted(s, u) \in [db : Map, len : Nat]
           /\ Counted(s, u).db = Updated(s.db, u)
           /\ Counted(s, u).len = Cardinality(DOMAIN Counted(s, u).db)
<1> DEFINE m == s.db
           k == u[1]
           n == Updated(m, u)
           D == DOMAIN m
<1>0. m \in Map /\ k \in Key /\ u[2] \in Entry
  BY DEF Update
<1>1. IsFiniteSet(D) /\ Cardinality(D) \in Nat
  BY <1>0, KeysOfMap, FS_CardinalityType
<1>2. /\ Cardinality(D \cup {k}) = IF k \in D THEN Cardinality(D) ELSE Cardinality(D) + 1
      /\ Cardinality(D \ {k}) = IF k \in D THEN Cardinality(D) - 1 ELSE Cardinality(D)
  BY <1>1, FS_AddElement, FS_RemoveElement
<1>3. DOMAIN n = IF u[2] = Tombstone THEN D \ {k} ELSE D \cup {k}
  BY <1>0, PutIs, RemovedIs DEF Updated
<1>4. n \in Map
  BY <1>0, UpdatedIs
<1>5. Cardinality(DOMAIN n) \in Nat
  BY <1>4, KeysOfMap, FS_CardinalityType
<1>6. Counted(s, u).db = n
  BY DEF Counted
<1>7. Counted(s, u).len = IF u[2] # Tombstone /\ ~(k \in D) THEN Cardinality(D) + 1
                          ELSE IF u[2] = Tombstone /\ k \in D THEN Cardinality(D) - 1
                          ELSE Cardinality(D)
  BY DEF Counted
<1>8. Counted(s, u) = [db |-> Counted(s, u).db, len |-> Counted(s, u).len]
  BY DEF Counted
<1> HIDE DEF m, k, n, D
<1>9. Counted(s, u).len = Cardinality(DOMAIN n)
  BY <1>2, <1>3, <1>7
<1>. QED  BY <1>4, <1>5, <1>6, <1>8, <1>9 DEF n, m

\* What the updates of a batch change together.
LEMMA CountedAllIs ==
    ASSUME NEW batch \in Seq(Update), db \in Map, db_len = Cardinality(DOMAIN db)
    PROVE  /\ CountedAll(batch).db \in Map
           /\ Changes(db, CountedAll(batch).db, Touches(batch))
           /\ CountedAll(batch).len = Cardinality(DOMAIN CountedAll(batch).db)
           /\ entries = db => UpdatedAll(batch) = CountedAll(batch).db
<1> DEFINE N == Len(batch)
           V == {s \in [db : Map, len : Nat] : /\ s.len = Cardinality(DOMAIN s.db)
                                               /\ Changes(db, s.db, Touches(batch))}
           v0 == [db |-> db, len |-> db_len]
           Next1(i, s) == Counted(s, batch[i])
           G == [x \in (1..N) \X V |-> Next1(x[1], x[2])]
           P(f) == f = [i \in 0..N |-> IF i = 0 THEN v0 ELSE Counted(f[i - 1], batch[i])]
           c == CHOOSE f : P(f)
<1>1. /\ N \in Nat /\ 1..N = DOMAIN batch
      /\ \A i \in 1..N : batch[i] \in Update /\ batch[i][1] \in Touches(batch)
  BY DEF Touches
<1>2. v0 \in V
  <2>1. Cardinality(DOMAIN db) \in Nat
    BY KeysOfMap, FS_CardinalityType
  <2>2. Changes(db, db, Touches(batch))
    BY DEF Changes
  <2>. QED  BY <2>1, <2>2
<1>3. ASSUME NEW i \in 1..N, NEW s \in V
      PROVE  Next1(i, s) \in V
  <2>1. s \in [db : Map, len : Nat] /\ s.len = Cardinality(DOMAIN s.db) /\ batch[i] \in Update
    BY <1>1
  <2>2. /\ Counted(s, batch[i]) \in [db : Map, len : Nat]
        /\ Counted(s, batch[i]).db = Updated(s.db, batch[i])
        /\ Counted(s, batch[i]).len = Cardinality(DOMAIN Counted(s, batch[i]).db)
    BY <2>1, CountedIs
  <2>3. s.db \in Map /\ Changes(db, s.db, Touches(batch))
    BY <1>3
  <2>4. Changes(s.db, Updated(s.db, batch[i]), {batch[i][1]})
    BY <2>1, <2>3, UpdatedIs
  <2>5. Changes(db, Updated(s.db, batch[i]), Touches(batch))
    BY <1>1, <2>3, <2>4, ChangesTrans
  <2>. QED  BY <2>2, <2>5
<1>4. PICK f \in [0..N -> V] : f[0] = v0 /\ \A i \in 1..N : f[i] = G[<<i, f[i - 1]>>]
  <2>1. \A i \in 1..N : \A s \in V : G[<<i, s>>] \in V
    <3> HIDE DEF V, Next1
    <3>. QED  BY <1>3
  <2> HIDE DEF N, v0, V, G
  <2>2. Defines(N, V, v0, G)
    BY <1>1, <1>2, <2>1, RecursionExists
  <2>. QED  BY <2>2 DEF Defines
<1>5. \A i \in 0..N : f[i] = IF i = 0 THEN v0 ELSE Counted(f[i - 1], batch[i])
  <2> SUFFICES ASSUME NEW i \in 1..N
               PROVE  f[i] = Counted(f[i - 1], batch[i])
    BY <1>1, <1>4
  <2>1. i - 1 \in 0..N
    BY <1>1
  <2>2. f[i - 1] \in V
    <3> HIDE DEF V
    <3>. QED  BY <1>4, <2>1
  <2>3. <<i, f[i - 1]>> \in (1..N) \X V
    <3> HIDE DEF V
    <3>. QED  BY <2>2
  <2> HIDE DEF V
  <2>. QED  BY <1>4, <2>3
<1>6. P(f)
  <2> HIDE DEF v0, V
  <2>. QED  BY <1>4, <1>5
<1> HIDE DEF G, Next1
<1>7. P(c)
  <2> HIDE DEF P
  <2>. QED  BY <1>6
<1>8. CountedAll(batch) = c[N]
  BY DEF CountedAll
<1> HIDE DEF c
<1>9. c[0] = v0 /\ \A i \in 1..N : c[i] = Counted(c[i - 1], batch[i])
  <2> HIDE DEF v0
  <2>. QED  BY <1>1, <1>7
<1> DEFINE I == {n \in Nat : n <= N => c[n] \in V}
<1>10. N \in I
  <2>1. 0 \in I
    BY <1>2, <1>9
  <2>2. ASSUME NEW n \in Nat, n \in I
        PROVE  n + 1 \in I
    <3> SUFFICES ASSUME n + 1 <= N
                 PROVE  c[n + 1] \in V
      OBVIOUS
    <3>1. c[n] \in V /\ n + 1 \in 1..N /\ (n + 1) - 1 = n
      BY <1>1, <2>2
    <3> HIDE DEF V
    <3>2. c[n + 1] = Counted(c[n], batch[n + 1])
      BY <1>9, <3>1
    <3>. QED  BY <1>3, <3>1, <3>2 DEF Next1
  <2> HIDE DEF I
  <2>. QED  BY <1>1, <2>1, <2>2, InductionOnSet
<1>11. c[N] \in V
  BY <1>1, <1>10
<1> DEFINE Same(s, u) == Counted(s, u).db = Updated(s.db, u)
<1>a. \A s, u : Same(s, u)
  BY DEF Counted
<1>b. \A i \in 1..N : c[i].db = Updated(c[i - 1].db, batch[i])
  <2> TAKE i \in 1..N
  <2>1. Same(c[i - 1], batch[i])
    <3> HIDE DEF Same
    <3>. QED  BY <1>a
  <2>. QED  BY <1>9, <2>1
<1>12. ASSUME entries = db
       PROVE  UpdatedAll(batch) = c[N].db
  <2> DEFINE Q(g) == g = [i \in 0..N |-> IF i = 0 THEN entries ELSE Updated(g[i - 1], batch[i])]
             u == CHOOSE g : Q(g)
             h == [i \in 0..N |-> c[i].db]
  <2>1. Q(h)
    <3>1. h[0] = entries
      BY <1>1, <1>9, <1>12
    <3>2. \A i \in 1..N : h[i] = Updated(h[i - 1], batch[i])
      <4> TAKE i \in 1..N
      <4>1. i \in 0..N /\ i - 1 \in 0..N
        BY <1>1
      <4>2. c[i].db = Updated(c[i - 1].db, batch[i])
        BY <1>b
      <4>. QED  BY <4>1, <4>2
    <3>3. h = [i \in 0..N |-> h[i]]
      OBVIOUS
    <3> HIDE DEF h
    <3>4. \A i \in 0..N : i = 0 \/ i \in 1..N
      BY <1>1
    <3>. QED  BY <3>1, <3>2, <3>3, <3>4
  <2> HIDE DEF h
  <2>2. Q(u)
    <3> HIDE DEF Q
    <3>. QED  BY <2>1
  <2>3. UpdatedAll(batch) = u[N]
    BY DEF UpdatedAll
  <2> HIDE DEF u
  <2>4. u[0] = entries /\ \A i \in 1..N : u[i] = Updated(u[i - 1], batch[i])
    BY <1>1, <2>2
  <2> DEFINE J == {n \in Nat : n <= N => u[n] = c[n].db}
  <2>5. 0 \in J
    BY <1>9, <1>12, <2>4
  <2>6. ASSUME NEW n \in Nat, n \in J
        PROVE  n + 1 \in J
    <3> SUFFICES ASSUME n + 1 <= N
                 PROVE  u[n + 1] = c[n + 1].db
      OBVIOUS
    <3>1. u[n] = c[n].db /\ n + 1 \in 1..N /\ (n + 1) - 1 = n
      BY <1>1, <2>6
    <3>2. u[n + 1] = Updated(u[n], batch[n + 1])
      BY <2>4, <3>1
    <3>3. c[n + 1].db = Updated(c[n].db, batch[n + 1])
      BY <1>b, <3>1
    <3>. QED  BY <3>1, <3>2, <3>3
  <2> HIDE DEF J
  <2>7. N \in J
    BY <1>1, <2>5, <2>6, InductionOnSet
  <2>. QED  BY <1>1, <2>3, <2>7 DEF J
<1> HIDE DEF N
<1>. QED  BY <1>8, <1>11, <1>12

-----------------------------------------------------------------------------
(* The hashes of both caches are those of the entries. *)

\* root walks, or rebuilds where it would find nothing cached.
Walks(m, c, d, pol, w) ==
    \/ IsWalk(m, Evicted(c, d), pol, w)
    \/ DOMAIN Evicted(c, d) = {} /\ IsWalk(m, NoCache, pol, w)

LEMMA WalkRight ==
    ASSUME NEW m \in Map, DOMAIN m # {}, NEW c, NEW d, Settled(m, c, d),
           NEW pol \in Policy, NEW w, Walks(m, c, d, pol, w)
    PROVE  w[<<>>].hash = TrieRoot(m) /\ RightPairs(m, w[<<>>].fresh)
<1>1. <<>> \in Paths(m)
  BY RootPath
<1>2. Right(m, Evicted(c, d))
  BY EvictedRight
<1>3. Right(m, NoCache)
  BY DEF Right, NoCache
<1>4. w[<<>>].hash = MerkleAt(m)[<<>>] /\ RightPairs(m, w[<<>>].fresh)
  <2>1. CASE IsWalk(m, Evicted(c, d), pol, w)
    BY <1>1, <1>2, <2>1, WalkIsExact
  <2>2. CASE IsWalk(m, NoCache, pol, w)
    BY <1>1, <1>3, <2>2, WalkIsExact
  <2>. QED  BY <2>1, <2>2 DEF Walks
<1>. QED  BY <1>4 DEF TrieRoot

\* The cache after a root.
LEMMA SettledAfterRoot ==
    ASSUME NEW m \in Map, DOMAIN m # {}, NEW c, NEW d, Settled(m, c, d),
           NEW pol \in Policy, NEW w, Walks(m, c, d, pol, w)
    PROVE  Settled(m, Over(AsCache(w[<<>>].fresh), Evicted(c, d)), {})
BY WalkRight, EvictedRight, CacheAfterWalk, RightSettled

LEMMA WalkIs ==
    ASSUME entries \in Map, policy \in Policy
    PROVE  \E w : Walk = w[<<>>] /\ Walks(entries, cache, dirty, policy, w)
<1>1. IsWalk(entries, Evicted(cache, dirty), policy,
             MemoAt(entries, Evicted(cache, dirty), policy))
  BY MemoAtIs
<1>2. IsWalk(entries, NoCache, policy, RebuiltAt(entries, policy))
  BY RebuiltAtIs
<1>. QED  BY <1>1, <1>2 DEF Walk, Walks

LEMMA LmdbWalkIs ==
    ASSUME db \in Map, policy \in Policy
    PROVE  \E w : LmdbWalk = w[<<>>] /\ Walks(db, db_cache, db_dirty, policy, w)
<1>1. IsWalk(db, Evicted(db_cache, db_dirty), policy,
             MemoAt(db, Evicted(db_cache, db_dirty), policy))
  BY MemoAtIs
<1>. QED  BY <1>1 DEF LmdbWalk, Walks

LEMMA NoneSettled == \A m, d : Settled(m, NoCache, d)
BY DEF Settled, NoCache

\* The inductive invariant.
MemoryInv == /\ entries \in Map
             /\ dirty \in SUBSET Key
             /\ Settled(entries, cache, dirty)

LmdbInv == /\ db \in Map
           /\ db_dirty \in SUBSET Key
           /\ db_len = Cardinality(DOMAIN db)
           /\ Settled(db, db_cache, db_dirty)

SnapInv == /\ policy \in Policy
           /\ MemoryInv
           /\ LmdbInv
           /\ policy = "SkipSingleton" => db = entries

LEMMA InitSnapInv == SnapInit => SnapInv
<1> SUFFICES ASSUME SnapInit
             PROVE  SnapInv
  OBVIOUS
<1>1. policy \in Policy /\ entries \in Map /\ dirty = {} /\ cache = NoCache
  <2>1. policy \in Policy
    BY TrieAssumption DEF SnapInit, TrieInit, Policy
  <2>2. PICK present \in SUBSET Key :
           entries \in [present -> IF policy = "Full" THEN Entry ELSE Value]
    BY DEF SnapInit, TrieInit
  <2>3. entries \in [present -> Entry]
    BY <2>2 DEF Entry
  <2>. QED  BY <2>1, <2>3, InMap DEF SnapInit, TrieInit
<1>2. db \in Map
  BY <1>1, EmptyMap DEF SnapInit
<1>3. Settled(db, db_cache, db_dirty)
  <2>1. CASE DOMAIN db = {}
    BY <2>1, NoneSettled DEF SnapInit, RebuiltCache
  <2>2. CASE DOMAIN db # {}
    <3> DEFINE w == RebuiltAt(db, policy)
    <3>1. IsWalk(db, NoCache, policy, w)
      BY <1>1, <1>2, RebuiltAtIs
    <3>2. Right(db, NoCache) /\ <<>> \in Paths(db)
      BY <1>2, <2>2, RootPath DEF Right, NoCache
    <3>3. RightPairs(db, w[<<>>].fresh)
      BY <1>1, <1>2, <3>1, <3>2, WalkIsExact
    <3>4. Right(db, AsCache(w[<<>>].fresh))
      BY <1>2, <3>3, AsCacheIs
    <3>. QED  BY <2>2, <3>4, RightSettled DEF SnapInit, RebuiltCache
  <2>. QED  BY <2>1, <2>2
<1>. QED  BY <1>1, <1>2, <1>3, NoneSettled DEF SnapInit, SnapInv, MemoryInv, LmdbInv

LEMMA InsertMemory ==
    ASSUME MemoryInv, NEW k \in Key, NEW v \in Entry, Insert(k, v)
    PROVE  MemoryInv'
<1>1. entries' \in Map /\ Changes(entries, entries', {k})
  BY PutIs DEF MemoryInv, Insert
<1>2. Settled(entries', cache, dirty \cup {k})
  BY <1>1, ChangeSettled DEF MemoryInv
<1>. QED  BY <1>1, <1>2 DEF MemoryInv, Insert

LEMMA RemoveMemory ==
    ASSUME MemoryInv, NEW k \in Key, RemoveKey(k)
    PROVE  MemoryInv'
<1>1. entries' \in Map /\ Changes(entries, entries', {k})
  BY RemovedIs DEF MemoryInv, RemoveKey
<1>2. Settled(entries', cache, dirty \cup {k})
  BY <1>1, ChangeSettled DEF MemoryInv
<1>. QED  BY <1>1, <1>2 DEF MemoryInv, RemoveKey

LEMMA RootMemory ==
    ASSUME MemoryInv, policy \in Policy, Root
    PROVE  MemoryInv'
<1>1. CASE DOMAIN entries = {}
  BY <1>1, NoneSettled DEF MemoryInv, Root
<1>2. CASE DOMAIN entries # {}
  <2>1. PICK w : Walk = w[<<>>] /\ Walks(entries, cache, dirty, policy, w)
    BY WalkIs DEF MemoryInv
  <2>2. Settled(entries, Over(AsCache(Walk.fresh), Evicted(cache, dirty)), {})
    BY <1>2, <2>1, SettledAfterRoot DEF MemoryInv
  <2>. QED  BY <1>2, <2>2 DEF MemoryInv, Root
<1>. QED  BY <1>1, <1>2

LEMMA DeltaSnapInv ==
    ASSUME SnapInv, DeltaStep
    PROVE  SnapInv'
<1>1. MemoryInv'
  <2>1. CASE Clear
    BY <2>1, EmptyMap, NoneSettled DEF Clear, MemoryInv
  <2>. QED  BY <2>1, InsertMemory, RemoveMemory, RootMemory
            DEF SnapInv, DeltaStep, TrieNext
<1>2. LmdbInv' /\ policy' = "Full" /\ policy' \in Policy
  BY DEF SnapInv, LmdbInv, DeltaStep, lmdb, TrieNext, Insert, RemoveKey, Clear, Root
<1>. QED  BY <1>1, <1>2 DEF SnapInv

LEMMA ApplySnapInv ==
    ASSUME SnapInv, NEW batch \in Seq(Update), ApplyUpdates(batch)
    PROVE  SnapInv'
<1>1. /\ db' \in Map /\ Changes(db, db', Touches(batch))
      /\ db_len' = Cardinality(DOMAIN db')
      /\ entries' = db' /\ entries = db
  BY CountedAllIs DEF SnapInv, LmdbInv, ApplyUpdates, MemoryApply, LmdbApply
<1>2. Touches(batch) \in SUBSET Key
  <2>1. \A i \in DOMAIN batch : batch[i] \in Update
    OBVIOUS
  <2>. QED  BY <2>1 DEF Touches, Update
<1>3. /\ Settled(db', db_cache, db_dirty \cup Touches(batch))
      /\ Settled(db', cache, dirty \cup Touches(batch))
  <2>1. /\ db \in Map /\ Settled(db, db_cache, db_dirty)
        /\ Settled(db, cache, dirty)
    BY <1>1 DEF SnapInv, LmdbInv, MemoryInv
  <2>. QED  BY <1>1, <2>1, ChangeSettled
<1>4. /\ dirty' = dirty \cup Touches(batch) /\ cache' = cache /\ policy' = policy
      /\ db_dirty' = db_dirty \cup Touches(batch) /\ db_cache' = db_cache
  BY DEF ApplyUpdates, MemoryApply, LmdbApply
<1>5. MemoryInv'
  BY <1>1, <1>2, <1>3, <1>4 DEF SnapInv, MemoryInv
<1>6. LmdbInv'
  BY <1>1, <1>2, <1>3, <1>4 DEF SnapInv, LmdbInv
<1>. QED  BY <1>1, <1>4, <1>5, <1>6 DEF SnapInv

LEMMA RootSnapInv ==
    ASSUME SnapInv, SnapshotRoot
    PROVE  SnapInv'
<1>1. MemoryInv' /\ entries' = entries /\ policy' = policy
  BY RootMemory DEF SnapInv, SnapshotRoot, Root
<1>2. Settled(db, db_cache', {})
  <2>1. db_len = 0 <=> DOMAIN db = {}
    BY KeysOfMap, FS_EmptySet DEF SnapInv, LmdbInv
  <2>2. CASE DOMAIN db = {}
    BY <2>1, <2>2, NoneSettled DEF SnapshotRoot, LmdbRoot
  <2>3. CASE DOMAIN db # {}
    <3>1. PICK w : LmdbWalk = w[<<>>] /\ Walks(db, db_cache, db_dirty, policy, w)
      BY LmdbWalkIs DEF SnapInv, LmdbInv
    <3>2. Settled(db, Over(AsCache(LmdbWalk.fresh), Evicted(db_cache, db_dirty)), {})
      BY <2>3, <3>1, SettledAfterRoot DEF SnapInv, LmdbInv
    <3>. QED  BY <2>1, <2>3, <3>2 DEF SnapshotRoot, LmdbRoot
  <2>. QED  BY <2>2, <2>3
<1>3. LmdbInv' /\ db' = db
  BY <1>2 DEF SnapInv, LmdbInv, SnapshotRoot, LmdbRoot
<1>. QED  BY <1>1, <1>3 DEF SnapInv

LEMMA BatchIsSequence ==
    ASSUME NEW n \in 1..MaxBatch, NEW batch \in [1..n -> Update]
    PROVE  batch \in Seq(Update)
BY SnapshotAssumption

LEMMA NextSnapInv == SnapInv /\ [SnapNext]_svars => SnapInv'
<1> SUFFICES ASSUME SnapInv, [SnapNext]_svars
             PROVE  SnapInv'
  OBVIOUS
<1>1. CASE UNCHANGED svars
  BY <1>1 DEF svars, tvars, lmdb, SnapInv, MemoryInv, LmdbInv
<1>2. CASE SnapNext
  BY <1>2, DeltaSnapInv, ApplySnapInv, RootSnapInv, BatchIsSequence DEF SnapNext
<1>. QED  BY <1>1, <1>2

LEMMA SnapInvAlways == SnapSpec => []SnapInv
BY InitSnapInv, NextSnapInv, PTL DEF SnapSpec

\* incremental.rs: root returns what the stateless trie_root computes over the
\* same entries, for every set of keys, every history of writes, removals,
\* clears and roots, both cache policies and every rebuild threshold.
THEOREM RootExactAlways == SnapSpec => []RootExact
<1>1. SnapInv => RootExact
  BY WalkIs, WalkRight DEF SnapInv, MemoryInv, RootExact
<1>. QED  BY <1>1, SnapInvAlways, PTL

\* snapshot.rs: after any batches of updates and roots the database holds what
\* the ordered map holds, its counter is zero exactly when it is empty, and
\* its walk gives the same stateless root.
THEOREM BackendsAgreeAlways == SnapSpec => []BackendsAgree
<1>1. SnapInv => BackendsAgree
  <2> SUFFICES ASSUME SnapInv, policy = "SkipSingleton"
               PROVE  /\ db = entries
                      /\ (db_len = 0) <=> (DOMAIN db = {})
                      /\ db_len > 0 => LmdbWalk.hash = TrieRoot(entries)
    BY DEF BackendsAgree
  <2>1. db = entries /\ db \in Map /\ (db_len = 0 <=> DOMAIN db = {})
    BY KeysOfMap, FS_EmptySet DEF SnapInv, LmdbInv
  <2>2. DOMAIN db # {} => LmdbWalk.hash = TrieRoot(db)
    BY LmdbWalkIs, WalkRight DEF SnapInv, LmdbInv
  <2>3. db_len > 0 => db_len # 0
    OBVIOUS
  <2>. QED  BY <2>1, <2>2, <2>3
<1>. QED  BY <1>1, SnapInvAlways, PTL

-----------------------------------------------------------------------------
(* Both caches obey the rule of SubtreeCache. *)

\* What SubtreeCache calls the hash of the subtree at p.
TotalHash(m, p) == SubtreeHash(p, [k \in {x \in Key : IsPrefix(p, x)} |-> Total(m, Key)[k]])

LEMMA TotalHashIs ==
    ASSUME NEW m \in Map, NEW p \in Paths(m)
    PROVE  TotalHash(m, p) = MerkleAt(m)[p]
<1> DEFINE U == [k \in {x \in Key : IsPrefix(p, x)} |-> Total(m, Key)[k]]
           present == {k \in DOMAIN U : U[k] # Absent}
           n == Restrict(U, present)
<1>1. /\ DOMAIN m \in SUBSET Key /\ \A k \in DOMAIN m : m[k] \in Entry /\ m[k] # Absent
      /\ p \in Path /\ Block(m, p) # {}
  BY KeysOfMap, FullIs, TrieAssumption
<1>2. /\ \A k \in Key : Total(m, Key)[k] = IF k \in DOMAIN m THEN m[k] ELSE Absent
      /\ DOMAIN U = {x \in Key : IsPrefix(p, x)}
      /\ \A k \in DOMAIN U : U[k] = Total(m, Key)[k]
  BY DEF Total
<1>3. present = Block(m, p)
  BY <1>1, <1>2 DEF Block
<1>4. /\ n = [k \in Block(m, p) |-> U[k]]
      /\ \A k \in Block(m, p) : U[k] = m[k] /\ k \in DOMAIN m
  BY <1>1, <1>2, <1>3 DEF Restrict, Block
<1> HIDE DEF n, present, U
<1>5. n \in [Block(m, p) -> Entry] /\ Block(m, p) \in SUBSET Key
  BY <1>1, <1>4
<1>6. n \in Map
  BY <1>5, InMap
<1>7. Agree(m, n, p)
  BY <1>4 DEF Agree, Block
<1>8. MerkleAt(m)[p] = MerkleAt(n)[p]
  BY <1>6, <1>7, HashIsLocal
<1>9. TotalHash(m, p) = IF present = {} THEN MERKLE_NULL_NODE ELSE MerkleAt(n)[p]
  BY DEF TotalHash, SubtreeHash, U, present, n
<1>. QED  BY <1>1, <1>3, <1>8, <1>9

LEMMA TotalOfMap ==
    ASSUME NEW m \in Map
    PROVE  Total(m, Key) \in [Key -> Entry \cup {Absent}]
BY KeysOfMap DEF Total

LEMMA TotalChanged ==
    ASSUME NEW m \in Map, NEW n \in Map, NEW K \in SUBSET Key, Changes(m, n, K)
    PROVE  \A k \in Key \ K : Total(n, Key)[k] = Total(m, Key)[k]
<1>1. \A k \in Key : k \in Path
  BY TrieAssumption DEF Path
<1>. QED  BY <1>1 DEF Changes, Total

LEMMA TotalOfRight ==
    ASSUME NEW m \in Map, NEW c, Right(m, c)
    PROVE  /\ DOMAIN Total(c, AllPrefixes) = AllPrefixes
           /\ \A p \in AllPrefixes : Total(c, AllPrefixes)[p] \in {Absent, TotalHash(m, p)}
<1>1. \A p \in AllPrefixes : Total(c, AllPrefixes)[p] = IF p \in DOMAIN c THEN c[p] ELSE Absent
  BY DEF Total
<1>2. \A p \in DOMAIN c : c[p] = TotalHash(m, p)
  BY TotalHashIs DEF Right
<1>. QED  BY <1>1, <1>2 DEF Total

LEMMA NoneRight == \A m : Right(m, NoCache)
BY DEF Right, NoCache

\* A root leaves right hashes behind.
LEMMA RightAfterRoot ==
    ASSUME NEW m \in Map, DOMAIN m # {}, NEW c, NEW d, Settled(m, c, d),
           NEW pol \in Policy, NEW w, Walks(m, c, d, pol, w)
    PROVE  Right(m, Over(AsCache(w[<<>>].fresh), Evicted(c, d)))
BY WalkRight, EvictedRight, CacheAfterWalk

LEMMA MemoryRootRight ==
    ASSUME MemoryInv, policy \in Policy, Root
    PROVE  Right(entries, cache')
<1>1. CASE DOMAIN entries = {}
  BY <1>1, NoneRight DEF Root
<1>2. CASE DOMAIN entries # {}
  BY <1>2, WalkIs, RightAfterRoot DEF MemoryInv, Root
<1>. QED  BY <1>1, <1>2

LEMMA LmdbRootRight ==
    ASSUME LmdbInv, policy \in Policy, LmdbRoot
    PROVE  Right(db, db_cache')
<1>1. db_len = 0 <=> DOMAIN db = {}
  BY KeysOfMap, FS_EmptySet DEF LmdbInv
<1>2. CASE DOMAIN db = {}
  BY <1>1, <1>2, NoneRight DEF LmdbRoot
<1>3. CASE DOMAIN db # {}
  BY <1>1, <1>3, LmdbWalkIs, RightAfterRoot DEF LmdbInv, LmdbRoot
<1>. QED  BY <1>2, <1>3

LEMMA InitRight ==
    ASSUME SnapInit, SnapInv
    PROVE  Right(entries, cache) /\ Right(db, db_cache)
<1>1. dirty = {} /\ db_dirty = {}
  BY DEF SnapInit, TrieInit
<1>. QED  BY <1>1 DEF SnapInv, MemoryInv, LmdbInv, Settled, Right

LEMMA InitRule == SnapInit => Rule!CacheInit /\ LmdbRule!CacheInit
<1> SUFFICES ASSUME SnapInit
             PROVE  Rule!CacheInit /\ LmdbRule!CacheInit
  OBVIOUS
<1>1. SnapInv /\ dirty = {} /\ db_dirty = {}
  BY InitSnapInv DEF SnapInit, TrieInit
<1>2. entries \in Map /\ db \in Map
  BY <1>1 DEF SnapInv, MemoryInv, LmdbInv
<1>3. Rule!CacheInit
  <2>1. Total(entries, Key) \in Rule!Entries
    BY <1>2, TotalOfMap DEF Rule!Entries
  <2>2. \A p \in AllPrefixes : Rule!Under(Total(entries, Key), p)
                                  = [k \in {x \in Key : IsPrefix(p, x)} |-> Total(entries, Key)[k]]
    BY DEF Rule!Under
  <2>3. \A p \in AllPrefixes : SubtreeHash(p, Rule!Under(Total(entries, Key), p))
                                  = TotalHash(entries, p)
    BY <2>2 DEF TotalHash
  <2>4. \A p \in AllPrefixes : Total(cache, AllPrefixes)[p] \in {Absent, TotalHash(entries, p)}
    BY <1>1, <1>2, InitRight, TotalOfRight
  <2>5. Total(cache, AllPrefixes) \in [AllPrefixes -> {Absent} \cup {TotalHash(entries, p) : p \in AllPrefixes}]
    BY <2>4 DEF Total
  <2>. QED  BY <1>1, <2>1, <2>3, <2>4, <2>5 DEF Rule!CacheInit
<1>4. LmdbRule!CacheInit
  <2>1. Total(db, Key) \in LmdbRule!Entries
    BY <1>2, TotalOfMap DEF LmdbRule!Entries
  <2>2. \A p \in AllPrefixes : LmdbRule!Under(Total(db, Key), p)
                                  = [k \in {x \in Key : IsPrefix(p, x)} |-> Total(db, Key)[k]]
    BY DEF LmdbRule!Under
  <2>3. \A p \in AllPrefixes : SubtreeHash(p, LmdbRule!Under(Total(db, Key), p))
                                  = TotalHash(db, p)
    BY <2>2 DEF TotalHash
  <2>4. \A p \in AllPrefixes : Total(db_cache, AllPrefixes)[p] \in {Absent, TotalHash(db, p)}
    BY <1>1, <1>2, InitRight, TotalOfRight
  <2>5. Total(db_cache, AllPrefixes) \in [AllPrefixes -> {Absent} \cup {TotalHash(db, p) : p \in AllPrefixes}]
    BY <2>4 DEF Total
  <2>. QED  BY <1>1, <2>1, <2>3, <2>4, <2>5 DEF LmdbRule!CacheInit
<1>. QED  BY <1>3, <1>4

\* A change of keys of K.
LEMMA MemoryChange ==
    ASSUME entries \in Map, entries' \in Map, NEW K \in SUBSET Key, Changes(entries, entries', K),
           dirty' = dirty \cup K, cache' = cache
    PROVE  Rule!CacheNext
<1>1. Total(entries', Key) \in Rule!Entries
  BY TotalOfMap DEF Rule!Entries
<1>2. \A k \in Key \ K : Total(entries', Key)[k] = Total(entries, Key)[k]
  BY TotalChanged
<1>3. Total(cache', AllPrefixes) = Total(cache, AllPrefixes)
  OBVIOUS
<1>4. Rule!Change(K)
  BY <1>1, <1>2, <1>3 DEF Rule!Change, Rule!Mark
<1>. QED  BY <1>4 DEF Rule!CacheNext

\* A root.
LEMMA MemorySettle ==
    ASSUME entries \in Map, entries' = entries, Right(entries, cache'), dirty' = {}
    PROVE  Rule!CacheNext
<1> DEFINE new == Total(cache', AllPrefixes)
           H(p) == SubtreeHash(p, Rule!Under(Total(entries, Key), p))
<1>1. \A p \in AllPrefixes : H(p) = TotalHash(entries, p)
  BY DEF Rule!Under, TotalHash
<1>2. DOMAIN new = AllPrefixes /\ \A p \in AllPrefixes : new[p] \in {Absent, H(p)}
  BY <1>1, TotalOfRight
<1>3. new \in [AllPrefixes -> {Absent} \cup {Total(cache, AllPrefixes)[p] : p \in AllPrefixes}
                                       \cup {H(p) : p \in AllPrefixes}]
  <2>1. new = [p \in AllPrefixes |-> new[p]]
    BY DEF Total
  <2> HIDE DEF new, H
  <2>. QED  BY <1>2, <2>1
<1>4. Rule!Settle
  BY <1>2, <1>3 DEF Rule!Settle
<1>. QED  BY <1>4 DEF Rule!CacheNext

\* A change of keys of K.
LEMMA LmdbChange ==
    ASSUME db \in Map, db' \in Map, NEW K \in SUBSET Key, Changes(db, db', K),
           db_dirty' = db_dirty \cup K, db_cache' = db_cache
    PROVE  LmdbRule!CacheNext
<1>1. Total(db', Key) \in LmdbRule!Entries
  BY TotalOfMap DEF LmdbRule!Entries
<1>2. \A k \in Key \ K : Total(db', Key)[k] = Total(db, Key)[k]
  BY TotalChanged
<1>3. Total(db_cache', AllPrefixes) = Total(db_cache, AllPrefixes)
  OBVIOUS
<1>4. LmdbRule!Change(K)
  BY <1>1, <1>2, <1>3 DEF LmdbRule!Change, LmdbRule!Mark
<1>. QED  BY <1>4 DEF LmdbRule!CacheNext

\* A root.
LEMMA LmdbSettle ==
    ASSUME db \in Map, db' = db, Right(db, db_cache'), db_dirty' = {}
    PROVE  LmdbRule!CacheNext
<1> DEFINE new == Total(db_cache', AllPrefixes)
           H(p) == SubtreeHash(p, LmdbRule!Under(Total(db, Key), p))
<1>1. \A p \in AllPrefixes : H(p) = TotalHash(db, p)
  BY DEF LmdbRule!Under, TotalHash
<1>2. DOMAIN new = AllPrefixes /\ \A p \in AllPrefixes : new[p] \in {Absent, H(p)}
  BY <1>1, TotalOfRight
<1>3. new \in [AllPrefixes -> {Absent} \cup {Total(db_cache, AllPrefixes)[p] : p \in AllPrefixes}
                                       \cup {H(p) : p \in AllPrefixes}]
  <2>1. new = [p \in AllPrefixes |-> new[p]]
    BY DEF Total
  <2> HIDE DEF new, H
  <2>. QED  BY <1>2, <2>1
<1>4. LmdbRule!Settle
  BY <1>2, <1>3 DEF LmdbRule!Settle
<1>. QED  BY <1>4 DEF LmdbRule!CacheNext

LEMMA MemoryReset ==
    ASSUME entries' = <<>>, cache' = NoCache, dirty' = {}
    PROVE  Rule!CacheNext
<1>1. Total(entries', Key) = [k \in Key |-> Absent]
  BY EmptyMap DEF Total
<1>2. Total(cache', AllPrefixes) = [p \in AllPrefixes |-> Absent]
  BY DEF Total, NoCache
<1>3. Rule!Reset
  BY <1>1, <1>2 DEF Rule!Reset
<1>. QED  BY <1>3 DEF Rule!CacheNext

LEMMA DeltaRules ==
    ASSUME SnapInv, DeltaStep
    PROVE  Rule!CacheNext /\ UNCHANGED LmdbRule!scvars
<1>1. UNCHANGED LmdbRule!scvars
  BY DEF DeltaStep, lmdb, LmdbRule!scvars
<1>2. entries \in Map
  BY DEF SnapInv, MemoryInv
<1>3. ASSUME NEW k \in Key, NEW v \in Entry, Insert(k, v)
      PROVE  Rule!CacheNext
  <2>1. entries' \in Map /\ Changes(entries, entries', {k})
    BY <1>2, <1>3, PutIs DEF Insert
  <2>. QED  BY <1>2, <1>3, <2>1, MemoryChange DEF Insert
<1>4. ASSUME NEW k \in Key, RemoveKey(k)
      PROVE  Rule!CacheNext
  <2>1. entries' \in Map /\ Changes(entries, entries', {k})
    BY <1>2, <1>4, RemovedIs DEF RemoveKey
  <2>. QED  BY <1>2, <1>4, <2>1, MemoryChange DEF RemoveKey
<1>5. CASE Clear
  BY <1>1, <1>5, MemoryReset DEF Clear
<1>6. CASE Root
  <2>1. Right(entries, cache')
    BY <1>6, MemoryRootRight DEF SnapInv
  <2>. QED  BY <1>1, <1>2, <1>6, <2>1, MemorySettle DEF Root
<1>. QED  BY <1>1, <1>3, <1>4, <1>5, <1>6 DEF DeltaStep, TrieNext

LEMMA ApplyRules ==
    ASSUME SnapInv, NEW batch \in Seq(Update), ApplyUpdates(batch)
    PROVE  Rule!CacheNext /\ LmdbRule!CacheNext
<1>1. /\ db \in Map /\ db' \in Map /\ Changes(db, db', Touches(batch))
      /\ entries = db /\ entries' = db'
  BY CountedAllIs DEF SnapInv, LmdbInv, ApplyUpdates, MemoryApply, LmdbApply
<1>2. Touches(batch) \in SUBSET Key
  <2>1. \A i \in DOMAIN batch : batch[i] \in Update
    OBVIOUS
  <2>. QED  BY <2>1 DEF Touches, Update
<1>. QED
  BY <1>1, <1>2, MemoryChange, LmdbChange DEF ApplyUpdates, MemoryApply, LmdbApply

LEMMA RootRules ==
    ASSUME SnapInv, SnapshotRoot
    PROVE  Rule!CacheNext /\ LmdbRule!CacheNext
<1>1. Right(entries, cache') /\ entries \in Map /\ entries' = entries /\ dirty' = {}
  BY MemoryRootRight DEF SnapInv, MemoryInv, SnapshotRoot, Root
<1>2. Right(db, db_cache') /\ db \in Map /\ db' = db /\ db_dirty' = {}
  BY LmdbRootRight DEF SnapInv, LmdbInv, SnapshotRoot, LmdbRoot
<1>. QED  BY <1>1, <1>2, MemorySettle, LmdbSettle

LEMMA NextRules ==
    ASSUME SnapInv, [SnapNext]_svars
    PROVE  [Rule!CacheNext]_(Rule!scvars) /\ [LmdbRule!CacheNext]_(LmdbRule!scvars)
<1>1. CASE UNCHANGED svars
  BY <1>1 DEF svars, tvars, lmdb, Rule!scvars, LmdbRule!scvars
<1>2. CASE SnapNext
  BY <1>2, DeltaRules, ApplyRules, RootRules, BatchIsSequence DEF SnapNext
<1>. QED  BY <1>1, <1>2

\* incremental.rs, module comment, and snapshot.rs: the caches of both backends
\* implement SubtreeCache, whose soundness is CacheSoundAlways: a cached hash
\* goes with every change below it.
THEOREM CacheRulesHold == SnapSpec => CacheRules
<1>1. SnapSpec => Rule!CacheSpec /\ LmdbRule!CacheSpec
  BY InitRule, NextRules, SnapInvAlways, PTL DEF SnapSpec, Rule!CacheSpec, LmdbRule!CacheSpec
<1>. QED  BY <1>1 DEF CacheRules, CacheRule

-----------------------------------------------------------------------------
(* A root walks next to the paths of the dirty keys and nowhere else. *)

\* A node sits at the end of q.
Stop(m, q) == q \in Paths(m) /\ Full(m, q) = q

\* Every hash that a walk of the whole trie would keep is cached, but for the
\* children of nodes with a dirty key under them.
Complete(m, c, d, pol) ==
    DOMAIN c # {} =>
        \A p \in Paths(m) :
            /\ p # <<>> /\ Stop(m, Front(p)) /\ Keeps(m, pol, p)
            /\ \A k \in d : ~IsPrefix(Front(p), k)
            => p \in DOMAIN c

LEMMA FullStops ==
    ASSUME NEW m \in Map, NEW p \in Paths(m)
    PROVE  Stop(m, Full(m, p))
<1> DEFINE f == Full(m, p)
<1>1. /\ p \in Path /\ f \in Path /\ IsPrefix(p, f) /\ Block(m, f) = Block(m, p)
      /\ Block(m, p) # {}
  BY FullIs
<1>2. f \in Paths(m)
  BY <1>1, BlockIs
<1>3. CASE p = <<>>
  BY <1>2, <1>3 DEF Full, Stop
<1>4. CASE p # <<>>
  <2>1. f # <<>>
    <3>1. Len(p) # 0 /\ Len(p) <= Len(f)
      BY <1>1, <1>4, PrefixIs DEF Path
    <3>. QED  BY <1>1, <3>1, LenOfPath
  <2>2. f = LongestCommonPrefix(Block(m, f))
    BY <1>1, <1>4 DEF Full
  <2> HIDE DEF f
  <2>3. Full(m, f) = f
    BY <2>1, <2>2 DEF Full
  <2>. QED  BY <1>2, <2>3 DEF f, Stop
<1>. QED  BY <1>3, <1>4

LEMMA FrontOfChild ==
    ASSUME NEW m \in Map, NEW p \in Paths(m), NEW c \in Nibble
    PROVE  Child(m, p, c) # <<>> /\ Front(Child(m, p, c)) = Full(m, p)
<1> DEFINE f == Full(m, p)
           a == Append(f, c)
           g == Front(a)
<1>1. f \in Path
  BY FullIs
<1> HIDE DEF f
<1>2. /\ a \in Path /\ Len(a) = Len(f) + 1 /\ a # <<>>
      /\ \A i \in 1..Len(f) : a[i] = f[i]
  BY <1>1, ChildFacts
<1> HIDE DEF a
<1>3. /\ g \in Path /\ Len(g) + 1 = Len(a) /\ a[Len(a)] \in Nibble
      /\ a = Append(g, a[Len(a)])
  BY <1>2, FrontFacts
<1> HIDE DEF g
<1> DEFINE last == a[Len(a)]
           b == Append(g, last)
<1>4. Len(g) = Len(f) /\ \A i \in 1..Len(g) : a[i] = g[i]
  <2>1. Len(g) = Len(f)
    BY <1>1, <1>2, <1>3, LenOfPath
  <2>2. last \in Nibble /\ a = b
    BY <1>3
  <2> HIDE DEF last
  <2>3. \A i \in 1..Len(g) : b[i] = g[i]
    BY <1>3, <2>2, ChildFacts
  <2> HIDE DEF b
  <2>. QED  BY <2>1, <2>2, <2>3
<1> HIDE DEF last, b
<1>5. g = f
  BY <1>1, <1>2, <1>3, <1>4, SeqEqual DEF Path
<1>. QED  BY <1>2, <1>5 DEF f, a, g, Child

\* What a walk caches.
LEMMA FreshIs ==
    ASSUME NEW m \in Map, NEW kept, NEW pol \in Policy, NEW w, IsWalk(m, kept, pol, w)
    PROVE  \A p \in Paths(m) : \A x \in w[p].fresh :
              /\ x[1] \in Paths(m) /\ x[1] \notin DOMAIN kept /\ Keeps(m, pol, x[1])
              /\ x[1] = p \/ (x[1] # <<>> /\ Stop(m, Front(x[1])))
<1> DEFINE Fine(p, x) ==
              /\ x[1] \in Paths(m) /\ x[1] \notin DOMAIN kept /\ Keeps(m, pol, x[1])
              /\ x[1] = p \/ (x[1] # <<>> /\ Stop(m, Front(x[1])))
           T == {p \in Paths(m) : \A x \in w[p].fresh : Fine(p, x)}
<1>1. ASSUME NEW p \in Paths(m), \A q \in Paths(m) : Len(p) < Len(q) => q \in T,
             NEW x \in w[p].fresh
      PROVE  Fine(p, x)
  <2>1. p \notin DOMAIN kept
    <3>1. p \in DOMAIN kept => w[p] = [hash |-> kept[p], fresh |-> {}]
      BY WalkHit
    <3>2. p \in DOMAIN kept => w[p].fresh = {}
      BY <3>1
    <3>. QED  BY <1>1, <3>2
  <2>2. x \in MemoFresh(m, kept, pol, p, w)
    BY <1>1, <2>1, WalkMiss
  <2>3. CASE Keeps(m, pol, p) /\ x = <<p, MemoHash(m, kept, p, w)>>
    BY <2>1, <2>3
  <2>4. ASSUME NEW c \in Visited(m, kept, p), x \in w[Child(m, p, c)].fresh
        PROVE  Fine(p, x)
    <3>1. c \in Nibble /\ Child(m, p, c) \in Paths(m) /\ Len(p) < Len(Child(m, p, c))
      BY <2>4, ChildIs DEF Visited
    <3>2. Fine(Child(m, p, c), x)
      BY <1>1, <2>4, <3>1
    <3>3. Child(m, p, c) # <<>> /\ Stop(m, Front(Child(m, p, c)))
      BY <3>1, FrontOfChild, FullStops
    <3>. QED  BY <3>2, <3>3
  <2>. QED  BY <2>2, <2>3, <2>4 DEF MemoFresh
<1>2. Paths(m) \subseteq T
  <2>1. \A p \in Paths(m) : (\A q \in Paths(m) : Len(p) < Len(q) => q \in T) => p \in T
    BY <1>1
  <2> HIDE DEF T
  <2>. QED  BY <2>1, FromBelow
<1>. QED  BY <1>2

\* What a walk reaches without meeting a cached hash, it caches.
Open(m, kept, rp, p) ==
    \A s \in Paths(m) : IsPrefix(rp, s) /\ IsPrefix(s, p) => s \notin DOMAIN kept

LEMMA FreshReaches ==
    ASSUME NEW m \in Map, NEW kept, NEW pol \in Policy, NEW w, IsWalk(m, kept, pol, w)
    PROVE  \A rp \in Paths(m) : \A p \in Paths(m) :
              /\ IsPrefix(rp, p) /\ Open(m, kept, rp, p) /\ Keeps(m, pol, p)
              /\ p # rp => p # <<>> /\ Stop(m, Front(p))
              => \E x \in w[rp].fresh : x[1] = p
<1> DEFINE Due(rp, p) == /\ IsPrefix(rp, p) /\ Open(m, kept, rp, p) /\ Keeps(m, pol, p)
                         /\ p # rp => p # <<>> /\ Stop(m, Front(p))
           T == {rp \in Paths(m) : \A p \in Paths(m) :
                    Due(rp, p) => \E x \in w[rp].fresh : x[1] = p}
<1>1. ASSUME NEW rp \in Paths(m), \A q \in Paths(m) : Len(rp) < Len(q) => q \in T,
             NEW p \in Paths(m), Due(rp, p)
      PROVE  \E x \in w[rp].fresh : x[1] = p
  <2>0. rp \in Path /\ p \in Path
    BY PathsArePaths
  <2>1. rp \notin DOMAIN kept
    BY <1>1, <2>0, PrefixSelf DEF Open
  <2>2. w[rp].fresh = MemoFresh(m, kept, pol, rp, w)
    BY <2>1, WalkMiss
  <2>3. CASE p = rp
    <3>1. <<p, MemoHash(m, kept, p, w)>> \in w[rp].fresh
      BY <1>1, <2>2, <2>3 DEF MemoFresh
    <3> DEFINE x == <<p, MemoHash(m, kept, p, w)>>
    <3>2. x[1] = p
      OBVIOUS
    <3> HIDE DEF x
    <3>. QED  BY <3>1, <3>2 DEF x
  <2>4. CASE p # rp
    <3> DEFINE f == Full(m, rp)
               q == Front(p)
    <3>1. /\ f \in Path /\ IsPrefix(rp, f) /\ q \in Path /\ Len(q) + 1 = Len(p)
          /\ p # <<>>
      BY <1>1, <2>0, <2>4, FullIs, FrontIsPrefix
    <3>2. IsPrefix(q, p)
      BY <1>1, <2>0, <2>4, FrontIsPrefix
    <3>3. IsPrefix(rp, q)
      <4>1. Len(rp) <= Len(p) /\ Len(rp) # Len(p)
        BY <1>1, <2>0, <2>4, PrefixIs, PrefixSame
      <4>2. Len(rp) <= Len(q)
        BY <2>0, <3>1, <4>1, LenOfPath
      <4>. QED  BY <1>1, <2>0, <3>1, <3>2, <4>2, PrefixNested
    <3>4. Stop(m, q)
      BY <1>1, <2>4
    <3> HIDE DEF q
    <3>5. IsPrefix(f, q)
      <4>1. CASE rp = <<>>
        BY <3>1, <4>1, PrefixSelf DEF Full
      <4>2. CASE rp # <<>>
        <5>1. q # <<>>
          BY <2>0, <3>1, <3>3, <4>2, PrefixIs, LenOfPath DEF Path
        <5>2. Longest(q, Block(m, q))
          BY <3>4, <5>1, FullIs DEF Stop
        <5>3. Longest(f, Block(m, rp))
          BY <4>2, FullIs
        <5>4. Block(m, q) \subseteq Block(m, rp)
          BY <2>0, <3>1, <3>3, BlockOfExtension
        <5> HIDE DEF f
        <5>. QED  BY <3>1, <5>2, <5>3, <5>4 DEF Longest
      <4>. QED  BY <4>1, <4>2
    <3> DEFINE c == p[Len(f) + 1]
               a == Child(m, rp, c)
    <3> HIDE DEF f
    <3>6. Len(f) < Len(p) /\ Len(f) + 1 \in 1..Len(p) /\ IsPrefix(f, p)
      <4>1. Len(f) <= Len(q)
        BY <3>1, <3>5, PrefixIs
      <4>2. IsPrefix(f, p)
        BY <2>0, <3>1, <3>2, <3>5, PrefixTrans
      <4>. QED  BY <2>0, <3>1, <4>1, <4>2, LenOfPath
    <3>7. c \in Nibble
      BY <2>0, <3>6, LenOfPath
    <3>8. a \in Path /\ IsPrefix(rp, a) /\ Len(rp) < Len(a)
      BY <3>7, ChildIs
    <3>9. IsPrefix(a, p)
      <4>1. IsPrefix(Append(f, c), p)
        BY <2>0, <3>1, <3>6, <3>7, PrefixChild
      <4>. QED  BY <4>1 DEF a, f, Child
    <3> HIDE DEF a, c
    <3>10. Block(m, a) # {} /\ a \in Paths(m)
      BY <2>0, <3>8, <3>9, BlockOfExtension, FullIs, BlockIs
    <3>11. a \notin DOMAIN kept
      BY <1>1, <3>8, <3>9, <3>10 DEF Open
    <3>12. Open(m, kept, a, p)
      <4>1. \A s \in Paths(m) : IsPrefix(a, s) => IsPrefix(rp, s)
        BY <2>0, <3>8, PathsArePaths, PrefixTrans
      <4>. QED  BY <1>1, <4>1 DEF Open
    <3>13. Due(a, p)
      BY <1>1, <2>4, <3>9, <3>12
    <3>14. \E x \in w[a].fresh : x[1] = p
      BY <1>1, <3>8, <3>10, <3>13
    <3>15. c \in Visited(m, kept, rp)
      BY <3>7, <3>10, <3>11 DEF Visited, a
    <3>16. w[a].fresh \subseteq w[rp].fresh
      BY <2>2, <3>15 DEF MemoFresh, a
    <3>. QED  BY <3>14, <3>16
  <2>. QED  BY <2>3, <2>4
<1>2. Paths(m) \subseteq T
  <2>1. \A rp \in Paths(m) : (\A q \in Paths(m) : Len(rp) < Len(q) => q \in T) => rp \in T
    BY <1>1
  <2> HIDE DEF T
  <2>. QED  BY <2>1, FromBelow
<1>. QED  BY <1>2

\* A change leaves what is due to be cached where no changed key is under it.
LEMMA ChangeComplete ==
    ASSUME NEW m \in Map, NEW n \in Map, NEW K, Changes(m, n, K), NEW c, NEW d,
           NEW pol, Complete(m, c, d, pol)
    PROVE  Complete(n, c, d \cup K, pol)
<1> SUFFICES ASSUME DOMAIN c # {}, NEW p \in Paths(n), p # <<>>, Stop(n, Front(p)),
                    Keeps(n, pol, p), \A k \in d \cup K : ~IsPrefix(Front(p), k)
             PROVE  p \in DOMAIN c
  BY DEF Complete
<1> DEFINE q == Front(p)
<1>1. p \in Path /\ q \in Path /\ IsPrefix(q, p)
  BY PathsArePaths, FrontIsPrefix
<1>2. Agree(m, n, q)
  BY <1>1, AgreeElsewhere
<1>3. Agree(m, n, p)
  BY <1>1, <1>2, AgreeBelow
<1>4. Block(m, q) = Block(n, q) /\ Block(m, p) = Block(n, p)
  BY <1>2, <1>3 DEF Agree
<1>5. p \in Paths(m) /\ q \in Paths(m)
  BY <1>1, <1>4, BlockIs DEF Stop
<1>6. Stop(m, q)
  BY <1>4, <1>5 DEF Stop, Full
<1>7. Keeps(m, pol, p)
  BY <1>4 DEF Keeps
<1>8. \A k \in d : ~IsPrefix(q, k)
  OBVIOUS
<1> HIDE DEF q
<1>. QED  BY <1>5, <1>6, <1>7, <1>8 DEF Complete, q

LEMMA KeptOf ==
    ASSUME NEW m \in Map, NEW c, NEW d, NEW pol, NEW w, Walks(m, c, d, pol, w)
    PROVE  \E kept : IsWalk(m, kept, pol, w) /\ DOMAIN kept = DOMAIN Evicted(c, d)
<1>1. DOMAIN NoCache = {}
  BY DEF NoCache
<1>. QED  BY <1>1 DEF Walks

LEMMA EvictedDomain ==
    ASSUME NEW c, NEW d
    PROVE  \A p : p \in DOMAIN Evicted(c, d)
                     <=> p \in DOMAIN c /\ \A k \in d : ~IsPrefix(p, k)
BY DEF Evicted, Restrict

\* With a complete cache, no path whose parent has no dirty key under it is
\* walked.
LEMMA CompleteKeeps ==
    ASSUME NEW m \in Map, NEW c, NEW d \in SUBSET Key, NEW pol, Complete(m, c, d, pol),
           DOMAIN c # {}, NEW p \in Paths(m), p # <<>>, Stop(m, Front(p)), Keeps(m, pol, p),
           \A k \in d : ~IsPrefix(Front(p), k)
    PROVE  p \in DOMAIN Evicted(c, d)
<1>1. p \in DOMAIN c
  BY DEF Complete
<1>2. p \in Path /\ Front(p) \in Path /\ IsPrefix(Front(p), p)
  BY PathsArePaths, FrontIsPrefix
<1>3. ASSUME NEW k \in d
      PROVE  ~IsPrefix(p, k)
  <2>1. k \in Path
    BY TrieAssumption DEF Path
  <2>. QED  BY <1>2, <1>3, <2>1, PrefixTrans
<1>. QED  BY <1>1, <1>3, EvictedDomain

\* A root leaves a complete cache behind.
LEMMA CompleteAfterRoot ==
    ASSUME NEW m \in Map, DOMAIN m # {}, NEW c, NEW d \in SUBSET Key, NEW pol \in Policy,
           Settled(m, c, d), Complete(m, c, d, pol), NEW w, Walks(m, c, d, pol, w)
    PROVE  Complete(m, Over(AsCache(w[<<>>].fresh), Evicted(c, d)), {}, pol)
<1> DEFINE e == Evicted(c, d)
           new == Over(AsCache(w[<<>>].fresh), e)
<1>1. DOMAIN new = {x[1] : x \in w[<<>>].fresh} \cup DOMAIN e
  BY WalkRight, EvictedRight, CacheAfterWalk
<1>2. PICK kept : IsWalk(m, kept, pol, w) /\ DOMAIN kept = DOMAIN e
  BY KeptOf
<1>3. <<>> \in Paths(m)
  BY RootPath
<1> SUFFICES ASSUME NEW p \in Paths(m), p # <<>>, Stop(m, Front(p)), Keeps(m, pol, p)
             PROVE  p \in DOMAIN new
  BY DEF Complete
<1>4. p \in Path
  BY PathsArePaths
<1>5. CASE Open(m, kept, <<>>, p)
  <2>1. \E x \in w[<<>>].fresh : x[1] = p
    BY <1>2, <1>3, <1>4, <1>5, PrefixSelf, FreshReaches
  <2>. QED  BY <1>1, <2>1
<1>6. CASE ~Open(m, kept, <<>>, p)
  <2>1. PICK s \in Paths(m) : IsPrefix(s, p) /\ s \in DOMAIN e
    BY <1>2, <1>6 DEF Open
  <2>2. CASE s = p
    BY <1>1, <2>1, <2>2
  <2>3. CASE s # p
    <3> DEFINE q == Front(p)
    <3>1. /\ s \in Path /\ q \in Path /\ Len(q) + 1 = Len(p) /\ IsPrefix(q, p)
      BY <1>4, PathsArePaths, FrontIsPrefix
    <3> HIDE DEF q
    <3>2. IsPrefix(s, q)
      <4>1. Len(s) <= Len(p) /\ Len(s) # Len(p)
        BY <1>4, <2>1, <2>3, <3>1, PrefixIs, PrefixSame
      <4>2. Len(s) <= Len(q)
        BY <1>4, <3>1, <4>1, LenOfPath
      <4>. QED  BY <1>4, <2>1, <3>1, <4>2, PrefixNested
    <3>3. s \in DOMAIN c /\ \A k \in d : ~IsPrefix(s, k)
      BY <2>1, EvictedDomain
    <3>4. \A k \in d : ~IsPrefix(q, k)
      <4> TAKE k \in d
      <4>1. k \in Path
        BY TrieAssumption DEF Path
      <4>. QED  BY <3>1, <3>2, <3>3, <4>1, PrefixTrans
    <3>5. p \in DOMAIN e
      BY <3>3, <3>4, CompleteKeeps DEF q
    <3>. QED  BY <1>1, <3>5
  <2>. QED  BY <2>2, <2>3
<1>. QED  BY <1>5, <1>6

\* A walk from a warm and complete cache stays at the frontier.
LEMMA FreshAtFrontier ==
    ASSUME NEW m \in Map, DOMAIN m # {}, NEW c, DOMAIN c # {}, NEW d \in SUBSET Key,
           NEW pol \in Policy, Complete(m, c, d, pol), NEW w, Walks(m, c, d, pol, w),
           NEW x \in w[<<>>].fresh, x[1] # <<>>
    PROVE  \E k \in d : IsPrefix(Front(x[1]), k)
<1>1. PICK kept : IsWalk(m, kept, pol, w) /\ DOMAIN kept = DOMAIN Evicted(c, d)
  BY KeptOf
<1>2. <<>> \in Paths(m)
  BY RootPath
<1>3. /\ x[1] \in Paths(m) /\ x[1] \notin DOMAIN Evicted(c, d) /\ Keeps(m, pol, x[1])
      /\ Stop(m, Front(x[1]))
  BY <1>1, <1>2, FreshIs
<1>. QED  BY <1>3, CompleteKeeps

FrontierInv == SnapInv /\ Complete(entries, cache, dirty, policy)

LEMMA NoneComplete == \A m, d, pol : Complete(m, NoCache, d, pol)
BY DEF Complete, NoCache

LEMMA RootComplete ==
    ASSUME FrontierInv, Root
    PROVE  Complete(entries', cache', dirty', policy')
<1>1. entries' = entries /\ policy' = policy /\ dirty' = {}
  BY DEF Root
<1>2. CASE DOMAIN entries = {}
  BY <1>2, NoneComplete DEF Root
<1>3. CASE DOMAIN entries # {}
  <2>1. /\ policy \in Policy /\ entries \in Map /\ dirty \in SUBSET Key
        /\ Settled(entries, cache, dirty) /\ Complete(entries, cache, dirty, policy)
    BY DEF FrontierInv, SnapInv, MemoryInv
  <2>2. PICK w : Walk = w[<<>>] /\ Walks(entries, cache, dirty, policy, w)
    BY <2>1, WalkIs
  <2>3. cache' = Over(AsCache(w[<<>>].fresh), Evicted(cache, dirty))
    BY <1>3, <2>2 DEF Root
  <2>4. Complete(entries, Over(AsCache(w[<<>>].fresh), Evicted(cache, dirty)), {}, policy)
    BY <1>3, <2>1, <2>2, CompleteAfterRoot
  <2>. QED  BY <1>1, <2>3, <2>4
<1>. QED  BY <1>2, <1>3

LEMMA NextFrontierInv == FrontierInv /\ [SnapNext]_svars => FrontierInv'
<1> SUFFICES ASSUME FrontierInv, [SnapNext]_svars
             PROVE  Complete(entries', cache', dirty', policy')
  BY NextSnapInv DEF FrontierInv
<1>1. entries \in Map /\ entries' \in Map /\ Complete(entries, cache, dirty, policy)
  BY NextSnapInv DEF FrontierInv, SnapInv, MemoryInv
<1>2. ASSUME NEW K, Changes(entries, entries', K), cache' = cache, dirty' = dirty \cup K,
             policy' = policy
      PROVE  Complete(entries', cache', dirty', policy')
  BY <1>1, <1>2, ChangeComplete
<1>3. CASE UNCHANGED svars
  BY <1>1, <1>3 DEF svars, tvars
<1>4. ASSUME NEW k \in Key, NEW v \in Entry, Insert(k, v)
      PROVE  Complete(entries', cache', dirty', policy')
  BY <1>1, <1>2, <1>4, PutIs DEF Insert
<1>5. ASSUME NEW k \in Key, RemoveKey(k)
      PROVE  Complete(entries', cache', dirty', policy')
  BY <1>1, <1>2, <1>5, RemovedIs DEF RemoveKey
<1>6. CASE Clear
  BY <1>6, NoneComplete DEF Clear
<1>7. CASE Root
  BY <1>7, RootComplete
<1>8. ASSUME NEW batch \in Seq(Update), ApplyUpdates(batch)
      PROVE  Complete(entries', cache', dirty', policy')
  <2>1. db \in Map /\ db_len = Cardinality(DOMAIN db) /\ entries = db
    BY <1>8 DEF FrontierInv, SnapInv, LmdbInv, ApplyUpdates
  <2>2. UpdatedAll(batch) = CountedAll(batch).db /\ Changes(db, CountedAll(batch).db, Touches(batch))
    BY <2>1, CountedAllIs
  <2>3. Changes(entries, entries', Touches(batch))
    BY <1>8, <2>1, <2>2 DEF ApplyUpdates, MemoryApply
  <2>. QED  BY <1>2, <1>8, <2>3 DEF ApplyUpdates, MemoryApply
<1>9. SnapNext => Complete(entries', cache', dirty', policy')
  BY <1>4, <1>5, <1>6, <1>7, <1>8, BatchIsSequence
     DEF SnapNext, DeltaStep, TrieNext, SnapshotRoot
<1>. QED  BY <1>3, <1>9

\* incremental.rs: over a warm cache root hashes only nodes whose parent lies
\* on the path of a dirty key, for every set of keys, history and threshold of
\* the parallel rebuild.
THEOREM WalkKeepsToFrontierAlways == SnapSpec => []WalkKeepsToFrontier
<1>1. SnapInit => FrontierInv
  BY InitSnapInv, NoneComplete DEF FrontierInv, SnapInit, TrieInit
<1>2. FrontierInv => WalkKeepsToFrontier
  <2> SUFFICES ASSUME FrontierInv, DOMAIN cache # {}, DOMAIN entries # {},
                      NEW x \in Walk.fresh, x[1] # <<>>
               PROVE  \E k \in dirty : IsPrefix(Front(x[1]), k)
    BY DEF WalkKeepsToFrontier
  <2>1. /\ policy \in Policy /\ entries \in Map /\ dirty \in SUBSET Key
        /\ Complete(entries, cache, dirty, policy)
    BY DEF FrontierInv, SnapInv, MemoryInv
  <2>2. PICK w : Walk = w[<<>>] /\ Walks(entries, cache, dirty, policy, w)
    BY <2>1, WalkIs
  <2>. QED  BY <2>1, <2>2, FreshAtFrontier
<1>. QED  BY <1>1, <1>2, NextFrontierInv, PTL DEF SnapSpec
=============================================================================
