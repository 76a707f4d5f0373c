-------------------------- MODULE EpochPacketProofs --------------------------
(***************************************************************************)
(* An archive gives back what the databases held: for every content of the *)
(* databases, every way to cut the epochs into groups and every sequence   *)
(* of injections, however long and however often of one reward.  A packet  *)
(* that is sound comes back from encode_packet and decode_packet as the    *)
(* same packet, and what extraction and the reward tool encode is sound.   *)
(***************************************************************************)
EXTENDS EpochPacket, AscendingLemmas, SequenceTheorems

-----------------------------------------------------------------------------
(* The concatenation of sequences. *)

LEMMA FlattenSteps ==
    ASSUME NEW A, NEW s \in Seq(Seq(A)), s # <<>>
    PROVE  \E f \in [1..Len(s) -> Seq(A)] :
              /\ f[1] = s[1]
              /\ \A i \in 2..Len(s) : f[i] = f[i - 1] \o s[i]
              /\ FlattenSeq(s) = f[Len(s)]
<1>1. /\ Len(s) \in Nat \ {0} /\ Len(s) \in 1..Len(s) /\ 1 \in 1..Len(s)
      /\ \A i \in 1..Len(s) : s[i] \in Seq(A)
  OBVIOUS
<1> DEFINE V == Seq(A)
           G == [p \in (1..Len(s)) \X V |-> IF p[1] = 1 THEN s[1] ELSE p[2] \o s[p[1]]]
           P(f) == f = [i \in 1..Len(s) |-> IF i = 1 THEN s[i] ELSE f[i - 1] \o s[i]]
           c == CHOOSE f : P(f)
<1>2. \A i \in 1..Len(s) : \A v \in V : G[<<i, v>>] \in V
  <2>1. \A i \in 1..Len(s) : \A v \in V : G[<<i, v>>] = IF i = 1 THEN s[1] ELSE v \o s[i]
    OBVIOUS
  <2>2. \A i \in 1..Len(s) : \A v \in V : (IF i = 1 THEN s[1] ELSE v \o s[i]) \in V
    BY <1>1
  <2> HIDE DEF G, V
  <2>. QED  BY <2>1, <2>2, Zenon
<1>3. <<>> \in V
  OBVIOUS
<1>4. PICK f \in [0..Len(s) -> V] : f[0] = <<>> /\ \A i \in 1..Len(s) : f[i] = G[<<i, f[i - 1]>>]
  <2> DEFINE N == Len(s)
             v0 == <<>>
  <2>1. N \in Nat /\ v0 \in V
    OBVIOUS
  <2>2. \A i \in 1..N : \A v \in V : G[<<i, v>>] \in V
    BY <1>2
  <2> HIDE DEF N, v0, V, G
  <2>3. Defines(N, V, v0, G)
    BY <2>1, <2>2, RecursionExists
  <2>. QED  BY <2>3 DEF N, v0, Defines
<1> DEFINE g == [i \in 1..Len(s) |-> f[i]]
<1>5. P(g)
  <2> SUFFICES ASSUME NEW i \in 1..Len(s)
               PROVE  f[i] = IF i = 1 THEN s[i] ELSE g[i - 1] \o s[i]
    OBVIOUS
  <2>1. i - 1 \in 0..Len(s) /\ <<i, f[i - 1]>> \in (1..Len(s)) \X V
    <3> HIDE DEF V
    <3>1. i - 1 \in 0..Len(s)
      BY <1>1
    <3>2. f[i - 1] \in V
      BY <3>1
    <3>. QED  BY <3>1, <3>2
  <2>2. f[i] = IF i = 1 THEN s[1] ELSE f[i - 1] \o s[i]
    BY <1>4, <2>1
  <2>3. i # 1 => g[i - 1] = f[i - 1]
    BY <1>1
  <2>. QED  BY <2>2, <2>3
<1> HIDE DEF g
<1>6. P(c)
  BY <1>5
<1>7. FlattenSeq(s) = c[Len(s)]
  BY <1>1 DEF FlattenSeq
<1> HIDE DEF c
<1>8. c[1] = s[1] /\ \A i \in 2..Len(s) : c[i] = c[i - 1] \o s[i]
  <2>1. \A i \in 1..Len(s) : c[i] = IF i = 1 THEN s[i] ELSE c[i - 1] \o s[i]
    BY <1>6, Zenon
  <2>2. \A i \in 2..Len(s) : i \in 1..Len(s) /\ i # 1
    BY <1>1
  <2>. QED  BY <1>1, <2>1, <2>2
<1> DEFINE S == {n \in Nat : n + 1 \in 1..Len(s) => c[n + 1] \in V}
<1>9. 0 \in S
  BY <1>1, <1>8
<1>10. ASSUME NEW n \in Nat, n \in S
       PROVE  n + 1 \in S
  <2> SUFFICES ASSUME n + 2 \in 1..Len(s)
               PROVE  c[n + 2] \in V
    BY <1>1
  <2>1. n + 1 \in 1..Len(s) /\ n + 2 \in 2..Len(s) /\ (n + 2) - 1 = n + 1
    BY <1>1
  <2>2. c[n + 1] \in V
    BY <1>10, <2>1
  <2>3. c[n + 2] = c[n + 1] \o s[n + 2]
    BY <1>8, <2>1
  <2>. QED  BY <1>1, <2>2, <2>3
<1>11. Nat \subseteq S
  <2> HIDE DEF S
  <2>. QED  BY <1>9, <1>10, InductionOnSet
<1>12. \A i \in 1..Len(s) : c[i] \in V
  <2> SUFFICES ASSUME NEW i \in 1..Len(s)
               PROVE  c[i] \in V
    OBVIOUS
  <2>1. i - 1 \in Nat /\ (i - 1) + 1 = i
    OBVIOUS
  <2>. QED  BY <1>11, <2>1
<1>13. c \in [1..Len(s) -> V]
  BY <1>6, <1>12
<1>. QED  BY <1>7, <1>8, <1>13

LEMMA FlattenEmpty == FlattenSeq(<<>>) = <<>>
BY DEF FlattenSeq

LEMMA FlattenType ==
    ASSUME NEW A, NEW s \in Seq(Seq(A))
    PROVE  FlattenSeq(s) \in Seq(A)
<1>1. CASE s = <<>>
  <2>1. FlattenSeq(s) = <<>>
    BY <1>1, FlattenEmpty
  <2>. QED  BY <2>1
<1>2. CASE s # <<>>
  <2>1. PICK f \in [1..Len(s) -> Seq(A)] : FlattenSeq(s) = f[Len(s)]
    BY <1>2, FlattenSteps
  <2>2. Len(s) \in 1..Len(s)
    BY <1>2
  <2>. QED  BY <2>1, <2>2
<1>. QED  BY <1>1, <1>2

LEMMA AppendFacts ==
    ASSUME NEW B, NEW s \in Seq(B), NEW x \in B
    PROVE  /\ Append(s, x) \in Seq(B) /\ Append(s, x) # <<>>
           /\ Len(s) \in Nat /\ Len(Append(s, x)) = Len(s) + 1
           /\ Append(s, x)[Len(s) + 1] = x
           /\ \A i \in 1..Len(s) : Append(s, x)[i] = s[i]
OBVIOUS

LEMMA FlattenAppend ==
    ASSUME NEW A, NEW s \in Seq(Seq(A)), NEW x \in Seq(A)
    PROVE  FlattenSeq(Append(s, x)) = FlattenSeq(s) \o x
<1> DEFINE t == Append(s, x)
           n == Len(s)
<1>1. /\ t \in Seq(Seq(A)) /\ t # <<>> /\ n \in Nat /\ Len(t) = n + 1 /\ t[n + 1] = x
      /\ \A i \in 1..n : t[i] = s[i]
  <2> DEFINE B == Seq(A)
  <2>1. s \in Seq(B) /\ x \in B
    OBVIOUS
  <2> HIDE DEF B
  <2>2. /\ t \in Seq(B) /\ t # <<>> /\ n \in Nat /\ Len(t) = n + 1 /\ t[n + 1] = x
        /\ \A i \in 1..n : t[i] = s[i]
    BY <2>1, AppendFacts
  <2>. QED  BY <2>2 DEF B
<1> SUFFICES FlattenSeq(t) = FlattenSeq(s) \o x
  OBVIOUS
<1> HIDE DEF t
<1>2. PICK g \in [1..Len(t) -> Seq(A)] : /\ g[1] = t[1]
                                         /\ \A i \in 2..Len(t) : g[i] = g[i - 1] \o t[i]
                                         /\ FlattenSeq(t) = g[Len(t)]
  BY <1>1, FlattenSteps
<1>3. CASE s = <<>>
  <2>1. n = 0 /\ <<>> \o x = x
    BY <1>3
  <2>. QED  BY <1>1, <1>2, <1>3, <2>1, FlattenEmpty
<1>4. CASE s # <<>>
  <2>1. n \in Nat \ {0}
    BY <1>4
  <2>2. PICK f \in [1..n -> Seq(A)] : /\ f[1] = s[1]
                                      /\ \A i \in 2..n : f[i] = f[i - 1] \o s[i]
                                      /\ FlattenSeq(s) = f[n]
    BY <1>4, FlattenSteps
  <2> DEFINE S == {k \in Nat : k + 1 \in 1..n => f[k + 1] = g[k + 1]}
  <2>3. 0 \in S
    BY <1>1, <1>2, <2>1, <2>2
  <2>4. ASSUME NEW k \in Nat, k \in S
        PROVE  k + 1 \in S
    <3> SUFFICES ASSUME k + 2 \in 1..n
                 PROVE  f[k + 2] = g[k + 2]
      BY <2>1
    <3>1. k + 1 \in 1..n /\ k + 2 \in 2..n /\ k + 2 \in 2..Len(t) /\ (k + 2) - 1 = k + 1
      BY <1>1, <2>1
    <3>2. f[k + 1] = g[k + 1]
      BY <2>4, <3>1
    <3>3. f[k + 2] = f[k + 1] \o s[k + 2] /\ g[k + 2] = g[k + 1] \o t[k + 2]
      BY <1>2, <2>2, <3>1
    <3>. QED  BY <1>1, <3>2, <3>3
  <2> HIDE DEF S
  <2>5. Nat \subseteq S
    BY <2>3, <2>4, InductionOnSet
  <2>6. f[n] = g[n]
    <3>1. n - 1 \in Nat /\ (n - 1) + 1 = n
      BY <2>1
    <3>2. \A k \in S : k + 1 \in 1..n => f[k + 1] = g[k + 1]
      BY DEF S
    <3>3. n - 1 \in S
      BY <2>5, <3>1
    <3>4. (n - 1) + 1 \in 1..n
      BY <2>1
    <3>5. f[(n - 1) + 1] = g[(n - 1) + 1]
      BY <3>2, <3>3, <3>4, Zenon
    <3>. QED  BY <3>1, <3>5
  <2>7. n + 1 \in 2..Len(t) /\ (n + 1) - 1 = n
    BY <1>1, <2>1
  <2>8. g[n + 1] = g[n] \o t[n + 1]
    BY <1>2, <2>7
  <2>. QED  BY <1>1, <1>2, <2>2, <2>6, <2>8
<1>. QED  BY <1>3, <1>4

-----------------------------------------------------------------------------
(* The pieces of a packet. *)

LEMMA FunctionIsSeq ==
    ASSUME NEW C, NEW n \in Nat, NEW f, DOMAIN f = 1..n, f = [j \in 1..n |-> f[j]],
           \A j \in 1..n : f[j] \in C
    PROVE  f \in Seq(C) /\ Len(f) = n
OBVIOUS

LEMMA ConcatFacts ==
    ASSUME NEW C, NEW x \in Seq(C), NEW y \in Seq(C)
    PROVE  /\ x \o y \in Seq(C) /\ Len(x \o y) = Len(x) + Len(y)
           /\ \A k \in 1..(Len(x) + Len(y)) :
                 (x \o y)[k] = IF k <= Len(x) THEN x[k] ELSE y[k - Len(x)]
OBVIOUS

\* A record that was cut at the prefix size is whole again, but for padding.
LEMMA CutAndJoined ==
    ASSUME NEW C, NEW r \in Seq(C), NEW size \in Nat
    PROVE  LET prefix == IF Len(r) >= size THEN SubSeq(r, 1, size)
                                           ELSE r \o [k \in 1..(size - Len(r)) |-> 0]
               rest == IF Len(r) > size THEN SubSeq(r, size + 1, Len(r)) ELSE <<>>
           IN  /\ Len(prefix \o rest) \in Nat /\ Len(prefix \o rest) >= Len(r)
               /\ \A k \in 1..Len(r) : (prefix \o rest)[k] = r[k]
<1> DEFINE prefix == IF Len(r) >= size THEN SubSeq(r, 1, size)
                                       ELSE r \o [k \in 1..(size - Len(r)) |-> 0]
           rest == IF Len(r) > size THEN SubSeq(r, size + 1, Len(r)) ELSE <<>>
<1> SUFFICES /\ Len(prefix \o rest) \in Nat /\ Len(prefix \o rest) >= Len(r)
             /\ \A k \in 1..Len(r) : (prefix \o rest)[k] = r[k]
  OBVIOUS
<1>1. CASE Len(r) > size
  <2> DEFINE x == SubSeq(r, 1, size)
             y == SubSeq(r, size + 1, Len(r))
  <2>1. x \in Seq(C) /\ y \in Seq(C)
    BY <1>1
  <2>2. /\ Len(r) \in Nat /\ Len(x) = size /\ Len(y) = Len(r) - size
        /\ \A k \in 1..size : x[k] = r[k]
        /\ \A k \in 1..(Len(r) - size) : y[k] = r[size + k]
    BY <1>1
  <2>a. prefix = x /\ rest = y
    BY <1>1, <2>2
  <2> HIDE DEF x, y, prefix, rest
  <2>b. Len(x \o y) = Len(x) + Len(y)
    BY <2>1, ConcatFacts
  <2>3. Len(x \o y) = Len(r)
    BY <2>2, <2>b
  <2>4. ASSUME NEW k \in 1..Len(r)
        PROVE  (x \o y)[k] = r[k]
    <3>1. CASE k <= size
      BY <2>1, <2>2, <3>1, ConcatFacts
    <3>2. CASE k > size
      <4>1. k - size \in 1..(Len(r) - size) /\ size + (k - size) = k
        BY <2>2, <3>2
      <4>2. (x \o y)[k] = y[k - size]
        BY <2>1, <2>2, <3>2, ConcatFacts
      <4>. QED  BY <2>2, <4>1, <4>2
    <3>. QED  BY <2>2, <3>1, <3>2
  <2>. QED  BY <2>2, <2>3, <2>4, <2>a
<1>2. CASE Len(r) = size
  BY <1>2
<1>3. CASE Len(r) < size
  <2> DEFINE zeros == [k \in 1..(size - Len(r)) |-> 0]
             D == C \cup {0}
  <2>1. r \in Seq(D) /\ zeros \in Seq(D) /\ Len(zeros) = size - Len(r)
    BY <1>3
  <2> HIDE DEF zeros, D
  <2>2. Len(r \o zeros) = size /\ r \o zeros \in Seq(D) /\ \A k \in 1..Len(r) : (r \o zeros)[k] = r[k]
    BY <1>3, <2>1
  <2>3. (r \o zeros) \o <<>> = r \o zeros
    BY <2>2
  <2>. QED  BY <1>3, <2>2, <2>3 DEF zeros
<1>. QED  BY <1>1, <1>2, <1>3

\* The epoch of a block is the height of the pivot that ends it.
EpochsEnd(blocks) ==
    /\ blocks # <<>> /\ IsPivot(blocks[Len(blocks)])
    /\ \A i \in 1..(Len(blocks) - 1) : ~IsPivot(blocks[i]) => blocks[i].epoch = blocks[i + 1].epoch
    /\ \A i \in 1..Len(blocks) : IsPivot(blocks[i]) => blocks[i].epoch = blocks[i].height

LEMMA PivotAhead ==
    ASSUME NEW B, NEW blocks \in Seq(B), EpochsEnd(blocks), NEW i \in 1..Len(blocks)
    PROVE  /\ PivotOf(blocks, i) \in i..Len(blocks) /\ PivotOf(blocks, i) # 0
           /\ blocks[PivotOf(blocks, i)].height = blocks[i].epoch
<1> DEFINE ahead == {j \in i..Len(blocks) : IsPivot(blocks[j])}
           m == Min(ahead)
<1>1. Len(blocks) \in ahead /\ ahead \in SUBSET Nat /\ Len(blocks) \in Nat
  BY DEF EpochsEnd
<1>2. m \in ahead /\ \A j \in ahead : m <= j
  BY <1>1, LeastElement
<1>3. PivotOf(blocks, i) = m
  BY <1>1 DEF PivotOf
<1> HIDE DEF m
<1>4. m \in i..Len(blocks) /\ IsPivot(blocks[m]) /\ \A j \in i..(m - 1) : ~IsPivot(blocks[j])
  <2>1. m \in i..Len(blocks) /\ IsPivot(blocks[m])
    BY <1>2
  <2>2. \A j \in i..(m - 1) : j \in i..Len(blocks) /\ ~(m <= j)
    BY <1>1, <2>1
  <2>. QED  BY <1>2, <2>1, <2>2
<1> DEFINE S == {k \in Nat : i + k <= m => blocks[i + k].epoch = blocks[i].epoch}
<1>5. 0 \in S
  OBVIOUS
<1>6. ASSUME NEW k \in Nat, k \in S
      PROVE  k + 1 \in S
  <2> SUFFICES ASSUME i + (k + 1) <= m
               PROVE  blocks[i + (k + 1)].epoch = blocks[i].epoch
    OBVIOUS
  <2>1. i + k \in i..(m - 1) /\ i + k \in 1..(Len(blocks) - 1) /\ (i + k) + 1 = i + (k + 1) /\ i + k <= m
    BY <1>4
  <2>2. blocks[i + k].epoch = blocks[(i + k) + 1].epoch
    BY <1>4, <2>1 DEF EpochsEnd
  <2>. QED  BY <1>6, <2>1, <2>2
<1>7. Nat \subseteq S
  <2> HIDE DEF S
  <2>. QED  BY <1>5, <1>6, InductionOnSet
<1>8. m - i \in Nat /\ i + (m - i) = m
  BY <1>4
<1>9. blocks[m].epoch = blocks[i].epoch
  <2>1. \A k \in S : i + k <= m => blocks[i + k].epoch = blocks[i].epoch
    OBVIOUS
  <2>2. m <= m
    BY <1>4
  <2> HIDE DEF S
  <2>3. m - i \in S
    BY <1>7, <1>8
  <2>. QED  BY <1>8, <2>1, <2>2, <2>3
<1>10. blocks[m].epoch = blocks[m].height /\ m \in 1..Len(blocks)
  BY <1>4 DEF EpochsEnd
<1>. QED  BY <1>3, <1>4, <1>9, <1>10

\* Only the pivots count.
LEMMA PivotAlike ==
    ASSUME NEW blocks, NEW others, Len(blocks) = Len(others),
           \A j \in 1..Len(blocks) : IsPivot(blocks[j]) <=> IsPivot(others[j]),
           Len(blocks) \in Nat, NEW i \in 1..Len(blocks)
    PROVE  PivotOf(blocks, i) = PivotOf(others, i)
<1>1. {j \in i..Len(blocks) : IsPivot(blocks[j])} = {j \in i..Len(others) : IsPivot(others[j])}
  OBVIOUS
<1>. QED  BY <1>1, Zenon DEF PivotOf

\* What a packet is made of.
Flag == {"pivot", "espace", "skipped", "zero", "has_tx"}

RewardEntries == {RewardEntry(k, h) : k \in Nat, h \in DOMAIN db.body}

PacketBlock ==
    [epoch   : Nat,
     hash    : DOMAIN db.body,
     height  : Nat,
     flags   : SUBSET Flag,
     view    : Nat \cup {None},
     txs     : Seq([tx : DOMAIN db.target, epoch_height : Nat]),
     refs    : Seq((Nat \X Nat) \cup {None}),
     rewards : Seq(RewardEntries),
     unlocks : Seq(Nat),
     width   : Nat]

\* A reference is to the same transaction of an earlier block; where references
\* are still to be found, no transaction occurs twice in a block.
RefersBack(blocks) ==
    \A i \in 1..Len(blocks) :
        /\ HasRefs(blocks[i]) => \A j \in 1..Len(blocks[i].txs) :
              LET r == blocks[i].refs[j]
              IN  r # None => /\ r[1] \in 1..(i - 1) /\ r[2] \in 1..Len(blocks[r[1]].txs)
                              /\ blocks[r[1]].txs[r[2]] = blocks[i].txs[j]
        /\ ~HasRefs(blocks[i]) => IsInjective(blocks[i].txs)

LEMMA ReferenceBack ==
    ASSUME NEW blocks \in Seq(PacketBlock), RefersBack(blocks),
           NEW i \in 1..Len(blocks), NEW j \in 1..Len(blocks[i].txs)
    PROVE  LET r == Reference(blocks, i, j)
           IN  /\ r \in Nat \X Nat
               /\ r = <<i, j>> \/ r[1] \in 1..(i - 1)
               /\ r[2] \in 1..Len(blocks[r[1]].txs)
               /\ blocks[r[1]].txs[r[2]] = blocks[i].txs[j]
<1>1. /\ Len(blocks) \in Nat /\ DOMAIN blocks = 1..Len(blocks) /\ i \in Nat /\ j \in Nat
      /\ \A k \in 1..Len(blocks) : blocks[k] \in PacketBlock
  OBVIOUS
<1>2. \A k \in 1..Len(blocks) : /\ Len(blocks[k].txs) \in Nat
                                /\ DOMAIN blocks[k].txs = 1..Len(blocks[k].txs)
                                /\ blocks[k].refs \in Seq((Nat \X Nat) \cup {None})
  <2> SUFFICES ASSUME NEW k \in 1..Len(blocks)
               PROVE  /\ Len(blocks[k].txs) \in Nat /\ DOMAIN blocks[k].txs = 1..Len(blocks[k].txs)
                      /\ blocks[k].refs \in Seq((Nat \X Nat) \cup {None})
    OBVIOUS
  <2>1. /\ blocks[k].txs \in Seq([tx : DOMAIN db.target, epoch_height : Nat])
        /\ blocks[k].refs \in Seq((Nat \X Nat) \cup {None})
    BY <1>1 DEF PacketBlock
  <2>. QED  BY <2>1
<1>3. CASE HasRefs(blocks[i]) /\ blocks[i].refs[j] = None
  <2>1. Reference(blocks, i, j) = <<i, j>>
    BY <1>3 DEF Reference
  <2>. QED  BY <1>1, <2>1
<1>4. CASE HasRefs(blocks[i]) /\ blocks[i].refs[j] # None
  <2>1. Reference(blocks, i, j) = blocks[i].refs[j]
    BY <1>4 DEF Reference
  <2>2. blocks[i].refs[j] \in Nat \X Nat
    <3> DEFINE R == (Nat \X Nat) \cup {None}
    <3>1. blocks[i].refs \in Seq(R) /\ j \in 1..Len(blocks[i].refs)
      BY <1>2, <1>4 DEF HasRefs
    <3> HIDE DEF R
    <3>2. blocks[i].refs[j] \in R
      BY <3>1
    <3>. QED  BY <1>4, <3>2 DEF R
  <2>. QED  BY <1>4, <2>1, <2>2 DEF RefersBack
<1>5. CASE ~HasRefs(blocks[i])
  <2> DEFINE t == blocks[i].txs[j]
             S == {k \in DOMAIN blocks : ~HasRefs(blocks[k])
                                         /\ \E x \in DOMAIN blocks[k].txs : blocks[k].txs[x] = t}
             b == Min(S)
             T == {x \in DOMAIN blocks[b].txs : blocks[b].txs[x] = t}
             c == Min(T)
  <2>1. i \in S /\ S \in SUBSET Nat
    <3>1. i \in DOMAIN blocks /\ j \in DOMAIN blocks[i].txs
      BY <1>1, <1>2
    <3>2. DOMAIN blocks \in SUBSET Nat
      BY <1>1
    <3>3. \E x \in DOMAIN blocks[i].txs : blocks[i].txs[x] = t
      BY <3>1, Zenon
    <3>. QED  BY <1>5, <3>1, <3>2, <3>3
  <2>2. b \in S /\ b <= i
    <3> HIDE DEF S
    <3>. QED  BY <2>1, LeastElement
  <2>3. Reference(blocks, i, j) = <<b, c>>
    BY <1>5, Zenon DEF Reference, FirstSeen
  <2> HIDE DEF b
  <2>4. /\ b \in 1..Len(blocks) /\ ~HasRefs(blocks[b])
        /\ \E x \in DOMAIN blocks[b].txs : blocks[b].txs[x] = t
    BY <1>1, <2>2
  <2>5. T \in SUBSET Nat /\ T # {}
    BY <1>2, <2>4
  <2>6. c \in T
    <3> HIDE DEF T
    <3>. QED  BY <2>5, LeastElement
  <2> HIDE DEF c
  <2>7. c \in 1..Len(blocks[b].txs) /\ blocks[b].txs[c] = t
    BY <1>2, <2>4, <2>6
  <2>8. b = i => c = j
    BY <1>1, <1>2, <1>5, <2>7 DEF RefersBack, IsInjective
  <2>9. b = i \/ b \in 1..(i - 1)
    BY <1>1, <2>2, <2>4
  <2>10. b \in Nat /\ c \in Nat
    BY <1>1, <1>2, <2>4, <2>7
  <2>. QED  BY <2>3, <2>7, <2>8, <2>9, <2>10
<1>. QED  BY <1>3, <1>4, <1>5

\* Picking a stretch of a sequence.
LEMMA PickedStretch ==
    ASSUME NEW s, NEW a \in Nat, NEW n \in Nat
    PROVE  Picked(s, (a + 1)..(a + n)) = [k \in 1..n |-> s[a + k]]
<1>1. a <= a + n /\ (a + n) - a = n
  OBVIOUS
<1>2. Cardinality((a + 1)..(a + n)) = n /\ \A k \in 1..n : Nth((a + 1)..(a + n), k) = a + k
  BY <1>1, NthOfInterval
<1>. QED  BY <1>2 DEF Picked

RewardItem(b, j) == [kind |-> "reward", of |-> b.rewards[j]]
UnlockItem(b, j) == [kind |-> "unlock", of |-> b.unlocks[j]]

TxItems(blocks, i) == [k \in 1..Len(blocks[i].txs) |-> TxItem(blocks, i, k)]
RewardItems(b) == [k \in 1..Len(b.rewards) |-> RewardItem(b, k)]
UnlockItems(b) == [k \in 1..Len(b.unlocks) |-> UnlockItem(b, k)]

LEMMA BlockFields ==
    ASSUME NEW b \in PacketBlock
    PROVE  /\ b.epoch \in Nat /\ b.hash \in DOMAIN db.body /\ b.height \in Nat /\ b.flags \in SUBSET Flag
           /\ b.view \in Nat \cup {None}
           /\ b.txs \in Seq([tx : DOMAIN db.target, epoch_height : Nat])
           /\ b.refs \in Seq((Nat \X Nat) \cup {None})
           /\ b.rewards \in Seq(RewardEntries) /\ b.unlocks \in Seq(Nat) /\ b.width \in Nat
           /\ Len(b.txs) \in Nat /\ DOMAIN b.txs = 1..Len(b.txs)
           /\ Len(b.rewards) \in Nat /\ DOMAIN b.rewards = 1..Len(b.rewards)
           /\ Len(b.unlocks) \in Nat /\ DOMAIN b.unlocks = 1..Len(b.unlocks)
<1>1. /\ b.epoch \in Nat /\ b.hash \in DOMAIN db.body /\ b.height \in Nat /\ b.flags \in SUBSET Flag
      /\ b.view \in Nat \cup {None}
      /\ b.txs \in Seq([tx : DOMAIN db.target, epoch_height : Nat])
      /\ b.refs \in Seq((Nat \X Nat) \cup {None})
      /\ b.rewards \in Seq(RewardEntries) /\ b.unlocks \in Seq(Nat) /\ b.width \in Nat
  BY DEF PacketBlock
<1>. QED  BY <1>1

\* The items of a payload, by kind.
LEMMA PayloadParts ==
    ASSUME NEW blocks, NEW i, blocks[i] \in PacketBlock
    PROVE  LET b == blocks[i]
               payload == Payload(blocks, i)
               n == Len(b.txs)
               m == Len(b.rewards)
               l == Len(b.unlocks)
           IN  /\ Len(payload) = n + m + l /\ DOMAIN payload = 1..(n + m + l)
               /\ payload = <<>> <=> n + m + l = 0
               /\ \A j \in 1..n : payload[j] = TxItem(blocks, i, j)
               /\ \A j \in 1..m : payload[n + j] = RewardItem(b, j)
               /\ \A j \in 1..l : payload[n + m + j] = UnlockItem(b, j)
<1> DEFINE b == blocks[i]
           n == Len(b.txs)
           m == Len(b.rewards)
           l == Len(b.unlocks)
           x == [j \in DOMAIN b.txs |-> TxItem(blocks, i, j)]
           y == [j \in DOMAIN b.rewards |-> RewardItem(b, j)]
           z == [j \in DOMAIN b.unlocks |-> UnlockItem(b, j)]
           C == {x[j] : j \in 1..n} \cup {y[j] : j \in 1..m} \cup {z[j] : j \in 1..l}
<1>1. /\ n \in Nat /\ m \in Nat /\ l \in Nat
      /\ DOMAIN b.txs = 1..n /\ DOMAIN b.rewards = 1..m /\ DOMAIN b.unlocks = 1..l
  BY BlockFields
<1>2. Payload(blocks, i) = (x \o y) \o z
  BY DEF Payload, RewardItem, UnlockItem
<1>3. /\ \A j \in 1..n : x[j] = TxItem(blocks, i, j)
      /\ \A j \in 1..m : y[j] = RewardItem(b, j)
      /\ \A j \in 1..l : z[j] = UnlockItem(b, j)
  BY <1>1
<1>4. /\ x \in Seq(C) /\ y \in Seq(C) /\ z \in Seq(C)
      /\ Len(x) = n /\ Len(y) = m /\ Len(z) = l
  <2>1. /\ DOMAIN x = 1..n /\ x = [j \in 1..n |-> x[j]]
        /\ DOMAIN y = 1..m /\ y = [j \in 1..m |-> y[j]]
        /\ DOMAIN z = 1..l /\ z = [j \in 1..l |-> z[j]]
    BY <1>1
  <2>2. /\ \A j \in 1..n : x[j] \in C
        /\ \A j \in 1..m : y[j] \in C
        /\ \A j \in 1..l : z[j] \in C
    OBVIOUS
  <2> HIDE DEF C, x, y, z, n, m, l
  <2>3. x \in Seq(C) /\ Len(x) = n
    BY <1>1, <2>1, <2>2, FunctionIsSeq
  <2>4. y \in Seq(C) /\ Len(y) = m
    BY <1>1, <2>1, <2>2, FunctionIsSeq
  <2>5. z \in Seq(C) /\ Len(z) = l
    BY <1>1, <2>1, <2>2, FunctionIsSeq
  <2>. QED  BY <2>3, <2>4, <2>5
<1> HIDE DEF x, y, z, C, b, n, m, l
<1>5. /\ x \o y \in Seq(C) /\ Len(x \o y) = n + m
      /\ \A k \in 1..(n + m) : (x \o y)[k] = IF k <= n THEN x[k] ELSE y[k - n]
  BY <1>4, ConcatFacts
<1>6. /\ (x \o y) \o z \in Seq(C) /\ Len((x \o y) \o z) = n + m + l
      /\ \A k \in 1..(n + m + l) : ((x \o y) \o z)[k] = IF k <= n + m THEN (x \o y)[k] ELSE z[k - (n + m)]
  <2> DEFINE xy == x \o y
  <2>1. xy \in Seq(C) /\ Len(xy) = n + m
    BY <1>5
  <2> HIDE DEF xy
  <2>2. z \in Seq(C)
    BY <1>4
  <2>3. /\ xy \o z \in Seq(C) /\ Len(xy \o z) = Len(xy) + Len(z)
        /\ \A k \in 1..(Len(xy) + Len(z)) :
              (xy \o z)[k] = IF k <= Len(xy) THEN xy[k] ELSE z[k - Len(xy)]
    BY <2>1, <2>2, ConcatFacts
  <2>. QED  BY <1>4, <2>1, <2>3 DEF xy
<1> DEFINE p == (x \o y) \o z
<1> SUFFICES /\ Len(p) = n + m + l /\ DOMAIN p = 1..(n + m + l)
             /\ p = <<>> <=> n + m + l = 0
             /\ \A j \in 1..n : p[j] = TxItem(blocks, i, j)
             /\ \A j \in 1..m : p[n + j] = RewardItem(b, j)
             /\ \A j \in 1..l : p[n + m + j] = UnlockItem(b, j)
  BY <1>2 DEF b, n, m, l
<1> HIDE DEF p
<1>7. /\ p \in Seq(C) /\ Len(p) = n + m + l
      /\ \A k \in 1..(n + m + l) : p[k] = IF k <= n + m THEN (IF k <= n THEN x[k] ELSE y[k - n])
                                                        ELSE z[k - (n + m)]
  BY <1>1, <1>5, <1>6 DEF p
<1>8. \A j \in 1..n : p[j] = x[j]
  BY <1>1, <1>7
<1>9. \A j \in 1..m : p[n + j] = y[j]
  <2> SUFFICES ASSUME NEW j \in 1..m
               PROVE  p[n + j] = y[j]
    OBVIOUS
  <2>1. n + j \in 1..(n + m + l) /\ n + j <= n + m /\ ~(n + j <= n) /\ (n + j) - n = j
    BY <1>1
  <2>. QED  BY <1>7, <2>1
<1>10. \A j \in 1..l : p[n + m + j] = z[j]
  <2> SUFFICES ASSUME NEW j \in 1..l
               PROVE  p[n + m + j] = z[j]
    OBVIOUS
  <2>1. n + m + j \in 1..(n + m + l) /\ ~(n + m + j <= n + m) /\ (n + m + j) - (n + m) = j
    BY <1>1
  <2>. QED  BY <1>7, <2>1
<1>11. DOMAIN p = 1..(n + m + l) /\ (p = <<>> <=> n + m + l = 0)
  BY <1>1, <1>7
<1>. QED  BY <1>3, <1>7, <1>8, <1>9, <1>10, <1>11

LEMMA ItemsBack ==
    ASSUME NEW blocks, NEW i, blocks[i] \in PacketBlock, NEW record,
           record[4] = Payload(blocks, i),
           "has_tx" \in record[2] <=> Payload(blocks, i) # <<>>
    PROVE  LET b == blocks[i]
           IN  /\ Items(record, {"tx", "ref"}) = TxItems(blocks, i)
               /\ Items(record, {"reward"}) = RewardItems(b)
               /\ Items(record, {"unlock"}) = UnlockItems(b)
<1> DEFINE b == blocks[i]
           p == Payload(blocks, i)
           n == Len(b.txs)
           m == Len(b.rewards)
           l == Len(b.unlocks)
<1>1. n \in Nat /\ m \in Nat /\ l \in Nat
  BY BlockFields
<1>2. /\ DOMAIN p = 1..(n + m + l) /\ (p = <<>> <=> n + m + l = 0)
      /\ \A j \in 1..n : p[j] = TxItem(blocks, i, j)
      /\ \A j \in 1..m : p[n + j] = RewardItem(b, j)
      /\ \A j \in 1..l : p[n + m + j] = UnlockItem(b, j)
  BY PayloadParts
<1>3. /\ \A j : TxItem(blocks, i, j).kind \in {"tx", "ref"}
      /\ \A j : RewardItem(b, j).kind = "reward" /\ UnlockItem(b, j).kind = "unlock"
  BY DEF TxItem, RewardItem, UnlockItem
<1> DEFINE At(kinds) == {j \in DOMAIN record[4] : record[4][j].kind \in kinds}
<1>4. \A kinds : Items(record, kinds) = IF p = <<>> THEN <<>> ELSE Picked(p, At(kinds))
  BY DEF Items
<1>5. \A kinds : At(kinds) = {j \in 1..(n + m + l) : p[j].kind \in kinds}
  BY <1>2
<1> HIDE DEF At, b, p, n, m, l
<1>6. /\ \A j \in 1..n : p[j].kind \in {"tx", "ref"}
      /\ \A j \in (n + 1)..(n + m) : p[j].kind = "reward"
      /\ \A j \in (n + m + 1)..(n + m + l) : p[j].kind = "unlock"
  <2>1. \A j \in (n + 1)..(n + m) : j - n \in 1..m /\ n + (j - n) = j
    BY <1>1
  <2>2. \A j \in (n + m + 1)..(n + m + l) : j - (n + m) \in 1..l /\ n + m + (j - (n + m)) = j
    BY <1>1
  <2>3. \A j \in (n + 1)..(n + m) : p[j] = RewardItem(b, j - n)
    BY <1>2, <2>1
  <2>4. \A j \in (n + m + 1)..(n + m + l) : p[j] = UnlockItem(b, j - (n + m))
    BY <1>2, <2>2
  <2>. QED  BY <1>2, <1>3, <2>3, <2>4
<1>7. /\ At({"tx", "ref"}) = 1..n
      /\ At({"reward"}) = (n + 1)..(n + m)
      /\ At({"unlock"}) = (n + m + 1)..(n + m + l)
  <2>1. \A j \in 1..(n + m + l) : \/ j \in 1..n
                                  \/ j \in (n + 1)..(n + m)
                                  \/ j \in (n + m + 1)..(n + m + l)
    BY <1>1
  <2>2. /\ \A j \in 1..n : j \in 1..(n + m + l)
        /\ \A j \in (n + 1)..(n + m) : j \in 1..(n + m + l)
        /\ \A j \in (n + m + 1)..(n + m + l) : j \in 1..(n + m + l)
    BY <1>1
  <2>3. /\ \A j \in 1..(n + m + l) : p[j].kind \in {"tx", "ref"} <=> j \in 1..n
        /\ \A j \in 1..(n + m + l) : p[j].kind \in {"reward"} <=> j \in (n + 1)..(n + m)
        /\ \A j \in 1..(n + m + l) : p[j].kind \in {"unlock"} <=> j \in (n + m + 1)..(n + m + l)
    BY <1>6, <2>1
  <2>4. At({"tx", "ref"}) = 1..n
    BY <1>5, <2>2, <2>3
  <2>5. At({"reward"}) = (n + 1)..(n + m)
    BY <1>5, <2>2, <2>3
  <2>6. At({"unlock"}) = (n + m + 1)..(n + m + l)
    BY <1>5, <2>2, <2>3
  <2>. QED  BY <2>4, <2>5, <2>6
<1>8. Picked(p, At({"tx", "ref"})) = [k \in 1..n |-> TxItem(blocks, i, k)]
  <2>1. Picked(p, (0 + 1)..(0 + n)) = [k \in 1..n |-> p[0 + k]]
    BY <1>1, PickedStretch
  <2>2. 0 + 1 = 1 /\ 0 + n = n /\ \A k \in 1..n : p[0 + k] = TxItem(blocks, i, k)
    BY <1>1, <1>2
  <2>. QED  BY <1>7, <2>1, <2>2
<1>9. /\ Picked(p, At({"reward"})) = [k \in 1..m |-> RewardItem(b, k)]
      /\ Picked(p, At({"unlock"})) = [k \in 1..l |-> UnlockItem(b, k)]
  <2>1. Picked(p, (n + 1)..(n + m)) = [k \in 1..m |-> p[n + k]]
    BY <1>1, PickedStretch, SMTT(30)
  <2> DEFINE a == n + m
  <2>2. a \in Nat
    BY <1>1
  <2> HIDE DEF a
  <2>3. Picked(p, (a + 1)..(a + l)) = [k \in 1..l |-> p[a + k]]
    BY <1>1, <2>2, PickedStretch
  <2>4. [k \in 1..m |-> p[n + k]] = [k \in 1..m |-> RewardItem(b, k)]
    BY <1>2
  <2>5. [k \in 1..l |-> p[n + m + k]] = [k \in 1..l |-> UnlockItem(b, k)]
    BY <1>2
  <2>6. Picked(p, At({"unlock"})) = [k \in 1..l |-> p[n + m + k]]
    BY <1>7, <2>3 DEF a
  <2>. QED  BY <1>7, <2>1, <2>4, <2>5, <2>6
<1>10. p = <<>> => /\ [k \in 1..n |-> TxItem(blocks, i, k)] = <<>>
                   /\ [k \in 1..m |-> RewardItem(b, k)] = <<>>
                   /\ [k \in 1..l |-> UnlockItem(b, k)] = <<>>
  <2>1. p = <<>> => n = 0 /\ m = 0 /\ l = 0
    BY <1>1, <1>2
  <2>. QED  BY <2>1
<1>11. /\ TxItems(blocks, i) = [k \in 1..n |-> TxItem(blocks, i, k)]
       /\ RewardItems(b) = [k \in 1..m |-> RewardItem(b, k)]
       /\ UnlockItems(b) = [k \in 1..l |-> UnlockItem(b, k)]
  BY DEF TxItems, RewardItems, UnlockItems, b, n, m, l
<1>. QED  BY <1>4, <1>8, <1>9, <1>10, <1>11 DEF b

\* Records of a packet and what the reader has of them.
LEMMA RecordFields ==
    ASSUME NEW p, NEW i, p.blocks[i] \in PacketBlock
    PROVE  LET b == p.blocks[i]
               r == Record(p, i)
           IN  /\ \E C : r \in Seq(C)
               /\ Len(r) = (IF b.view = None THEN 5 ELSE 6) + b.width
               /\ r[1] = b.hash
               /\ r[2] = (b.flags \ {"has_tx"}) \cup (IF Payload(p.blocks, i) = <<>> THEN {} ELSE {"has_tx"})
               /\ r[3] = b.height - p.min_height
               /\ r[4] = Payload(p.blocks, i)
               /\ r[5] = b.width
               /\ b.view # None => r[6 + b.width] = b.view - p.min_pos_height
<1> DEFINE b == p.blocks[i]
           payload == Payload(p.blocks, i)
           flags == (b.flags \ {"has_tx"}) \cup (IF payload = <<>> THEN {} ELSE {"has_tx"})
           delta == b.height - p.min_height
           view == b.view - p.min_pos_height
           n == b.width
           zeros == [k \in 1..n |-> 0]
           C == {b.hash, flags, delta, payload, view, n, 0}
           x == <<b.hash, flags, delta, payload>>
           y == IF b.view = None THEN <<>> ELSE <<view>>
           u == <<n>> \o zeros
           v == u \o y
<1>1. Record(p, i) = x \o v
  BY Zenon DEF Record, Trailer
<1>2. n \in Nat
  BY BlockFields
<1> HIDE DEF payload, flags, delta, view, n
<1>3. /\ x \in Seq(C) /\ Len(x) = 4
      /\ x[1] = b.hash /\ x[2] = flags /\ x[3] = delta /\ x[4] = payload
  OBVIOUS
<1>4. <<n>> \in Seq(C) /\ Len(<<n>>) = 1 /\ <<n>>[1] = n
  OBVIOUS
<1>5. zeros \in Seq(C) /\ Len(zeros) = n
  BY <1>2
<1>6. y \in Seq(C) /\ Len(y) = (IF b.view = None THEN 0 ELSE 1) /\ (b.view # None => y[1] = view)
  <2>1. <<view>> \in Seq(C) /\ <<>> \in Seq(C)
    OBVIOUS
  <2>2. Len(<<view>>) = 1 /\ <<view>>[1] = view /\ Len(<<>>) = 0
    OBVIOUS
  <2>3. y = IF b.view = None THEN <<>> ELSE <<view>>
    OBVIOUS
  <2> HIDE DEF y, C, b
  <2>. QED  BY <2>1, <2>2, <2>3
<1> HIDE DEF x, y, C, b, zeros
<1>7. u \in Seq(C) /\ Len(u) = n + 1 /\ u[1] = n
  <2>1. /\ u \in Seq(C) /\ Len(u) = Len(<<n>>) + Len(zeros)
        /\ \A k \in 1..(Len(<<n>>) + Len(zeros)) :
              u[k] = IF k <= Len(<<n>>) THEN <<n>>[k] ELSE zeros[k - Len(<<n>>)]
    BY <1>4, <1>5, ConcatFacts
  <2>2. u[1] = <<n>>[1]
    BY <1>2, <1>4, <1>5, <2>1
  <2>. QED  BY <1>2, <1>4, <1>5, <2>1, <2>2
<1> HIDE DEF u
<1>8. /\ v \in Seq(C) /\ Len(v) = (n + 1) + Len(y)
      /\ \A k \in 1..((n + 1) + Len(y)) : v[k] = IF k <= n + 1 THEN u[k] ELSE y[k - (n + 1)]
  <2>1. /\ v \in Seq(C) /\ Len(v) = Len(u) + Len(y)
        /\ \A k \in 1..(Len(u) + Len(y)) : v[k] = IF k <= Len(u) THEN u[k] ELSE y[k - Len(u)]
    BY <1>6, <1>7, ConcatFacts
  <2>. QED  BY <1>7, <2>1
<1> HIDE DEF v
<1>9. v[1] = n /\ (b.view # None => v[n + 2] = view)
  <2>1. v[1] = u[1]
    BY <1>2, <1>6, <1>8
  <2>2. CASE b.view # None
    <3>1. n + 2 \in 1..((n + 1) + Len(y)) /\ ~(n + 2 <= n + 1) /\ (n + 2) - (n + 1) = 1
      BY <1>2, <1>6, <2>2
    <3>. QED  BY <1>6, <1>7, <1>8, <2>1, <2>2, <3>1
  <2>. QED  BY <1>7, <2>1, <2>2
<1>10. /\ x \o v \in Seq(C) /\ Len(x \o v) = 4 + Len(v)
       /\ \A k \in 1..(4 + Len(v)) : (x \o v)[k] = IF k <= 4 THEN x[k] ELSE v[k - 4]
  <2>1. /\ x \o v \in Seq(C) /\ Len(x \o v) = Len(x) + Len(v)
        /\ \A k \in 1..(Len(x) + Len(v)) : (x \o v)[k] = IF k <= Len(x) THEN x[k] ELSE v[k - Len(x)]
    BY <1>3, <1>8, ConcatFacts
  <2>. QED  BY <1>3, <2>1
<1> DEFINE r == x \o v
<1> HIDE DEF r
<1>11. /\ Len(r) = (IF b.view = None THEN 5 ELSE 6) + n
       /\ r[1] = x[1] /\ r[2] = x[2] /\ r[3] = x[3] /\ r[4] = x[4] /\ r[5] = v[1]
  <2>1. Len(v) \in Nat /\ Len(v) >= 1 /\ 4 + Len(v) = (IF b.view = None THEN 5 ELSE 6) + n
    BY <1>2, <1>6, <1>8
  <2>2. r[5] = v[5 - 4]
    BY <1>10, <2>1 DEF r
  <2>. QED  BY <1>10, <2>1, <2>2 DEF r
<1>12. CASE b.view # None
  <2>1. 6 + n \in 1..(4 + Len(v)) /\ ~(6 + n <= 4) /\ (6 + n) - 4 = n + 2
    BY <1>2, <1>6, <1>8, <1>12
  <2>2. r[6 + n] = v[n + 2]
    BY <1>10, <2>1 DEF r
  <2>. QED  BY <1>1, <1>3, <1>9, <1>10, <1>11, <1>12, <2>2 DEF r, b, payload, flags, delta, view, n
<1>13. CASE b.view = None
  BY <1>1, <1>3, <1>9, <1>10, <1>11, <1>13 DEF r, b, payload, flags, delta, view, n
<1>. QED  BY <1>12, <1>13

LEMMA RecordsBack ==
    ASSUME NEW p, p.blocks \in Seq(PacketBlock)
    PROVE  LET rs == Records(Encode(p))
           IN  /\ DOMAIN rs = 1..Len(p.blocks)
               /\ \A i \in 1..Len(p.blocks) :
                     /\ Len(rs[i]) \in Nat /\ Len(rs[i]) >= Len(Record(p, i))
                     /\ \A k \in 1..Len(Record(p, i)) : rs[i][k] = Record(p, i)[k]
<1> DEFINE n == Len(p.blocks)
           records == [i \in DOMAIN p.blocks |-> Record(p, i)]
           size == PrefixSize(records)
           Prefix(r) == IF Len(r) >= size THEN SubSeq(r, 1, size)
                                          ELSE r \o [k \in 1..(size - Len(r)) |-> 0]
           Rest(r) == SubSeq(r, size + 1, Len(r))
           long == {i \in DOMAIN records : Len(records[i]) > size}
           rests == [i \in DOMAIN records |-> Rest(records[i])]
           w == Encode(p)
<1>1. n \in Nat /\ DOMAIN p.blocks = 1..n /\ \A i \in 1..n : p.blocks[i] \in PacketBlock
  OBVIOUS
<1>2. size \in Nat
  <2> DEFINE fit(k) == Cardinality({i \in DOMAIN records : Len(records[i]) <= PrefixSizes[k]})
             enough(k) == 10 * fit(k) >= (IF k <= 2 THEN 9 ELSE 7) * Len(records)
             sizes == {k \in 1..5 : k = 5 \/ enough(k)}
  <2>1. size = PrefixSizes[Min(sizes)]
    BY Zenon DEF PrefixSize
  <2>2. 5 \in sizes /\ sizes \in SUBSET Nat /\ \A k \in sizes : k \in 1..5
    OBVIOUS
  <2> HIDE DEF sizes
  <2>3. Min(sizes) \in 1..5
    BY <2>2, LeastElement
  <2>. QED  BY <2>1, <2>3, ConfigAssumption
<1>3. /\ w.prefixes = [i \in DOMAIN records |-> Prefix(records[i])]
      /\ w.bitmap = long
      /\ w.overflow = Picked(rests, long)
  BY DEF Encode
<1> HIDE DEF size, w, n
<1>4. DOMAIN records = 1..n /\ \A i \in 1..n : records[i] = Record(p, i)
  BY <1>1
<1> HIDE DEF records
<1>5. IsFiniteSet(long) /\ long \in SUBSET Int /\ Cardinality(long) \in Nat
  <2>1. long \in SUBSET (1..n)
    BY <1>4
  <2>2. long \in SUBSET Int
    BY <1>1, <2>1
  <2>. QED  BY <1>1, <2>1, <2>2, FiniteNumbers
<1>6. ASSUME NEW i \in long
      PROVE  OverflowOf(w, i) = Rest(records[i])
  <2>1. Rank(long, i) \in 1..Cardinality(long) /\ Nth(long, Rank(long, i)) = i
    <3> HIDE DEF long
    <3>. QED  BY <1>5, RankBounds, NthOfRank
  <2>2. OverflowOf(w, i) = Picked(rests, long)[Rank(long, i)]
    BY <1>3 DEF OverflowOf, Rank
  <2>3. OverflowOf(w, i) = rests[i]
    <3> HIDE DEF long, rests
    <3>. QED  BY <2>1, <2>2 DEF Picked
  <2>. QED  BY <2>3
<1>7. Records(w) = [i \in 1..n |-> Prefix(records[i]) \o IF i \in long THEN OverflowOf(w, i) ELSE <<>>]
  <2>1. DOMAIN w.prefixes = 1..n /\ \A i \in 1..n : w.prefixes[i] = Prefix(records[i])
    BY <1>3, <1>4
  <2>. QED  BY <1>3, <2>1 DEF Records
<1>8. ASSUME NEW i \in 1..n
      PROVE  /\ Len(Records(w)[i]) \in Nat /\ Len(Records(w)[i]) >= Len(Record(p, i))
             /\ \A k \in 1..Len(Record(p, i)) : Records(w)[i][k] = Record(p, i)[k]
  <2> DEFINE r == Record(p, i)
             prefix == IF Len(r) >= size THEN SubSeq(r, 1, size)
                                         ELSE r \o [k \in 1..(size - Len(r)) |-> 0]
             rest == IF Len(r) > size THEN SubSeq(r, size + 1, Len(r)) ELSE <<>>
  <2>1. PICK C : r \in Seq(C)
    BY <1>1, RecordFields
  <2> HIDE DEF r
  <2>2. /\ Len(prefix \o rest) \in Nat /\ Len(prefix \o rest) >= Len(r)
        /\ \A k \in 1..Len(r) : (prefix \o rest)[k] = r[k]
    BY <1>2, <2>1, CutAndJoined
  <2>3. Records(w)[i] = Prefix(r) \o IF i \in long THEN OverflowOf(w, i) ELSE <<>>
    BY <1>4, <1>7 DEF r
  <2>4. (IF i \in long THEN OverflowOf(w, i) ELSE <<>>) = rest
    BY <1>4, <1>6 DEF r
  <2>5. Records(w)[i] = prefix \o rest
    BY <2>3, <2>4
  <2> HIDE DEF prefix, rest
  <2>. QED  BY <2>2, <2>5 DEF r
<1>. QED  BY <1>7, <1>8 DEF w, n

-----------------------------------------------------------------------------
(* A sound packet comes back. *)

Packet == [prev : DOMAIN db.body, min_height : Nat, min_pos_height : Nat, blocks : Seq(PacketBlock)]

\* A packet that encode_packet takes and that is read with PosEnable.
Sound(p) ==
    /\ p \in Packet
    /\ \A i \in 1..Len(p.blocks) : p.blocks[i].view # None <=> p.blocks[i].height >= PosEnable
    /\ EpochsEnd(p.blocks)
    /\ RefersBack(p.blocks)

LEMMA SoundFields ==
    ASSUME NEW p, Sound(p)
    PROVE  /\ p.prev \in DOMAIN db.body /\ p.min_height \in Nat /\ p.min_pos_height \in Nat
           /\ p.blocks \in Seq(PacketBlock) /\ Len(p.blocks) \in Nat /\ DOMAIN p.blocks = 1..Len(p.blocks)
           /\ \A i \in 1..Len(p.blocks) : p.blocks[i] \in PacketBlock
<1>1. /\ p.prev \in DOMAIN db.body /\ p.min_height \in Nat /\ p.min_pos_height \in Nat
      /\ p.blocks \in Seq(PacketBlock)
  BY DEF Sound, Packet
<1>. QED  BY <1>1

\* The header fields of a record.
LEMMA HeaderBack ==
    ASSUME NEW p, Sound(p), NEW i \in 1..Len(p.blocks)
    PROVE  LET w == Encode(p)
               record == Records(w)[i]
               b == p.blocks[i]
           IN  /\ record[4] = Payload(p.blocks, i)
               /\ record[2] = (b.flags \ {"has_tx"})
                                 \cup (IF Payload(p.blocks, i) = <<>> THEN {} ELSE {"has_tx"})
               /\ HasView(w, record, PosEnable) => Len(record) >= 6 + record[5]
               /\ BlockOf(w, record, PosEnable) =
                     [hash |-> b.hash, flags |-> record[2], height |-> b.height,
                      width |-> b.width, view |-> b.view]
<1> DEFINE w == Encode(p)
           record == Records(w)[i]
           b == p.blocks[i]
           r == Record(p, i)
<1>1. b \in PacketBlock /\ p.min_height \in Nat /\ p.min_pos_height \in Nat /\ p.blocks \in Seq(PacketBlock)
  BY SoundFields
<1>2. b.height \in Nat /\ b.view \in Nat \cup {None} /\ b.width \in Nat
  BY <1>1, BlockFields
<1>3. w.min_height = p.min_height /\ w.min_pos_height = p.min_pos_height
  BY DEF Encode
<1>4. /\ Len(record) \in Nat /\ Len(record) >= Len(r)
      /\ \A k \in 1..Len(r) : record[k] = r[k]
  BY <1>1, RecordsBack
<1>5. /\ Len(r) = (IF b.view = None THEN 5 ELSE 6) + b.width
      /\ r[1] = b.hash
      /\ r[2] = (b.flags \ {"has_tx"}) \cup (IF Payload(p.blocks, i) = <<>> THEN {} ELSE {"has_tx"})
      /\ r[3] = b.height - p.min_height
      /\ r[4] = Payload(p.blocks, i) /\ r[5] = b.width
      /\ b.view # None => r[6 + b.width] = b.view - p.min_pos_height
  BY <1>1, RecordFields
<1>6. b.view # None <=> b.height >= PosEnable
  BY DEF Sound
<1> HIDE DEF w, record, r, b
<1>7. /\ record[1] = r[1] /\ record[2] = r[2] /\ record[3] = r[3] /\ record[4] = r[4]
      /\ record[5] = b.width
      /\ b.view # None => record[6 + b.width] = r[6 + b.width] /\ Len(record) >= 6 + b.width
  <2>1. 1 \in 1..Len(r) /\ 2 \in 1..Len(r) /\ 3 \in 1..Len(r) /\ 4 \in 1..Len(r) /\ 5 \in 1..Len(r)
    BY <1>2, <1>5
  <2>2. b.view # None => 6 + b.width \in 1..Len(r)
    BY <1>2, <1>5
  <2>3. Len(r) \in Nat
    BY <1>2, <1>5
  <2>. QED  BY <1>4, <1>5, <2>1, <2>2, <2>3
<1>8. HeightOf(w, record) = b.height
  BY <1>1, <1>2, <1>3, <1>5, <1>7 DEF HeightOf
<1>9. HasView(w, record, PosEnable) <=> b.view # None
  BY <1>6, <1>8 DEF HasView
<1>10. b.view # None => w.min_pos_height + record[6 + record[5]] = b.view
  BY <1>1, <1>2, <1>3, <1>5, <1>7
<1>11. BlockOf(w, record, PosEnable) =
          [hash |-> b.hash, flags |-> record[2], height |-> b.height,
           width |-> b.width, view |-> b.view]
  BY <1>5, <1>7, <1>8, <1>9, <1>10 DEF BlockOf
<1>. QED  BY <1>5, <1>7, <1>9, <1>11 DEF w, record, b

\* The epochs the reader assigns, from the flags and heights it has.
LEMMA EpochsBack ==
    ASSUME NEW p, Sound(p), NEW blocks, DOMAIN blocks = 1..Len(p.blocks), Len(blocks) = Len(p.blocks),
           \A i \in 1..Len(p.blocks) : blocks[i].flags = Records(Encode(p))[i][2],
           NEW i \in 1..Len(p.blocks)
    PROVE  /\ PivotOf(blocks, i) \in 1..Len(p.blocks) /\ PivotOf(blocks, i) # 0
           /\ p.blocks[PivotOf(blocks, i)].height = p.blocks[i].epoch
<1>1. p.blocks \in Seq(PacketBlock) /\ EpochsEnd(p.blocks) /\ Len(p.blocks) \in Nat
  BY SoundFields DEF Sound
<1>2. \A k \in 1..Len(p.blocks) : IsPivot(blocks[k]) <=> IsPivot(p.blocks[k])
  <2> SUFFICES ASSUME NEW k \in 1..Len(p.blocks)
               PROVE  IsPivot(blocks[k]) <=> IsPivot(p.blocks[k])
    OBVIOUS
  <2>1. Records(Encode(p))[k][2] = (p.blocks[k].flags \ {"has_tx"})
                                      \cup (IF Payload(p.blocks, k) = <<>> THEN {} ELSE {"has_tx"})
    BY HeaderBack
  <2>2. "pivot" \in Records(Encode(p))[k][2] <=> "pivot" \in p.blocks[k].flags
    BY <2>1
  <2>. QED  BY <2>2 DEF IsPivot
<1>3. PivotOf(blocks, i) = PivotOf(p.blocks, i)
  BY <1>1, <1>2, PivotAlike
<1>4. /\ PivotOf(p.blocks, i) \in i..Len(p.blocks) /\ PivotOf(p.blocks, i) # 0
      /\ p.blocks[PivotOf(p.blocks, i)].height = p.blocks[i].epoch
  BY <1>1, PivotAhead
<1>. QED  BY <1>1, <1>3, <1>4

\* An item stands for its transaction.
LEMMA TxItemBack ==
    ASSUME NEW blocks \in Seq(PacketBlock), RefersBack(blocks),
           NEW i \in 1..Len(blocks), NEW j \in 1..Len(blocks[i].txs)
    PROVE  LET x == TxItem(blocks, i, j)
               t == blocks[i].txs[j]
           IN  /\ x.kind = "ref" <=> Reference(blocks, i, j) # <<i, j>>
               /\ x.kind = "ref" => /\ x.of = Reference(blocks, i, j)
                                    /\ x.of \in Nat \X Nat /\ x.of[1] \in 1..(i - 1)
                                    /\ x.of[2] \in 1..Len(blocks[x.of[1]].txs)
                                    /\ blocks[x.of[1]].txs[x.of[2]] = t
               /\ x.kind # "ref" => [tx |-> x.of, epoch_height |-> blocks[i].epoch + x.delta] = t
<1> DEFINE x == TxItem(blocks, i, j)
           t == blocks[i].txs[j]
           ref == Reference(blocks, i, j)
<1>1. blocks[i] \in PacketBlock
  OBVIOUS
<1>2. t \in [tx : DOMAIN db.target, epoch_height : Nat] /\ blocks[i].epoch \in Nat
  <2> DEFINE s == blocks[i].txs
             T == [tx : DOMAIN db.target, epoch_height : Nat]
  <2>1. s \in Seq(T) /\ blocks[i].epoch \in Nat
    BY <1>1, BlockFields
  <2>2. j \in 1..Len(s)
    OBVIOUS
  <2> HIDE DEF s, T
  <2>3. s[j] \in T
    BY <2>1, <2>2
  <2>. QED  BY <2>1, <2>3 DEF s, T
<1>3. /\ ref \in Nat \X Nat
      /\ ref = <<i, j>> \/ ref[1] \in 1..(i - 1)
      /\ ref[2] \in 1..Len(blocks[ref[1]].txs)
      /\ blocks[ref[1]].txs[ref[2]] = t
  BY ReferenceBack
<1>4. x = IF ref = <<i, j>>
          THEN [kind |-> "tx", of |-> t.tx, delta |-> t.epoch_height - blocks[i].epoch]
          ELSE [kind |-> "ref", of |-> ref]
  BY DEF TxItem
<1> HIDE DEF ref, x, t
<1>5. ref # <<i, j>> => x.kind = "ref" /\ x.of = ref
  BY <1>4
<1>6. ref = <<i, j>> => /\ x.kind = "tx" /\ x.of = t.tx
                        /\ x.delta = t.epoch_height - blocks[i].epoch
  BY <1>4
<1>7. t = [tx |-> t.tx, epoch_height |-> t.epoch_height] /\ t.epoch_height \in Nat
  BY <1>2
<1>8. blocks[i].epoch + (t.epoch_height - blocks[i].epoch) = t.epoch_height
  BY <1>2, <1>7
<1>9. x.kind = "ref" <=> ref # <<i, j>>
  BY <1>5, <1>6
<1>10. x.kind # "ref" => [tx |-> x.of, epoch_height |-> blocks[i].epoch + x.delta] = t
  BY <1>6, <1>7, <1>8, <1>9
<1>. QED  BY <1>3, <1>5, <1>9, <1>10 DEF x, t, ref

\* The transactions of every block, from what the blocks before it have.
Rebuilt(f, items, epochs) ==
    [i \in DOMAIN items |->
       [j \in DOMAIN items[i] |->
          LET x == items[i][j]
          IN  IF x.kind = "ref" THEN f[x.of[1]][x.of[2]]
              ELSE [tx |-> x.of, epoch_height |-> epochs[i] + x.delta]]]

AllTxs(blocks) == [i \in 1..Len(blocks) |-> blocks[i].txs]

LEMMA TxsRebuilt ==
    ASSUME NEW blocks \in Seq(PacketBlock), RefersBack(blocks), NEW items, NEW epochs,
           DOMAIN items = 1..Len(blocks),
           \A i \in 1..Len(blocks) :
              items[i] = TxItems(blocks, i) /\ epochs[i] = blocks[i].epoch
    PROVE  (CHOOSE f : f = Rebuilt(f, items, epochs)) = AllTxs(blocks)
<1> DEFINE n == Len(blocks)
           all == [i \in 1..n |-> blocks[i].txs]
<1>1. n \in Nat /\ \A i \in 1..n : blocks[i] \in PacketBlock
  OBVIOUS
<1>2. \A i \in 1..n : blocks[i].txs = [j \in 1..Len(blocks[i].txs) |-> blocks[i].txs[j]]
  <2> SUFFICES ASSUME NEW i \in 1..n
               PROVE  blocks[i].txs = [j \in 1..Len(blocks[i].txs) |-> blocks[i].txs[j]]
    OBVIOUS
  <2> DEFINE s == blocks[i].txs
  <2>1. s \in Seq([tx : DOMAIN db.target, epoch_height : Nat])
    BY <1>1, BlockFields
  <2> HIDE DEF s
  <2>2. s = [j \in 1..Len(s) |-> s[j]]
    BY <2>1
  <2>. QED  BY <2>2 DEF s
<1>3. ASSUME NEW f, NEW i \in 1..n, \A k \in 1..(i - 1) : f[k] = blocks[k].txs
      PROVE  Rebuilt(f, items, epochs)[i] = blocks[i].txs
  <2>1. ASSUME NEW j \in 1..Len(blocks[i].txs)
        PROVE  Rebuilt(f, items, epochs)[i][j] = blocks[i].txs[j]
    <3> DEFINE x == TxItem(blocks, i, j)
    <3>1. Rebuilt(f, items, epochs)[i][j] =
             IF x.kind = "ref" THEN f[x.of[1]][x.of[2]]
             ELSE [tx |-> x.of, epoch_height |-> blocks[i].epoch + x.delta]
      BY DEF Rebuilt, TxItems
    <3>2. x.kind = "ref" => x.of[1] \in 1..(i - 1) /\ blocks[x.of[1]].txs[x.of[2]] = blocks[i].txs[j]
      BY TxItemBack
    <3>3. x.kind # "ref" => [tx |-> x.of, epoch_height |-> blocks[i].epoch + x.delta] = blocks[i].txs[j]
      BY TxItemBack
    <3> HIDE DEF x
    <3>. QED  BY <1>3, <3>1, <3>2, <3>3
  <2>2. Rebuilt(f, items, epochs)[i] =
           [j \in 1..Len(blocks[i].txs) |-> Rebuilt(f, items, epochs)[i][j]]
    BY DEF Rebuilt, TxItems
  <2>. QED  BY <1>2, <2>1, <2>2
<1>4. all = Rebuilt(all, items, epochs)
  <2>1. \A i \in 1..n : Rebuilt(all, items, epochs)[i] = all[i]
    <3> SUFFICES ASSUME NEW i \in 1..n
                 PROVE  Rebuilt(all, items, epochs)[i] = all[i]
      OBVIOUS
    <3>1. \A k \in 1..(i - 1) : all[k] = blocks[k].txs
      BY <1>1
    <3>. QED  BY <1>3, <3>1
  <2>2. Rebuilt(all, items, epochs) = [i \in 1..n |-> Rebuilt(all, items, epochs)[i]]
    BY DEF Rebuilt
  <2>. QED  BY <2>1, <2>2
<1>5. PICK c : /\ c = (CHOOSE f : f = Rebuilt(f, items, epochs)) /\ c = Rebuilt(c, items, epochs)
  BY <1>4, SMTT(30)
<1>6. c = [i \in 1..n |-> c[i]]
  BY <1>5 DEF Rebuilt
<1> DEFINE S == {k \in Nat : \A i \in 1..n : i <= k => c[i] = blocks[i].txs}
<1>7. 0 \in S
  BY <1>1
<1>8. ASSUME NEW k \in Nat, k \in S
      PROVE  k + 1 \in S
  <2> SUFFICES ASSUME NEW i \in 1..n, i <= k + 1
               PROVE  c[i] = blocks[i].txs
    OBVIOUS
  <2>1. \A m \in 1..(i - 1) : m \in 1..n /\ m <= k
    BY <1>1
  <2>2. \A m \in 1..(i - 1) : c[m] = blocks[m].txs
    BY <1>8, <2>1
  <2>3. Rebuilt(c, items, epochs)[i] = blocks[i].txs
    BY <1>3, <2>2
  <2>4. c[i] = Rebuilt(c, items, epochs)[i]
    BY <1>5, Zenon
  <2>. QED  BY <2>3, <2>4
<1>9. n \in S
  <2> HIDE DEF S
  <2>. QED  BY <1>1, <1>7, <1>8, InductionOnSet
<1>10. \A i \in 1..n : c[i] = blocks[i].txs
  BY <1>1, <1>9
<1>. QED  BY <1>5, <1>6, <1>10 DEF AllTxs

LEMMA ItemsOfPacket ==
    ASSUME NEW p, Sound(p), NEW i \in 1..Len(p.blocks)
    PROVE  LET record == Records(Encode(p))[i]
               b == p.blocks[i]
           IN  /\ Items(record, {"tx", "ref"}) = TxItems(p.blocks, i)
               /\ Items(record, {"reward"}) = RewardItems(b)
               /\ Items(record, {"unlock"}) = UnlockItems(b)
<1> DEFINE record == Records(Encode(p))[i]
           blocks == p.blocks
<1>1. /\ record[4] = Payload(blocks, i)
      /\ record[2] = (blocks[i].flags \ {"has_tx"})
                        \cup (IF Payload(blocks, i) = <<>> THEN {} ELSE {"has_tx"})
  BY HeaderBack
<1>2. blocks[i] \in PacketBlock
  BY SoundFields
<1> HIDE DEF record, blocks
<1>3. "has_tx" \in record[2] <=> Payload(blocks, i) # <<>>
  BY <1>1
<1>4. /\ Items(record, {"tx", "ref"}) = TxItems(blocks, i)
      /\ Items(record, {"reward"}) = RewardItems(blocks[i])
      /\ Items(record, {"unlock"}) = UnlockItems(blocks[i])
  BY <1>1, <1>2, <1>3, ItemsBack
<1>. QED  BY <1>4 DEF record, blocks

\* What the reader has of a packet: the flag that says there is a payload is
\* set by the writer, and references are as they were written.
ReturnedBlock(blocks, i) ==
    LET b == blocks[i]
    IN  [epoch   |-> b.epoch,
         hash    |-> b.hash,
         height  |-> b.height,
         flags   |-> (b.flags \ {"has_tx"}) \cup (IF Payload(blocks, i) = <<>> THEN {} ELSE {"has_tx"}),
         view    |-> b.view,
         txs     |-> b.txs,
         refs    |-> [j \in 1..Len(b.txs) |->
                        IF Reference(blocks, i, j) = <<i, j>> THEN None ELSE Reference(blocks, i, j)],
         rewards |-> b.rewards,
         unlocks |-> b.unlocks,
         width   |-> b.width]

Returned(p) ==
    [prev           |-> p.prev,
     min_height     |-> p.min_height,
     min_pos_height |-> p.min_pos_height,
     blocks         |-> [i \in 1..Len(p.blocks) |-> ReturnedBlock(p.blocks, i)]]

LEMMA PacketDecodable ==
    ASSUME NEW p, Sound(p)
    PROVE  Decodable(Encode(p), PosEnable)
<1> DEFINE w == Encode(p)
           records == Records(w)
           blocks == [i \in DOMAIN records |-> [flags |-> records[i][2]]]
           items(i) == Items(records[i], {"tx", "ref"})
<1>1. p.blocks \in Seq(PacketBlock) /\ RefersBack(p.blocks) /\ Len(p.blocks) \in Nat
  BY SoundFields DEF Sound
<1>2. DOMAIN records = 1..Len(p.blocks)
  BY <1>1, RecordsBack
<1>3. \A i \in 1..Len(p.blocks) : HasView(w, records[i], PosEnable) => Len(records[i]) >= 6 + records[i][5]
  BY HeaderBack
<1>4. \A i \in 1..Len(p.blocks) : PivotOf(blocks, i) # 0
  <2> SUFFICES ASSUME NEW i \in 1..Len(p.blocks)
               PROVE  PivotOf(blocks, i) # 0
    OBVIOUS
  <2>1. DOMAIN blocks = 1..Len(p.blocks) /\ \A k \in 1..Len(p.blocks) : blocks[k].flags = records[k][2]
    BY <1>2
  <2> HIDE DEF blocks
  <2>2. Len(blocks) = Len(p.blocks)
    BY <1>1, <2>1
  <2>. QED  BY <2>1, <2>2, EpochsBack
<1>5. \A i \in 1..Len(p.blocks) : items(i) = [k \in 1..Len(p.blocks[i].txs) |-> TxItem(p.blocks, i, k)]
  BY ItemsOfPacket DEF TxItems
<1>6. ASSUME NEW i \in 1..Len(p.blocks), NEW x \in ToSet(items(i)), x.kind = "ref"
      PROVE  x.of[1] < i /\ x.of[2] \in DOMAIN items(x.of[1])
  <2>1. PICK k \in 1..Len(p.blocks[i].txs) : x = TxItem(p.blocks, i, k)
    BY <1>5 DEF ToSet
  <2>2. x.of[1] \in 1..(i - 1) /\ x.of[2] \in 1..Len(p.blocks[x.of[1]].txs)
    BY <1>1, <1>6, <2>1, TxItemBack
  <2>3. x.of[1] \in 1..Len(p.blocks) /\ x.of[1] < i
    BY <1>1, <2>2
  <2>. QED  BY <1>5, <2>2, <2>3
<1> HIDE DEF w
<1>7. Decodable(w, PosEnable) <=>
         \A i \in DOMAIN records :
            /\ HasView(w, records[i], PosEnable) => Len(records[i]) >= 6 + records[i][5]
            /\ PivotOf(blocks, i) # 0
            /\ \A x \in ToSet(items(i)) : x.kind = "ref" =>
                  x.of[1] < i /\ x.of[2] \in DOMAIN items(x.of[1])
  BY Zenon DEF Decodable
<1> HIDE DEF records, blocks, items
<1>. QED  BY <1>2, <1>3, <1>4, <1>6, <1>7 DEF w

\* encode_packet and decode_packet are inverse but for what Returned says.
LEMMA PacketBack ==
    ASSUME NEW p, Sound(p)
    PROVE  Decode(Encode(p), PosEnable) = Returned(p)
<1> DEFINE w == Encode(p)
           n == Len(p.blocks)
           records == Records(w)
           blocks == [i \in DOMAIN records |-> BlockOf(w, records[i], PosEnable)]
           items(i) == Items(records[i], {"tx", "ref"})
           all == [i \in DOMAIN records |-> items(i)]
           epochs == [i \in DOMAIN records |-> EpochOf(blocks, i)]
           txs == CHOOSE f : f = [i \in DOMAIN records |->
                    [j \in DOMAIN items(i) |->
                       LET x == items(i)[j]
                       IN  IF x.kind = "ref" THEN f[x.of[1]][x.of[2]]
                           ELSE [tx |-> x.of, epoch_height |-> EpochOf(blocks, i) + x.delta]]]
           carried(i, kind) == LET got == Items(records[i], {kind}) IN [k \in DOMAIN got |-> got[k].of]
           block(i) ==
             [epoch   |-> EpochOf(blocks, i),
              hash    |-> blocks[i].hash,
              height  |-> blocks[i].height,
              flags   |-> blocks[i].flags,
              view    |-> blocks[i].view,
              txs     |-> txs[i],
              refs    |-> [j \in DOMAIN items(i) |->
                             IF items(i)[j].kind = "ref" THEN items(i)[j].of ELSE None],
              rewards |-> carried(i, "reward"),
              unlocks |-> carried(i, "unlock"),
              width   |-> blocks[i].width]
<1>1. p.blocks \in Seq(PacketBlock) /\ RefersBack(p.blocks) /\ n \in Nat
  BY SoundFields DEF Sound
<1>2. DOMAIN records = 1..n
  BY <1>1, RecordsBack
<1>3. Decode(w, PosEnable) = [prev           |-> w.prev,
                              min_height     |-> w.min_height,
                              min_pos_height |-> w.min_pos_height,
                              blocks         |-> [i \in DOMAIN records |-> block(i)]]
  BY Zenon DEF Decode
<1>4. w.prev = p.prev /\ w.min_height = p.min_height /\ w.min_pos_height = p.min_pos_height
  BY DEF Encode
<1>5. \A i \in 1..n : /\ items(i) = TxItems(p.blocks, i)
                      /\ Items(records[i], {"reward"}) = RewardItems(p.blocks[i])
                      /\ Items(records[i], {"unlock"}) = UnlockItems(p.blocks[i])
  BY ItemsOfPacket
<1>6. \A i \in 1..n : /\ blocks[i].hash = p.blocks[i].hash
                      /\ blocks[i].flags = records[i][2]
                      /\ blocks[i].height = p.blocks[i].height
                      /\ blocks[i].view = p.blocks[i].view
                      /\ blocks[i].width = p.blocks[i].width
  <2> SUFFICES ASSUME NEW i \in 1..n
               PROVE  /\ blocks[i].hash = p.blocks[i].hash
                      /\ blocks[i].flags = records[i][2]
                      /\ blocks[i].height = p.blocks[i].height
                      /\ blocks[i].view = p.blocks[i].view
                      /\ blocks[i].width = p.blocks[i].width
    OBVIOUS
  <2>1. blocks[i] = BlockOf(w, records[i], PosEnable)
    BY <1>2
  <2>2. BlockOf(w, records[i], PosEnable) =
           [hash |-> p.blocks[i].hash, flags |-> records[i][2],
            height |-> p.blocks[i].height, width |-> p.blocks[i].width, view |-> p.blocks[i].view]
    BY HeaderBack
  <2> HIDE DEF blocks, records, w
  <2>. QED  BY <2>1, <2>2
<1>7. \A i \in 1..n : EpochOf(blocks, i) = p.blocks[i].epoch
  <2> SUFFICES ASSUME NEW i \in 1..n
               PROVE  EpochOf(blocks, i) = p.blocks[i].epoch
    OBVIOUS
  <2>1. DOMAIN blocks = 1..n
    BY <1>2
  <2> HIDE DEF blocks
  <2>2. \A k \in 1..n : blocks[k].flags = Records(Encode(p))[k][2]
    BY <1>6
  <2>3. Len(blocks) = n
    BY <1>1, <2>1
  <2>4. /\ PivotOf(blocks, i) \in 1..n
        /\ p.blocks[PivotOf(blocks, i)].height = p.blocks[i].epoch
    BY <2>1, <2>2, <2>3, EpochsBack, SMTT(30)
  <2>. QED  BY <1>6, <2>4 DEF EpochOf
<1>8. txs = AllTxs(p.blocks)
  <2>1. \A f : Rebuilt(f, all, epochs) =
                  [i \in DOMAIN records |->
                    [j \in DOMAIN items(i) |->
                       LET x == items(i)[j]
                       IN  IF x.kind = "ref" THEN f[x.of[1]][x.of[2]]
                           ELSE [tx |-> x.of, epoch_height |-> EpochOf(blocks, i) + x.delta]]]
    <3> HIDE DEF records, blocks, items
    <3>. QED  BY DEF Rebuilt
  <2>2. txs = CHOOSE f : f = Rebuilt(f, all, epochs)
    <3> HIDE DEF records, blocks, items, all, epochs
    <3>. QED  BY <2>1
  <2>3. /\ DOMAIN all = 1..n
        /\ \A i \in 1..n : all[i] = TxItems(p.blocks, i) /\ epochs[i] = p.blocks[i].epoch
    <3> HIDE DEF records, blocks, items
    <3>. QED  BY <1>2, <1>5, <1>7
  <2> HIDE DEF all, epochs, txs
  <2>4. (CHOOSE f : f = Rebuilt(f, all, epochs)) = AllTxs(p.blocks)
    BY <1>1, <2>3, TxsRebuilt
  <2>. QED  BY <2>2, <2>4
<1>9. ASSUME NEW i \in 1..n
      PROVE  block(i) = ReturnedBlock(p.blocks, i)
  <2> DEFINE b == p.blocks[i]
  <2>1. b \in PacketBlock
    BY SoundFields
  <2>2. records[i][2] = (b.flags \ {"has_tx"}) \cup (IF Payload(p.blocks, i) = <<>> THEN {} ELSE {"has_tx"})
    BY HeaderBack
  <2>3. txs[i] = b.txs
    <3> HIDE DEF txs
    <3>. QED  BY <1>8 DEF AllTxs
  <2>4. carried(i, "reward") = b.rewards /\ carried(i, "unlock") = b.unlocks
    <3>1. carried(i, "reward") = [k \in 1..Len(b.rewards) |-> b.rewards[k]]
      <4>1. carried(i, "reward") = [k \in DOMAIN RewardItems(b) |-> RewardItems(b)[k].of]
        BY <1>5
      <4>. QED  BY <4>1 DEF RewardItems, RewardItem
    <3>2. carried(i, "unlock") = [k \in 1..Len(b.unlocks) |-> b.unlocks[k]]
      <4>1. carried(i, "unlock") = [k \in DOMAIN UnlockItems(b) |-> UnlockItems(b)[k].of]
        BY <1>5
      <4>. QED  BY <4>1 DEF UnlockItems, UnlockItem
    <3> DEFINE u == b.unlocks
               v == b.rewards
               H == RewardEntries
    <3>3. u \in Seq(Nat) /\ v \in Seq(H)
      BY <2>1, BlockFields
    <3> HIDE DEF u, v, H
    <3>4. u = [k \in 1..Len(u) |-> u[k]] /\ v = [k \in 1..Len(v) |-> v[k]]
      BY <3>3
    <3>. QED  BY <3>1, <3>2, <3>4 DEF u, v
  <2>5. [j \in DOMAIN items(i) |-> IF items(i)[j].kind = "ref" THEN items(i)[j].of ELSE None]
          = [j \in 1..Len(b.txs) |->
               IF Reference(p.blocks, i, j) = <<i, j>> THEN None ELSE Reference(p.blocks, i, j)]
    <3>1. DOMAIN items(i) = 1..Len(b.txs) /\ \A j \in 1..Len(b.txs) : items(i)[j] = TxItem(p.blocks, i, j)
      BY <1>5 DEF TxItems
    <3>2. \A j \in 1..Len(b.txs) :
             LET x == TxItem(p.blocks, i, j)
             IN  /\ x.kind = "ref" <=> Reference(p.blocks, i, j) # <<i, j>>
                 /\ x.kind = "ref" => x.of = Reference(p.blocks, i, j)
      BY <1>1, TxItemBack
    <3> HIDE DEF items
    <3>. QED  BY <3>1, <3>2
  <2> HIDE DEF txs, items, carried
  <2>6. block(i) = [epoch   |-> b.epoch,
                    hash    |-> b.hash,
                    height  |-> b.height,
                    flags   |-> records[i][2],
                    view    |-> b.view,
                    txs     |-> b.txs,
                    refs    |-> [j \in 1..Len(b.txs) |->
                                   IF Reference(p.blocks, i, j) = <<i, j>> THEN None
                                   ELSE Reference(p.blocks, i, j)],
                    rewards |-> b.rewards,
                    unlocks |-> b.unlocks,
                    width   |-> b.width]
    <3> HIDE DEF blocks, records
    <3>. QED  BY <1>6, <1>7, <2>3, <2>4, <2>5
  <2>. QED  BY <2>2, <2>6, Zenon DEF ReturnedBlock
<1>10. [i \in DOMAIN records |-> block(i)] = [i \in 1..n |-> ReturnedBlock(p.blocks, i)]
  <2> HIDE DEF block, records
  <2>. QED  BY <1>2, <1>9
<1>. QED  BY <1>3, <1>4, <1>10, Zenon DEF Returned

-----------------------------------------------------------------------------
(* What the databases hold of an epoch. *)

LEMMA Schema ==
    ASSUME db \in Databases
    PROVE  /\ \A h \in DOMAIN db.body : /\ db.height[h] \in Nat /\ db.width[h] \in Nat
                                        /\ db.pos[h] \in DOMAIN db.version
                                        /\ db.body[h] \in Seq(DOMAIN db.target)
                                        /\ IsInjective(db.body[h])
           /\ \A t \in DOMAIN db.target : db.target[t] \in Nat
           /\ \A v \in DOMAIN db.version : v \in Nat /\ db.version[v] \in Nat
           /\ db.events \in SUBSET Nat /\ IsFiniteSet(db.events)
           /\ DOMAIN db.rewards \in SUBSET Nat /\ IsFiniteSet(DOMAIN db.rewards)
<1>1. /\ db.height \in [DOMAIN db.body -> Nat]
      /\ db.width \in [DOMAIN db.body -> Nat]
      /\ db.pos \in [DOMAIN db.body -> DOMAIN db.version]
      /\ db.version \in [DOMAIN db.version -> Nat]
      /\ db.target \in [DOMAIN db.target -> Nat]
      /\ db.body \in [DOMAIN db.body -> Seq(DOMAIN db.target)]
      /\ DOMAIN db.version \subseteq Nat
      /\ db.events \subseteq Nat /\ IsFiniteSet(db.events)
      /\ DOMAIN db.rewards \subseteq Nat /\ IsFiniteSet(DOMAIN db.rewards)
  BY SchemaAssumption
<1>2. \A h \in DOMAIN db.body : IsInjective(db.body[h])
  BY DatabaseAssumption
<1> DEFINE T == DOMAIN db.target
           H == DOMAIN db.body
<1>3. \A h \in H : db.body[h] \in Seq(T)
  <2> DEFINE Q == Seq(T)
  <2>1. db.body \in [H -> Q]
    BY <1>1
  <2> HIDE DEF Q, H
  <2>2. \A h \in H : db.body[h] \in Q
    BY <2>1
  <2>. QED  BY <2>2 DEF Q
<1>. QED  BY <1>1, <1>2, <1>3

LEMMA EpochSchema ==
    ASSUME db \in Databases, NEW e \in (FirstEpoch - 1)..LastEpoch
    PROVE  /\ db.executed[e] \in Seq(DOMAIN db.body) /\ db.executed[e] # <<>>
           /\ db.skipped[e] \in Seq(DOMAIN db.body)
           /\ Pivot(e) \in DOMAIN db.body /\ db.height[Pivot(e)] = e
           /\ \A i \in DOMAIN db.executed[e] : ~Contains(db.skipped[e], db.executed[e][i])
<1> DEFINE Q == Seq(DOMAIN db.body)
<1>1. /\ db.executed \in [(FirstEpoch - 1)..LastEpoch -> Q \ {<<>>}]
      /\ db.skipped \in [(FirstEpoch - 1)..LastEpoch -> Q]
  BY SchemaAssumption
<1>2. /\ db.height[Last(db.executed[e])] = e
      /\ \A i \in DOMAIN db.executed[e] : ~Contains(db.skipped[e], db.executed[e][i])
  BY DatabaseAssumption
<1>3. db.executed[e] \in Q /\ db.executed[e] # <<>> /\ db.skipped[e] \in Q
  <2> HIDE DEF Q
  <2>. QED  BY <1>1
<1>4. Last(db.executed[e]) \in DOMAIN db.body
  <2> DEFINE s == db.executed[e]
             H == DOMAIN db.body
  <2>1. s \in Seq(H) /\ s # <<>>
    BY <1>3
  <2> HIDE DEF s, H
  <2>2. s[Len(s)] \in H
    BY <2>1
  <2>. QED  BY <2>2 DEF Last, s, H
<1>. QED  BY <1>2, <1>3, <1>4 DEF Pivot

\* An epoch in packet order.
LEMMA OrderedFacts ==
    ASSUME db \in Databases, NEW e \in (FirstEpoch - 1)..LastEpoch
    PROVE  LET n == Len(db.executed[e])
               m == Len(db.skipped[e])
               s == Ordered(e)
           IN  /\ n \in Nat /\ m \in Nat /\ n >= 1
               /\ s \in Seq(DOMAIN db.body) /\ Len(s) = n + m
               /\ \A k \in 1..(n - 1) : s[k] = db.executed[e][k]
               /\ \A k \in 1..m : s[(n - 1) + k] = db.skipped[e][k]
               /\ s[n + m] = Pivot(e) /\ Pivot(e) = db.executed[e][n]
<1> DEFINE ex == db.executed[e]
           sk == db.skipped[e]
           n == Len(ex)
           m == Len(sk)
           H == DOMAIN db.body
           front == SubSeq(ex, 1, n - 1)
           last == <<Pivot(e)>>
<1>1. ex \in Seq(H) /\ ex # <<>> /\ sk \in Seq(H) /\ Pivot(e) \in H
  BY EpochSchema
<1>2. Ordered(e) = (front \o sk) \o last /\ Pivot(e) = ex[n]
  BY DEF Ordered, Front, Pivot, Last
<1> HIDE DEF ex, sk, H
<1>3. n \in Nat /\ m \in Nat /\ n >= 1
  BY <1>1
<1>4. /\ front \in Seq(H) /\ Len(front) = n - 1 /\ \A k \in 1..(n - 1) : front[k] = ex[k]
      /\ last \in Seq(H) /\ Len(last) = 1 /\ last[1] = Pivot(e)
  <2> DEFINE c == n - 1
  <2>0. c \in Nat /\ c <= Len(ex)
    BY <1>3
  <2> HIDE DEF c
  <2>1. SubSeq(ex, 1, c) \in Seq(H) /\ Len(SubSeq(ex, 1, c)) = c
    BY <1>1, <2>0
  <2>2. \A k \in 1..c : SubSeq(ex, 1, c)[k] = ex[k]
    BY <1>1, <2>0
  <2>3. last \in Seq(H)
    BY <1>1
  <2>. QED  BY <2>1, <2>2, <2>3 DEF c
<1> HIDE DEF front, last, n, m
<1> DEFINE x == front \o sk
<1>5. /\ x \in Seq(H) /\ Len(x) = (n - 1) + m
      /\ \A k \in 1..((n - 1) + m) : x[k] = IF k <= n - 1 THEN front[k] ELSE sk[k - (n - 1)]
  <2>1. /\ x \in Seq(H) /\ Len(x) = Len(front) + Len(sk)
        /\ \A k \in 1..(Len(front) + Len(sk)) :
              x[k] = IF k <= Len(front) THEN front[k] ELSE sk[k - Len(front)]
    BY <1>1, <1>4, ConcatFacts
  <2>. QED  BY <1>4, <2>1 DEF m
<1> HIDE DEF x
<1>6. /\ x \o last \in Seq(H) /\ Len(x \o last) = n + m
      /\ \A k \in 1..(n + m) : (x \o last)[k] = IF k <= (n - 1) + m THEN x[k] ELSE last[k - ((n - 1) + m)]
  <2>1. /\ x \o last \in Seq(H) /\ Len(x \o last) = Len(x) + Len(last)
        /\ \A k \in 1..(Len(x) + Len(last)) :
              (x \o last)[k] = IF k <= Len(x) THEN x[k] ELSE last[k - Len(x)]
    BY <1>4, <1>5, ConcatFacts
  <2>2. Len(x) + Len(last) = n + m
    BY <1>3, <1>4, <1>5
  <2>. QED  BY <1>5, <2>1, <2>2
<1>7. \A k \in 1..(n - 1) : (x \o last)[k] = ex[k]
  <2>1. \A k \in 1..(n - 1) : k \in 1..(n + m) /\ k <= (n - 1) + m /\ k \in 1..((n - 1) + m)
    BY <1>3
  <2>. QED  BY <1>4, <1>5, <1>6, <2>1
<1>8. \A k \in 1..m : (x \o last)[(n - 1) + k] = sk[k]
  <2> SUFFICES ASSUME NEW k \in 1..m
               PROVE  (x \o last)[(n - 1) + k] = sk[k]
    OBVIOUS
  <2>1. /\ (n - 1) + k \in 1..(n + m) /\ (n - 1) + k <= (n - 1) + m /\ (n - 1) + k \in 1..((n - 1) + m)
        /\ ~((n - 1) + k <= n - 1) /\ ((n - 1) + k) - (n - 1) = k
    BY <1>3
  <2>. QED  BY <1>5, <1>6, <2>1
<1>9. (x \o last)[n + m] = Pivot(e)
  <2>1. n + m \in 1..(n + m) /\ ~(n + m <= (n - 1) + m) /\ (n + m) - ((n - 1) + m) = 1
    BY <1>3
  <2>. QED  BY <1>4, <1>6, <2>1
<1>10. Ordered(e) = x \o last
  BY <1>2 DEF x
<1>. QED  BY <1>2, <1>3, <1>6, <1>7, <1>8, <1>9, <1>10 DEF n, m, ex, sk, H

\* A pivot is a block of no other epoch.
LEMMA PivotElsewhere ==
    ASSUME db \in Databases,
           NEW e \in (FirstEpoch - 1)..LastEpoch, NEW f \in (FirstEpoch - 1)..LastEpoch,
           NEW j \in 1..Len(Ordered(e)), Ordered(e)[j] = Pivot(f)
    PROVE  e = f
<1> SUFFICES ASSUME e # f
             PROVE  FALSE
  OBVIOUS
<1> DEFINE ex == db.executed[e]
           sk == db.skipped[e]
           n == Len(ex)
           m == Len(sk)
           H == DOMAIN db.body
           all == ex \o sk
<1>1. ex \in Seq(H) /\ sk \in Seq(H)
  BY EpochSchema
<1>2. ~(\E i \in 1..Len(all) : all[i] = Pivot(f))
  <2>1. e \in ((FirstEpoch - 1)..LastEpoch) \ {f}
    OBVIOUS
  <2>2. ~Contains(all, Last(db.executed[f]))
    BY <2>1, DatabaseAssumption
  <2> HIDE DEF all
  <2>. QED  BY <2>2 DEF Contains, Pivot
<1>3. /\ n \in Nat /\ m \in Nat /\ n >= 1
      /\ Ordered(e) \in Seq(H) /\ Len(Ordered(e)) = n + m
      /\ \A k \in 1..(n - 1) : Ordered(e)[k] = ex[k]
      /\ \A k \in 1..m : Ordered(e)[(n - 1) + k] = sk[k]
      /\ Ordered(e)[n + m] = ex[n]
  BY OrderedFacts
<1> HIDE DEF ex, sk, H
<1>4. /\ Len(all) = n + m
      /\ \A k \in 1..(n + m) : all[k] = IF k <= n THEN ex[k] ELSE sk[k - n]
  BY <1>1, ConcatFacts
<1> HIDE DEF n, m, all
<1>5. CASE j <= n - 1
  <2>1. j \in 1..(n - 1) /\ j \in 1..(n + m) /\ j <= n
    BY <1>3, <1>5
  <2>. QED  BY <1>2, <1>3, <1>4, <2>1
<1>6. CASE j >= n /\ j < n + m
  <2> DEFINE k == j - (n - 1)
  <2>1. k \in 1..m /\ (n - 1) + k = j /\ n + k \in 1..(n + m) /\ ~(n + k <= n) /\ (n + k) - n = k
    BY <1>3, <1>6
  <2> HIDE DEF k
  <2>2. sk[k] = Pivot(f) /\ all[n + k] = sk[k]
    BY <1>3, <1>4, <2>1
  <2>. QED  BY <1>2, <1>4, <2>1, <2>2
<1>7. CASE j = n + m
  <2>1. n \in 1..(n + m) /\ n <= n
    BY <1>3
  <2>2. ex[n] = Pivot(f) /\ all[n] = ex[n]
    BY <1>3, <1>4, <1>7, <2>1
  <2>. QED  BY <1>2, <1>4, <2>1, <2>2
<1>. QED  BY <1>3, <1>5, <1>6, <1>7

\* The largest of finitely many numbers.
LEMMA GreatestElement ==
    ASSUME NEW S \in SUBSET Nat, IsFiniteSet(S), S # {}
    PROVE  Max(S) \in S
<1> DEFINE n == Cardinality(S)
           x == Nth(S, n)
<1>1. n \in Nat /\ n \in 1..n /\ S \in SUBSET Int
  BY FS_CardinalityType, FS_EmptySet
<1>2. x \in S /\ Rank(S, x) = n
  BY <1>1, RankReaches
<1> HIDE DEF x, n
<1>3. \A y \in S : x >= y
  <2> SUFFICES ASSUME NEW y \in S, ~(x >= y)
               PROVE  FALSE
    OBVIOUS
  <2>1. x < y
    BY <1>1, <1>2
  <2>2. Rank(S, x) < Rank(S, y)
    BY <1>1, <1>2, <2>1, RankGrows
  <2>3. Rank(S, y) \in 1..n
    BY <1>1, RankBounds DEF n
  <2>. QED  BY <1>1, <1>2, <2>2, <2>3
<1>. QED  BY <1>2, <1>3 DEF Max

\* What the extractor reads for a pivot is at most one reward, of that pivot.
LEMMA DistributedType ==
    ASSUME db \in Databases, NEW h \in DOMAIN db.body
    PROVE  Distributed(h) \in Seq(RewardEntries)
<1> DEFINE epochs == {k \in DOMAIN db.rewards : db.rewards[k] = h}
<1>1. CASE epochs = {}
  BY <1>1 DEF Distributed
<1>2. CASE epochs # {}
  <2>1. epochs \in SUBSET Nat /\ IsFiniteSet(epochs)
    BY Schema, FS_Subset
  <2> HIDE DEF epochs
  <2>2. Max(epochs) \in Nat
    BY <1>2, <2>1, GreatestElement
  <2>3. RewardEntry(Max(epochs), h) \in RewardEntries
    BY <2>2 DEF RewardEntries
  <2>4. Distributed(h) = <<RewardEntry(Max(epochs), h)>>
    BY <1>2 DEF Distributed, epochs
  <2> HIDE DEF RewardEntry
  <2>. QED  BY <2>3, <2>4
<1>. QED  BY <1>1, <1>2

LEMMA UnlockEventsType ==
    ASSUME db \in Databases, NEW start, NEW end
    PROVE  UnlockEvents(start, end) \in Seq(Nat)
<1> DEFINE S == {v \in db.events : start <= v /\ v < end}
           n == Cardinality(S)
<1>1. IsFiniteSet(S) /\ S \in SUBSET Nat /\ S \in SUBSET Int /\ n \in Nat
  <2>1. S \in SUBSET db.events /\ db.events \in SUBSET Nat /\ IsFiniteSet(db.events)
    BY Schema
  <2> HIDE DEF S
  <2>2. IsFiniteSet(S)
    BY <2>1, FS_Subset
  <2>. QED  BY <2>1, <2>2, FS_CardinalityType
<1>2. UnlockEvents(start, end) = [k \in 1..n |-> Nth(S, k)]
  BY DEF UnlockEvents, InOrder
<1> HIDE DEF S
<1>3. \A k \in 1..n : Nth(S, k) \in Nat
  BY <1>1, RankReaches
<1> HIDE DEF n
<1>. QED  BY <1>1, <1>2, <1>3

PosRef == DOMAIN db.version \cup {None}

LEMMA EffectivePosType ==
    ASSUME db \in Databases, NEW h \in DOMAIN db.body
    PROVE  /\ EffectivePos(h) \in PosRef /\ EffectivePos(h) \in Nat \cup {None}
           /\ EffectivePos(h) # None <=> db.height[h] >= PosEnable
<1>1. db.pos[h] \in DOMAIN db.version /\ db.height[h] \in Nat /\ \A v \in DOMAIN db.version : v \in Nat
  BY Schema
<1>2. PosEnable \in Nat /\ None \notin Nat
  BY ConfigAssumption
<1>. QED  BY <1>1, <1>2 DEF EffectivePos, PosRef

\* The scan of a group, epoch by epoch.
ScanState == [ref : PosRef, version : Nat \cup {None}, found : Seq(Seq(Nat))]

ScanStart(first) ==
    LET before == EffectivePos(Pivot(first - 1))
    IN  [ref |-> before, version |-> StartVersion(before), found |-> <<>>]

ScanStep(last, e) ==
    LET curr == EffectivePos(Pivot(e))
        moved == last.version # None /\ curr # None /\ last.ref # curr
    IN  [ref     |-> curr,
         version |-> IF curr = None THEN last.version ELSE db.version[curr],
         found   |-> Append(last.found,
                       IF moved THEN UnlockEvents(last.version, db.version[curr]) ELSE <<>>)]

LEMMA ScanTypes ==
    ASSUME db \in Databases
    PROVE  /\ \A e \in Epoch : ScanStart(e) \in ScanState
           /\ \A e \in Epoch, s \in ScanState : ScanStep(s, e) \in ScanState
<1>0. FirstEpoch \in Nat \ {0} /\ LastEpoch \in Nat /\ None \notin Nat
  BY ConfigAssumption
<1>1. \A e \in Epoch : e - 1 \in (FirstEpoch - 1)..LastEpoch /\ e \in (FirstEpoch - 1)..LastEpoch
  BY <1>0 DEF Epoch
<1>2. \A e \in (FirstEpoch - 1)..LastEpoch : EffectivePos(Pivot(e)) \in PosRef
  BY EpochSchema, EffectivePosType
<1>3. \A r \in PosRef : r # None => db.version[r] \in Nat
  BY Schema DEF PosRef
<1>4. \A e \in Epoch : ScanStart(e) \in ScanState
  <2> SUFFICES ASSUME NEW e \in Epoch
               PROVE  ScanStart(e) \in ScanState
    OBVIOUS
  <2> DEFINE r == EffectivePos(Pivot(e - 1))
             v == StartVersion(r)
  <2>1. r \in PosRef
    BY <1>1, <1>2
  <2>2. v \in Nat \cup {None}
    BY <1>3, <2>1 DEF StartVersion
  <2>3. ScanStart(e) = [ref |-> r, version |-> v, found |-> <<>>]
    BY DEF ScanStart
  <2> HIDE DEF r, v
  <2>4. <<>> \in Seq(Seq(Nat))
    OBVIOUS
  <2>. QED  BY <2>1, <2>2, <2>3, <2>4 DEF ScanState
<1>5. \A e \in Epoch, s \in ScanState : ScanStep(s, e) \in ScanState
  <2> SUFFICES ASSUME NEW e \in Epoch, NEW s \in ScanState
               PROVE  ScanStep(s, e) \in ScanState
    OBVIOUS
  <2> DEFINE c == EffectivePos(Pivot(e))
             v == IF c = None THEN s.version ELSE db.version[c]
             moved == s.version # None /\ c # None /\ s.ref # c
             u == IF moved THEN UnlockEvents(s.version, db.version[c]) ELSE <<>>
             Q == Seq(Nat)
             found == Append(s.found, u)
  <2>1. c \in PosRef
    BY <1>1, <1>2
  <2>2. s.version \in Nat \cup {None} /\ s.found \in Seq(Q)
    BY DEF ScanState
  <2>3. v \in Nat \cup {None}
    BY <1>3, <2>1, <2>2
  <2>4. u \in Q
    <3>1. UnlockEvents(s.version, db.version[c]) \in Seq(Nat)
      BY UnlockEventsType
    <3>2. <<>> \in Seq(Nat)
      OBVIOUS
    <3> HIDE DEF moved
    <3>. QED  BY <3>1, <3>2
  <2>5. ScanStep(s, e) = [ref |-> c, version |-> v, found |-> found]
    BY DEF ScanStep
  <2> HIDE DEF c, v, u, Q, moved
  <2>6. found \in Seq(Q)
    BY <2>2, <2>4
  <2> HIDE DEF found
  <2>. QED  BY <2>1, <2>3, <2>5, <2>6 DEF ScanState, Q
<1>. QED  BY <1>4, <1>5

LEMMA ScanSteps ==
    ASSUME db \in Databases, NEW first \in Epoch, NEW count \in Nat, first + count - 1 <= LastEpoch
    PROVE  \E f \in [0..count -> ScanState] :
              /\ f[0] = ScanStart(first)
              /\ \A i \in 1..count : f[i] = ScanStep(f[i - 1], first + i - 1)
              /\ \A i \in 0..count : Len(f[i].found) = i
              /\ UnlockScan(first, count) = f[count].found
<1> DEFINE V == ScanState
           v0 == ScanStart(first)
           G == [p \in (1..count) \X V |-> ScanStep(p[2], first + p[1] - 1)]
           P(f) == f = [i \in 0..count |-> IF i = 0 THEN v0 ELSE ScanStep(f[i - 1], first + i - 1)]
           c == CHOOSE f : P(f)
<1>0. FirstEpoch \in Nat \ {0} /\ LastEpoch \in Nat
  BY ConfigAssumption
<1>1. \A i \in 1..count : first + i - 1 \in Epoch
  BY <1>0 DEF Epoch
<1>2. v0 \in V /\ \A i \in 1..count : \A v \in V : ScanStep(v, first + i - 1) \in V
  BY <1>1, ScanTypes
<1>3. \A i \in 1..count : \A v \in V : G[<<i, v>>] = ScanStep(v, first + i - 1)
  OBVIOUS
<1> HIDE DEF V, v0, G
<1>4. PICK f \in [0..count -> V] : f[0] = v0 /\ \A i \in 1..count : f[i] = G[<<i, f[i - 1]>>]
  <2>1. \A i \in 1..count : \A v \in V : G[<<i, v>>] \in V
    BY <1>2, <1>3
  <2>2. Defines(count, V, v0, G)
    BY <1>2, <2>1, RecursionExists
  <2>. QED  BY <2>2 DEF Defines
<1>5. P(f)
  <2>1. \A i \in 1..count : f[i] = ScanStep(f[i - 1], first + i - 1)
    <3> SUFFICES ASSUME NEW i \in 1..count
                 PROVE  f[i] = ScanStep(f[i - 1], first + i - 1)
      OBVIOUS
    <3>1. i - 1 \in 0..count
      OBVIOUS
    <3>2. f[i - 1] \in V
      BY <3>1
    <3>. QED  BY <1>3, <1>4, <3>2
  <2>2. \A i \in 0..count : i # 0 => i \in 1..count
    OBVIOUS
  <2>. QED  BY <1>4, <2>1, <2>2
<1>6. P(c)
  BY <1>5
<1>7. UnlockScan(first, count) = c[count].found
  BY Zenon DEF UnlockScan, ScanStart, ScanStep, v0
<1> HIDE DEF c
<1>8. c[0] = v0 /\ \A i \in 1..count : c[i] = ScanStep(c[i - 1], first + i - 1)
  <2>1. \A i \in 0..count : c[i] = IF i = 0 THEN v0 ELSE ScanStep(c[i - 1], first + i - 1)
    BY <1>6, Zenon
  <2>2. 0 \in 0..count /\ \A i \in 1..count : i \in 0..count /\ i # 0
    OBVIOUS
  <2>. QED  BY <2>1, <2>2
<1> DEFINE S == {n \in Nat : n \in 0..count => c[n] \in V /\ Len(c[n].found) = n}
<1>9. 0 \in S
  BY <1>2, <1>8 DEF v0, ScanStart
<1>10. ASSUME NEW n \in Nat, n \in S
       PROVE  n + 1 \in S
  <2> SUFFICES ASSUME n + 1 \in 0..count
               PROVE  c[n + 1] \in V /\ Len(c[n + 1].found) = n + 1
    OBVIOUS
  <2>1. n \in 0..count /\ n + 1 \in 1..count /\ (n + 1) - 1 = n
    OBVIOUS
  <2>2. c[n] \in V /\ Len(c[n].found) = n
    BY <1>10, <2>1
  <2> DEFINE e == first + (n + 1) - 1
  <2>3. c[n + 1] = ScanStep(c[n], e)
    BY <1>8, <2>1
  <2> HIDE DEF e
  <2>4. PICK u : ScanStep(c[n], e).found = Append(c[n].found, u)
    BY DEF ScanStep
  <2>5. c[n].found \in Seq(Seq(Nat))
    BY <2>2 DEF V, ScanState
  <2>6. Len(Append(c[n].found, u)) = n + 1
    BY <2>2, <2>5
  <2>7. ScanStep(c[n], e) \in V
    BY <1>2, <2>1, <2>2 DEF e
  <2>. QED  BY <2>3, <2>4, <2>6, <2>7
<1>11. Nat \subseteq S
  <2> HIDE DEF S
  <2>. QED  BY <1>9, <1>10, InductionOnSet
<1>12. \A i \in 0..count : c[i] \in V /\ Len(c[i].found) = i
  BY <1>11
<1>13. c \in [0..count -> V]
  BY <1>6, <1>12
<1>. QED  BY <1>7, <1>8, <1>12, <1>13 DEF V, v0

-----------------------------------------------------------------------------
(* Where an epoch ends among the blocks of all epochs. *)

IsEnd(f) == /\ f \in [0..(FirstEpoch + LastEpoch) -> Nat]
            /\ f[FirstEpoch - 1] = 0
            /\ \A e \in Epoch : f[e] = f[e - 1] + Len(Ordered(e))

End == CHOOSE f : IsEnd(f)

LEMMA EndFacts ==
    ASSUME db \in Databases
    PROVE  /\ End[FirstEpoch - 1] = 0
           /\ \A e \in Epoch : /\ End[e] \in Nat /\ End[e - 1] \in Nat
                               /\ Len(Ordered(e)) \in Nat /\ Len(Ordered(e)) >= 1
                               /\ End[e] = End[e - 1] + Len(Ordered(e))
<1> DEFINE N == FirstEpoch + LastEpoch
           V == Nat
           v0 == 0
           G == [p \in (1..N) \X V |-> IF p[1] \in Epoch THEN p[2] + Len(Ordered(p[1])) ELSE 0]
<1>0. FirstEpoch \in Nat \ {0} /\ LastEpoch \in Nat
  BY ConfigAssumption
<1>1. \A e \in Epoch : e \in 1..N /\ e - 1 \in 0..N /\ e \in 0..N
  BY <1>0 DEF Epoch
<1>2. \A e \in Epoch : Len(Ordered(e)) \in Nat /\ Len(Ordered(e)) >= 1
  <2> SUFFICES ASSUME NEW e \in Epoch
               PROVE  Len(Ordered(e)) \in Nat /\ Len(Ordered(e)) >= 1
    OBVIOUS
  <2>1. e \in (FirstEpoch - 1)..LastEpoch
    BY <1>0 DEF Epoch
  <2>2. PICK n \in Nat, m \in Nat : n >= 1 /\ Len(Ordered(e)) = n + m
    BY <2>1, OrderedFacts
  <2>. QED  BY <2>2
<1>3. \A i \in 1..N : \A v \in V : G[<<i, v>>] = IF i \in Epoch THEN v + Len(Ordered(i)) ELSE 0
  OBVIOUS
<1>4. \A i \in 1..N : \A v \in V : G[<<i, v>>] \in V
  <2>1. \A i \in 1..N : \A v \in V : (IF i \in Epoch THEN v + Len(Ordered(i)) ELSE 0) \in V
    BY <1>2
  <2> HIDE DEF G, V
  <2>. QED  BY <1>3, <2>1, Zenon
<1>5. PICK f \in [0..N -> V] : f[0] = v0 /\ \A i \in 1..N : f[i] = G[<<i, f[i - 1]>>]
  <2>1. N \in Nat /\ v0 \in V
    BY <1>0
  <2> HIDE DEF N, v0, V, G
  <2>2. Defines(N, V, v0, G)
    BY <1>4, <2>1, RecursionExists
  <2>. QED  BY <2>2 DEF Defines
<1>6. IsEnd(f)
  <2> HIDE DEF G
  <2>1. \A i \in 1..N : f[i] = IF i \in Epoch THEN f[i - 1] + Len(Ordered(i)) ELSE 0
    <3> SUFFICES ASSUME NEW i \in 1..N
                 PROVE  f[i] = IF i \in Epoch THEN f[i - 1] + Len(Ordered(i)) ELSE 0
      OBVIOUS
    <3>1. i - 1 \in 0..N
      BY <1>0
    <3>2. f[i - 1] \in V
      BY <3>1
    <3>. QED  BY <1>3, <1>5, <3>2
  <2>2. f[FirstEpoch - 1] = 0
    <3>1. CASE FirstEpoch = 1
      BY <1>5, <3>1
    <3>2. CASE FirstEpoch # 1
      <4>1. FirstEpoch - 1 \in 1..N /\ FirstEpoch - 1 \notin Epoch
        BY <1>0, <3>2 DEF Epoch
      <4>. QED  BY <2>1, <4>1
    <3>. QED  BY <3>1, <3>2
  <2>3. \A e \in Epoch : f[e] = f[e - 1] + Len(Ordered(e))
    BY <1>1, <2>1
  <2>. QED  BY <1>5, <2>2, <2>3 DEF IsEnd
<1>7. IsEnd(End)
  BY <1>6 DEF End
<1>. QED  BY <1>1, <1>2, <1>7 DEF IsEnd

LEMMA EndGrows ==
    ASSUME db \in Databases, NEW d \in (FirstEpoch - 1)..LastEpoch, NEW e \in (FirstEpoch - 1)..LastEpoch, d <= e
    PROVE  End[d] \in Nat /\ End[e] \in Nat /\ End[d] <= End[e]
<1>0. FirstEpoch \in Nat \ {0} /\ LastEpoch \in Nat
  BY ConfigAssumption
<1>1. \A x \in (FirstEpoch - 1)..LastEpoch : End[x] \in Nat
  <2> SUFFICES ASSUME NEW x \in (FirstEpoch - 1)..LastEpoch
               PROVE  End[x] \in Nat
    OBVIOUS
  <2>1. x = FirstEpoch - 1 \/ x \in Epoch
    BY <1>0 DEF Epoch
  <2>. QED  BY <2>1, EndFacts
<1> DEFINE S == {k \in Nat : d + k <= e => End[d] <= End[d + k]}
<1>2. 0 \in S
  BY <1>0, <1>1
<1>3. ASSUME NEW k \in Nat, k \in S
      PROVE  k + 1 \in S
  <2> SUFFICES ASSUME d + (k + 1) <= e
               PROVE  End[d] <= End[d + (k + 1)]
    OBVIOUS
  <2>1. d + k <= e /\ d + (k + 1) \in Epoch /\ (d + (k + 1)) - 1 = d + k
        /\ d + k \in (FirstEpoch - 1)..LastEpoch
    BY <1>0 DEF Epoch
  <2>2. End[d + (k + 1)] = End[d + k] + Len(Ordered(d + (k + 1))) /\ Len(Ordered(d + (k + 1))) \in Nat
    BY <2>1, EndFacts
  <2>3. End[d] <= End[d + k] /\ End[d + k] \in Nat /\ End[d] \in Nat
    BY <1>1, <1>3, <2>1
  <2>. QED  BY <2>2, <2>3
<1>4. e - d \in S
  <2> HIDE DEF S
  <2>1. e - d \in Nat
    BY <1>0
  <2>. QED  BY <1>2, <1>3, <2>1, InductionOnSet
<1>5. d + (e - d) = e /\ e <= e
  BY <1>0
<1>. QED  BY <1>1, <1>4, <1>5

\* Block number `at` of all blocks, counted from the first epoch.
Placed(b, at) ==
    /\ b.epoch \in Epoch
    /\ End[b.epoch - 1] < at /\ at <= End[b.epoch]
    /\ b.hash = Ordered(b.epoch)[at - End[b.epoch - 1]]
    /\ b.flags \ {"has_tx"} = Flags(b.epoch, b.hash)

\* A position is in one epoch.
LEMMA OneEpoch ==
    ASSUME db \in Databases, NEW d \in Epoch, NEW e \in Epoch, NEW x \in Nat, NEW y \in Nat, x <= y,
           End[d - 1] < x, x <= End[d], End[e - 1] < y, y <= End[e]
    PROVE  d <= e
<1>0. FirstEpoch \in Nat \ {0} /\ LastEpoch \in Nat
  BY ConfigAssumption
<1> SUFFICES ASSUME e < d
             PROVE  FALSE
  BY <1>0 DEF Epoch
<1>1. e \in (FirstEpoch - 1)..LastEpoch /\ d - 1 \in (FirstEpoch - 1)..LastEpoch /\ e <= d - 1
  BY <1>0 DEF Epoch
<1>2. End[e] \in Nat /\ End[d - 1] \in Nat /\ End[e] <= End[d - 1]
  BY <1>1, EndGrows
<1>. QED  BY <1>2

\* The pivot is the last block of its epoch.
LEMMA PivotLast ==
    ASSUME db \in Databases, NEW b, NEW at \in Nat, Placed(b, at), b.flags \in SUBSET Flag
    PROVE  /\ b.hash \in DOMAIN db.body
           /\ at = End[b.epoch] => IsPivot(b)
           /\ IsPivot(b) => b.hash = Pivot(b.epoch) /\ db.height[b.hash] = b.epoch
           /\ IsPivot(b) <=> b.hash = Pivot(b.epoch)
<1>0. FirstEpoch \in Nat \ {0} /\ LastEpoch \in Nat
  BY ConfigAssumption
<1> DEFINE e == b.epoch
           s == Ordered(e)
           n == Len(s)
           H == DOMAIN db.body
<1>1. /\ e \in Epoch /\ End[e - 1] < at /\ at <= End[e] /\ b.hash = s[at - End[e - 1]]
      /\ b.flags \ {"has_tx"} = Flags(e, b.hash)
  BY DEF Placed
<1>2. e \in (FirstEpoch - 1)..LastEpoch
  BY <1>0, <1>1 DEF Epoch
<1>3. s \in Seq(H) /\ s[n] = Pivot(e)
  BY <1>2, OrderedFacts
<1>4. n \in Nat /\ n >= 1 /\ End[e] = End[e - 1] + n /\ End[e - 1] \in Nat
  BY <1>1, EndFacts
<1>5. IsPivot(b) <=> b.hash = Pivot(e)
  <2>1. "pivot" \in b.flags \ {"has_tx"} <=> "pivot" \in b.flags
    OBVIOUS
  <2>2. "pivot" \in Flags(e, b.hash) <=> b.hash = Pivot(e)
    BY DEF Flags
  <2>. QED  BY <1>1, <2>1, <2>2 DEF IsPivot
<1>6. db.height[Pivot(e)] = e
  BY <1>2, EpochSchema
<1> HIDE DEF n, s, e, H
<1>7. at - End[e - 1] \in 1..n /\ (at = End[e] => at - End[e - 1] = n)
  BY <1>1, <1>4
<1>8. b.hash \in H
  BY <1>1, <1>3, <1>7 DEF n
<1>. QED  BY <1>1, <1>3, <1>5, <1>6, <1>7, <1>8 DEF e, H

-----------------------------------------------------------------------------
(* What is extracted. *)

TxsOf(h) == [i \in DOMAIN db.body[h] |-> Transaction(db.body[h][i])]
PaidAt(e, h) == IF h = Pivot(e) THEN Distributed(h) ELSE <<>>

\* The map of rewards has of block h what belongs to epoch e.
Pays(paid, e, h) == (IF h \in DOMAIN paid THEN <<paid[h]>> ELSE <<>>) = PaidAt(e, h)

LEMMA RawBlockFacts ==
    ASSUME db \in Databases, NEW e \in Epoch, NEW h \in DOMAIN db.body, NEW u \in Seq(Nat),
           NEW paid, Pays(paid, e, h)
    PROVE  LET b == RawBlock(e, h, u, paid)
           IN  /\ b \in PacketBlock
               /\ b.epoch = e /\ b.hash = h /\ b.height = db.height[h] /\ b.flags = Flags(e, h)
               /\ b.view = EffectivePos(h) /\ b.refs = <<>>
               /\ b.txs = TxsOf(h)
               /\ IsInjective(b.txs)
               /\ b.rewards = PaidAt(e, h)
               /\ b.unlocks = IF h = Pivot(e) THEN u ELSE <<>>
<1> DEFINE b == RawBlock(e, h, u, paid)
           T == DOMAIN db.target
           H == DOMAIN db.body
           E == [tx : T, epoch_height : Nat]
           body == db.body[h]
           txs == [i \in DOMAIN body |-> Transaction(body[i])]
           rewards == IF h \in DOMAIN paid THEN <<paid[h]>> ELSE <<>>
           unlocks == IF h = Pivot(e) THEN u ELSE <<>>
<1>0. FirstEpoch \in Nat \ {0} /\ LastEpoch \in Nat
  BY ConfigAssumption
<1>1. /\ db.height[h] \in Nat /\ db.width[h] \in Nat /\ body \in Seq(T) /\ IsInjective(body)
      /\ \A t \in T : db.target[t] \in Nat
  BY Schema
<1>2. b = [epoch   |-> e,
           hash    |-> h,
           height  |-> db.height[h],
           flags   |-> Flags(e, h),
           view    |-> EffectivePos(h),
           txs     |-> txs,
           refs    |-> <<>>,
           rewards |-> rewards,
           unlocks |-> unlocks,
           width   |-> db.width[h]]
  BY DEF RawBlock
<1>3. txs \in Seq(E) /\ IsInjective(txs)
  <2> HIDE DEF body
  <2>1. Len(body) \in Nat /\ DOMAIN body = 1..Len(body) /\ \A i \in 1..Len(body) : body[i] \in T
    BY <1>1
  <2>2. \A i \in 1..Len(body) : Transaction(body[i]) \in E /\ Transaction(body[i]).tx = body[i]
    BY <1>1, <2>1 DEF Transaction
  <2>3. DOMAIN txs = 1..Len(body) /\ \A i \in 1..Len(body) : txs[i] = Transaction(body[i])
    BY <2>1
  <2>4. IsInjective(txs)
    BY <1>1, <2>1, <2>2, <2>3 DEF IsInjective
  <2>5. txs = [i \in 1..Len(body) |-> txs[i]]
    BY <2>1
  <2> HIDE DEF txs, E
  <2>6. txs \in Seq(E)
    BY <2>1, <2>2, <2>3, <2>5, FunctionIsSeq
  <2>. QED  BY <2>4, <2>6
<1>a. rewards = PaidAt(e, h)
  BY DEF Pays
<1>4. rewards \in Seq(RewardEntries) /\ unlocks \in Seq(Nat) /\ <<>> \in Seq((Nat \X Nat) \cup {None})
  <2>1. Distributed(h) \in Seq(RewardEntries) /\ <<>> \in Seq(RewardEntries)
    BY DistributedType
  <2>2. <<>> \in Seq(Nat) /\ <<>> \in Seq((Nat \X Nat) \cup {None})
    OBVIOUS
  <2>3. PaidAt(e, h) \in Seq(RewardEntries)
    BY <2>1 DEF PaidAt
  <2>. QED  BY <1>a, <2>2, <2>3
<1>5. e \in Nat /\ EffectivePos(h) \in Nat \cup {None} /\ Flags(e, h) \in SUBSET Flag
  BY <1>0, EffectivePosType DEF Epoch, Flags, Flag
<1> HIDE DEF b, txs, rewards, unlocks, E
<1>6. b \in PacketBlock
  BY <1>1, <1>2, <1>3, <1>4, <1>5 DEF PacketBlock, E
<1>7. /\ b.epoch = e /\ b.hash = h /\ b.height = db.height[h] /\ b.flags = Flags(e, h)
      /\ b.view = EffectivePos(h) /\ b.refs = <<>> /\ b.txs = txs
      /\ b.rewards = rewards /\ b.unlocks = unlocks
  BY <1>2
<1>8. txs = TxsOf(h)
  BY DEF TxsOf, txs
<1>. QED  BY <1>3, <1>6, <1>7, <1>8, <1>a DEF b, unlocks

RawBlocks == {b \in PacketBlock :
                /\ b.epoch \in Epoch
                /\ b.height = db.height[b.hash] /\ b.flags = Flags(b.epoch, b.hash)
                /\ b.view = EffectivePos(b.hash) /\ b.refs = <<>>
                /\ b.txs = TxsOf(b.hash) /\ IsInjective(b.txs)
                /\ b.rewards = PaidAt(b.epoch, b.hash)}

\* A block of a group that starts with epoch `first`, with the unlock events
\* the scan found for the epochs of the group.
Told(b, at, first, found) ==
    /\ b.epoch >= first /\ Placed(b, at)
    /\ b.unlocks = IF b.hash = Pivot(b.epoch) THEN found[b.epoch - first + 1] ELSE <<>>

RawEpoch(e, u, paid) == [j \in DOMAIN Ordered(e) |-> RawBlock(e, Ordered(e)[j], u, paid)]

LEMMA RawEpochFacts ==
    ASSUME db \in Databases, NEW e \in Epoch, NEW u \in Seq(Nat),
           NEW first \in Epoch, e >= first, NEW found, found[e - first + 1] = u,
           NEW paid, \A j \in 1..Len(Ordered(e)) : Pays(paid, e, Ordered(e)[j])
    PROVE  /\ RawEpoch(e, u, paid) \in Seq(RawBlocks) /\ Len(RawEpoch(e, u, paid)) = Len(Ordered(e))
           /\ \A j \in 1..Len(Ordered(e)) : Told(RawEpoch(e, u, paid)[j], End[e - 1] + j, first, found)
<1> DEFINE s == Ordered(e)
           n == Len(s)
           H == DOMAIN db.body
           r == RawEpoch(e, u, paid)
<1>0. FirstEpoch \in Nat \ {0} /\ LastEpoch \in Nat
  BY ConfigAssumption
<1>1. e \in (FirstEpoch - 1)..LastEpoch
  BY <1>0 DEF Epoch
<1>2. s \in Seq(H) /\ n \in Nat
  <2>1. s \in Seq(H)
    BY <1>1, OrderedFacts
  <2>. QED  BY <2>1
<1>3. End[e] = End[e - 1] + n /\ End[e - 1] \in Nat
  BY EndFacts
<1> HIDE DEF s
<1>4. DOMAIN s = 1..n /\ \A j \in 1..n : s[j] \in H
  BY <1>2
<1>5. DOMAIN r = 1..n /\ r = [j \in 1..n |-> r[j]] /\ \A j \in 1..n : r[j] = RawBlock(e, s[j], u, paid)
  BY <1>4 DEF RawEpoch, s
<1>6. \A j \in 1..n : r[j] \in RawBlocks
  <2> SUFFICES ASSUME NEW j \in 1..n
               PROVE  r[j] \in RawBlocks
    OBVIOUS
  <2> DEFINE h == s[j]
  <2>1. h \in DOMAIN db.body /\ Pays(paid, e, h)
    BY <1>4 DEF s
  <2> HIDE DEF h
  <2> DEFINE b == RawBlock(e, h, u, paid)
  <2>2. /\ b \in PacketBlock
        /\ b.epoch = e /\ b.hash = h /\ b.height = db.height[h] /\ b.flags = Flags(e, h)
        /\ b.view = EffectivePos(h) /\ b.refs = <<>> /\ b.txs = TxsOf(h) /\ IsInjective(b.txs)
        /\ b.rewards = PaidAt(e, h)
    BY <2>1, RawBlockFacts
  <2> HIDE DEF b
  <2>3. b \in RawBlocks
    BY <2>2 DEF RawBlocks
  <2>4. r[j] = b
    BY <1>5 DEF b, h
  <2>. QED  BY <2>3, <2>4
<1>7. r \in Seq(RawBlocks) /\ Len(r) = n
  <2> HIDE DEF r, n
  <2>. QED  BY <1>2, <1>5, <1>6, FunctionIsSeq
<1>8. ASSUME NEW j \in 1..n
      PROVE  Told(r[j], End[e - 1] + j, first, found)
  <2> DEFINE b == RawBlock(e, s[j], u, paid)
  <2>1. /\ b.epoch = e /\ b.hash = s[j] /\ b.flags = Flags(e, s[j])
        /\ b.unlocks = IF s[j] = Pivot(e) THEN u ELSE <<>>
    <3> DEFINE h == s[j]
    <3>1. h \in DOMAIN db.body /\ Pays(paid, e, h)
      BY <1>4 DEF s
    <3> HIDE DEF h
    <3> DEFINE c == RawBlock(e, h, u, paid)
    <3>2. c.epoch = e /\ c.hash = h /\ c.flags = Flags(e, h)
      BY <3>1, RawBlockFacts
    <3>3. c.unlocks = IF h = Pivot(e) THEN u ELSE <<>>
      BY <3>1, RawBlockFacts
    <3>. QED  BY <3>2, <3>3 DEF h
  <2> HIDE DEF b
  <2>2. Flags(e, s[j]) \ {"has_tx"} = Flags(e, s[j])
    BY DEF Flags
  <2>3. End[e - 1] < End[e - 1] + j /\ End[e - 1] + j <= End[e] /\ (End[e - 1] + j) - End[e - 1] = j
    BY <1>2, <1>3
  <2>4. Placed(b, End[e - 1] + j)
    BY <2>1, <2>2, <2>3 DEF Placed, s
  <2>5. r[j] = b
    BY <1>5 DEF b
  <2>. QED  BY <2>1, <2>4, <2>5 DEF Told
<1>. QED  BY <1>7, <1>8 DEF s

\* The map of a group's rewards has what belongs to each of its blocks.
LEMMA GroupPays ==
    ASSUME db \in Databases, NEW first \in Epoch, NEW count \in Nat \ {0}, first + count - 1 <= LastEpoch,
           NEW e \in first..(first + count - 1), NEW j \in 1..Len(Ordered(e))
    PROVE  Pays(ReadPosRewards({Pivot(d) : d \in first..(first + count - 1)}), e, Ordered(e)[j])
<1> DEFINE group == first..(first + count - 1)
           pivots == {Pivot(d) : d \in group}
           h == Ordered(e)[j]
           epochs(g) == {k \in DOMAIN db.rewards : db.rewards[k] = g}
           paid == ReadPosRewards(pivots)
<1>0. FirstEpoch \in Nat \ {0} /\ LastEpoch \in Nat
  BY ConfigAssumption
<1>1. group \subseteq (FirstEpoch - 1)..LastEpoch
  BY <1>0 DEF Epoch
<1>2. h \in pivots <=> h = Pivot(e)
  <2>1. ASSUME h \in pivots PROVE h = Pivot(e)
    <3>1. PICK f \in group : h = Pivot(f)
      BY <2>1
    <3>2. e = f
      BY <1>1, <3>1, PivotElsewhere
    <3>. QED  BY <3>1, <3>2
  <2>. QED  BY <2>1
<1>3. /\ h \in DOMAIN paid <=> h \in pivots /\ epochs(h) # {}
      /\ h \in DOMAIN paid => paid[h] = RewardEntry(Max(epochs(h)), h)
  <2>1. paid = [g \in {p \in pivots : epochs(p) # {}} |-> RewardEntry(Max(epochs(g)), g)]
    BY Zenon DEF ReadPosRewards
  <2> HIDE DEF paid, epochs, pivots, h
  <2>. QED  BY <2>1
<1>4. Distributed(h) = IF epochs(h) = {} THEN <<>> ELSE <<RewardEntry(Max(epochs(h)), h)>>
  BY Zenon DEF Distributed
<1> HIDE DEF epochs, paid, pivots, h
<1>5. Pays(paid, e, h)
  BY <1>2, <1>3, <1>4 DEF Pays, PaidAt
<1>. QED  BY <1>5 DEF paid, pivots, h

LEMMA RawPlaced ==
    ASSUME db \in Databases, NEW first \in Epoch, NEW count \in Nat \ {0}, first + count - 1 <= LastEpoch
    PROVE  LET blocks == Raw(first, count).blocks
               found == UnlockScan(first, count)
           IN  /\ blocks \in Seq(RawBlocks) /\ Len(blocks) = End[first + count - 1] - End[first - 1]
               /\ found \in Seq(Seq(Nat)) /\ Len(found) = count
               /\ \A j \in 1..Len(blocks) : Told(blocks[j], End[first - 1] + j, first, found)
<1> DEFINE found == UnlockScan(first, count)
           paid == ReadPosRewards({Pivot(d) : d \in first..(first + count - 1)})
           groups == [i \in 1..count |-> RawEpoch(first + i - 1, found[i], paid)]
           from == End[first - 1]
           Q == Seq(Nat)
<1>0. FirstEpoch \in Nat \ {0} /\ LastEpoch \in Nat
  BY ConfigAssumption
<1>1. found \in Seq(Q) /\ Len(found) = count
  <2>1. PICK f \in [0..count -> ScanState] : Len(f[count].found) = count /\ found = f[count].found
    BY ScanSteps
  <2> HIDE DEF found
  <2>2. f[count] \in ScanState
    BY <2>1
  <2>3. f[count].found \in Seq(Q)
    BY <2>2 DEF ScanState
  <2>. QED  BY <2>1, <2>3
<1>2. Raw(first, count).blocks = FlattenSeq(groups)
  BY Zenon DEF Raw, RawEpoch
<1> HIDE DEF found
<1>3. \A i \in 1..count : found[i] \in Q
  <2> HIDE DEF Q
  <2>. QED  BY <1>1
<1>4. \A i \in 1..count : /\ first + i - 1 \in Epoch /\ first + i - 1 >= first
                          /\ (first + i - 1) - first + 1 = i
  BY <1>0 DEF Epoch
<1>5. ASSUME NEW i \in 1..count
      PROVE  /\ groups[i] \in Seq(RawBlocks)
             /\ Len(groups[i]) = End[first + i - 1] - End[first + i - 2]
             /\ \A j \in 1..Len(groups[i]) : Told(groups[i][j], End[first + i - 2] + j, first, found)
  <2> DEFINE e == first + i - 1
  <2>1. e \in Epoch /\ e >= first /\ e - first + 1 = i /\ e - 1 = first + i - 2
    BY <1>0 DEF Epoch
  <2>2. groups[i] = RawEpoch(e, found[i], paid)
    OBVIOUS
  <2>a. e \in first..(first + count - 1)
    BY <1>0 DEF Epoch
  <2> HIDE DEF groups, e
  <2>b. \A j \in 1..Len(Ordered(e)) : Pays(paid, e, Ordered(e)[j])
    BY <2>a, GroupPays
  <2> HIDE DEF paid
  <2>3. found[e - first + 1] = found[i] /\ found[i] \in Seq(Nat)
    BY <1>3, <2>1
  <2>4. /\ groups[i] \in Seq(RawBlocks) /\ Len(groups[i]) = Len(Ordered(e))
        /\ \A j \in 1..Len(Ordered(e)) : Told(groups[i][j], End[e - 1] + j, first, found)
    BY <2>1, <2>2, <2>3, <2>b, RawEpochFacts, SMTT(30)
  <2>5. End[e] - End[e - 1] = Len(Ordered(e))
    BY <2>1, EndFacts
  <2>. QED  BY <2>1, <2>4, <2>5 DEF e
<1>6. groups \in Seq(Seq(RawBlocks)) /\ Len(groups) = count /\ groups # <<>>
  <2> DEFINE C == Seq(RawBlocks)
  <2>1. DOMAIN groups = 1..count /\ groups = [i \in 1..count |-> groups[i]]
    OBVIOUS
  <2>2. \A i \in 1..count : groups[i] \in C
    BY <1>5
  <2> HIDE DEF groups, C
  <2>3. groups \in Seq(C) /\ Len(groups) = count
    BY <2>1, <2>2, FunctionIsSeq
  <2>4. groups # <<>>
    BY <2>3
  <2>. QED  BY <2>3, <2>4 DEF C
<1> HIDE DEF groups
<1>7. PICK f \in [1..count -> Seq(RawBlocks)] :
         /\ f[1] = groups[1]
         /\ \A i \in 2..count : f[i] = f[i - 1] \o groups[i]
         /\ FlattenSeq(groups) = f[count]
  BY <1>6, FlattenSteps
<1>8. \A d \in (first - 1)..(first + count - 1) : End[d] \in Nat
  <2> SUFFICES ASSUME NEW d \in (first - 1)..(first + count - 1)
               PROVE  End[d] \in Nat
    OBVIOUS
  <2>1. d \in (FirstEpoch - 1)..LastEpoch /\ d <= d
    BY <1>0 DEF Epoch
  <2>. QED  BY <2>1, EndGrows
<1> DEFINE Done(x, d) == /\ Len(x) = End[d] - from
                         /\ \A j \in 1..Len(x) : Told(x[j], from + j, first, found)
           S == {k \in Nat : k + 1 \in 1..count => Done(f[k + 1], first + k)}
<1>9. 0 \in S
  <2>1. first + 1 - 1 = first + 0 /\ first + 1 - 2 = first - 1 /\ 1 \in 1..count
    BY <1>0 DEF Epoch
  <2>2. Done(groups[1], first + 0)
    BY <1>5, <2>1
  <2>. QED  BY <1>7, <2>2
<1>10. ASSUME NEW k \in Nat, k \in S
       PROVE  k + 1 \in S
  <2> SUFFICES ASSUME k + 2 \in 1..count
               PROVE  Done(f[k + 2], first + (k + 1))
    OBVIOUS
  <2> DEFINE x == f[k + 1]
             y == groups[k + 2]
             d == first + k
  <2>1. /\ k + 1 \in 1..count /\ k + 2 \in 2..count /\ (k + 2) - 1 = k + 1
        /\ first + (k + 2) - 1 = d + 1 /\ first + (k + 2) - 2 = d /\ d + 1 = first + (k + 1)
        /\ d \in (first - 1)..(first + count - 1) /\ d + 1 \in (first - 1)..(first + count - 1)
        /\ first - 1 \in (first - 1)..(first + count - 1)
    BY <1>0 DEF Epoch
  <2>2. f[k + 2] = x \o y /\ x \in Seq(RawBlocks) /\ y \in Seq(RawBlocks)
    BY <1>5, <1>7, <2>1
  <2>3. Done(x, d)
    BY <1>10, <2>1
  <2>4. Len(y) = End[d + 1] - End[d] /\ \A j \in 1..Len(y) : Told(y[j], End[d] + j, first, found)
    BY <1>5, <2>1
  <2>5. End[d] \in Nat /\ End[d + 1] \in Nat /\ from \in Nat
    BY <1>8, <2>1
  <2> HIDE DEF x, y, from
  <2>6. /\ Len(x) \in Nat /\ Len(y) \in Nat /\ Len(x \o y) = Len(x) + Len(y)
        /\ \A j \in 1..(Len(x) + Len(y)) :
              (x \o y)[j] = IF j <= Len(x) THEN x[j] ELSE y[j - Len(x)]
    BY <2>2, ConcatFacts
  <2>7. Len(x) = End[d] - from /\ \A j \in 1..Len(x) : Told(x[j], from + j, first, found)
    BY <2>3
  <2> HIDE DEF d
  <2>a. /\ Len(x) \in Nat /\ Len(y) \in Nat /\ Len(x \o y) = Len(x) + Len(y)
        /\ Len(x) = End[d] - from /\ Len(y) = End[d + 1] - End[d]
    BY <2>4, <2>6, <2>7
  <2>8. Len(x \o y) = End[d + 1] - from
    BY <2>5, <2>a, SMTT(30)
  <2>9. ASSUME NEW j \in 1..Len(x \o y)
        PROVE  Told((x \o y)[j], from + j, first, found)
    <3>1. CASE j <= Len(x)
      BY <2>6, <2>7, <3>1
    <3>2. CASE ~(j <= Len(x))
      <4>1. j - Len(x) \in 1..Len(y) /\ End[d] + (j - Len(x)) = from + j
        <5>1. j \in Nat /\ j <= Len(x) + Len(y)
          BY <2>a
        <5>2. j - Len(x) \in 1..Len(y)
          BY <2>a, <3>2, <5>1
        <5>3. End[d] + (j - Len(x)) = from + j
          BY <2>5, <2>a, <5>1, SMTT(30)
        <5>. QED  BY <5>2, <5>3
      <4>2. (x \o y)[j] = y[j - Len(x)]
        BY <2>6, <3>2
      <4>. QED  BY <2>4, <4>1, <4>2
    <3>. QED  BY <3>1, <3>2
  <2>10. Done(x \o y, d + 1)
    BY <2>8, <2>9
  <2>. QED  BY <2>1, <2>2, <2>10
<1>11. count - 1 \in S
  <2> HIDE DEF S
  <2>1. count - 1 \in Nat
    OBVIOUS
  <2>. QED  BY <1>9, <1>10, <2>1, InductionOnSet
<1>12. Done(f[count], first + count - 1)
  <2>1. (count - 1) + 1 = count /\ first + (count - 1) = first + count - 1 /\ count \in 1..count
    BY <1>0 DEF Epoch
  <2> HIDE DEF Done
  <2>2. (count - 1) + 1 \in 1..count => Done(f[(count - 1) + 1], first + (count - 1))
    BY <1>11
  <2>. QED  BY <2>1, <2>2
<1>13. f[count] \in Seq(RawBlocks)
  BY <1>7
<1>. QED  BY <1>1, <1>2, <1>7, <1>12, <1>13 DEF found

LEMMA PlacedEnds ==
    ASSUME db \in Databases, NEW blocks \in Seq(PacketBlock), blocks # <<>>,
           NEW from \in Nat, NEW last \in Epoch, Len(blocks) = End[last] - from,
           \A j \in 1..Len(blocks) : /\ Placed(blocks[j], from + j)
                                     /\ blocks[j].height = db.height[blocks[j].hash]
    PROVE  EpochsEnd(blocks)
<1> DEFINE n == Len(blocks)
<1>0. FirstEpoch \in Nat \ {0} /\ LastEpoch \in Nat
  BY ConfigAssumption
<1>1. n \in Nat /\ n >= 1 /\ \A j \in 1..n : blocks[j] \in PacketBlock
  OBVIOUS
<1>2. ASSUME NEW j \in 1..n
      PROVE  LET b == blocks[j]
                 e == b.epoch
             IN  /\ e \in Epoch /\ End[e - 1] < from + j /\ from + j <= End[e]
                 /\ from + j = End[e] => IsPivot(b)
                 /\ IsPivot(b) => e = b.height
  <2> DEFINE b == blocks[j]
             at == from + j
  <2>1. at \in Nat /\ Placed(b, at) /\ b.flags \in SUBSET Flag /\ b.height = db.height[b.hash]
    BY <1>1, BlockFields
  <2> HIDE DEF b, at
  <2>2. at = End[b.epoch] => IsPivot(b)
    BY <2>1, PivotLast
  <2>3. IsPivot(b) => db.height[b.hash] = b.epoch
    BY <2>1, PivotLast
  <2>4. b.epoch \in Epoch /\ End[b.epoch - 1] < at /\ at <= End[b.epoch]
    BY <2>1 DEF Placed
  <2>. QED  BY <2>1, <2>2, <2>3, <2>4 DEF b, at
<1> HIDE DEF n
<1>3. \A e \in Epoch : /\ End[e] \in Nat /\ End[e - 1] \in Nat /\ End[e - 1] < End[e]
                       /\ e \in Nat
  <2> SUFFICES ASSUME NEW e \in Epoch
               PROVE  /\ End[e] \in Nat /\ End[e - 1] \in Nat /\ End[e - 1] < End[e]
                      /\ e \in Nat
    OBVIOUS
  <2>1. /\ End[e] \in Nat /\ End[e - 1] \in Nat /\ Len(Ordered(e)) \in Nat /\ Len(Ordered(e)) >= 1
        /\ End[e] = End[e - 1] + Len(Ordered(e))
    BY EndFacts
  <2>2. e \in Nat
    BY <1>0 DEF Epoch
  <2>. QED  BY <2>1, <2>2
<1>4. IsPivot(blocks[n])
  <2> DEFINE e == blocks[n].epoch
             at == from + n
  <2>1. at = End[last] /\ at \in Nat /\ n \in 1..n
    BY <1>1, <1>3 DEF n
  <2>2. /\ e \in Epoch /\ End[e - 1] < at /\ at <= End[e]
        /\ at = End[e] => IsPivot(blocks[n])
    BY <1>2, <2>1
  <2>3. End[last - 1] < at /\ at <= End[last] /\ at <= at
    BY <1>3, <2>1
  <2> HIDE DEF at, e
  <2>4. e <= last
    BY <2>1, <2>2, <2>3, OneEpoch
  <2>5. last <= e
    BY <2>1, <2>2, <2>3, OneEpoch
  <2>6. e = last
    BY <1>3, <2>2, <2>4, <2>5
  <2>. QED  BY <2>1, <2>2, <2>6
<1>5. ASSUME NEW i \in 1..(n - 1), ~IsPivot(blocks[i])
      PROVE  blocks[i].epoch = blocks[i + 1].epoch
  <2> DEFINE d == blocks[i].epoch
             e == blocks[i + 1].epoch
             x == from + i
             y == from + i + 1
  <2>1. i \in 1..n /\ i + 1 \in 1..n /\ from + (i + 1) = y /\ x \in Nat /\ y \in Nat /\ y = x + 1
    BY <1>1
  <2>2. d \in Epoch /\ End[d - 1] < x /\ x <= End[d] /\ x # End[d]
    BY <1>2, <1>5, <2>1
  <2>3. e \in Epoch /\ End[e - 1] < y /\ y <= End[e]
    BY <1>2, <2>1
  <2> HIDE DEF d, e, x, y
  <2>a. End[d] \in Nat /\ End[d - 1] \in Nat
    BY <1>3, <2>2
  <2>4. End[d - 1] < y /\ y <= End[d] /\ y <= y
    BY <2>1, <2>2, <2>a
  <2>5. d <= e
    BY <2>1, <2>2, <2>3, <2>4, OneEpoch
  <2>6. e <= d
    BY <2>1, <2>2, <2>3, <2>4, OneEpoch
  <2>7. d = e
    BY <1>3, <2>2, <2>3, <2>5, <2>6
  <2>. QED  BY <2>7 DEF d, e
<1>6. \A i \in 1..n : IsPivot(blocks[i]) => blocks[i].epoch = blocks[i].height
  BY <1>2
<1>. QED  BY <1>4, <1>5, <1>6 DEF EpochsEnd, n

\* Entries for the rewards ks of pivot h, in order.
Added(ks, h) == [j \in DOMAIN ks |-> RewardEntry(ks[j], h)]

\* A block as the databases have it, with the rewards injected into its epoch.
TrueBlock(paid) ==
    {b \in PacketBlock :
        /\ b.epoch \in Epoch
        /\ b.height = db.height[b.hash] /\ b.view = EffectivePos(b.hash) /\ b.txs = TxsOf(b.hash)
        /\ IsPivot(b) => b.hash = Pivot(b.epoch)
        /\ b.rewards = IF IsPivot(b) THEN Distributed(b.hash) \o Added(paid[b.epoch], b.hash)
                       ELSE <<>>}

LEMMA RawIsTrue ==
    ASSUME db \in Databases, NEW paid, NEW b \in RawBlocks, paid[b.epoch] = <<>>
    PROVE  /\ b \in TrueBlock(paid) /\ b \in PacketBlock
           /\ b.refs = <<>> /\ IsInjective(b.txs) /\ b.epoch \in Epoch
<1>1. /\ b \in PacketBlock /\ b.epoch \in Epoch
      /\ b.height = db.height[b.hash] /\ b.flags = Flags(b.epoch, b.hash)
      /\ b.view = EffectivePos(b.hash) /\ b.refs = <<>> /\ b.txs = TxsOf(b.hash) /\ IsInjective(b.txs)
      /\ b.rewards = PaidAt(b.epoch, b.hash)
  BY DEF RawBlocks
<1>2. IsPivot(b) <=> b.hash = Pivot(b.epoch)
  BY <1>1 DEF IsPivot, Flags
<1>3. Distributed(b.hash) \o Added(paid[b.epoch], b.hash) = Distributed(b.hash)
  <2>1. Added(paid[b.epoch], b.hash) = <<>>
    BY DEF Added
  <2>2. Distributed(b.hash) \in Seq(RewardEntries)
    BY <1>1, BlockFields, DistributedType
  <2>. QED  BY <2>1, <2>2
<1>. QED  BY <1>1, <1>2, <1>3 DEF TrueBlock, PaidAt

\* What is extracted is a sound packet of true blocks, and the encoder takes it.
LEMMA RawSound ==
    ASSUME db \in Databases, NEW first \in Epoch, NEW count \in Nat \ {0}, first + count - 1 <= LastEpoch,
           NEW paid, \A e \in Epoch : e >= first => paid[e] = <<>>
    PROVE  /\ Sound(Raw(first, count)) /\ ValidInput(Raw(first, count))
           /\ Raw(first, count).blocks \in Seq(TrueBlock(paid))
<1> DEFINE p == Raw(first, count)
           blocks == p.blocks
           n == Len(blocks)
           from == End[first - 1]
           last == first + count - 1
           heights == {blocks[i].height : i \in DOMAIN blocks}
           views == {blocks[i].view : i \in DOMAIN blocks} \ {None}
           T == TrueBlock(paid)
<1>0. FirstEpoch \in Nat \ {0} /\ LastEpoch \in Nat
  BY ConfigAssumption
<1>1. /\ blocks \in Seq(RawBlocks) /\ n = End[last] - from
      /\ \A j \in 1..n : blocks[j].epoch >= first /\ Placed(blocks[j], from + j)
  BY RawPlaced DEF Told
<1>2. /\ p.prev = Pivot(first - 1) /\ p.min_height = Min(heights)
      /\ p.min_pos_height = IF views = {} THEN 0 ELSE Min(views)
      /\ p = [prev |-> p.prev, min_height |-> p.min_height,
              min_pos_height |-> p.min_pos_height, blocks |-> blocks]
  BY Zenon DEF Raw
<1> HIDE DEF p
<1>3. from \in Nat /\ End[last] \in Nat /\ from < End[last] /\ last \in Epoch
  <2> DEFINE b == first - 1
  <2>1. b \in (FirstEpoch - 1)..LastEpoch /\ b + 1 = first /\ last \in (FirstEpoch - 1)..LastEpoch
        /\ first \in (FirstEpoch - 1)..LastEpoch /\ first <= last /\ last \in Epoch
    BY <1>0 DEF Epoch
  <2> HIDE DEF last
  <2>2. End[first] <= End[last] /\ End[last] \in Nat
    BY <2>1, EndGrows
  <2>3. /\ End[first] \in Nat /\ from \in Nat
        /\ Len(Ordered(first)) \in Nat /\ Len(Ordered(first)) >= 1
        /\ End[first] = from + Len(Ordered(first))
    BY EndFacts
  <2>. QED  BY <2>1, <2>2, <2>3
<1> HIDE DEF last, from
<1>4. n \in Nat /\ n >= 1 /\ DOMAIN blocks = 1..n /\ \A i \in 1..n : blocks[i] \in RawBlocks
  BY <1>1, <1>3
<1>5. \A i \in 1..n : /\ blocks[i] \in T /\ blocks[i] \in PacketBlock
                      /\ blocks[i].refs = <<>> /\ IsInjective(blocks[i].txs)
  <2> SUFFICES ASSUME NEW i \in 1..n
               PROVE  /\ blocks[i] \in T /\ blocks[i] \in PacketBlock
                      /\ blocks[i].refs = <<>> /\ IsInjective(blocks[i].txs)
    OBVIOUS
  <2> DEFINE b == blocks[i]
  <2>1. b \in RawBlocks /\ b.epoch \in Epoch /\ b.epoch >= first
    BY <1>1, <1>4 DEF Placed
  <2> HIDE DEF b
  <2>2. paid[b.epoch] = <<>>
    BY <2>1
  <2>3. /\ b \in T /\ b \in PacketBlock /\ b.refs = <<>> /\ IsInjective(b.txs)
    BY <2>1, <2>2, RawIsTrue
  <2>. QED  BY <2>3 DEF b
<1>6. blocks \in Seq(T) /\ blocks \in Seq(PacketBlock) /\ blocks # <<>>
  <2>1. blocks = [i \in 1..n |-> blocks[i]]
    BY <1>1
  <2> HIDE DEF blocks, T, n
  <2>2. blocks \in Seq(T)
    BY <1>4, <1>5, <2>1, FunctionIsSeq
  <2>3. blocks \in Seq(PacketBlock)
    BY <1>4, <1>5, <2>1, FunctionIsSeq
  <2>. QED  BY <1>4, <2>2, <2>3 DEF n
<1> HIDE DEF T
<1>7. \A i \in 1..n : /\ blocks[i].height \in Nat /\ blocks[i].view \in Nat \cup {None}
                      /\ blocks[i].hash \in DOMAIN db.body
                      /\ Len(blocks[i].txs) \in Nat
  BY <1>5, BlockFields
<1>8. \A i \in 1..n : blocks[i].height = db.height[blocks[i].hash]
                      /\ blocks[i].view = EffectivePos(blocks[i].hash)
  BY <1>5 DEF T, TrueBlock
<1> HIDE DEF blocks
<1>9. p \in Packet
  <2>1. heights \in SUBSET Nat /\ heights # {} /\ views \in SUBSET Nat
    BY <1>4, <1>7
  <2>2. Min(heights) \in Nat /\ (views # {} => Min(views) \in Nat)
    <3> HIDE DEF heights, views
    <3>. QED  BY <2>1, LeastElement
  <2>3. Pivot(first - 1) \in DOMAIN db.body
    <3> DEFINE d == first - 1
    <3>1. d \in (FirstEpoch - 1)..LastEpoch
      BY <1>0 DEF Epoch
    <3> HIDE DEF d
    <3>2. Pivot(d) \in DOMAIN db.body
      BY <3>1, EpochSchema
    <3>. QED  BY <3>2 DEF d
  <2> HIDE DEF heights, views
  <2>4. p.prev \in DOMAIN db.body /\ p.min_height \in Nat /\ p.min_pos_height \in Nat
    BY <1>2, <2>2, <2>3
  <2>. QED  BY <1>2, <1>6, <2>4 DEF Packet
<1>10. \A i \in 1..n : blocks[i].view # None <=> blocks[i].height >= PosEnable
  BY <1>7, <1>8, EffectivePosType
<1>11. EpochsEnd(blocks)
  BY <1>1, <1>3, <1>6, <1>8, PlacedEnds DEF n
<1>12. RefersBack(blocks)
  <2>1. \A i \in 1..n : HasRefs(blocks[i]) <=> Len(blocks[i].txs) = 0
    BY <1>5, <1>7 DEF HasRefs
  <2>2. \A i \in 1..n : HasRefs(blocks[i]) => 1..Len(blocks[i].txs) = {}
    BY <2>1
  <2>3. \A i \in 1..Len(blocks) : HasRefs(blocks[i]) => \A j \in 1..Len(blocks[i].txs) : FALSE
    BY <2>2
  <2>4. \A i \in 1..Len(blocks) : IsInjective(blocks[i].txs)
    BY <1>5
  <2>. QED  BY <2>3, <2>4, Zenon DEF RefersBack
<1>13. Sound(p)
  BY <1>9, <1>10, <1>11, <1>12 DEF Sound, blocks
<1>14. ValidInput(p)
  <2>1. \A i \in 1..n : /\ PivotOf(blocks, i) # 0
                        /\ blocks[PivotOf(blocks, i)].height = blocks[i].epoch
    BY <1>6, <1>11, PivotAhead
  <2>2. \A i \in DOMAIN blocks : LET pivot == PivotOf(blocks, i)
                                 IN  pivot # 0 /\ blocks[i].epoch = blocks[pivot].height
    BY <1>4, <2>1, Zenon
  <2>. QED  BY <1>6, <2>2, Zenon DEF ValidInput, blocks
<1>. QED  BY <1>6, <1>13, <1>14 DEF p, blocks, T

-----------------------------------------------------------------------------
(* What comes back, and what the reward tool encodes again. *)

\* The transaction is one of an earlier block.
Elsewhere(blocks, i, j) == Reference(blocks, i, j) # <<i, j>>

\* b is block i again, but for its rewards.
Kept(blocks, i, b) ==
    LET a == blocks[i]
    IN  /\ b \in PacketBlock
        /\ b.epoch = a.epoch /\ b.hash = a.hash /\ b.height = a.height /\ b.view = a.view
        /\ b.txs = a.txs /\ b.unlocks = a.unlocks
        /\ b.flags \ {"has_tx"} = a.flags \ {"has_tx"} /\ (IsPivot(b) <=> IsPivot(a))
        /\ Len(b.refs) = Len(b.txs)
        /\ \A j \in 1..Len(b.txs) : b.refs[j] # None =>
              b.refs[j] = Reference(blocks, i, j) /\ Elsewhere(blocks, i, j)

LEMMA ReturnedFacts ==
    ASSUME NEW p, Sound(p), NEW i \in 1..Len(p.blocks)
    PROVE  /\ Kept(p.blocks, i, ReturnedBlock(p.blocks, i))
           /\ ReturnedBlock(p.blocks, i).rewards = p.blocks[i].rewards
<1> DEFINE a == p.blocks[i]
           b == ReturnedBlock(p.blocks, i)
           n == Len(a.txs)
           flags == (a.flags \ {"has_tx"}) \cup (IF Payload(p.blocks, i) = <<>> THEN {} ELSE {"has_tx"})
           refs == [j \in 1..n |->
                      IF Reference(p.blocks, i, j) = <<i, j>> THEN None ELSE Reference(p.blocks, i, j)]
           R == (Nat \X Nat) \cup {None}
<1>1. p.blocks \in Seq(PacketBlock) /\ RefersBack(p.blocks) /\ a \in PacketBlock
  BY SoundFields DEF Sound
<1>2. /\ a.epoch \in Nat /\ a.hash \in DOMAIN db.body /\ a.height \in Nat /\ a.flags \in SUBSET Flag
      /\ a.view \in Nat \cup {None}
      /\ a.txs \in Seq([tx : DOMAIN db.target, epoch_height : Nat])
      /\ a.rewards \in Seq(RewardEntries) /\ a.unlocks \in Seq(Nat)
      /\ n \in Nat /\ a.width \in Nat
  BY <1>1, BlockFields
<1>3. b = [epoch   |-> a.epoch,
           hash    |-> a.hash,
           height  |-> a.height,
           flags   |-> flags,
           view    |-> a.view,
           txs     |-> a.txs,
           refs    |-> refs,
           rewards |-> a.rewards,
           unlocks |-> a.unlocks,
           width   |-> a.width]
  BY Zenon DEF ReturnedBlock
<1>4. /\ flags \in SUBSET Flag /\ flags \ {"has_tx"} = a.flags \ {"has_tx"}
      /\ "pivot" \in flags <=> "pivot" \in a.flags
  BY <1>2 DEF Flag
<1>5. \A j \in 1..n : Reference(p.blocks, i, j) \in Nat \X Nat
  BY <1>1, ReferenceBack
<1>6. DOMAIN refs = 1..n /\ refs = [j \in 1..n |-> refs[j]] /\ \A j \in 1..n : refs[j] \in R
  BY <1>5
<1>7. \A j \in 1..n : refs[j] # None => refs[j] = Reference(p.blocks, i, j) /\ Elsewhere(p.blocks, i, j)
  BY DEF Elsewhere
<1>8. refs \in Seq(R) /\ Len(refs) = n
  <2> HIDE DEF refs, R, n
  <2>. QED  BY <1>2, <1>6, FunctionIsSeq
<1> HIDE DEF a, b, flags, refs, n
<1>9. b \in PacketBlock
  BY <1>2, <1>3, <1>4, <1>8 DEF PacketBlock
<1>10. /\ b.epoch = a.epoch /\ b.hash = a.hash /\ b.height = a.height /\ b.view = a.view
       /\ b.txs = a.txs /\ b.rewards = a.rewards /\ b.unlocks = a.unlocks
       /\ b.flags = flags /\ b.refs = refs
  BY <1>3
<1>11. IsPivot(b) <=> IsPivot(a)
  BY <1>4, <1>10 DEF IsPivot
<1>12. Len(b.refs) = Len(b.txs)
  BY <1>8, <1>10 DEF n
<1>13. \A j \in 1..Len(b.txs) : b.refs[j] # None =>
                     b.refs[j] = Reference(p.blocks, i, j) /\ Elsewhere(p.blocks, i, j)
  BY <1>7, <1>10 DEF n
<1>. QED  BY <1>4, <1>9, <1>10, <1>11, <1>12, <1>13 DEF a, b, Kept

RewardedBlock(blocks, i, e, k) ==
    LET b == ReturnedBlock(blocks, i)
    IN  IF b.epoch = e /\ IsPivot(b) THEN [b EXCEPT !.rewards = Append(@, RewardEntry(k, b.hash))] ELSE b

Rewarded(p, e, k) ==
    [prev           |-> p.prev,
     min_height     |-> p.min_height,
     min_pos_height |-> p.min_pos_height,
     blocks         |-> [i \in 1..Len(p.blocks) |-> RewardedBlock(p.blocks, i, e, k)]]

LEMMA RewardedIs ==
    ASSUME NEW p, Sound(p), NEW e, NEW k \in Nat
    PROVE  WithReward(Encode(p), e, k) = Encode(Rewarded(p, e, k))
<1> DEFINE q == Returned(p)
           n == Len(p.blocks)
           bs == [i \in DOMAIN q.blocks |->
                    IF q.blocks[i].epoch = e /\ IsPivot(q.blocks[i])
                    THEN [q.blocks[i] EXCEPT !.rewards = Append(@, RewardEntry(k, q.blocks[i].hash))]
                    ELSE q.blocks[i]]
<1>1. Decode(Encode(p), PosEnable) = q
  BY PacketBack
<1>2. WithReward(Encode(p), e, k) = Encode([q EXCEPT !.blocks = bs])
  BY <1>1, ToolAssumption, Zenon DEF WithReward
<1>3. /\ q = [prev |-> p.prev, min_height |-> p.min_height,
              min_pos_height |-> p.min_pos_height, blocks |-> q.blocks]
      /\ DOMAIN q.blocks = 1..n /\ \A i \in 1..n : q.blocks[i] = ReturnedBlock(p.blocks, i)
  BY DEF Returned
<1> HIDE DEF q
<1>4. bs = [i \in 1..n |-> RewardedBlock(p.blocks, i, e, k)]
  BY <1>3 DEF RewardedBlock
<1> HIDE DEF bs
<1>5. [q EXCEPT !.blocks = bs] = [prev |-> p.prev, min_height |-> p.min_height,
                                  min_pos_height |-> p.min_pos_height, blocks |-> bs]
  BY <1>3
<1>. QED  BY <1>2, <1>4, <1>5 DEF Rewarded

PaidAgain(a, e, k) == IF a.epoch = e /\ IsPivot(a) THEN Append(a.rewards, RewardEntry(k, a.hash)) ELSE a.rewards

\* The reward is all that changes.
LEMMA RewardedFacts ==
    ASSUME NEW p, Sound(p), NEW e, NEW k \in Nat, NEW i \in 1..Len(p.blocks)
    PROVE  /\ Kept(p.blocks, i, RewardedBlock(p.blocks, i, e, k))
           /\ RewardedBlock(p.blocks, i, e, k).rewards = PaidAgain(p.blocks[i], e, k)
<1> DEFINE a == p.blocks[i]
           c == ReturnedBlock(p.blocks, i)
           b == RewardedBlock(p.blocks, i, e, k)
<1>1. Kept(p.blocks, i, c) /\ c.rewards = a.rewards
  BY ReturnedFacts
<1>2. b = IF c.epoch = e /\ IsPivot(c) THEN [c EXCEPT !.rewards = Append(c.rewards, RewardEntry(k, c.hash))] ELSE c
  BY DEF RewardedBlock
<1> HIDE DEF a, b, c
<1>3. CASE ~(c.epoch = e /\ IsPivot(c))
  <2>1. b = c
    BY <1>2, <1>3
  <2>. QED  BY <1>1, <1>3, <2>1 DEF a, b, PaidAgain, Kept
<1>4. CASE c.epoch = e /\ IsPivot(c)
  <2> DEFINE r == Append(c.rewards, RewardEntry(k, c.hash))
             H == RewardEntries
  <2>1. b = [c EXCEPT !.rewards = r]
    BY <1>2, <1>4
  <2>2. c \in PacketBlock /\ c.rewards \in Seq(H) /\ RewardEntry(k, c.hash) \in H
    <3>1. c \in PacketBlock
      BY <1>1 DEF Kept
    <3>2. c.rewards \in Seq(H) /\ c.hash \in DOMAIN db.body
      BY <3>1, BlockFields
    <3>. QED  BY <3>1, <3>2 DEF RewardEntries
  <2>3. r \in Seq(H)
    <3> HIDE DEF H
    <3>. QED  BY <2>2
  <2> HIDE DEF r
  <2>4. b \in PacketBlock
    BY <2>1, <2>2, <2>3 DEF PacketBlock
  <2>5. /\ b.epoch = c.epoch /\ b.hash = c.hash /\ b.height = c.height /\ b.view = c.view
        /\ b.txs = c.txs /\ b.unlocks = c.unlocks /\ b.rewards = r /\ b.flags = c.flags /\ b.refs = c.refs
    BY <2>1, <2>2 DEF PacketBlock
  <2>6. IsPivot(b) <=> IsPivot(c)
    BY <2>5 DEF IsPivot
  <2>7. r = Append(a.rewards, RewardEntry(k, a.hash))
    BY <1>1 DEF r, a, Kept
  <2>8. b.rewards = PaidAgain(a, e, k)
    BY <1>1, <1>4, <2>5, <2>7 DEF PaidAgain, a, Kept
  <2>9. Kept(p.blocks, i, b)
    BY <1>1, <2>4, <2>5, <2>6 DEF Kept
  <2>. QED  BY <2>8, <2>9 DEF a, b
<1>. QED  BY <1>3, <1>4

LEMMA RewardedSound ==
    ASSUME NEW p, Sound(p), NEW e, NEW k \in Nat
    PROVE  Sound(Rewarded(p, e, k))
<1> DEFINE q == Rewarded(p, e, k)
           n == Len(p.blocks)
<1>1. /\ p.prev \in DOMAIN db.body /\ p.min_height \in Nat /\ p.min_pos_height \in Nat
      /\ p.blocks \in Seq(PacketBlock) /\ n \in Nat
      /\ EpochsEnd(p.blocks) /\ RefersBack(p.blocks)
      /\ \A i \in 1..n : p.blocks[i].view # None <=> p.blocks[i].height >= PosEnable
  BY SoundFields DEF Sound
<1>2. /\ q.prev = p.prev /\ q.min_height = p.min_height /\ q.min_pos_height = p.min_pos_height
      /\ q = [prev |-> q.prev, min_height |-> q.min_height,
              min_pos_height |-> q.min_pos_height, blocks |-> q.blocks]
      /\ DOMAIN q.blocks = 1..n /\ q.blocks = [i \in 1..n |-> q.blocks[i]]
      /\ \A i \in 1..n : q.blocks[i] = RewardedBlock(p.blocks, i, e, k)
  BY DEF Rewarded
<1> HIDE DEF q
<1>3. \A i \in 1..n :
        /\ q.blocks[i] \in PacketBlock
        /\ q.blocks[i].epoch = p.blocks[i].epoch /\ q.blocks[i].height = p.blocks[i].height
        /\ q.blocks[i].view = p.blocks[i].view /\ q.blocks[i].txs = p.blocks[i].txs
        /\ IsPivot(q.blocks[i]) <=> IsPivot(p.blocks[i])
        /\ Len(q.blocks[i].refs) = Len(q.blocks[i].txs)
  <2> SUFFICES ASSUME NEW i \in 1..n
               PROVE  /\ q.blocks[i] \in PacketBlock
                      /\ q.blocks[i].epoch = p.blocks[i].epoch /\ q.blocks[i].height = p.blocks[i].height
                      /\ q.blocks[i].view = p.blocks[i].view /\ q.blocks[i].txs = p.blocks[i].txs
                      /\ IsPivot(q.blocks[i]) <=> IsPivot(p.blocks[i])
                      /\ Len(q.blocks[i].refs) = Len(q.blocks[i].txs)
    OBVIOUS
  <2>1. q.blocks[i] = RewardedBlock(p.blocks, i, e, k)
    BY <1>2
  <2>2. Kept(p.blocks, i, q.blocks[i])
    BY <2>1, RewardedFacts
  <2>. QED  BY <2>2 DEF Kept
<1> DEFINE blocks == q.blocks
<1>4. blocks \in Seq(PacketBlock) /\ Len(blocks) = n
  <2>1. DOMAIN blocks = 1..n /\ blocks = [i \in 1..n |-> blocks[i]] /\ \A i \in 1..n : blocks[i] \in PacketBlock
    BY <1>2, <1>3
  <2> HIDE DEF n, blocks
  <2>. QED  BY <1>1, <2>1, FunctionIsSeq DEF n
<1>5. q \in Packet
  BY <1>1, <1>2, <1>4 DEF Packet
<1>6. \A i \in 1..n : q.blocks[i].view # None <=> q.blocks[i].height >= PosEnable
  BY <1>1, <1>3
<1>7. EpochsEnd(blocks)
  <2> HIDE DEF n
  <2>1. n >= 1 /\ IsPivot(p.blocks[n])
    BY <1>1 DEF EpochsEnd, n
  <2>2. blocks # <<>> /\ IsPivot(blocks[n])
    BY <1>1, <1>3, <1>4, <2>1
  <2>3. \A i \in 1..(n - 1) : i \in 1..n /\ i + 1 \in 1..n
    BY <1>1
  <2>4. \A i \in 1..(n - 1) : ~IsPivot(p.blocks[i]) => p.blocks[i].epoch = p.blocks[i + 1].epoch
    BY <1>1 DEF EpochsEnd, n
  <2>5. \A i \in 1..n : IsPivot(p.blocks[i]) => p.blocks[i].epoch = p.blocks[i].height
    BY <1>1 DEF EpochsEnd, n
  <2>6. \A i \in 1..(n - 1) : ~IsPivot(blocks[i]) => blocks[i].epoch = blocks[i + 1].epoch
    BY <1>3, <2>3, <2>4
  <2>7. \A i \in 1..n : IsPivot(blocks[i]) => blocks[i].epoch = blocks[i].height
    BY <1>3, <2>5
  <2> HIDE DEF blocks
  <2>. QED  BY <1>4, <2>2, <2>6, <2>7 DEF EpochsEnd
<1>8. RefersBack(blocks)
  <2> SUFFICES ASSUME NEW i \in 1..n
               PROVE  /\ HasRefs(blocks[i]) => \A j \in 1..Len(blocks[i].txs) :
                            LET r == blocks[i].refs[j]
                            IN  r # None => /\ r[1] \in 1..(i - 1) /\ r[2] \in 1..Len(blocks[r[1]].txs)
                                            /\ blocks[r[1]].txs[r[2]] = blocks[i].txs[j]
                      /\ ~HasRefs(blocks[i]) => IsInjective(blocks[i].txs)
    BY <1>4, Zenon DEF RefersBack
  <2>1. HasRefs(blocks[i])
    BY <1>3, SMTT(30) DEF HasRefs
  <2> SUFFICES ASSUME NEW j \in 1..Len(blocks[i].txs), blocks[i].refs[j] # None
               PROVE  LET r == blocks[i].refs[j]
                      IN  /\ r[1] \in 1..(i - 1) /\ r[2] \in 1..Len(blocks[r[1]].txs)
                          /\ blocks[r[1]].txs[r[2]] = blocks[i].txs[j]
    BY <2>1
  <2> DEFINE r == Reference(p.blocks, i, j)
  <2>2. blocks[i].txs = p.blocks[i].txs
    BY <1>3
  <2>3. blocks[i].refs[j] = r /\ Elsewhere(p.blocks, i, j)
    <3>1. blocks[i] = RewardedBlock(p.blocks, i, e, k)
      BY <1>2
    <3>2. Kept(p.blocks, i, blocks[i])
      BY <3>1, RewardedFacts
    <3>. QED  BY <3>2 DEF Kept
  <2>4. /\ r[1] \in 1..(i - 1) /\ r[2] \in 1..Len(p.blocks[r[1]].txs)
        /\ p.blocks[r[1]].txs[r[2]] = p.blocks[i].txs[j]
    BY <1>1, <2>2, <2>3, ReferenceBack DEF Elsewhere
  <2> HIDE DEF r
  <2>5. r[1] \in 1..n
    BY <1>1, <2>4
  <2>6. blocks[r[1]].txs = p.blocks[r[1]].txs
    BY <1>3, <2>5
  <2>. QED  BY <2>2, <2>3, <2>4, <2>6
<1>. QED  BY <1>4, <1>5, <1>6, <1>7, <1>8 DEF Sound, q

LEMMA ReturnedTrue ==
    ASSUME NEW p, Sound(p), NEW i \in 1..Len(p.blocks), NEW paid, p.blocks[i] \in TrueBlock(paid)
    PROVE  ReturnedBlock(p.blocks, i) \in TrueBlock(paid)
<1> DEFINE a == p.blocks[i]
           b == ReturnedBlock(p.blocks, i)
<1>1. /\ b \in PacketBlock
      /\ b.epoch = a.epoch /\ b.hash = a.hash /\ b.height = a.height /\ b.view = a.view
      /\ b.txs = a.txs /\ b.rewards = a.rewards /\ (IsPivot(b) <=> IsPivot(a))
  <2>1. Kept(p.blocks, i, b) /\ b.rewards = a.rewards
    BY ReturnedFacts
  <2> HIDE DEF b
  <2>. QED  BY <2>1 DEF Kept
<1>2. a \in TrueBlock(paid)
  OBVIOUS
<1> HIDE DEF a, b
<1>3. b \in TrueBlock(paid)
  BY <1>1, <1>2 DEF TrueBlock
<1>. QED  BY <1>3 DEF b

LEMMA AddedOne ==
    ASSUME NEW ks \in Seq(Nat), NEW k \in Nat, NEW h \in DOMAIN db.body, NEW x \in Seq(RewardEntries)
    PROVE  x \o Added(Append(ks, k), h) = Append(x \o Added(ks, h), RewardEntry(k, h))
<1> DEFINE n == Len(ks)
           m == Len(x)
           R == RewardEntries
           y == Added(ks, h)
           z == Added(Append(ks, k), h)
           r == RewardEntry(k, h)
<1>1. n \in Nat /\ m \in Nat /\ DOMAIN ks = 1..n /\ \A j \in 1..n : ks[j] \in Nat
  OBVIOUS
<1>2. /\ DOMAIN Append(ks, k) = 1..(n + 1) /\ Append(ks, k)[n + 1] = k
      /\ \A j \in 1..n : Append(ks, k)[j] = ks[j]
  OBVIOUS
<1>3. \A j \in Nat : RewardEntry(j, h) \in R
  BY DEF RewardEntries
<1> HIDE DEF n, m, R
<1>4. y = [j \in 1..n |-> RewardEntry(ks[j], h)] /\ z = [j \in 1..(n + 1) |-> RewardEntry(Append(ks, k)[j], h)]
  BY <1>1, <1>2 DEF Added
<1> HIDE DEF y, z, r
<1>5. y \in Seq(R) /\ Len(y) = n
  <2>1. DOMAIN y = 1..n /\ y = [j \in 1..n |-> y[j]] /\ \A j \in 1..n : y[j] \in R
    BY <1>1, <1>3, <1>4
  <2>. QED  BY <1>1, <2>1, FunctionIsSeq
<1>6. z \in Seq(R) /\ Len(z) = n + 1
  <2> DEFINE l == n + 1
  <2>1. DOMAIN z = 1..l /\ z = [j \in 1..l |-> z[j]] /\ l \in Nat
    BY <1>1, <1>4
  <2>2. \A j \in 1..l : Append(ks, k)[j] \in Nat /\ z[j] = RewardEntry(Append(ks, k)[j], h)
    BY <1>1, <1>2, <1>4
  <2>3. \A j \in 1..l : z[j] \in R
    BY <1>3, <2>2
  <2> HIDE DEF l
  <2>4. z \in Seq(R) /\ Len(z) = l
    BY <2>1, <2>3, FunctionIsSeq
  <2>. QED  BY <2>4 DEF l
<1>7. z[n + 1] = r /\ \A j \in 1..n : z[j] = y[j]
  <2>1. n + 1 \in 1..(n + 1) /\ \A j \in 1..n : j \in 1..(n + 1)
    BY <1>1
  <2>. QED  BY <1>2, <1>4, <2>1 DEF r
<1>8. /\ x \o z \in Seq(R) /\ Len(x \o z) = m + (n + 1)
      /\ \A j \in 1..(m + (n + 1)) : (x \o z)[j] = IF j <= m THEN x[j] ELSE z[j - m]
  <2>1. /\ x \o z \in Seq(R) /\ Len(x \o z) = Len(x) + Len(z)
        /\ \A j \in 1..(Len(x) + Len(z)) : (x \o z)[j] = IF j <= Len(x) THEN x[j] ELSE z[j - Len(x)]
    BY <1>6, ConcatFacts DEF R
  <2>. QED  BY <1>6, <2>1 DEF m
<1>9. /\ x \o y \in Seq(R) /\ Len(x \o y) = m + n
      /\ \A j \in 1..(m + n) : (x \o y)[j] = IF j <= m THEN x[j] ELSE y[j - m]
  BY <1>5, ConcatFacts DEF m, R
<1> DEFINE u == x \o y
           v == x \o z
<1> HIDE DEF u, v
<1>10. /\ Append(u, r) \in Seq(R) /\ Len(Append(u, r)) = (m + n) + 1 /\ Append(u, r)[(m + n) + 1] = r
       /\ \A j \in 1..(m + n) : Append(u, r)[j] = u[j]
  <2>1. u \in Seq(R) /\ Len(u) = m + n /\ r \in R
    BY <1>3, <1>9 DEF u, r
  <2>. QED  BY <2>1
<1>11. \A j \in 1..((m + n) + 1) : v[j] = Append(u, r)[j]
  <2> SUFFICES ASSUME NEW j \in 1..((m + n) + 1)
               PROVE  v[j] = Append(u, r)[j]
    OBVIOUS
  <2>1. CASE j <= m
    <3>1. j \in 1..(m + n) /\ j \in 1..(m + (n + 1))
      BY <1>1, <2>1
    <3>. QED  BY <1>8, <1>9, <1>10, <2>1, <3>1 DEF u, v
  <2>2. CASE j > m /\ j <= m + n
    <3>1. j \in 1..(m + n) /\ j \in 1..(m + (n + 1)) /\ ~(j <= m) /\ j - m \in 1..n
      BY <1>1, <2>2
    <3>. QED  BY <1>7, <1>8, <1>9, <1>10, <3>1 DEF u, v
  <2>3. CASE j = (m + n) + 1
    <3>1. j \in 1..(m + (n + 1)) /\ ~(j <= m) /\ j - m = n + 1
      BY <1>1, <2>3
    <3>. QED  BY <1>7, <1>8, <1>10, <2>3, <3>1 DEF v
  <2>4. j <= m \/ (j > m /\ j <= m + n) \/ j = (m + n) + 1
    BY <1>1
  <2>. QED  BY <2>1, <2>2, <2>3, <2>4
<1>12. v \in Seq(R) /\ Len(v) = (m + n) + 1
  BY <1>1, <1>8 DEF v
<1>13. v = Append(u, r)
  <2> DEFINE w == Append(u, r)
  <2>1. w \in Seq(R) /\ Len(w) = Len(v) /\ \A j \in 1..Len(v) : v[j] = w[j]
    BY <1>10, <1>11, <1>12
  <2> HIDE DEF w
  <2>2. v = w
    BY <1>12, <2>1
  <2>. QED  BY <2>2 DEF w
<1>. QED  BY <1>13 DEF u, v, y, z, r

\* A true block with reward k at epoch e is one of the epoch with k injected.
LEMMA RewardedTrue ==
    ASSUME db \in Databases, NEW p, Sound(p), NEW i \in 1..Len(p.blocks),
           NEW e \in Epoch, NEW k \in Nat, NEW paid \in [Epoch -> Seq(Nat)],
           p.blocks[i] \in TrueBlock(paid)
    PROVE  RewardedBlock(p.blocks, i, e, k) \in TrueBlock([paid EXCEPT ![e] = Append(@, k)])
<1> DEFINE a == p.blocks[i]
           b == RewardedBlock(p.blocks, i, e, k)
           then == [paid EXCEPT ![e] = Append(@, k)]
<1>1. /\ b \in PacketBlock
      /\ b.epoch = a.epoch /\ b.hash = a.hash /\ b.height = a.height /\ b.view = a.view
      /\ b.txs = a.txs /\ (IsPivot(b) <=> IsPivot(a))
      /\ b.rewards = PaidAgain(a, e, k)
  <2>1. Kept(p.blocks, i, b) /\ b.rewards = PaidAgain(a, e, k)
    BY RewardedFacts
  <2> HIDE DEF b
  <2>. QED  BY <2>1 DEF Kept
<1>2. a \in TrueBlock(paid)
  OBVIOUS
<1>3. then[e] = Append(paid[e], k) /\ \A d \in Epoch : d # e => then[d] = paid[d]
  OBVIOUS
<1> HIDE DEF a, b, then
<1>4. /\ a \in PacketBlock /\ a.epoch \in Epoch
      /\ a.height = db.height[a.hash] /\ a.view = EffectivePos(a.hash) /\ a.txs = TxsOf(a.hash)
      /\ IsPivot(a) => a.hash = Pivot(a.epoch)
      /\ a.rewards = IF IsPivot(a) THEN Distributed(a.hash) \o Added(paid[a.epoch], a.hash) ELSE <<>>
  BY <1>2 DEF TrueBlock
<1>5. a.hash \in DOMAIN db.body
  BY <1>4, BlockFields
<1>6. b.rewards = IF IsPivot(a) THEN Distributed(a.hash) \o Added(then[a.epoch], a.hash) ELSE <<>>
  <2>1. CASE a.epoch = e /\ IsPivot(a)
    <3>1. b.rewards = Append(a.rewards, RewardEntry(k, a.hash))
      BY <1>1, <2>1 DEF PaidAgain
    <3>2. Distributed(a.hash) \in Seq(RewardEntries) /\ paid[e] \in Seq(Nat)
      BY <1>5, DistributedType
    <3>3. Distributed(a.hash) \o Added(Append(paid[e], k), a.hash)
            = Append(Distributed(a.hash) \o Added(paid[e], a.hash), RewardEntry(k, a.hash))
      BY <1>5, <3>2, AddedOne
    <3>. QED  BY <1>3, <1>4, <2>1, <3>1, <3>3
  <2>2. CASE ~(a.epoch = e /\ IsPivot(a))
    BY <1>1, <1>3, <1>4, <2>2 DEF PaidAgain
  <2>. QED  BY <2>1, <2>2
<1>7. b \in TrueBlock(then)
  BY <1>1, <1>4, <1>6 DEF TrueBlock
<1>. QED  BY <1>7 DEF b, then

-----------------------------------------------------------------------------
(* The unlock events of an epoch, and of all epochs up to one. *)

PosAt(e) == EffectivePos(Pivot(e))

\* Due at an epoch: what came after the reference of the epoch before.
DueAt(e) == IF PosAt(e - 1) = None THEN <<>>
            ELSE UnlockEvents(db.version[PosAt(e - 1)], db.version[PosAt(e)])

LEMMA PosAtFacts ==
    ASSUME db \in Databases, NEW e \in (FirstEpoch - 1)..LastEpoch
    PROVE  /\ PosAt(e) # None <=> e >= PosEnable
           /\ PosAt(e) # None => /\ PosAt(e) \in DOMAIN db.version /\ PosAt(e) \in Nat
                                 /\ db.version[PosAt(e)] \in Nat
           /\ PosAt(e) = IF e < PosEnable THEN None ELSE db.pos[Pivot(e)]
<1>1. Pivot(e) \in DOMAIN db.body /\ db.height[Pivot(e)] = e
  BY EpochSchema
<1>2. PosAt(e) \in PosRef /\ (PosAt(e) # None <=> e >= PosEnable)
  BY <1>1, EffectivePosType DEF PosAt
<1>3. PosAt(e) # None => PosAt(e) \in DOMAIN db.version
  BY <1>2 DEF PosRef
<1>4. PosAt(e) = IF e < PosEnable THEN None ELSE db.pos[Pivot(e)]
  BY <1>1 DEF PosAt, EffectivePos
<1>. QED  BY <1>2, <1>3, <1>4, Schema

\* References go forward from epoch to epoch, and so do their versions.
LEMMA PosForward ==
    ASSUME db \in Databases, NEW e \in Epoch, PosAt(e - 1) # None
    PROVE  PosAt(e) # None /\ db.version[PosAt(e - 1)] <= db.version[PosAt(e)]
<1>0. FirstEpoch \in Nat \ {0} /\ LastEpoch \in Nat /\ PosEnable \in Nat
  BY ConfigAssumption
<1> DEFINE d == e - 1
<1>1. /\ d \in (FirstEpoch - 1)..LastEpoch /\ e \in (FirstEpoch - 1)..LastEpoch
      /\ d \in Nat /\ e \in Nat /\ d < e /\ e >= FirstEpoch
  BY <1>0 DEF Epoch
<1>2. PosAt(d) # None
  OBVIOUS
<1>3. db.pos[Pivot(d)] <= db.pos[Pivot(e)]
  BY <1>1, DatabaseAssumption DEF Pivot
<1>4. \A v, w \in DOMAIN db.version : v <= w => db.version[v] <= db.version[w]
  BY DatabaseAssumption
<1> HIDE DEF d
<1>5. d >= PosEnable /\ PosAt(d) = db.pos[Pivot(d)] /\ PosAt(d) \in DOMAIN db.version
  BY <1>0, <1>1, <1>2, PosAtFacts
<1>6. e >= PosEnable
  BY <1>0, <1>1, <1>5
<1>7. PosAt(e) # None /\ PosAt(e) = db.pos[Pivot(e)] /\ PosAt(e) \in DOMAIN db.version
  BY <1>0, <1>1, <1>6, PosAtFacts
<1>8. db.version[PosAt(d)] <= db.version[PosAt(e)]
  BY <1>3, <1>4, <1>5, <1>7
<1>. QED  BY <1>7, <1>8 DEF d

LEMMA InOrderEmpty == InOrder({}) = <<>>
<1>1. Cardinality({}) = 0
  BY FS_EmptySet
<1>2. InOrder({}) = [k \in 1..0 |-> Nth({}, k)]
  BY <1>1 DEF InOrder
<1>3. 1..0 = {}
  OBVIOUS
<1>. QED  BY <1>2, <1>3

LEMMA NoEvents ==
    ASSUME NEW a, NEW b, {v \in db.events : a <= v /\ v < b} = {}
    PROVE  UnlockEvents(a, b) = <<>>
<1> DEFINE T == {v \in db.events : a <= v /\ v < b}
<1>1. UnlockEvents(a, b) = InOrder(T)
  BY DEF UnlockEvents
<1>2. T = {}
  OBVIOUS
<1> HIDE DEF T
<1>. QED  BY <1>1, <1>2, InOrderEmpty

\* The scan of any group is at the reference of the epoch before, and finds
\* what is due.
LEMMA ScanFinds ==
    ASSUME db \in Databases, NEW first \in Epoch, NEW count \in Nat, first + count - 1 <= LastEpoch,
           NEW i \in 1..count
    PROVE  UnlockScan(first, count)[i] = DueAt(first + i - 1)
<1>0. FirstEpoch \in Nat \ {0} /\ LastEpoch \in Nat /\ PosEnable \in Nat
  BY ConfigAssumption
<1>1. PICK f \in [0..count -> ScanState] :
         /\ f[0] = ScanStart(first)
         /\ \A k \in 1..count : f[k] = ScanStep(f[k - 1], first + k - 1)
         /\ \A k \in 0..count : Len(f[k].found) = k
         /\ UnlockScan(first, count) = f[count].found
  BY ScanSteps
<1> DEFINE Right(n) == /\ f[n].ref = PosAt(first + n - 1)
                       /\ f[n].version = StartVersion(PosAt(first + n - 1))
                       /\ \A k \in 1..n : f[n].found[k] = DueAt(first + k - 1)
           S == {n \in Nat : n \in 0..count => Right(n)}
<1>2. 0 \in S
  <2>1. first + 0 - 1 = first - 1 /\ 1..0 = {}
    BY <1>0 DEF Epoch
  <2>2. f[0].ref = PosAt(first - 1) /\ f[0].version = StartVersion(PosAt(first - 1))
    BY <1>1 DEF ScanStart, PosAt
  <2>. QED  BY <2>1, <2>2
<1>3. ASSUME NEW n \in Nat, n \in S
      PROVE  n + 1 \in S
  <2> SUFFICES ASSUME n + 1 \in 0..count
               PROVE  Right(n + 1)
    OBVIOUS
  <2> DEFINE e == first + n
             s == f[n]
             curr == PosAt(e)
             prev == PosAt(e - 1)
             moved == s.version # None /\ curr # None /\ s.ref # curr
             u == IF moved THEN UnlockEvents(s.version, db.version[curr]) ELSE <<>>
  <2>1. /\ n + 1 \in 1..count /\ n \in 0..count /\ (n + 1) - 1 = n
        /\ first + (n + 1) - 1 = e /\ first + n - 1 = e - 1
        /\ e \in Epoch /\ e \in (FirstEpoch - 1)..LastEpoch /\ e - 1 \in (FirstEpoch - 1)..LastEpoch
    BY <1>0 DEF Epoch
  <2>2. s.ref = prev /\ s.version = StartVersion(prev) /\ \A k \in 1..n : s.found[k] = DueAt(first + k - 1)
    BY <1>3, <2>1
  <2>3. f[n + 1] = ScanStep(s, e)
    BY <1>1, <2>1
  <2>4. /\ f[n + 1].ref = curr
        /\ f[n + 1].version = IF curr = None THEN s.version ELSE db.version[curr]
        /\ f[n + 1].found = Append(s.found, u)
    BY <2>3 DEF ScanStep, PosAt
  <2>5. s \in ScanState /\ s.found \in Seq(Seq(Nat)) /\ Len(s.found) = n
    BY <1>1, <2>1 DEF ScanState
  <2> HIDE DEF s
  <2>6. prev # None => curr # None
    BY <2>1, PosForward
  <2>7. prev # None => db.version[prev] \in Nat
    <3> DEFINE d == e - 1
    <3>1. d \in (FirstEpoch - 1)..LastEpoch
      BY <2>1
    <3> HIDE DEF d
    <3>2. PosAt(d) # None => db.version[PosAt(d)] \in Nat
      BY <3>1, PosAtFacts
    <3>. QED  BY <3>2 DEF d
  <2>8. None \notin Nat
    BY ConfigAssumption
  <2> HIDE DEF e
  <2>9. f[n + 1].version = StartVersion(curr)
    BY <2>2, <2>4, <2>6 DEF StartVersion
  <2>10. u = DueAt(e)
    <3>1. CASE prev = None
      <4>1. ~moved
        BY <2>2, <3>1 DEF StartVersion
      <4>. QED  BY <3>1, <4>1 DEF DueAt
    <3>2. CASE prev # None /\ prev # curr
      <4>1. moved /\ s.version = db.version[prev]
        BY <2>2, <2>6, <2>7, <2>8, <3>2 DEF StartVersion
      <4>. QED  BY <3>2, <4>1 DEF DueAt
    <3>3. CASE prev # None /\ prev = curr
      <4>1. ~moved
        BY <2>2, <3>3
      <4>2. u = <<>>
        BY <4>1
      <4>3. DueAt(e) = UnlockEvents(db.version[prev], db.version[prev])
        BY <3>3 DEF DueAt
      <4>4. {v \in db.events : db.version[prev] <= v /\ v < db.version[prev]} = {}
        <5>1. \A v \in db.events : v \in Nat
          BY Schema
        <5>. QED  BY <2>7, <3>3, <5>1
      <4>5. UnlockEvents(db.version[prev], db.version[prev]) = <<>>
        BY <4>4, NoEvents
      <4>. QED  BY <4>2, <4>3, <4>5
    <3>. QED  BY <3>1, <3>2, <3>3
  <2> HIDE DEF u
  <2>11. \A k \in 1..(n + 1) : f[n + 1].found[k] = IF k = n + 1 THEN u ELSE s.found[k]
    BY <2>4, <2>5
  <2>12. \A k \in 1..(n + 1) : f[n + 1].found[k] = DueAt(first + k - 1)
    <3> SUFFICES ASSUME NEW k \in 1..(n + 1)
                 PROVE  f[n + 1].found[k] = DueAt(first + k - 1)
      OBVIOUS
    <3>1. CASE k = n + 1
      BY <2>1, <2>10, <2>11, <3>1
    <3>2. CASE k # n + 1
      <4>1. k \in 1..n
        BY <3>2
      <4>. QED  BY <2>2, <2>11, <3>2, <4>1
    <3>. QED  BY <3>1, <3>2
  <2>. QED  BY <2>1, <2>4, <2>9, <2>12
<1>4. count \in S
  <2> HIDE DEF S
  <2>. QED  BY <1>2, <1>3, InductionOnSet
<1>5. Right(count)
  BY <1>4
<1>. QED  BY <1>1, <1>5

-----------------------------------------------------------------------------
(* The archive. *)

\* The pivot is in its epoch once.
LEMMA PivotOnce ==
    ASSUME db \in Databases, NEW b, NEW at \in Nat, Placed(b, at), b.hash = Pivot(b.epoch)
    PROVE  at = End[b.epoch]
<1>0. FirstEpoch \in Nat \ {0} /\ LastEpoch \in Nat
  BY ConfigAssumption
<1> DEFINE e == b.epoch
           ex == db.executed[e]
           sk == db.skipped[e]
           n == Len(ex)
           m == Len(sk)
           s == Ordered(e)
           k == at - End[e - 1]
<1>1. e \in Epoch /\ End[e - 1] < at /\ at <= End[e] /\ Pivot(e) = s[k]
  BY DEF Placed
<1>2. e \in (FirstEpoch - 1)..LastEpoch
  BY <1>0, <1>1 DEF Epoch
<1>3. /\ n \in Nat /\ m \in Nat /\ n >= 1 /\ Len(s) = n + m
      /\ \A i \in 1..(n - 1) : s[i] = ex[i]
      /\ \A i \in 1..m : s[(n - 1) + i] = sk[i]
      /\ Pivot(e) = ex[n]
  BY <1>2, OrderedFacts
<1>4. End[e] = End[e - 1] + Len(s) /\ End[e - 1] \in Nat
  BY <1>1, EndFacts
<1>5. /\ ex \in Seq(DOMAIN db.body) /\ sk \in Seq(DOMAIN db.body)
      /\ \A i \in DOMAIN ex : ~Contains(sk, ex[i])
  BY <1>2, EpochSchema
<1>6. IsInjective(ex)
  BY <1>2, DatabaseAssumption
<1> HIDE DEF e, ex, sk, s
<1>7. DOMAIN ex = 1..n /\ DOMAIN sk = 1..m
  BY <1>5
<1> HIDE DEF n, m
<1>8. k \in 1..(n + m)
  BY <1>1, <1>3, <1>4
<1>9. ~(k \in 1..(n - 1))
  <2>1. \A i, j \in 1..n : ex[i] = ex[j] => i = j
    BY <1>6, <1>7 DEF IsInjective
  <2>2. n \in 1..n /\ \A i \in 1..(n - 1) : i \in 1..n /\ i # n
    BY <1>3
  <2> HIDE DEF k
  <2>. QED  BY <1>1, <1>3, <2>1, <2>2
<1>10. \A i \in 1..m : k # (n - 1) + i
  <2>1. ~Contains(sk, ex[n])
    BY <1>3, <1>5, <1>7
  <2>2. \A i \in 1..m : sk[i] # ex[n]
    BY <1>7, <2>1 DEF Contains, m
  <2> HIDE DEF k
  <2>. QED  BY <1>1, <1>3, <2>2
<1>11. k = n + m
  <2>1. CASE k <= n - 1
    BY <1>3, <1>8, <1>9, <2>1
  <2>2. CASE n - 1 < k /\ k < n + m
    <3>1. k - (n - 1) \in 1..m /\ k = (n - 1) + (k - (n - 1))
      BY <1>3, <1>8, <2>2
    <3>. QED  BY <1>10, <3>1
  <2>. QED  BY <1>3, <1>8, <2>1, <2>2
<1>12. at = End[e]
  BY <1>1, <1>3, <1>4, <1>11
<1>. QED  BY <1>12 DEF e

\* A pivot has the unlock events that are due at its epoch, no other block any.
Due(b) == b.unlocks = IF b.hash = Pivot(b.epoch) THEN DueAt(b.epoch) ELSE <<>>

\* What may be block number `at` of what the replayer is given.
GoodAt == [at \in Nat |-> {b \in PacketBlock : Placed(b, at) /\ Due(b)}]

\* Rewards injected into the epochs.
Injections == [Epoch -> Seq(Nat)]

\* Blocks as the databases have them, once the rewards `paid` were injected.
TrueBlocks == [paid \in Injections |-> TrueBlock(paid)]

\* The packets an archive may hold.
Wire == {Encode(p) : p \in {x \in Packet : Sound(x)}}

\* The inductive invariant.
ArchiveInv ==
    /\ db \in Databases
    /\ next \in Nat /\ (next = FirstEpoch \/ next - 1 \in Epoch) /\ next >= FirstEpoch
    /\ failed = FALSE
    /\ injected \in Injections /\ \A e \in Epoch : e >= next => injected[e] = <<>>
    /\ archive \in Seq(Wire)
    /\ \A g \in 1..Len(archive) : Decode(archive[g], PosEnable).blocks \in Seq(TrueBlocks[injected])
    /\ Len(Replayed) = End[next - 1]
    /\ \A i \in 1..Len(Replayed) : Replayed[i] \in GoodAt[i]

\* All of this is about the databases, which nothing changes.
LEMMA Settled ==
    ASSUME UNCHANGED db
    PROVE  End' = End /\ GoodAt' = GoodAt /\ TrueBlocks' = TrueBlocks /\ Wire' = Wire
<1>1. \A e : Pivot(e)' = Pivot(e)
  BY DEF Pivot
<1>2. \A h : EffectivePos(h)' = EffectivePos(h)
  BY DEF EffectivePos
<1>3. \A e : Ordered(e)' = Ordered(e)
  BY <1>1 DEF Ordered
<1>4. \A e, h : Flags(e, h)' = Flags(e, h)
  BY <1>1 DEF Flags
<1>5. End' = End
  <2>1. \A f : IsEnd(f)' <=> IsEnd(f)
    BY <1>3 DEF IsEnd
  <2>. QED  BY <2>1 DEF End
<1>6. PacketBlock' = PacketBlock
  BY DEF PacketBlock, RewardEntries
<1>7. \A b, at : Placed(b, at)' <=> Placed(b, at)
  BY <1>3, <1>4, <1>5 DEF Placed
<1>8. \A a, b : UnlockEvents(a, b)' = UnlockEvents(a, b)
  BY DEF UnlockEvents
<1>9. \A e : PosAt(e)' = PosAt(e)
  BY <1>1, <1>2 DEF PosAt, EffectivePos
<1>10. \A e : DueAt(e)' = DueAt(e)
  BY <1>8, <1>9 DEF DueAt
<1>11. \A b : Due(b)' <=> Due(b)
  BY <1>1, <1>10 DEF Due
<1>12. GoodAt' = GoodAt
  BY <1>6, <1>7, <1>11 DEF GoodAt
<1>13. \A h : TxsOf(h)' = TxsOf(h)
  BY DEF TxsOf, Transaction
<1>a. \A h : Distributed(h)' = Distributed(h)
  BY DEF Distributed
<1>14. \A paid : TrueBlock(paid)' = TrueBlock(paid)
  BY <1>1, <1>2, <1>6, <1>13, <1>a DEF TrueBlock
<1>15. TrueBlocks' = TrueBlocks
  BY <1>14 DEF TrueBlocks
<1>16. Packet' = Packet
  BY <1>6 DEF Packet
<1>17. \A p : RefersBack(p)' <=> RefersBack(p)
  BY DEF RefersBack
<1>18. \A p : Sound(p)' <=> Sound(p)
  BY <1>16 DEF Sound
<1>19. Wire' = Wire
  BY <1>16, <1>18 DEF Wire
<1>. QED  BY <1>5, <1>12, <1>15, <1>19

\* What decides where a block may be.
Core(b) == [epoch |-> b.epoch, hash |-> b.hash, unlocks |-> b.unlocks, flags |-> b.flags \ {"has_tx"}]

LEMMA CoreDecides ==
    ASSUME NEW at \in Nat, NEW x, NEW y \in PacketBlock, Core(x) = Core(y), Placed(x, at) /\ Due(x)
    PROVE  y \in GoodAt[at]
<1>1. x.epoch = y.epoch /\ x.hash = y.hash /\ x.unlocks = y.unlocks /\ x.flags \ {"has_tx"} = y.flags \ {"has_tx"}
  BY DEF Core
<1>2. Placed(y, at)
  BY <1>1 DEF Placed
<1>3. Due(y)
  BY <1>1 DEF Due
<1>. QED  BY <1>2, <1>3 DEF GoodAt

LEMMA GoodMeans ==
    ASSUME NEW at \in Nat, NEW b \in GoodAt[at]
    PROVE  b \in PacketBlock /\ Placed(b, at) /\ Due(b)
BY DEF GoodAt

\* What the replayer is given of a group that was just extracted.
LEMMA RawGood ==
    ASSUME db \in Databases, NEW first \in Epoch, NEW count \in Nat \ {0}, first + count - 1 <= LastEpoch,
           NEW paid \in Injections, \A e \in Epoch : e >= first => paid[e] = <<>>
    PROVE  LET w == Encode(Raw(first, count))
               blocks == Decode(w, PosEnable).blocks
           IN  /\ ValidInput(Raw(first, count)) /\ w \in Wire
               /\ blocks \in Seq(TrueBlocks[paid]) /\ blocks \in Seq(PacketBlock)
               /\ Len(blocks) = End[first + count - 1] - End[first - 1]
               /\ \A j \in 1..Len(blocks) : blocks[j] \in GoodAt[End[first - 1] + j]
<1> DEFINE p == Raw(first, count)
           raw == p.blocks
           n == Len(raw)
           from == End[first - 1]
           w == Encode(p)
           blocks == Decode(w, PosEnable).blocks
           found == UnlockScan(first, count)
           T == TrueBlock(paid)
<1>0. FirstEpoch \in Nat \ {0} /\ LastEpoch \in Nat
  BY ConfigAssumption
<1>1. Sound(p) /\ ValidInput(p) /\ raw \in Seq(T)
  BY RawSound
<1>2. /\ n = End[first + count - 1] - from
      /\ \A j \in 1..n : Told(raw[j], from + j, first, found)
  BY RawPlaced
<1>3. from \in Nat
  BY EndFacts
<1>4. w \in Wire
  BY <1>1 DEF Wire, Sound
<1>5. Decode(w, PosEnable) = Returned(p)
  BY <1>1, PacketBack
<1> DEFINE last == first + count - 1
<1>6. /\ \A i \in 1..count : found[i] = DueAt(first + i - 1)
      /\ last \in Epoch /\ first \in Nat /\ last \in Nat
      /\ End[last] \in Nat /\ End[last - 1] \in Nat /\ End[last - 1] < End[last]
  <2>1. last \in Epoch /\ first \in Nat /\ last \in Nat
    BY <1>0 DEF Epoch
  <2> HIDE DEF last
  <2>2. /\ End[last] \in Nat /\ End[last - 1] \in Nat /\ Len(Ordered(last)) \in Nat
        /\ Len(Ordered(last)) >= 1 /\ End[last] = End[last - 1] + Len(Ordered(last))
    BY <2>1, EndFacts
  <2>. QED  BY <2>1, <2>2, ScanFinds
<1> HIDE DEF p, w, found
<1>7. blocks = [i \in 1..n |-> ReturnedBlock(raw, i)]
  BY <1>5 DEF Returned
<1>8. n \in Nat
  BY <1>1
<1> HIDE DEF blocks
<1>9. ASSUME NEW j \in 1..n
      PROVE  blocks[j] \in T /\ blocks[j] \in PacketBlock /\ blocks[j] \in GoodAt[from + j]
  <2> DEFINE a == raw[j]
             b == blocks[j]
             at == from + j
             e == a.epoch
  <2>1. b = ReturnedBlock(raw, j) /\ a \in T
    BY <1>1, <1>7
  <2>2. b \in T
    <3> HIDE DEF n, raw, T
    <3>1. \A i \in 1..Len(p.blocks) : p.blocks[i] \in TrueBlock(paid) =>
             ReturnedBlock(p.blocks, i) \in TrueBlock(paid)
      BY <1>1, ReturnedTrue
    <3>. QED  BY <2>1, <3>1 DEF n, raw, T
  <2>3. Kept(raw, j, b)
    BY <1>1, <2>1, ReturnedFacts
  <2>4. Told(a, at, first, found)
    BY <1>2
  <2>5. at \in Nat /\ at <= End[last]
    BY <1>2, <1>3, <1>6, <1>8
  <2> HIDE DEF a, b, at, raw, T, last
  <2>6. b \in PacketBlock /\ Core(a) = Core(b)
    BY <2>3 DEF Kept, Core, a
  <2>7. Placed(a, at) /\ e >= first /\ e \in Epoch
    BY <2>4 DEF Told, Placed
  <2>8. End[e - 1] < at /\ at <= End[e]
    BY <2>7 DEF Placed
  <2> HIDE DEF e
  <2>9. e <= last
    BY <1>6, <2>5, <2>7, <2>8, OneEpoch
  <2>10. /\ e - first + 1 \in 1..count /\ first + (e - first + 1) - 1 = e
    BY <1>0, <1>6, <2>7, <2>9, SMTT(30) DEF Epoch, last
  <2>11. found[e - first + 1] = DueAt(e)
    BY <1>6, <2>10
  <2>12. Due(a)
    BY <2>4, <2>11 DEF Told, Due, e
  <2>13. b \in GoodAt[at]
    BY <2>5, <2>6, <2>7, <2>12, CoreDecides
  <2>. QED  BY <2>2, <2>6, <2>13 DEF b, at
<1> HIDE DEF T, n, from
<1>10. blocks \in Seq(T) /\ blocks \in Seq(PacketBlock) /\ Len(blocks) = n
  <2>1. DOMAIN blocks = 1..n /\ blocks = [i \in 1..n |-> blocks[i]]
    BY <1>7
  <2>. QED  BY <1>8, <1>9, <2>1, FunctionIsSeq
<1>11. TrueBlocks[paid] = T
  BY DEF TrueBlocks, T
<1>. QED  BY <1>1, <1>2, <1>4, <1>9, <1>10, <1>11 DEF blocks, w, p, from

\* Flattening looks at the lengths only: what two sequences of sequences have
\* in common, place by place, they have in common when they are flattened.
Alike(core, x, y) == Len(x) = Len(y) /\ \A k \in 1..Len(x) : core[x[k]] = core[y[k]]

LEMMA FlattenAlike ==
    ASSUME NEW A, NEW core, NEW s \in Seq(Seq(A)), NEW t \in Seq(Seq(A)), Len(s) = Len(t),
           \A g \in 1..Len(s) : Alike(core, s[g], t[g])
    PROVE  Alike(core, FlattenSeq(s), FlattenSeq(t))
<1> DEFINE n == Len(s)
<1>0. n \in Nat /\ (n = 0 => s = <<>> /\ t = <<>>)
  OBVIOUS
<1>1. CASE n = 0
  BY <1>0, <1>1, FlattenEmpty DEF Alike
<1>2. CASE n # 0
  <2>1. s # <<>> /\ t # <<>> /\ n \in 1..n
    BY <1>0, <1>2
  <2>2. PICK f \in [1..n -> Seq(A)] : /\ f[1] = s[1]
                                      /\ \A i \in 2..n : f[i] = f[i - 1] \o s[i]
                                      /\ FlattenSeq(s) = f[n]
    BY <2>1, FlattenSteps
  <2>3. PICK h \in [1..Len(t) -> Seq(A)] : /\ h[1] = t[1]
                                           /\ \A i \in 2..Len(t) : h[i] = h[i - 1] \o t[i]
                                           /\ FlattenSeq(t) = h[Len(t)]
    BY <2>1, FlattenSteps
  <2>4. \A g \in 1..n : Alike(core, s[g], t[g]) /\ s[g] \in Seq(A) /\ t[g] \in Seq(A)
    OBVIOUS
  <2> DEFINE S == {k \in Nat : k + 1 \in 1..n => Alike(core, f[k + 1], h[k + 1])}
  <2>5. 0 \in S
    BY <2>2, <2>3, <2>4
  <2>6. ASSUME NEW k \in Nat, k \in S
        PROVE  k + 1 \in S
    <3> SUFFICES ASSUME k + 2 \in 1..n
                 PROVE  Alike(core, f[k + 2], h[k + 2])
      BY <1>0
    <3>1. k + 1 \in 1..n /\ k + 2 \in 2..n /\ (k + 2) - 1 = k + 1
      BY <1>0
    <3> DEFINE x == f[k + 1]
               y == h[k + 1]
               u == s[k + 2]
               v == t[k + 2]
    <3>2. Alike(core, x, y) /\ x \in Seq(A) /\ y \in Seq(A)
      BY <2>6, <3>1
    <3>3. Alike(core, u, v) /\ u \in Seq(A) /\ v \in Seq(A)
      BY <2>4
    <3>4. f[k + 2] = x \o u /\ h[k + 2] = y \o v
      BY <2>2, <2>3, <3>1
    <3> HIDE DEF x, y, u, v
    <3>a. x \in Seq(A) /\ u \in Seq(A) /\ y \in Seq(A) /\ v \in Seq(A)
      BY <3>2, <3>3
    <3>5. /\ Len(x \o u) = Len(x) + Len(u)
          /\ \A j \in 1..(Len(x) + Len(u)) : (x \o u)[j] = IF j <= Len(x) THEN x[j] ELSE u[j - Len(x)]
      BY <3>a, ConcatFacts
    <3>6. /\ Len(y \o v) = Len(y) + Len(v)
          /\ \A j \in 1..(Len(y) + Len(v)) : (y \o v)[j] = IF j <= Len(y) THEN y[j] ELSE v[j - Len(y)]
      BY <3>a, ConcatFacts
    <3>7. Len(x) \in Nat /\ Len(u) \in Nat
      BY <3>2, <3>3
    <3>8. Alike(core, x \o u, y \o v)
      <4> SUFFICES ASSUME NEW j \in 1..(Len(x) + Len(u))
                   PROVE  core[(x \o u)[j]] = core[(y \o v)[j]]
        BY <3>2, <3>3, <3>5, <3>6 DEF Alike
      <4>1. CASE j <= Len(x)
        <5>1. j \in 1..Len(x)
          BY <3>7, <4>1
        <5>2. (x \o u)[j] = x[j] /\ (y \o v)[j] = y[j]
          BY <3>2, <3>3, <3>5, <3>6, <4>1 DEF Alike
        <5>. QED  BY <3>2, <5>1, <5>2 DEF Alike
      <4>2. CASE ~(j <= Len(x))
        <5>1. j - Len(x) \in 1..Len(u)
          BY <3>7, <4>2
        <5>2. (x \o u)[j] = u[j - Len(x)] /\ (y \o v)[j] = v[j - Len(x)]
          BY <3>2, <3>3, <3>5, <3>6, <4>2 DEF Alike
        <5>. QED  BY <3>3, <5>1, <5>2 DEF Alike
      <4>. QED  BY <4>1, <4>2
    <3>. QED  BY <3>4, <3>8
  <2>7. n - 1 \in S
    <3> HIDE DEF S
    <3>1. n - 1 \in Nat
      BY <1>0, <1>2
    <3>. QED  BY <2>5, <2>6, <3>1, InductionOnSet
  <2>8. (n - 1) + 1 = n
    BY <1>0
  <2>9. Alike(core, f[n], h[n])
    BY <2>1, <2>7, <2>8
  <2>. QED  BY <2>2, <2>3, <2>9
<1>. QED  BY <1>1, <1>2

\* The blocks of the packets of an archive, packet by packet.
BlocksOf(a) == [g \in DOMAIN a |-> Decode(a[g], PosEnable).blocks]

LEMMA WireBack ==
    ASSUME NEW w \in Wire
    PROVE  Decodable(w, PosEnable) /\ Decode(w, PosEnable).blocks \in Seq(PacketBlock)
<1>1. PICK p \in Packet : Sound(p) /\ w = Encode(p)
  BY DEF Wire
<1> DEFINE n == Len(p.blocks)
           blocks == Returned(p).blocks
<1>2. Decodable(w, PosEnable) /\ Decode(w, PosEnable).blocks = blocks
  BY <1>1, PacketDecodable, PacketBack
<1>3. n \in Nat
  BY <1>1, SoundFields
<1>4. \A i \in 1..n : ReturnedBlock(p.blocks, i) \in PacketBlock
  BY <1>1, ReturnedFacts DEF Kept
<1>5. DOMAIN blocks = 1..n /\ blocks = [i \in 1..n |-> blocks[i]] /\ \A i \in 1..n : blocks[i] = ReturnedBlock(p.blocks, i)
  BY DEF Returned
<1> HIDE DEF blocks, n
<1>6. blocks \in Seq(PacketBlock)
  BY <1>3, <1>4, <1>5, FunctionIsSeq
<1>. QED  BY <1>2, <1>6

LEMMA BlocksOfFacts ==
    ASSUME NEW a \in Seq(Wire)
    PROVE  /\ BlocksOf(a) \in Seq(Seq(PacketBlock)) /\ Len(BlocksOf(a)) = Len(a)
           /\ \A g \in 1..Len(a) : /\ a[g] \in Wire
                                   /\ BlocksOf(a)[g] = Decode(a[g], PosEnable).blocks
<1> DEFINE n == Len(a)
           s == BlocksOf(a)
           Q == Seq(PacketBlock)
           W == Wire
<1>1. n \in Nat /\ DOMAIN a = 1..n /\ \A g \in 1..n : a[g] \in W
  <2>1. a \in Seq(W)
    OBVIOUS
  <2> HIDE DEF W
  <2>. QED  BY <2>1
<1>2. DOMAIN s = 1..n /\ s = [g \in 1..n |-> s[g]] /\ \A g \in 1..n : s[g] = Decode(a[g], PosEnable).blocks
  BY <1>1 DEF BlocksOf
<1>3. \A g \in 1..n : s[g] \in Q
  BY <1>1, <1>2, WireBack
<1> HIDE DEF n, s, Q
<1>4. s \in Seq(Q) /\ Len(s) = n
  BY <1>1, <1>2, <1>3, FunctionIsSeq
<1>. QED  BY <1>1, <1>2, <1>4 DEF n, s, Q

LEMMA ReplayedIs == Replayed = FlattenSeq(BlocksOf(archive))
BY DEF Replayed, BlocksOf

LEMMA ReplayedNext == Replayed' = FlattenSeq(BlocksOf(archive'))
BY DEF Replayed, BlocksOf

LEMMA BlocksOfAppend ==
    ASSUME NEW a \in Seq(Wire), NEW w \in Wire
    PROVE  BlocksOf(Append(a, w)) = Append(BlocksOf(a), Decode(w, PosEnable).blocks)
<1> DEFINE W == Wire
           Q == Seq(PacketBlock)
           n == Len(a)
           b == Append(a, w)
           x == Decode(w, PosEnable).blocks
           s == BlocksOf(a)
<1>1. /\ b \in Seq(W) /\ n \in Nat /\ Len(b) = n + 1 /\ b[n + 1] = w
      /\ \A i \in 1..n : b[i] = a[i]
  <2>1. a \in Seq(W) /\ w \in W
    OBVIOUS
  <2> HIDE DEF W
  <2>. QED  BY <2>1, AppendFacts
<1>2. s \in Seq(Q) /\ Len(s) = n /\ \A g \in 1..n : s[g] = Decode(a[g], PosEnable).blocks
  BY BlocksOfFacts
<1>3. x \in Q
  BY WireBack
<1>4. BlocksOf(b) \in Seq(Q) /\ Len(BlocksOf(b)) = n + 1 /\ \A g \in 1..(n + 1) : BlocksOf(b)[g] = Decode(b[g], PosEnable).blocks
  BY <1>1, BlocksOfFacts
<1>5. Decode(b[n + 1], PosEnable).blocks = x
  BY <1>1
<1> HIDE DEF b, x, s, Q, n
<1> DEFINE t == BlocksOf(b)
           u == Append(s, x)
<1>6. /\ u \in Seq(Q) /\ Len(u) = n + 1 /\ u[n + 1] = x /\ \A i \in 1..n : u[i] = s[i]
  BY <1>1, <1>2, <1>3, AppendFacts
<1>7. \A g \in 1..(n + 1) : t[g] = u[g]
  <2> SUFFICES ASSUME NEW g \in 1..(n + 1)
               PROVE  t[g] = u[g]
    OBVIOUS
  <2>1. t[g] = Decode(b[g], PosEnable).blocks
    BY <1>4
  <2>2. CASE g = n + 1
    BY <1>5, <1>6, <2>1, <2>2
  <2>3. CASE g # n + 1
    <3>1. g \in 1..n
      BY <1>1, <2>3
    <3>. QED  BY <1>1, <1>2, <1>6, <2>1, <3>1
  <2>. QED  BY <2>2, <2>3
<1> HIDE DEF t, u
<1>8. t = u
  BY <1>1, <1>4, <1>6, <1>7 DEF t
<1>. QED  BY <1>8 DEF b, x, s, t, u

LEMMA InitArchive ==
    ASSUME PacketInit
    PROVE  ArchiveInv
<1>0. FirstEpoch \in Nat \ {0} /\ LastEpoch \in Nat
  BY ConfigAssumption
<1>1. /\ db \in Databases /\ next = FirstEpoch /\ archive = <<>> /\ failed = FALSE
      /\ injected = [e \in Epoch |-> <<>>]
  BY DEF PacketInit
<1>a. injected \in Injections /\ \A e \in Epoch : injected[e] = <<>>
  BY <1>1 DEF Injections
<1>2. archive \in Seq(Wire) /\ Len(archive) = 0 /\ 1..0 = {}
  BY <1>1
<1>3. BlocksOf(archive) = <<>>
  <2>1. Len(BlocksOf(archive)) = 0 /\ BlocksOf(archive) \in Seq(Seq(PacketBlock))
    BY <1>2, BlocksOfFacts
  <2>. QED  BY <2>1
<1>4. Replayed = <<>>
  BY <1>3, ReplayedIs, FlattenEmpty
<1>5. End[FirstEpoch - 1] = 0
  BY <1>1, EndFacts
<1>6. Len(Replayed) = 0
  BY <1>4
<1>. QED  BY <1>0, <1>1, <1>2, <1>5, <1>6, <1>a DEF ArchiveInv

LEMMA ExtractKeeps ==
    ASSUME ArchiveInv, NEW count \in GroupEpochs, Extract(count)
    PROVE  ArchiveInv'
<1> DEFINE raw == Raw(next, count)
           w == Encode(raw)
           blocks == Decode(w, PosEnable).blocks
           old == Replayed
           from == End[next - 1]
           last == next + count - 1
           T == TrueBlocks[injected]
           W == Wire
<1>0. FirstEpoch \in Nat \ {0} /\ LastEpoch \in Nat /\ count \in Nat \ {0}
  BY ConfigAssumption
<1>1. /\ db \in Databases /\ next \in Nat /\ next >= FirstEpoch
      /\ failed = FALSE
      /\ injected \in Injections /\ \A e \in Epoch : e >= next => injected[e] = <<>>
      /\ archive \in Seq(W)
      /\ \A g \in 1..Len(archive) : Decode(archive[g], PosEnable).blocks \in Seq(T)
      /\ Len(old) = from /\ \A i \in 1..Len(old) : old[i] \in GoodAt[i]
  BY DEF ArchiveInv
<1>2. /\ last <= LastEpoch /\ next' = next + count /\ db' = db /\ injected' = injected
      /\ IF ValidInput(raw) THEN archive' = Append(archive, w) /\ failed' = failed
                            ELSE failed' = TRUE /\ archive' = archive
  BY DEF Extract
<1>3. next \in Epoch /\ last \in Epoch /\ next' - 1 = last /\ next' \in Nat /\ next' >= FirstEpoch
  BY <1>0, <1>1, <1>2 DEF Epoch
<1>4. /\ ValidInput(raw) /\ w \in W
      /\ blocks \in Seq(T) /\ blocks \in Seq(PacketBlock)
      /\ Len(blocks) = End[last] - from
      /\ \A j \in 1..Len(blocks) : blocks[j] \in GoodAt[from + j]
  BY <1>0, <1>1, <1>2, <1>3, RawGood
<1>5. archive' = Append(archive, w) /\ failed' = FALSE
  BY <1>1, <1>2, <1>4
<1>6. End' = End /\ GoodAt' = GoodAt /\ TrueBlocks' = TrueBlocks /\ Wire' = Wire
  BY <1>2, Settled
<1>7. End[last] \in Nat /\ from \in Nat
  <2>1. from \in Nat
    BY <1>1, <1>3, EndFacts
  <2>2. End[last] \in Nat
    BY <1>1, <1>3, EndFacts
  <2>. QED  BY <2>1, <2>2
<1> HIDE DEF raw, w, blocks, old, from, last, T, W
<1>8. /\ archive' \in Seq(W) /\ Len(archive') = Len(archive) + 1 /\ archive'[Len(archive) + 1] = w
      /\ \A g \in 1..Len(archive) : archive'[g] = archive[g]
      /\ Len(archive) \in Nat
  BY <1>1, <1>4, <1>5, AppendFacts
<1>9. \A g \in 1..Len(archive') : Decode(archive'[g], PosEnable).blocks \in Seq(T)
  <2> SUFFICES ASSUME NEW g \in 1..Len(archive')
               PROVE  Decode(archive'[g], PosEnable).blocks \in Seq(T)
    OBVIOUS
  <2>1. CASE g = Len(archive) + 1
    BY <1>4, <1>8, <2>1 DEF blocks
  <2>2. CASE g # Len(archive) + 1
    <3>1. g \in 1..Len(archive)
      BY <1>8, <2>2
    <3>2. archive'[g] = archive[g]
      BY <1>8, <3>1
    <3>. QED  BY <1>1, <3>1, <3>2
  <2>. QED  BY <2>1, <2>2
<1>10. Replayed' = old \o blocks /\ old \in Seq(PacketBlock)
  <2> DEFINE s == BlocksOf(archive)
  <2>1. s \in Seq(Seq(PacketBlock))
    BY <1>1, BlocksOfFacts DEF W
  <2>2. BlocksOf(archive') = Append(s, blocks)
    BY <1>1, <1>4, <1>5, BlocksOfAppend DEF W, blocks
  <2>3. Replayed' = FlattenSeq(Append(s, blocks)) /\ old = FlattenSeq(s)
    BY <2>2, ReplayedIs, ReplayedNext DEF old
  <2> HIDE DEF s
  <2>. QED  BY <1>4, <2>1, <2>3, FlattenAppend, FlattenType
<1> DEFINE new == Replayed'
<1>11. /\ Len(new) = Len(old) + Len(blocks) /\ Len(old) \in Nat /\ Len(blocks) \in Nat
       /\ \A k \in 1..(Len(old) + Len(blocks)) :
             new[k] = IF k <= Len(old) THEN old[k] ELSE blocks[k - Len(old)]
  BY <1>4, <1>10, ConcatFacts
<1> HIDE DEF new
<1>12. Len(new) = End[last]
  BY <1>1, <1>4, <1>7, <1>11
<1>13. \A i \in 1..Len(new) : new[i] \in GoodAt[i]
  <2> SUFFICES ASSUME NEW i \in 1..Len(new)
               PROVE  new[i] \in GoodAt[i]
    OBVIOUS
  <2>1. CASE i <= Len(old)
    <3>1. i \in 1..Len(old) /\ i \in 1..(Len(old) + Len(blocks))
      BY <1>11, <2>1
    <3>. QED  BY <1>1, <1>11, <2>1, <3>1
  <2>2. CASE ~(i <= Len(old))
    <3>1. i - Len(old) \in 1..Len(blocks) /\ i \in 1..(Len(old) + Len(blocks)) /\ from + (i - Len(old)) = i
      BY <1>1, <1>7, <1>11, <2>2
    <3>2. new[i] = blocks[i - Len(old)]
      BY <1>11, <2>2, <3>1
    <3>3. blocks[i - Len(old)] \in GoodAt[from + (i - Len(old))]
      BY <1>4, <3>1
    <3>. QED  BY <3>1, <3>2, <3>3
  <2>. QED  BY <2>1, <2>2
<1>14. \A e \in Epoch : e >= next' => injected'[e] = <<>>
  BY <1>0, <1>1, <1>2 DEF Epoch
<1>15. /\ db' \in Databases /\ injected' \in Injections
       /\ T = TrueBlocks'[injected'] /\ W = Wire'
       /\ Len(new) = End'[next' - 1] /\ \A i \in 1..Len(new) : new[i] \in GoodAt'[i]
  BY <1>1, <1>2, <1>3, <1>6, <1>12, <1>13 DEF T, W
<1>. QED  BY <1>3, <1>5, <1>8, <1>9, <1>14, <1>15 DEF ArchiveInv, new

LEMMA TrueBefore ==
    ASSUME NEW p, Sound(p), NEW i \in 1..Len(p.blocks), NEW paid, ReturnedBlock(p.blocks, i) \in TrueBlock(paid)
    PROVE  p.blocks[i] \in TrueBlock(paid)
<1> DEFINE a == p.blocks[i]
           b == ReturnedBlock(p.blocks, i)
<1>1. /\ b.epoch = a.epoch /\ b.hash = a.hash /\ b.height = a.height /\ b.view = a.view
      /\ b.txs = a.txs /\ b.rewards = a.rewards /\ (IsPivot(b) <=> IsPivot(a))
  <2>1. Kept(p.blocks, i, b) /\ b.rewards = a.rewards
    BY ReturnedFacts
  <2> HIDE DEF b
  <2>. QED  BY <2>1 DEF Kept
<1>2. b \in TrueBlock(paid) /\ a \in PacketBlock
  BY SoundFields
<1> HIDE DEF a, b
<1>3. a \in TrueBlock(paid)
  BY <1>1, <1>2 DEF TrueBlock
<1>. QED  BY <1>3 DEF a

\* The tool changes rewards only.
LEMMA InjectKeeps ==
    ASSUME ArchiveInv, NEW e \in Epoch, NEW k \in JsonRewards, Inject(e, k)
    PROVE  ArchiveInv'
<1> DEFINE old == Replayed
           new == Replayed'
           s == BlocksOf(archive)
           t == BlocksOf(archive')
           n == Len(archive)
           core == [b \in PacketBlock |-> Core(b)]
           paid == injected'
           T == TrueBlocks[injected]
           U == TrueBlocks[paid]
           W == Wire
<1>0. FirstEpoch \in Nat \ {0} /\ LastEpoch \in Nat
  BY ConfigAssumption
<1>k. k \in Nat
  BY ConfigAssumption
<1>1. /\ db' = db /\ next' = next /\ failed' = failed /\ e < next
      /\ injected' = [injected EXCEPT ![e] = Append(@, k)]
      /\ archive' = [g \in DOMAIN archive |-> WithReward(archive[g], e, k)]
  BY DEF Inject
<1>2. /\ db \in Databases /\ next \in Nat /\ next >= FirstEpoch
      /\ (next = FirstEpoch \/ next - 1 \in Epoch)
      /\ failed = FALSE
      /\ injected \in Injections /\ \A d \in Epoch : d >= next => injected[d] = <<>>
      /\ archive \in Seq(W)
      /\ \A g \in 1..n : Decode(archive[g], PosEnable).blocks \in Seq(T)
      /\ Len(old) = End[next - 1] /\ \A i \in 1..Len(old) : old[i] \in GoodAt[i]
  BY DEF ArchiveInv
<1>a. paid \in Injections /\ \A d \in Epoch : d >= next => paid[d] = <<>>
  <2>1. injected \in [Epoch -> Seq(Nat)]
    BY <1>2 DEF Injections
  <2>2. injected[e] \in Seq(Nat)
    BY <2>1
  <2>3. Append(injected[e], k) \in Seq(Nat)
    BY <1>k, <2>2
  <2>4. paid \in [Epoch -> Seq(Nat)]
    BY <1>1, <2>1, <2>3
  <2>5. \A d \in Epoch : d >= next => d # e
    BY <1>0, <1>1, <1>2 DEF Epoch
  <2>. QED  BY <1>1, <1>2, <2>1, <2>4, <2>5 DEF Injections
<1>3. End' = End /\ GoodAt' = GoodAt /\ TrueBlocks' = TrueBlocks /\ Wire' = Wire
  BY <1>1, Settled
<1>4. /\ n \in Nat /\ DOMAIN archive' = 1..n /\ archive' = [g \in 1..n |-> archive'[g]]
      /\ \A g \in 1..n : archive[g] \in W /\ archive'[g] = WithReward(archive[g], e, k)
  <2> HIDE DEF W
  <2>1. n \in Nat /\ DOMAIN archive = 1..n /\ \A g \in 1..n : archive[g] \in W
    BY <1>2
  <2>. QED  BY <1>1, <2>1
<1>5. ASSUME NEW g \in 1..n
      PROVE  /\ archive'[g] \in W
             /\ Decode(archive'[g], PosEnable).blocks \in Seq(U)
             /\ Len(Decode(archive'[g], PosEnable).blocks) = Len(Decode(archive[g], PosEnable).blocks)
             /\ \A i \in 1..Len(Decode(archive[g], PosEnable).blocks) :
                   core[Decode(archive'[g], PosEnable).blocks[i]] = core[Decode(archive[g], PosEnable).blocks[i]]
  <2>1. PICK p \in Packet : Sound(p) /\ archive[g] = Encode(p)
    BY <1>4 DEF Wire
  <2> DEFINE q == Rewarded(p, e, k)
             m == Len(p.blocks)
             x == Decode(archive[g], PosEnable).blocks
             y == Decode(archive'[g], PosEnable).blocks
  <2>2. archive'[g] = Encode(q) /\ Sound(q)
    BY <1>4, <1>k, <2>1, RewardedIs, RewardedSound
  <2>3. archive'[g] \in W
    BY <2>2 DEF Wire, Sound
  <2>4. m \in Nat
    BY <2>1, SoundFields
  <2>5. x = [i \in 1..m |-> ReturnedBlock(p.blocks, i)]
    BY <2>1, PacketBack DEF Returned
  <2>6. Len(q.blocks) = m /\ \A i \in 1..m : q.blocks[i] = RewardedBlock(p.blocks, i, e, k)
    BY <2>4 DEF Rewarded
  <2>7. y = [i \in 1..m |-> ReturnedBlock(q.blocks, i)]
    BY <2>2, <2>6, PacketBack DEF Returned
  <2> HIDE DEF x, y, q
  <2>8. \A i \in 1..m : x[i] \in TrueBlock(injected)
    <3>1. T = TrueBlock(injected)
      BY <1>2 DEF TrueBlocks
    <3>2. x \in Seq(T) /\ Len(x) = m
      BY <1>2, <2>4, <2>5 DEF x
    <3> HIDE DEF T
    <3>. QED  BY <3>1, <3>2
  <2>9. ASSUME NEW i \in 1..m
        PROVE  /\ y[i] \in TrueBlock(paid) /\ x[i] \in PacketBlock /\ y[i] \in PacketBlock
               /\ Core(y[i]) = Core(x[i])
    <3> DEFINE a == p.blocks[i]
               b == q.blocks[i]
    <3>1. x[i] = ReturnedBlock(p.blocks, i) /\ y[i] = ReturnedBlock(q.blocks, i)
          /\ b = RewardedBlock(p.blocks, i, e, k)
      BY <2>5, <2>6, <2>7
    <3>2. a \in TrueBlock(injected)
      BY <2>1, <2>8, <3>1, TrueBefore
    <3>3. b \in TrueBlock(paid)
      <4>1. injected \in [Epoch -> Seq(Nat)]
        BY <1>2 DEF Injections
      <4> DEFINE then == [injected EXCEPT ![e] = Append(@, k)]
      <4>2. db \in Databases /\ p.blocks[i] \in TrueBlock(injected) /\ paid = then
        BY <1>1, <1>2, <3>2
      <4>3. RewardedBlock(p.blocks, i, e, k) \in TrueBlock(then)
        BY <1>k, <2>1, <4>1, <4>2, RewardedTrue
      <4> HIDE DEF then
      <4>. QED  BY <3>1, <4>2, <4>3
    <3>4. i \in 1..Len(q.blocks)
      BY <2>6
    <3>5. y[i] \in TrueBlock(paid)
      BY <2>2, <3>1, <3>3, <3>4, ReturnedTrue
    <3>6. Kept(p.blocks, i, x[i])
      BY <2>1, <3>1, ReturnedFacts
    <3>7. Kept(q.blocks, i, y[i])
      BY <2>2, <3>1, <3>4, ReturnedFacts
    <3>8. Kept(p.blocks, i, b)
      BY <1>k, <2>1, <3>1, RewardedFacts
    <3> HIDE DEF a, b
    <3>9. Core(x[i]) = Core(a) /\ Core(b) = Core(a)
      BY <3>6, <3>8 DEF Kept, Core, a
    <3>10. Core(y[i]) = Core(b)
      BY <3>7 DEF Kept, Core, b
    <3>. QED  BY <3>5, <3>6, <3>7, <3>9, <3>10 DEF Kept
  <2>10. Len(x) = m /\ Len(y) = m
    BY <2>4, <2>5, <2>7
  <2>11. y \in Seq(U)
    <3>1. U = TrueBlock(paid)
      BY <1>a DEF TrueBlocks
    <3>2. DOMAIN y = 1..m /\ y = [i \in 1..m |-> y[i]]
      BY <2>7
    <3> HIDE DEF U, m
    <3>. QED  BY <2>4, <2>9, <3>1, <3>2, FunctionIsSeq
  <2>12. \A i \in 1..Len(x) : core[y[i]] = core[x[i]]
    BY <2>9, <2>10
  <2>. QED  BY <2>3, <2>10, <2>11, <2>12 DEF x, y
<1>6. archive' \in Seq(W) /\ Len(archive') = n
  <2> DEFINE a == archive'
  <2>1. DOMAIN a = 1..n /\ a = [g \in 1..n |-> a[g]] /\ \A g \in 1..n : a[g] \in W
    BY <1>4, <1>5
  <2> HIDE DEF a, n, W
  <2>2. a \in Seq(W) /\ Len(a) = n
    BY <1>4, <2>1, FunctionIsSeq
  <2>. QED  BY <2>2 DEF a
<1>7. /\ s \in Seq(Seq(PacketBlock)) /\ t \in Seq(Seq(PacketBlock)) /\ Len(s) = n /\ Len(t) = n
      /\ \A g \in 1..n : s[g] = Decode(archive[g], PosEnable).blocks
      /\ \A g \in 1..n : t[g] = Decode(archive'[g], PosEnable).blocks
  <2>1. /\ s \in Seq(Seq(PacketBlock)) /\ Len(s) = n
        /\ \A g \in 1..n : s[g] = Decode(archive[g], PosEnable).blocks
    BY <1>2, BlocksOfFacts DEF W
  <2>2. /\ t \in Seq(Seq(PacketBlock)) /\ Len(t) = n
        /\ \A g \in 1..n : t[g] = Decode(archive'[g], PosEnable).blocks
    BY <1>6, BlocksOfFacts DEF W
  <2>. QED  BY <2>1, <2>2
<1>8. old = FlattenSeq(s) /\ new = FlattenSeq(t) /\ old \in Seq(PacketBlock) /\ new \in Seq(PacketBlock)
  BY <1>7, ReplayedIs, ReplayedNext, FlattenType
<1> HIDE DEF s, t, old, new, n, T, U, W
<1>9. \A g \in 1..n : /\ Len(s[g]) = Len(t[g])
                      /\ \A i \in 1..Len(s[g]) : core[s[g][i]] = core[t[g][i]]
  BY <1>5, <1>7
<1> HIDE DEF core
<1>10. \A g \in 1..Len(s) : Alike(core, s[g], t[g])
  BY <1>7, <1>9 DEF Alike
<1>11. Len(old) = Len(new) /\ \A i \in 1..Len(old) : core[old[i]] = core[new[i]]
  <2>1. Alike(core, old, new)
    BY <1>7, <1>8, <1>10, FlattenAlike
  <2>. QED  BY <2>1 DEF Alike
<1>12. \A i \in 1..Len(old) : old[i] \in PacketBlock /\ new[i] \in PacketBlock
  BY <1>8, <1>11
<1>13. \A i \in 1..Len(new) : new[i] \in GoodAt[i]
  <2> SUFFICES ASSUME NEW i \in 1..Len(new)
               PROVE  new[i] \in GoodAt[i]
    OBVIOUS
  <2>1. i \in 1..Len(old) /\ i \in Nat
    BY <1>11
  <2>2. Core(old[i]) = Core(new[i])
    BY <1>11, <1>12, <2>1 DEF core
  <2>3. old[i] \in GoodAt[i]
    BY <1>2, <2>1
  <2>4. Placed(old[i], i) /\ Due(old[i])
    BY <2>1, <2>3 DEF GoodAt
  <2>. QED  BY <1>2, <1>12, <2>1, <2>2, <2>4, CoreDecides
<1>14. /\ db' \in Databases /\ injected' \in Injections
       /\ \A d \in Epoch : d >= next' => injected'[d] = <<>>
       /\ U = TrueBlocks'[injected'] /\ W = Wire'
       /\ Len(new) = End'[next' - 1] /\ \A i \in 1..Len(new) : new[i] \in GoodAt'[i]
  BY <1>1, <1>2, <1>3, <1>11, <1>13, <1>a DEF U, W
<1>15. \A g \in 1..Len(archive') : Decode(archive'[g], PosEnable).blocks \in Seq(U)
  BY <1>5, <1>6
<1>. QED  BY <1>1, <1>2, <1>6, <1>14, <1>15 DEF ArchiveInv, new

LEMMA ArchiveInvAlways == PacketSpec => []ArchiveInv
<1>1. PacketInit => ArchiveInv
  BY InitArchive
<1>2. ArchiveInv /\ [PacketNext]_evars => ArchiveInv'
  <2> SUFFICES ASSUME ArchiveInv, [PacketNext]_evars
               PROVE  ArchiveInv'
    OBVIOUS
  <2>1. ASSUME NEW count \in GroupEpochs, Extract(count)
        PROVE  ArchiveInv'
    BY <2>1, ExtractKeeps
  <2>2. ASSUME NEW e \in Epoch, NEW k \in JsonRewards, Inject(e, k)
        PROVE  ArchiveInv'
    BY <2>2, InjectKeeps
  <2>3. CASE UNCHANGED evars
    <3>1. db' = db /\ next' = next /\ archive' = archive /\ injected' = injected /\ failed' = failed
      BY <2>3 DEF evars
    <3>2. End' = End /\ GoodAt' = GoodAt /\ TrueBlocks' = TrueBlocks /\ Wire' = Wire
      BY <3>1, Settled
    <3>3. Replayed' = Replayed
      BY <3>1, ReplayedIs, ReplayedNext
    <3>. QED  BY <3>1, <3>2, <3>3 DEF ArchiveInv
  <2>. QED  BY <2>1, <2>2, <2>3 DEF PacketNext
<1>. QED  BY <1>1, <1>2, PTL DEF PacketSpec

\* Every block the replayer is given is as the databases have it.
LEMMA ReplayedTrue ==
    ASSUME ArchiveInv
    PROVE  Replayed \in Seq(TrueBlock(injected))
<1> DEFINE s == BlocksOf(archive)
           n == Len(archive)
           T == TrueBlocks[injected]
           Q == Seq(T)
<1>1. /\ archive \in Seq(Wire) /\ injected \in Injections
      /\ \A g \in 1..n : Decode(archive[g], PosEnable).blocks \in Q
  BY DEF ArchiveInv
<1>2. Len(s) = n /\ \A g \in 1..n : s[g] = Decode(archive[g], PosEnable).blocks
  BY <1>1, BlocksOfFacts
<1>3. DOMAIN s = 1..n /\ s = [g \in 1..n |-> s[g]] /\ n \in Nat
  <2>1. DOMAIN archive = 1..n /\ n \in Nat
    <3> DEFINE W == Wire
    <3>1. archive \in Seq(W)
      BY <1>1
    <3> HIDE DEF W
    <3>. QED  BY <3>1
  <2>. QED  BY <2>1 DEF BlocksOf
<1> HIDE DEF s, n, Q
<1>4. s \in Seq(Q)
  BY <1>1, <1>2, <1>3, FunctionIsSeq
<1>5. FlattenSeq(s) \in Seq(T)
  <2> HIDE DEF T
  <2>. QED  BY <1>4, FlattenType DEF Q
<1>6. T = TrueBlock(injected)
  BY <1>1 DEF TrueBlocks
<1>. QED  BY <1>5, <1>6, ReplayedIs DEF s

-----------------------------------------------------------------------------
(* What the archive gives back. *)

\* A block comes back with the PoS view of its header exactly if its own
\* height calls for one (encode_block_record, decode_block_record), whatever
\* the group it was packed with, and again after the reward tool ran.
THEOREM ViewsRecoveredAlways == PacketSpec => []ViewsRecovered
<1>1. ArchiveInv => ViewsRecovered
  <2> SUFFICES ASSUME ArchiveInv, NEW g \in DOMAIN archive
               PROVE  /\ Decodable(archive[g], PosEnable)
                      /\ \A b \in ToSet(Decode(archive[g], PosEnable).blocks) : b.view = EffectivePos(b.hash)
    BY DEF ViewsRecovered
  <2> DEFINE s == Decode(archive[g], PosEnable).blocks
             T == TrueBlocks[injected]
             W == Wire
  <2>1. g \in 1..Len(archive) /\ archive[g] \in W
    <3>1. archive \in Seq(W)
      BY DEF ArchiveInv
    <3> HIDE DEF W
    <3>. QED  BY <3>1
  <2>2. s \in Seq(T) /\ T = TrueBlock(injected)
    BY <2>1 DEF ArchiveInv, TrueBlocks
  <2>3. Decodable(archive[g], PosEnable)
    BY <2>1, WireBack
  <2> HIDE DEF s, T
  <2>4. \A b \in ToSet(s) : b \in T
    BY <2>2 DEF ToSet
  <2>5. \A b \in ToSet(s) : b.view = EffectivePos(b.hash)
    BY <2>2, <2>4 DEF TrueBlock
  <2>. QED  BY <2>3, <2>5 DEF s
<1>. QED  BY <1>1, ArchiveInvAlways, PTL

\* Every block comes back with its transactions, in order, each with the
\* epoch_height it was signed for (append_tx, decode_tx_payload).
THEOREM TransactionsRecoveredAlways == PacketSpec => []TransactionsRecovered
<1>1. ArchiveInv => TransactionsRecovered
  <2> SUFFICES ASSUME ArchiveInv, NEW b \in ToSet(Replayed)
               PROVE  b.txs = [i \in DOMAIN db.body[b.hash] |-> Transaction(db.body[b.hash][i])]
    BY DEF TransactionsRecovered
  <2> DEFINE T == TrueBlock(injected)
  <2>1. Replayed \in Seq(T)
    BY ReplayedTrue
  <2> HIDE DEF T
  <2>2. b \in T
    BY <2>1 DEF ToSet
  <2>. QED  BY <2>2 DEF T, TrueBlock, TxsOf
<1>. QED  BY <1>1, ArchiveInvAlways, PTL

\* A pivot comes back with the reward read_pos_rewards found for it (of several
\* PoS epochs with its hash the last), then what patch_pos_reward injected at
\* its epoch, in order and as often as it was run; no other block has any.
\* Encoding the other packets of the container again changes none of theirs.
THEOREM RewardsRecoveredAlways == PacketSpec => []RewardsRecovered
<1>1. ArchiveInv => RewardsRecovered
  <2> SUFFICES ASSUME ArchiveInv, NEW b \in ToSet(Replayed)
               PROVE  b.rewards = IF IsPivot(b)
                                  THEN Distributed(b.hash)
                                       \o [j \in DOMAIN injected[b.epoch] |-> RewardEntry(injected[b.epoch][j], b.hash)]
                                  ELSE <<>>
    BY Zenon DEF RewardsRecovered
  <2> DEFINE T == TrueBlock(injected)
  <2>1. Replayed \in Seq(T)
    BY ReplayedTrue
  <2> HIDE DEF T
  <2>2. b \in T
    BY <2>1 DEF ToSet
  <2>. QED  BY <2>2 DEF T, TrueBlock, Added
<1>. QED  BY <1>1, ArchiveInvAlways, PTL

LEMMA FrontAndLast ==
    ASSUME NEW n \in Nat, n >= 1, NEW z \in Nat, z >= n
    PROVE  LET R == (1..(n - 1)) \cup {z}
           IN  Cardinality(R) = n /\ Nth(R, n) = z /\ \A k \in 1..(n - 1) : Nth(R, k) = k
<1> DEFINE R == (1..(n - 1)) \cup {z}
<1>1. \A k \in 0..n : IsFiniteSet(1..k) /\ Cardinality(1..k) = k
  <2> SUFFICES ASSUME NEW k \in 0..n
               PROVE  IsFiniteSet(1..k) /\ Cardinality(1..k) = k
    OBVIOUS
  <2>1. k \in Nat /\ k \in Int /\ 1 \in Int /\ (1 > k => k = 0) /\ k - 1 + 1 = k
    OBVIOUS
  <2>. QED  BY <2>1, FS_Interval
<1>2. n - 1 \in 0..n /\ z \notin 1..(n - 1) /\ (n - 1) + 1 = n
  OBVIOUS
<1>3. IsFiniteSet(R) /\ Cardinality(R) = n
  <2> DEFINE I == 1..(n - 1)
  <2>1. IsFiniteSet(I) /\ Cardinality(I) = n - 1 /\ z \notin I
    BY <1>1, <1>2
  <2> HIDE DEF I
  <2>2. IsFiniteSet(I \cup {z}) /\ Cardinality(I \cup {z}) = (n - 1) + 1
    BY <2>1, FS_AddElement
  <2>. QED  BY <1>2, <2>2 DEF I
<1>4. R \in SUBSET Int /\ z \in R
  OBVIOUS
<1>5. Rank(R, z) = n
  <2>1. {j \in R : j <= z} = R
    OBVIOUS
  <2>. QED  BY <1>3, <2>1, Zenon DEF Rank
<1>6. \A k \in 1..(n - 1) : k \in R /\ Rank(R, k) = k
  <2> SUFFICES ASSUME NEW k \in 1..(n - 1)
               PROVE  k \in R /\ Rank(R, k) = k
    OBVIOUS
  <2>1. {j \in R : j <= k} = 1..k /\ k \in 0..n
    OBVIOUS
  <2>2. Cardinality({j \in R : j <= k}) = k
    BY <1>1, <2>1
  <2>. QED  BY <2>2, Zenon DEF Rank
<1> HIDE DEF R
<1>7. Nth(R, n) = z
  BY <1>3, <1>4, <1>5, NthOfRank
<1>8. \A k \in 1..(n - 1) : Nth(R, k) = k
  BY <1>3, <1>4, <1>6, NthOfRank
<1>. QED  BY <1>3, <1>7, <1>8 DEF R

\* The blocks of an epoch are a stretch of what the replayer is given.
LEMMA EpochStretch ==
    ASSUME ArchiveInv, NEW e \in Extracted
    PROVE  LET n == Len(Ordered(e))
               from == End[e - 1]
           IN  /\ e \in Epoch /\ from \in Nat /\ n \in Nat /\ n >= 1 /\ End[e] = from + n
               /\ {i \in DOMAIN Replayed : Replayed[i].epoch = e} = (from + 1)..(from + n)
               /\ \A k \in 1..n : /\ Replayed[from + k] \in PacketBlock
                                  /\ Placed(Replayed[from + k], from + k) /\ Due(Replayed[from + k])
                                  /\ Replayed[from + k].epoch = e
<1>0. FirstEpoch \in Nat \ {0} /\ LastEpoch \in Nat
  BY ConfigAssumption
<1> DEFINE n == Len(Ordered(e))
           from == End[e - 1]
           r == Replayed
<1>1. /\ db \in Databases /\ next \in Nat /\ next >= FirstEpoch
      /\ (next = FirstEpoch \/ next - 1 \in Epoch)
      /\ Len(r) = End[next - 1] /\ \A i \in 1..Len(r) : r[i] \in GoodAt[i]
  BY DEF ArchiveInv
<1>2. /\ e \in Epoch /\ next - 1 \in Epoch /\ e <= next - 1
      /\ e \in (FirstEpoch - 1)..LastEpoch /\ next - 1 \in (FirstEpoch - 1)..LastEpoch
  BY <1>0, <1>1 DEF Extracted, Epoch
<1>3. from \in Nat /\ n \in Nat /\ n >= 1 /\ End[e] = from + n /\ End[e] \in Nat
  BY <1>1, <1>2, EndFacts
<1>4. End[e] <= Len(r) /\ Len(r) \in Nat
  <2> DEFINE d == next - 1
  <2>1. d \in (FirstEpoch - 1)..LastEpoch /\ e <= d /\ Len(r) = End[d]
    BY <1>1, <1>2
  <2> HIDE DEF d
  <2>2. End[d] \in Nat /\ End[e] <= End[d]
    BY <1>1, <1>2, <2>1, EndGrows
  <2>. QED  BY <2>1, <2>2
<1>5. DOMAIN r = 1..Len(r)
  BY ReplayedTrue
<1> HIDE DEF n, from, r
<1>6. \A i \in 1..Len(r) : r[i] \in PacketBlock /\ Placed(r[i], i) /\ Due(r[i])
  <2> SUFFICES ASSUME NEW i \in 1..Len(r)
               PROVE  r[i] \in PacketBlock /\ Placed(r[i], i) /\ Due(r[i])
    OBVIOUS
  <2>1. i \in Nat /\ r[i] \in GoodAt[i]
    BY <1>1, <1>4
  <2>. QED  BY <2>1, GoodMeans
<1>7. ASSUME NEW i \in 1..Len(r)
      PROVE  r[i].epoch = e <=> i \in (from + 1)..(from + n)
  <2> DEFINE d == r[i].epoch
  <2>1. d \in Epoch /\ End[d - 1] < i /\ i <= End[d] /\ i \in Nat
    BY <1>6 DEF Placed
  <2> HIDE DEF d
  <2>2. d = e => i \in (from + 1)..(from + n)
    <3>1. d = e => End[e - 1] < i /\ i <= End[e]
      BY <2>1
    <3>. QED  BY <1>3, <2>1, <3>1 DEF from
  <2>3. ASSUME i \in (from + 1)..(from + n)
        PROVE  d = e
    <3>1. End[e - 1] < i /\ i <= End[e] /\ i <= i
      BY <1>3, <2>1, <2>3 DEF from
    <3>2. d <= e
      BY <1>1, <1>2, <2>1, <3>1, OneEpoch
    <3>3. e <= d
      BY <1>1, <1>2, <2>1, <3>1, OneEpoch
    <3>. QED  BY <1>0, <1>2, <2>1, <3>2, <3>3 DEF Epoch
  <2>. QED  BY <2>2, <2>3 DEF d
<1>8. \A i \in (from + 1)..(from + n) : i \in 1..Len(r)
  BY <1>3, <1>4
<1>9. {i \in DOMAIN r : r[i].epoch = e} = (from + 1)..(from + n)
  BY <1>5, <1>7, <1>8
<1>10. \A k \in 1..n : from + k \in (from + 1)..(from + n)
  BY <1>3
<1>. QED  BY <1>2, <1>3, <1>6, <1>7, <1>8, <1>9, <1>10 DEF n, from, r

LEMMA EpochComplete ==
    ASSUME ArchiveInv, NEW e \in Extracted
    PROVE  LET blocks == Picked(Replayed, {i \in DOMAIN Replayed : Replayed[i].epoch = e})
               skipped == {i \in DOMAIN blocks : "skipped" \in blocks[i].flags}
               hashes == [i \in DOMAIN blocks |-> blocks[i].hash]
           IN  /\ IsPivot(Last(blocks))
               /\ Picked(hashes, DOMAIN hashes \ skipped) = db.executed[e]
               /\ Picked(hashes, skipped) = db.skipped[e]
<1> DEFINE blocks == Picked(Replayed, {i \in DOMAIN Replayed : Replayed[i].epoch = e})
           skipped == {i \in DOMAIN blocks : "skipped" \in blocks[i].flags}
           hashes == [i \in DOMAIN blocks |-> blocks[i].hash]
           from == End[e - 1]
           s == Ordered(e)
           ex == db.executed[e]
           sk == db.skipped[e]
           n == Len(ex)
           m == Len(sk)
<1>0. FirstEpoch \in Nat \ {0} /\ LastEpoch \in Nat /\ db \in Databases
  BY ConfigAssumption DEF ArchiveInv
<1>1. /\ e \in Epoch /\ from \in Nat /\ Len(s) \in Nat /\ Len(s) >= 1 /\ End[e] = from + Len(s)
      /\ {i \in DOMAIN Replayed : Replayed[i].epoch = e} = (from + 1)..(from + Len(s))
      /\ \A k \in 1..Len(s) : /\ Replayed[from + k] \in PacketBlock
                              /\ Placed(Replayed[from + k], from + k)
                              /\ Replayed[from + k].epoch = e
  BY EpochStretch
<1>2. e \in (FirstEpoch - 1)..LastEpoch
  BY <1>0, <1>1 DEF Epoch
<1>3. /\ n \in Nat /\ m \in Nat /\ n >= 1 /\ Len(s) = n + m
      /\ \A k \in 1..(n - 1) : s[k] = ex[k]
      /\ \A k \in 1..m : s[(n - 1) + k] = sk[k]
      /\ s[n + m] = Pivot(e) /\ Pivot(e) = ex[n]
  BY <1>0, <1>2, OrderedFacts
<1>4. /\ ex \in Seq(DOMAIN db.body) /\ sk \in Seq(DOMAIN db.body)
      /\ \A i \in DOMAIN ex : ~Contains(sk, ex[i])
  BY <1>0, <1>2, EpochSchema
<1>5. blocks = [k \in 1..(n + m) |-> Replayed[from + k]]
  <2> DEFINE I == {i \in DOMAIN Replayed : Replayed[i].epoch = e}
             c == n + m
  <2>1. I = (from + 1)..(from + c) /\ from \in Nat /\ c \in Nat
    <3>1. Len(s) = c
      BY <1>3
    <3>2. I = (from + 1)..(from + Len(s)) /\ from \in Nat /\ Len(s) \in Nat
      BY <1>1
    <3> HIDE DEF I, c, from, s
    <3>. QED  BY <3>1, <3>2
  <2>2. blocks = Picked(Replayed, I)
    OBVIOUS
  <2> HIDE DEF I, c, from, blocks, skipped, hashes, s, ex, sk, n, m
  <2>3. Picked(Replayed, (from + 1)..(from + c)) = [k \in 1..c |-> Replayed[from + k]]
    <3> DEFINE S == (from + 1)..(from + c)
    <3>1. from <= from + c /\ (from + c) - from = c
      BY <2>1
    <3>2. Cardinality(S) = c /\ \A k \in 1..c : Nth(S, k) = from + k
      BY <2>1, <3>1, NthOfInterval, SMTT(30)
    <3>3. Picked(Replayed, S) = [k \in 1..Cardinality(S) |-> Replayed[Nth(S, k)]]
      BY DEF Picked
    <3> HIDE DEF S
    <3>. QED  BY <3>2, <3>3 DEF S
  <2>4. blocks = [k \in 1..c |-> Replayed[from + k]]
    BY <2>1, <2>2, <2>3
  <2>. QED  BY <2>4 DEF c
<1> HIDE DEF blocks, from, s, ex, sk, n, m
<1>6. /\ Len(blocks) = n + m /\ DOMAIN blocks = 1..(n + m)
      /\ \A k \in 1..(n + m) : blocks[k] = Replayed[from + k]
  BY <1>3, <1>5
<1>7. ASSUME NEW k \in 1..(n + m)
      PROVE  /\ blocks[k].hash = s[k] /\ blocks[k].flags \ {"has_tx"} = Flags(e, s[k])
             /\ k = n + m => IsPivot(blocks[k])
  <2> DEFINE b == Replayed[from + k]
             at == from + k
  <2>1. /\ at \in Nat /\ Placed(b, at) /\ b.epoch = e /\ b.flags \in SUBSET Flag /\ at - from = k
        /\ blocks[k] = b
    <3>1. k \in 1..Len(s) /\ from + k \in Nat /\ (from + k) - from = k
      BY <1>1, <1>3
    <3>2. Replayed[from + k] \in PacketBlock /\ Placed(Replayed[from + k], from + k) /\ Replayed[from + k].epoch = e
      BY <1>1, <3>1
    <3>3. Replayed[from + k].flags \in SUBSET Flag
      BY <3>2, BlockFields
    <3>. QED  BY <1>6, <3>1, <3>2, <3>3
  <2>2. k = n + m => at = End[e]
    BY <1>1, <1>3
  <2> HIDE DEF b, at
  <2>3. at = End[b.epoch] => IsPivot(b)
    BY <1>0, <2>1, PivotLast
  <2>4. b.hash = s[k] /\ b.flags \ {"has_tx"} = Flags(e, b.hash)
    BY <2>1 DEF Placed, from, s
  <2>. QED  BY <2>1, <2>2, <2>3, <2>4
<1>8. IsPivot(Last(blocks))
  <2>1. n + m \in 1..(n + m)
    BY <1>3
  <2>. QED  BY <1>6, <1>7, <2>1 DEF Last
<1>9. DOMAIN ex = 1..n /\ DOMAIN sk = 1..m /\ Len(sk) = m
  BY <1>4 DEF n, m
<1>10. ASSUME NEW k \in 1..(n + m)
       PROVE  "skipped" \in blocks[k].flags <=> Contains(sk, s[k])
  <2>1. "skipped" \in blocks[k].flags <=> "skipped" \in Flags(e, s[k])
    BY <1>7
  <2>. QED  BY <2>1 DEF Flags, sk
<1>11. \A k \in 1..(n - 1) : ~Contains(sk, s[k])
  <2>1. \A k \in 1..(n - 1) : k \in 1..n
    BY <1>3
  <2>. QED  BY <1>3, <1>4, <1>9, <2>1
<1>12. \A k \in 1..m : Contains(sk, s[(n - 1) + k])
  BY <1>3, <1>9 DEF Contains
<1>13. ~Contains(sk, s[n + m])
  <2>1. n \in 1..n
    BY <1>3
  <2>. QED  BY <1>3, <1>4, <1>9, <2>1
<1>14. skipped = ((n - 1) + 1)..((n - 1) + m)
  <2>1. skipped = {k \in 1..(n + m) : Contains(sk, s[k])}
    BY <1>6, <1>10
  <2> HIDE DEF skipped
  <2>2. ASSUME NEW k \in 1..(n + m)
        PROVE  Contains(sk, s[k]) <=> k \in ((n - 1) + 1)..((n - 1) + m)
    <3>1. CASE k <= n - 1
      <4>1. k \in 1..(n - 1) /\ k \notin ((n - 1) + 1)..((n - 1) + m)
        BY <1>3, <3>1
      <4>. QED  BY <1>11, <4>1
    <3>2. CASE k > n - 1 /\ k < n + m
      <4>1. k - (n - 1) \in 1..m /\ (n - 1) + (k - (n - 1)) = k /\ k \in ((n - 1) + 1)..((n - 1) + m)
        BY <1>3, <3>2
      <4>. QED  BY <1>12, <4>1
    <3>3. CASE k = n + m
      <4>1. k \notin ((n - 1) + 1)..((n - 1) + m)
        BY <1>3, <3>3
      <4>. QED  BY <1>13, <3>3, <4>1
    <3>. QED  BY <1>3, <3>1, <3>2, <3>3
  <2>3. \A k \in ((n - 1) + 1)..((n - 1) + m) : k \in 1..(n + m)
    BY <1>3
  <2>. QED  BY <2>1, <2>2, <2>3
<1>15. DOMAIN hashes = 1..(n + m) /\ \A k \in 1..(n + m) : hashes[k] = s[k]
  BY <1>6, <1>7
<1> HIDE DEF hashes, skipped
<1>16. Picked(hashes, skipped) = sk
  <2> DEFINE c == n - 1
  <2>1. c \in Nat /\ \A k \in 1..m : c + k \in 1..(n + m)
    BY <1>3
  <2>2. skipped = (c + 1)..(c + m)
    BY <1>14
  <2>3. \A k \in 1..m : s[c + k] = sk[k]
    BY <1>3
  <2> HIDE DEF c
  <2>4. Picked(hashes, skipped) = [k \in 1..m |-> hashes[c + k]]
    BY <1>3, <2>1, <2>2, PickedStretch
  <2>5. sk = [k \in 1..m |-> sk[k]]
    BY <1>4, <1>9
  <2>. QED  BY <1>15, <2>1, <2>3, <2>4, <2>5
<1>17. Picked(hashes, DOMAIN hashes \ skipped) = ex
  <2> DEFINE R == (1..(n - 1)) \cup {n + m}
             D == DOMAIN hashes \ skipped
  <2>1. D = R
    BY <1>3, <1>14, <1>15
  <2>2. n + m \in Nat /\ n + m >= n /\ n + m \in 1..(n + m) /\ \A k \in 1..(n - 1) : k \in 1..(n + m)
    BY <1>3
  <2>3. Cardinality(R) = n /\ Nth(R, n) = n + m /\ \A k \in 1..(n - 1) : Nth(R, k) = k
    BY <1>3, <2>2, FrontAndLast
  <2>4. Picked(hashes, D) = [k \in 1..n |-> hashes[Nth(R, k)]]
    BY <2>1, <2>3 DEF Picked
  <2> HIDE DEF D, R
  <2>5. \A k \in 1..n : hashes[Nth(R, k)] = ex[k]
    <3> SUFFICES ASSUME NEW k \in 1..n
                 PROVE  hashes[Nth(R, k)] = ex[k]
      OBVIOUS
    <3>1. CASE k = n
      BY <1>3, <1>15, <2>2, <2>3, <3>1
    <3>2. CASE k # n
      <4>1. k \in 1..(n - 1)
        BY <1>3, <3>2
      <4>. QED  BY <1>3, <1>15, <2>2, <2>3, <4>1
    <3>. QED  BY <3>1, <3>2
  <2>6. ex = [k \in 1..n |-> ex[k]]
    BY <1>4, <1>9
  <2>7. Picked(hashes, D) = ex
    BY <2>4, <2>5, <2>6
  <2>. QED  BY <2>7 DEF D
<1>. QED  BY <1>8, <1>16, <1>17, Zenon DEF blocks, skipped, hashes, ex, sk

\* However the epochs are cut into groups, extract refuses none and decoding
\* gives every epoch's blocks back with the epoch's number: the executed ones
\* in their order, the pivot last, the skipped ones marked (pack_raw_packet,
\* assign_epoch_from_pivots).
THEOREM EpochsRecoveredAlways == PacketSpec => []EpochsRecovered
<1>1. ArchiveInv => EpochsRecovered
  <2> SUFFICES ASSUME ArchiveInv
               PROVE  EpochsRecovered
    OBVIOUS
  <2> DEFINE r == Replayed
  <2>1. /\ db \in Databases /\ failed = FALSE /\ archive \in Seq(Wire)
        /\ \A i \in 1..Len(r) : r[i] \in GoodAt[i]
    BY DEF ArchiveInv
  <2>2. \A g \in DOMAIN archive : Decodable(archive[g], PosEnable)
    <3>1. \A g \in DOMAIN archive : archive[g] \in Wire
      BY <2>1
    <3>. QED  BY <3>1, WireBack
  <2>3. Len(r) \in Nat
    BY ReplayedTrue
  <2> HIDE DEF r
  <2>4. ASSUME NEW i \in 1..(Len(r) - 1)
        PROVE  r[i].epoch <= r[i + 1].epoch
    <3> DEFINE x == r[i]
               y == r[i + 1]
    <3>1. i \in Nat /\ i + 1 \in Nat /\ i <= i + 1 /\ x \in GoodAt[i] /\ y \in GoodAt[i + 1]
      BY <2>1, <2>3
    <3> HIDE DEF x, y
    <3>2. Placed(x, i) /\ Placed(y, i + 1)
      BY <3>1, GoodMeans
    <3>3. /\ x.epoch \in Epoch /\ End[x.epoch - 1] < i /\ i <= End[x.epoch]
          /\ y.epoch \in Epoch /\ End[y.epoch - 1] < i + 1 /\ i + 1 <= End[y.epoch]
      BY <3>2 DEF Placed
    <3> DEFINE j == i + 1
               d == x.epoch
               e == y.epoch
    <3>4. /\ j \in Nat /\ i <= j /\ d \in Epoch /\ e \in Epoch
          /\ End[d - 1] < i /\ i <= End[d] /\ End[e - 1] < j /\ j <= End[e]
      BY <3>1, <3>3
    <3> HIDE DEF j, d, e
    <3>5. d <= e
      BY <2>1, <3>1, <3>4, OneEpoch
    <3>. QED  BY <3>5 DEF d, e, x, y
  <2>. QED  BY <2>1, <2>2, <2>4, EpochComplete, Zenon DEF EpochsRecovered, r
<1>. QED  BY <1>1, ArchiveInvAlways, PTL

-----------------------------------------------------------------------------
(* Unlock events. *)

\* Sets of numbers that follow one another are in order one after the other.
LEMMA InOrderJoin ==
    ASSUME NEW S \in SUBSET Nat, NEW T \in SUBSET Nat, IsFiniteSet(S), IsFiniteSet(T),
           \A i \in S : \A j \in T : i < j
    PROVE  InOrder(S \cup T) = InOrder(S) \o InOrder(T)
<1> DEFINE n == Cardinality(S)
           m == Cardinality(T)
           U == S \cup T
           x == InOrder(S)
           y == InOrder(T)
<1>0. \A i \in U : i \in Int
  OBVIOUS
<1>1. n \in Nat /\ m \in Nat /\ S \cap T = {}
  <2>1. S \cap T = {}
    <3> SUFFICES ASSUME NEW i \in S, i \in T
                 PROVE  FALSE
      OBVIOUS
    <3>1. i < i /\ i \in Nat
      OBVIOUS
    <3>. QED  BY <3>1
  <2>. QED  BY <2>1, FS_CardinalityType
<1>2. IsFiniteSet(U) /\ Cardinality(U) = n + m /\ U \in SUBSET Int
  <2>1. IsFiniteSet(U) /\ Cardinality(U) = n + m - Cardinality(S \cap T)
    BY FS_Union
  <2>2. Cardinality(S \cap T) = 0
    BY <1>1, FS_EmptySet
  <2> HIDE DEF n, m
  <2>. QED  BY <1>0, <1>1, <2>1, <2>2
<1>3. \A k \in 1..n : Nth(U, k) = Nth(S, k)
  <2> SUFFICES ASSUME NEW k \in 1..n
               PROVE  Nth(U, k) = Nth(S, k)
    OBVIOUS
  <2> DEFINE i == Nth(S, k)
  <2>1. S \in SUBSET Int
    OBVIOUS
  <2>2. i \in S /\ Rank(S, i) = k
    BY <2>1, RankReaches
  <2> HIDE DEF i
  <2>3. {j \in U : j <= i} = {j \in S : j <= i}
    <3>1. \A j \in T : ~(j <= i)
      <4> SUFFICES ASSUME NEW j \in T, j <= i
                   PROVE  FALSE
        OBVIOUS
      <4>1. i < j /\ i \in Int /\ j \in Int
        BY <2>2
      <4>. QED  BY <4>1
    <3>. QED  BY <3>1
  <2>4. Rank(U, i) = k
    BY <2>2, <2>3, Zenon DEF Rank
  <2>5. Nth(U, Rank(U, i)) = i
    BY <1>2, <2>2, NthOfRank
  <2>. QED  BY <2>4, <2>5 DEF i
<1>4. \A k \in 1..m : Nth(U, n + k) = Nth(T, k)
  <2> SUFFICES ASSUME NEW k \in 1..m
               PROVE  Nth(U, n + k) = Nth(T, k)
    OBVIOUS
  <2> DEFINE i == Nth(T, k)
             V == {j \in T : j <= i}
  <2>1. T \in SUBSET Int
    OBVIOUS
  <2>2. i \in T /\ Rank(T, i) = k
    BY <2>1, RankReaches
  <2>3. Cardinality(V) = k
    BY <2>2 DEF Rank
  <2> HIDE DEF i
  <2>4. {j \in U : j <= i} = S \cup V
    <3>1. \A j \in S : j <= i
      <4> SUFFICES ASSUME NEW j \in S
                   PROVE  j <= i
        OBVIOUS
      <4>1. j < i /\ i \in Int /\ j \in Int
        BY <2>2
      <4>. QED  BY <4>1
    <3>. QED  BY <3>1
  <2>5. IsFiniteSet(V) /\ S \cap V = {}
    BY <1>1, FS_Subset
  <2> HIDE DEF V
  <2>6. Cardinality(S \cup V) = n + k
    <3>1. Cardinality(S \cup V) = Cardinality(S) + Cardinality(V) - Cardinality(S \cap V)
      BY <2>5, FS_Union
    <3>2. Cardinality(S \cap V) = 0
      BY <2>5, FS_EmptySet
    <3>3. Cardinality(S \cup V) = n + k - 0
      BY <2>3, <3>1, <3>2
    <3> HIDE DEF n
    <3>. QED  BY <1>1, <3>3
  <2>7. Rank(U, i) = n + k
    BY <2>4, <2>6, Zenon DEF Rank
  <2>8. Nth(U, Rank(U, i)) = i
    BY <1>2, <2>2, NthOfRank
  <2>. QED  BY <2>7, <2>8 DEF i
<1>5. InOrder(U) = [k \in 1..(n + m) |-> Nth(U, k)] /\ x = [k \in 1..n |-> Nth(S, k)] /\ y = [k \in 1..m |-> Nth(T, k)]
  BY <1>2 DEF InOrder
<1> HIDE DEF n, m, U, x, y
<1>6. ASSUME NEW k \in 1..(n + m)
      PROVE  Nth(U, k) = IF k <= n THEN x[k] ELSE y[k - n]
  <2>1. CASE k <= n
    <3>1. k \in 1..n
      BY <1>1, <2>1
    <3>. QED  BY <1>3, <1>5, <2>1, <3>1
  <2>2. CASE ~(k <= n)
    <3>1. k - n \in 1..m /\ n + (k - n) = k
      BY <1>1, <2>2
    <3>2. Nth(U, n + (k - n)) = Nth(T, k - n)
      BY <1>4, <3>1
    <3>. QED  BY <1>5, <2>2, <3>1, <3>2
  <2>. QED  BY <2>1, <2>2
<1>7. Len(x) = n /\ Len(y) = m
  BY <1>1, <1>5
<1>8. x \o y = [k \in 1..(n + m) |-> IF k <= n THEN x[k] ELSE y[k - n]]
  <2>1. x \in Seq({Nth(S, k) : k \in 1..n}) /\ y \in Seq({Nth(T, k) : k \in 1..m})
    BY <1>1, <1>5
  <2>. QED  BY <1>1, <1>5, <1>7, <2>1
<1>. QED  BY <1>5, <1>6, <1>8 DEF U, x, y

LEMMA EventsJoin ==
    ASSUME db \in Databases, NEW a \in Nat, NEW b \in Nat, NEW c \in Nat, a <= b, b <= c
    PROVE  UnlockEvents(a, b) \o UnlockEvents(b, c) = UnlockEvents(a, c)
<1> DEFINE S == {v \in db.events : a <= v /\ v < b}
           T == {v \in db.events : b <= v /\ v < c}
           U == {v \in db.events : a <= v /\ v < c}
<1>1. db.events \in SUBSET Nat /\ IsFiniteSet(db.events)
  BY Schema
<1>2. UnlockEvents(a, b) = InOrder(S) /\ UnlockEvents(b, c) = InOrder(T) /\ UnlockEvents(a, c) = InOrder(U)
  BY DEF UnlockEvents
<1>3. \A v \in db.events : v \in Nat
  BY <1>1
<1>4. U = S \cup T
  <2>1. \A v \in db.events : a <= v /\ v < c <=> (a <= v /\ v < b) \/ (b <= v /\ v < c)
    BY <1>3
  <2>. QED  BY <2>1
<1>5. \A i \in S : \A j \in T : i < j
  <2> SUFFICES ASSUME NEW i \in S, NEW j \in T
               PROVE  i < j
    OBVIOUS
  <2>1. i < b /\ b <= j /\ i \in Nat /\ j \in Nat
    BY <1>3
  <2>. QED  BY <2>1
<1>6. S \in SUBSET Nat /\ T \in SUBSET Nat /\ IsFiniteSet(S) /\ IsFiniteSet(T)
  <2>1. S \in SUBSET db.events /\ T \in SUBSET db.events
    OBVIOUS
  <2> HIDE DEF S, T
  <2>. QED  BY <1>1, <2>1, FS_Subset
<1> HIDE DEF S, T, U
<1>. QED  BY <1>2, <1>4, <1>5, <1>6, InOrderJoin

LEMMA EventsWithin ==
    ASSUME db \in Databases, NEW a, NEW b, NEW v \in ToSet(UnlockEvents(a, b))
    PROVE  a <= v /\ v < b
<1> DEFINE S == {w \in db.events : a <= w /\ w < b}
           n == Cardinality(S)
<1>1. IsFiniteSet(S) /\ S \in SUBSET Int
  <2>1. S \in SUBSET db.events /\ db.events \in SUBSET Nat /\ IsFiniteSet(db.events)
    BY Schema
  <2> HIDE DEF S
  <2>. QED  BY <2>1, FS_Subset
<1>2. UnlockEvents(a, b) = [k \in 1..n |-> Nth(S, k)]
  BY DEF UnlockEvents, InOrder
<1>3. PICK k \in 1..n : v = Nth(S, k)
  BY <1>2 DEF ToSet
<1>4. v \in S
  <2> HIDE DEF S
  <2>. QED  BY <1>1, <1>3, RankReaches
<1>. QED  BY <1>4

\* The first epoch that has a PoS reference, or the one before the first.
FirstPos == IF PosEnable <= FirstEpoch - 1 THEN FirstEpoch - 1 ELSE PosEnable

\* Every unlock event up to epoch e.
Total(e) == IF e < PosEnable THEN <<>>
            ELSE UnlockEvents(db.version[PosAt(FirstPos)], db.version[PosAt(e)])

\* The versions of the epochs' references go forward.
LEMMA VersionsForward ==
    ASSUME db \in Databases, NEW d \in (FirstEpoch - 1)..LastEpoch, NEW e \in (FirstEpoch - 1)..LastEpoch,
           d <= e, d >= PosEnable
    PROVE  /\ PosAt(d) # None /\ PosAt(e) # None
           /\ db.version[PosAt(d)] \in Nat /\ db.version[PosAt(e)] \in Nat
           /\ db.version[PosAt(d)] <= db.version[PosAt(e)]
<1>0. FirstEpoch \in Nat \ {0} /\ LastEpoch \in Nat /\ PosEnable \in Nat
  BY ConfigAssumption
<1> DEFINE V(x) == db.version[PosAt(x)]
<1>1. \A x \in (FirstEpoch - 1)..LastEpoch : x >= PosEnable => PosAt(x) # None /\ V(x) \in Nat
  BY PosAtFacts
<1> DEFINE S == {k \in Nat : d + k <= e => V(d) <= V(d + k)}
<1>2. 0 \in S
  <2>1. V(d) \in Nat /\ d + 0 = d
    BY <1>0, <1>1
  <2> HIDE DEF V
  <2>. QED  BY <2>1
<1>3. ASSUME NEW k \in Nat, k \in S
      PROVE  k + 1 \in S
  <2> DEFINE a == d + k
             b == d + (k + 1)
  <2> SUFFICES ASSUME b <= e
               PROVE  V(d) <= V(b)
    OBVIOUS
  <2>1. /\ a <= e /\ b \in Epoch /\ b - 1 = a /\ a \in (FirstEpoch - 1)..LastEpoch
        /\ b \in (FirstEpoch - 1)..LastEpoch /\ a >= PosEnable /\ b >= PosEnable
    BY <1>0 DEF Epoch
  <2>2. V(d) <= V(a)
    BY <1>3, <2>1
  <2> HIDE DEF a, b
  <2>3. PosAt(a) # None
    BY <1>1, <2>1
  <2>4. V(a) <= V(b)
    BY <2>1, <2>3, PosForward
  <2>5. V(d) \in Nat /\ V(a) \in Nat /\ V(b) \in Nat
    BY <1>1, <2>1
  <2> HIDE DEF V
  <2>. QED  BY <2>2, <2>4, <2>5
<1>4. e - d \in S
  <2> HIDE DEF S
  <2>1. e - d \in Nat
    BY <1>0
  <2>. QED  BY <1>2, <1>3, <2>1, InductionOnSet
<1>5. d + (e - d) = e /\ e <= e /\ e >= PosEnable
  BY <1>0
<1>6. V(d) <= V(e)
  BY <1>4, <1>5
<1>. QED  BY <1>1, <1>5, <1>6

LEMMA FirstPosFacts ==
    ASSUME NEW e \in (FirstEpoch - 1)..LastEpoch, e >= PosEnable
    PROVE  FirstPos \in (FirstEpoch - 1)..LastEpoch /\ FirstPos >= PosEnable /\ FirstPos <= e
<1>0. FirstEpoch \in Nat \ {0} /\ LastEpoch \in Nat /\ PosEnable \in Nat
  BY ConfigAssumption
<1>. QED  BY <1>0 DEF FirstPos

LEMMA SameVersion ==
    ASSUME db \in Databases, NEW a \in Nat
    PROVE  UnlockEvents(a, a) = <<>>
<1>1. \A v \in db.events : v \in Nat
  BY Schema
<1>2. {v \in db.events : a <= v /\ v < a} = {}
  BY <1>1
<1>. QED  BY <1>2, NoEvents

\* What is due at an epoch is what its total adds to the one before.
LEMMA TotalGrows ==
    ASSUME db \in Databases, NEW e \in Epoch
    PROVE  Total(e) = Total(e - 1) \o DueAt(e) /\ Total(e) \in Seq(Nat)
<1>0. FirstEpoch \in Nat \ {0} /\ LastEpoch \in Nat /\ PosEnable \in Nat
  BY ConfigAssumption
<1> DEFINE d == e - 1
           V(x) == db.version[PosAt(x)]
<1>1. /\ d \in (FirstEpoch - 1)..LastEpoch /\ e \in (FirstEpoch - 1)..LastEpoch /\ d <= e
      /\ d \in Int /\ e \in Int /\ d < e
  BY <1>0 DEF Epoch
<1>2. \A a, b : UnlockEvents(a, b) \in Seq(Nat)
  BY UnlockEventsType
<1>3. Total(e) \in Seq(Nat)
  BY <1>2 DEF Total
<1>4. DueAt(e) = IF PosAt(d) = None THEN <<>> ELSE UnlockEvents(V(d), V(e))
  BY DEF DueAt
<1>5. PosAt(d) # None <=> d >= PosEnable
  BY <1>1, PosAtFacts
<1>6. CASE e < PosEnable
  <2>1. Total(e) = <<>> /\ Total(d) = <<>> /\ DueAt(e) = <<>>
    BY <1>0, <1>1, <1>4, <1>5, <1>6 DEF Total
  <2>. QED  BY <1>3, <2>1
<1>7. CASE e >= PosEnable /\ d < PosEnable
  <2>1. FirstPos = e
    BY <1>0, <1>1, <1>7 DEF FirstPos
  <2>2. V(e) \in Nat
    BY <1>1, <1>7, VersionsForward
  <2>3. Total(e) = UnlockEvents(V(e), V(e))
    BY <1>0, <1>1, <1>7, <2>1 DEF Total
  <2>4. Total(e) = <<>>
    <3> HIDE DEF V
    <3>. QED  BY <2>2, <2>3, SameVersion
  <2>5. Total(d) = <<>> /\ DueAt(e) = <<>>
    BY <1>0, <1>1, <1>4, <1>5, <1>7 DEF Total
  <2>. QED  BY <1>3, <2>4, <2>5
<1>8. CASE d >= PosEnable
  <2>1. FirstPos \in (FirstEpoch - 1)..LastEpoch /\ FirstPos >= PosEnable /\ FirstPos <= d
    BY <1>1, <1>8, FirstPosFacts
  <2>2. V(FirstPos) \in Nat /\ V(d) \in Nat /\ V(FirstPos) <= V(d)
    BY <1>1, <2>1, VersionsForward
  <2>3. V(e) \in Nat /\ V(d) <= V(e)
    BY <1>1, <1>8, VersionsForward
  <2>4. Total(d) = UnlockEvents(V(FirstPos), V(d)) /\ Total(e) = UnlockEvents(V(FirstPos), V(e))
    BY <1>0, <1>1, <1>8 DEF Total
  <2>5. DueAt(e) = UnlockEvents(V(d), V(e))
    BY <1>4, <1>5, <1>8
  <2> HIDE DEF V
  <2>6. UnlockEvents(V(FirstPos), V(d)) \o UnlockEvents(V(d), V(e)) = UnlockEvents(V(FirstPos), V(e))
    BY <2>2, <2>3, EventsJoin
  <2>. QED  BY <1>3, <2>4, <2>5, <2>6
<1>. QED  BY <1>0, <1>1, <1>6, <1>7, <1>8

LEMMA TotalAtFirst ==
    ASSUME db \in Databases
    PROVE  Total(FirstEpoch - 1) = <<>>
<1>0. FirstEpoch \in Nat \ {0} /\ LastEpoch \in Nat /\ PosEnable \in Nat /\ FirstEpoch <= LastEpoch + 1
  BY ConfigAssumption
<1> DEFINE e == FirstEpoch - 1
           V == db.version[PosAt(e)]
<1>1. e \in (FirstEpoch - 1)..LastEpoch /\ e \in Int
  BY <1>0
<1>2. CASE e < PosEnable
  BY <1>2 DEF Total
<1>3. CASE ~(e < PosEnable)
  <2>1. FirstPos = e
    BY <1>0, <1>1, <1>3 DEF FirstPos
  <2>2. V \in Nat
    <3> HIDE DEF e
    <3>. QED  BY <1>0, <1>1, <1>3, VersionsForward
  <2>3. Total(e) = UnlockEvents(V, V)
    BY <1>3, <2>1 DEF Total
  <2> HIDE DEF V
  <2>. QED  BY <2>2, <2>3, SameVersion
<1>. QED  BY <1>2, <1>3

\* The next position is in the same epoch, or the first of the next epoch.
LEMMA NextEpoch ==
    ASSUME db \in Databases, NEW d \in Epoch, NEW e \in Epoch, NEW i \in Nat,
           End[d - 1] < i, i <= End[d], End[e - 1] < i + 1, i + 1 <= End[e]
    PROVE  e - 1 = IF i = End[d] THEN d ELSE d - 1
<1>0. FirstEpoch \in Nat \ {0} /\ LastEpoch \in Nat
  BY ConfigAssumption
<1> DEFINE j == i + 1
<1>1. j \in Nat /\ i <= j /\ d \in Int /\ e \in Int
  BY <1>0 DEF Epoch
<1>2. \A x \in Epoch : End[x] \in Nat /\ End[x - 1] \in Nat /\ End[x - 1] < End[x]
  <2> SUFFICES ASSUME NEW x \in Epoch
               PROVE  End[x] \in Nat /\ End[x - 1] \in Nat /\ End[x - 1] < End[x]
    OBVIOUS
  <2>1. /\ End[x] \in Nat /\ End[x - 1] \in Nat /\ Len(Ordered(x)) \in Nat /\ Len(Ordered(x)) >= 1
        /\ End[x] = End[x - 1] + Len(Ordered(x))
    BY EndFacts
  <2>. QED  BY <2>1
<1>3. d <= e
  BY <1>1, OneEpoch
<1>4. CASE i # End[d]
  <2>1. End[d - 1] < j /\ j <= End[d]
    BY <1>2, <1>4
  <2>2. e <= d
    <3> HIDE DEF j
    <3>1. End[e - 1] < j /\ j <= End[e] /\ j <= j
      BY <1>1 DEF j
    <3>. QED  BY <1>1, <2>1, <3>1, OneEpoch
  <2>. QED  BY <1>1, <1>3, <1>4, <2>2
<1>5. CASE i = End[d]
  <2>1. e # d
    BY <1>2, <1>5
  <2> DEFINE c == d + 1
  <2>2. c \in Epoch /\ c - 1 = d /\ c <= e /\ c \in Int
    BY <1>0, <1>1, <1>3, <2>1 DEF Epoch
  <2> HIDE DEF c
  <2>3. End[c - 1] < j /\ j <= End[c]
    BY <1>2, <1>5, <2>2
  <2>4. e <= c
    <3> HIDE DEF j
    <3>1. End[e - 1] < j /\ j <= End[e] /\ j <= j
      BY <1>1 DEF j
    <3>. QED  BY <1>1, <2>2, <2>3, <3>1, OneEpoch
  <2>. QED  BY <1>1, <1>5, <2>2, <2>4 DEF c
<1>. QED  BY <1>4, <1>5

\* Only the last block of an epoch has unlock events, those that are due.
LEMMA UnlocksAt ==
    ASSUME ArchiveInv, NEW i \in 1..Len(Replayed)
    PROVE  LET b == Replayed[i]
               e == b.epoch
           IN  /\ e \in Epoch /\ End[e - 1] < i /\ i <= End[e] /\ i \in Nat
               /\ b.unlocks = IF i = End[e] THEN DueAt(e) ELSE <<>>
               /\ b.unlocks \in Seq(Nat)
               /\ i = End[e] => IsPivot(b) /\ b.hash = Pivot(e)
<1> DEFINE b == Replayed[i]
           e == b.epoch
<1>1. b \in GoodAt[i] /\ i \in Nat /\ db \in Databases
  <2>1. Len(Replayed) \in Nat
    BY ReplayedTrue
  <2>. QED  BY <2>1 DEF ArchiveInv
<1> HIDE DEF b
<1>2. b \in PacketBlock /\ Placed(b, i) /\ Due(b)
  BY <1>1, GoodMeans
<1>3. b.flags \in SUBSET Flag /\ b.unlocks \in Seq(Nat)
  BY <1>2, BlockFields
<1>4. i = End[e] => IsPivot(b) /\ b.hash = Pivot(e)
  BY <1>1, <1>2, <1>3, PivotLast
<1>5. b.hash = Pivot(e) => i = End[e]
  BY <1>1, <1>2, PivotOnce
<1>6. b.unlocks = IF i = End[e] THEN DueAt(e) ELSE <<>>
  BY <1>2, <1>4, <1>5 DEF Due
<1>7. e \in Epoch /\ End[e - 1] < i /\ i <= End[e]
  BY <1>2 DEF Placed
<1>. QED  BY <1>1, <1>3, <1>4, <1>6, <1>7 DEF b

\* All unlock events the replayer is given.
LEMMA UnlocksTotal ==
    ASSUME ArchiveInv
    PROVE  FlattenSeq([i \in DOMAIN Replayed |-> Replayed[i].unlocks]) = Total(next - 1)
<1> DEFINE r == Replayed
           N == Len(r)
           u == [i \in DOMAIN r |-> r[i].unlocks]
           e(i) == r[i].epoch
<1>0. FirstEpoch \in Nat \ {0} /\ LastEpoch \in Nat /\ FirstEpoch <= LastEpoch + 1
  BY ConfigAssumption
<1>1. /\ db \in Databases /\ next \in Nat /\ (next = FirstEpoch \/ next - 1 \in Epoch) /\ next >= FirstEpoch
      /\ N = End[next - 1]
  BY DEF ArchiveInv
<1>2. N \in Nat /\ DOMAIN r = 1..N
  BY ReplayedTrue
<1>3. \A i \in 1..N : /\ e(i) \in Epoch /\ End[e(i) - 1] < i /\ i <= End[e(i)] /\ i \in Nat
                      /\ u[i] = IF i = End[e(i)] THEN DueAt(e(i)) ELSE <<>>
                      /\ u[i] \in Seq(Nat)
  BY <1>2, UnlocksAt
<1>4. DOMAIN u = 1..N /\ u = [i \in 1..N |-> u[i]]
  BY <1>2
<1> HIDE DEF u, r, N, e
<1>5. u \in Seq(Seq(Nat)) /\ Len(u) = N
  <2> DEFINE Q == Seq(Nat)
  <2>1. \A i \in 1..N : u[i] \in Q
    BY <1>3
  <2> HIDE DEF Q
  <2>2. u \in Seq(Q) /\ Len(u) = N
    BY <1>2, <1>4, <2>1, FunctionIsSeq
  <2>. QED  BY <2>2 DEF Q
<1>6. \A x \in Epoch : /\ x \in Int /\ x - 1 \in Int /\ End[x] \in Nat /\ End[x - 1] \in Nat
                       /\ End[x - 1] < End[x]
                       /\ Total(x) = Total(x - 1) \o DueAt(x) /\ Total(x) \in Seq(Nat)
  <2> SUFFICES ASSUME NEW x \in Epoch
               PROVE  /\ x \in Int /\ x - 1 \in Int /\ End[x] \in Nat /\ End[x - 1] \in Nat
                      /\ End[x - 1] < End[x]
                      /\ Total(x) = Total(x - 1) \o DueAt(x) /\ Total(x) \in Seq(Nat)
    OBVIOUS
  <2>1. /\ End[x] \in Nat /\ End[x - 1] \in Nat /\ Len(Ordered(x)) \in Nat /\ Len(Ordered(x)) >= 1
        /\ End[x] = End[x - 1] + Len(Ordered(x))
    BY <1>1, EndFacts
  <2>2. x \in Int /\ x - 1 \in Int
    BY <1>0 DEF Epoch
  <2>. QED  BY <1>1, <2>1, <2>2, TotalGrows, SMTT(30)
<1>7. CASE next = FirstEpoch
  <2>1. N = 0
    BY <1>1, <1>7, EndFacts
  <2>2. u = <<>>
    BY <1>5, <2>1
  <2>. QED  BY <1>1, <1>7, <2>2, FlattenEmpty, TotalAtFirst DEF u, r
<1>8. CASE next - 1 \in Epoch
  <2> DEFINE last == next - 1
  <2>1. last \in Epoch /\ N = End[last] /\ N >= 1 /\ End[last - 1] < N /\ N <= End[last] /\ N <= N
    BY <1>1, <1>2, <1>6, <1>8
  <2> HIDE DEF last
  <2>2. u # <<>> /\ N \in 1..N /\ 1 \in 1..N
    BY <1>2, <1>5, <2>1
  <2>3. PICK f \in [1..N -> Seq(Nat)] : /\ f[1] = u[1]
                                        /\ \A i \in 2..N : f[i] = f[i - 1] \o u[i]
                                        /\ FlattenSeq(u) = f[N]
    <3>1. Len(u) = N
      BY <1>5
    <3>2. PICK f \in [1..Len(u) -> Seq(Nat)] : /\ f[1] = u[1]
                                               /\ \A i \in 2..Len(u) : f[i] = f[i - 1] \o u[i]
                                               /\ FlattenSeq(u) = f[Len(u)]
      BY <1>5, <2>2, FlattenSteps
    <3>. QED  BY <3>1, <3>2
  <2> DEFINE Right(i) == f[i] = IF i = End[e(i)] THEN Total(e(i)) ELSE Total(e(i) - 1)
             S == {k \in Nat : k + 1 \in 1..N => Right(k + 1)}
  <2>4. ASSUME NEW i \in 1..N, NEW before \in Seq(Nat), before = Total(e(i) - 1)
        PROVE  before \o u[i] = IF i = End[e(i)] THEN Total(e(i)) ELSE Total(e(i) - 1)
    <3>1. CASE i = End[e(i)]
      BY <1>3, <1>6, <2>4, <3>1
    <3>2. CASE i # End[e(i)]
      <4>1. u[i] = <<>>
        BY <1>3, <3>2
      <4>2. before \o <<>> = before
        OBVIOUS
      <4>. QED  BY <2>4, <3>2, <4>1, <4>2
    <3>. QED  BY <3>1, <3>2
  <2>5. 0 \in S
    <3>1. e(1) = FirstEpoch
      <4> DEFINE c == FirstEpoch
                 d == e(1)
      <4>1. c \in Epoch
        BY <1>0, <2>1 DEF Epoch
      <4>2. End[c - 1] < 1 /\ 1 <= End[c] /\ 1 <= 1
        <5>1. End[c - 1] = 0
          BY <1>1, EndFacts
        <5>. QED  BY <1>6, <4>1, <5>1
      <4>3. d \in Epoch /\ End[d - 1] < 1 /\ 1 <= End[d]
        BY <1>3, <2>2
      <4> HIDE DEF c, d
      <4>4. c <= d
        BY <1>1, <4>1, <4>2, <4>3, OneEpoch
      <4>5. d <= c
        BY <1>1, <4>1, <4>2, <4>3, OneEpoch
      <4>6. c = d
        BY <1>6, <4>1, <4>3, <4>4, <4>5
      <4>. QED  BY <4>6 DEF c, d
    <3>2. Total(e(1) - 1) = <<>>
      BY <1>1, <3>1, TotalAtFirst
    <3>3. <<>> \in Seq(Nat) /\ u[1] \in Seq(Nat)
      BY <1>3, <2>2
    <3>4. <<>> \o u[1] = u[1]
      BY <3>3
    <3>5. <<>> \o u[1] = IF 1 = End[e(1)] THEN Total(e(1)) ELSE Total(e(1) - 1)
      BY <2>2, <2>4, <3>2, <3>3
    <3>. QED  BY <2>3, <3>4, <3>5
  <2>6. ASSUME NEW k \in Nat, k \in S
        PROVE  k + 1 \in S
    <3> DEFINE i == k + 1
               j == k + 2
    <3> SUFFICES ASSUME j \in 1..N
                 PROVE  Right(j)
      BY <1>2
    <3>1. i \in 1..N /\ j \in 2..N /\ j - 1 = i /\ j = i + 1 /\ i \in Nat
      BY <1>2
    <3>2. Right(i)
      BY <2>6, <3>1
    <3>3. f[j] = f[i] \o u[j] /\ f[i] \in Seq(Nat)
      BY <2>3, <3>1
    <3> HIDE DEF i, j
    <3>4. f[i] = Total(e(j) - 1)
      <4> DEFINE c == e(i)
                 d == e(j)
      <4>1. c \in Epoch /\ End[c - 1] < i /\ i <= End[c]
        BY <1>3, <3>1
      <4>2. d \in Epoch /\ End[d - 1] < i + 1 /\ i + 1 <= End[d]
        BY <1>3, <3>1
      <4>3. f[i] = IF i = End[c] THEN Total(c) ELSE Total(c - 1)
        BY <3>2
      <4> HIDE DEF c, d
      <4>4. d - 1 = IF i = End[c] THEN c ELSE c - 1
        BY <1>1, <3>1, <4>1, <4>2, NextEpoch
      <4>5. f[i] = Total(d - 1)
        BY <4>3, <4>4
      <4>. QED  BY <4>5 DEF d
    <3>. QED  BY <2>4, <3>3, <3>4
  <2>7. N - 1 \in S
    <3> HIDE DEF S
    <3>1. N - 1 \in Nat
      BY <1>2, <2>1
    <3>. QED  BY <2>5, <2>6, <3>1, InductionOnSet
  <2>8. Right(N)
    <3>1. (N - 1) + 1 = N
      BY <1>2
    <3>. QED  BY <2>2, <2>7, <3>1
  <2>9. e(N) = last
    <3> DEFINE d == e(N)
    <3>1. d \in Epoch /\ End[d - 1] < N /\ N <= End[d]
      BY <1>3, <2>2
    <3> HIDE DEF d
    <3>2. d <= last
      BY <1>1, <1>2, <2>1, <3>1, OneEpoch
    <3>3. last <= d
      BY <1>1, <1>2, <2>1, <3>1, OneEpoch
    <3>4. d = last
      BY <1>6, <2>1, <3>1, <3>2, <3>3
    <3>. QED  BY <3>4 DEF d
  <2>10. FlattenSeq(u) = Total(last)
    BY <2>1, <2>3, <2>8, <2>9
  <2>. QED  BY <2>10 DEF u, r, last
<1>. QED  BY <1>1, <1>7, <1>8

\* The events up to an epoch are those from the lowest version to the highest.
LEMMA TotalIs ==
    ASSUME db \in Databases, NEW e \in (FirstEpoch - 1)..LastEpoch
    PROVE  LET refs == {EffectivePos(Pivot(d)) : d \in (FirstEpoch - 1)..e} \ {None}
               versions == {db.version[r] : r \in refs}
           IN  Total(e) = IF refs = {} THEN <<>> ELSE UnlockEvents(Min(versions), Max(versions))
<1>0. FirstEpoch \in Nat \ {0} /\ LastEpoch \in Nat /\ PosEnable \in Nat
  BY ConfigAssumption
<1> DEFINE D == (FirstEpoch - 1)..e
           refs == {EffectivePos(Pivot(d)) : d \in D} \ {None}
           versions == {db.version[r] : r \in refs}
           low == db.version[PosAt(FirstPos)]
           high == db.version[PosAt(e)]
<1>1. \A d \in D : d \in (FirstEpoch - 1)..LastEpoch /\ d <= e /\ d \in Int
  BY <1>0
<1>2. \A d \in D : EffectivePos(Pivot(d)) # None <=> d >= PosEnable
  BY <1>1, PosAtFacts DEF PosAt
<1>3. CASE e < PosEnable
  <2>1. \A d \in D : ~(d >= PosEnable)
    BY <1>0, <1>1, <1>3
  <2>2. refs = {}
    BY <1>2, <2>1
  <2>3. Total(e) = <<>>
    BY <1>3 DEF Total
  <2>. QED  BY <2>2, <2>3
<1>4. CASE e >= PosEnable
  <2>1. FirstPos \in (FirstEpoch - 1)..LastEpoch /\ FirstPos >= PosEnable /\ FirstPos <= e
    BY <1>4, FirstPosFacts
  <2>2. FirstPos \in D /\ e \in D
    BY <1>0, <2>1
  <2>3. PosAt(FirstPos) \in refs /\ PosAt(e) \in refs
    BY <1>2, <1>4, <2>1, <2>2 DEF PosAt
  <2>4. low \in versions /\ high \in versions
    BY <2>3
  <2>5. ASSUME NEW v \in versions
        PROVE  v \in Nat /\ low <= v /\ v <= high
    <3>1. PICK r \in refs : v = db.version[r]
      OBVIOUS
    <3>2. PICK d \in D : r = PosAt(d) /\ r # None
      BY DEF PosAt
    <3>3. d >= PosEnable /\ v = db.version[PosAt(d)]
      BY <1>2, <3>1, <3>2 DEF PosAt
    <3>4. d \in (FirstEpoch - 1)..LastEpoch /\ d <= e /\ FirstPos <= d
      BY <1>0, <1>1, <3>3 DEF FirstPos
    <3>5. db.version[PosAt(d)] \in Nat /\ low <= db.version[PosAt(d)]
      BY <2>1, <3>4, VersionsForward
    <3>6. db.version[PosAt(d)] <= high
      BY <3>3, <3>4, VersionsForward
    <3>. QED  BY <3>3, <3>5, <3>6
  <2>6. Total(e) = UnlockEvents(low, high)
    BY <1>0, <1>4 DEF Total
  <2>7. refs # {}
    BY <2>3
  <2> HIDE DEF low, high, versions, refs
  <2>8. Min(versions) = low
    <3>1. low \in versions /\ \A y \in versions : low <= y
      BY <2>4, <2>5
    <3>2. \A x \in versions : (\A y \in versions : x <= y) => x = low
      BY <2>4, <2>5
    <3>. QED  BY <3>1, <3>2 DEF Min
  <2>9. Max(versions) = high
    <3>1. high \in versions /\ \A y \in versions : high >= y
      BY <2>4, <2>5
    <3>2. \A x \in versions : (\A y \in versions : x >= y) => x = high
      BY <2>4, <2>5
    <3>. QED  BY <3>1, <3>2 DEF Max
  <2>. QED  BY <2>6, <2>7, <2>8, <2>9 DEF versions, refs
<1>5. e < PosEnable \/ e >= PosEnable
  BY <1>0
<1> HIDE DEF refs, versions
<1>. QED  BY <1>3, <1>4, <1>5 DEF refs, versions

\* Unlock events are given once each and in order, those between the first PoS
\* reference seen and the latest, wherever collect_unlock_events was cut into
\* groups, and each at the first pivot whose reference is past it.
THEOREM UnlocksOnceAlways == PacketSpec => []UnlocksOnce
<1>1. ArchiveInv => UnlocksOnce
  <2> SUFFICES ASSUME ArchiveInv
               PROVE  UnlocksOnce
    OBVIOUS
  <2> DEFINE r == Replayed
             last == next - 1
             refs == {EffectivePos(Pivot(e)) : e \in (FirstEpoch - 1)..last} \ {None}
             versions == {db.version[x] : x \in refs}
  <2>0. FirstEpoch \in Nat \ {0} /\ LastEpoch \in Nat /\ FirstEpoch <= LastEpoch + 1 /\ PosEnable \in Nat
    BY ConfigAssumption
  <2>1. db \in Databases /\ next \in Nat /\ (next = FirstEpoch \/ next - 1 \in Epoch)
    BY DEF ArchiveInv
  <2>2. last \in (FirstEpoch - 1)..LastEpoch
    BY <2>0, <2>1 DEF Epoch
  <2>3. FlattenSeq([i \in DOMAIN r |-> r[i].unlocks])
          = IF refs = {} THEN <<>> ELSE UnlockEvents(Min(versions), Max(versions))
    <3>1. FlattenSeq([i \in DOMAIN r |-> r[i].unlocks]) = Total(last)
      BY UnlocksTotal
    <3> HIDE DEF last
    <3>2. Total(last) = IF refs = {} THEN <<>> ELSE UnlockEvents(Min(versions), Max(versions))
      BY <2>1, <2>2, TotalIs
    <3>. QED  BY <3>1, <3>2
  <2>4. ASSUME NEW b \in ToSet(r), NEW v \in ToSet(b.unlocks)
        PROVE  /\ IsPivot(b)
               /\ v < db.version[EffectivePos(b.hash)]
               /\ v >= db.version[EffectivePos(Pivot(b.epoch - 1))]
    <3>1. PICK i \in 1..Len(r) : b = r[i]
      BY ReplayedTrue DEF ToSet
    <3> DEFINE e == b.epoch
               d == e - 1
               from == db.version[PosAt(d)]
               to == db.version[PosAt(e)]
    <3>2. /\ e \in Epoch
          /\ b.unlocks = IF i = End[e] THEN DueAt(e) ELSE <<>>
          /\ i = End[e] => IsPivot(b) /\ b.hash = Pivot(e)
      BY <3>1, UnlocksAt
    <3>3. DueAt(e) = IF PosAt(d) = None THEN <<>> ELSE UnlockEvents(from, to)
      BY DEF DueAt
    <3>4. ToSet(<<>>) = {}
      BY DEF ToSet
    <3>5. i = End[e] /\ v \in ToSet(DueAt(e)) /\ PosAt(d) # None /\ v \in ToSet(UnlockEvents(from, to))
      BY <2>4, <3>2, <3>3, <3>4
    <3>6. d \in (FirstEpoch - 1)..LastEpoch /\ e \in (FirstEpoch - 1)..LastEpoch /\ d <= e
      BY <2>0, <3>2 DEF Epoch
    <3>7. from \in Nat /\ v \in Nat
      <4>1. from \in Nat
        <5> HIDE DEF d
        <5>. QED  BY <2>1, <3>5, <3>6, PosAtFacts
      <4>2. UnlockEvents(from, to) \in Seq(Nat)
        BY <2>1, UnlockEventsType
      <4>3. v \in Nat
        <5> DEFINE s == UnlockEvents(from, to)
        <5>1. s \in Seq(Nat) /\ v \in ToSet(s)
          BY <3>5, <4>2
        <5> HIDE DEF s
        <5>. QED  BY <5>1 DEF ToSet
      <4>. QED  BY <4>1, <4>3
    <3> HIDE DEF from, to
    <3>8. from <= v /\ v < to
      BY <2>1, <3>5, EventsWithin
    <3>9. v >= from
      BY <3>7, <3>8
    <3>. QED  BY <3>2, <3>5, <3>8, <3>9 DEF from, to, PosAt
  <2>. QED  BY <2>3, <2>4, Zenon DEF UnlocksOnce, r, last
<1>. QED  BY <1>1, ArchiveInvAlways, PTL
=============================================================================
