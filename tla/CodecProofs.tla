---------------------------- MODULE CodecProofs ----------------------------
(***************************************************************************)
(* The laws of the two key encodings, for addresses and suffixes of any    *)
(* length over any bytes and for any paddings; of the account key caches,  *)
(* for every derivation, a colliding one included; and of the integer      *)
(* codecs, for every width and every number.                               *)
(***************************************************************************)
EXTENDS MCCodecs, AscendingLemmas, SequenceTheorems, TLAPS

-----------------------------------------------------------------------------
(* The account key caches *)

\* A cache holds derivations under the padding it is stamped with, no others.
Exact(cache) ==
    /\ cache = [built_for |-> cache.built_for, map |-> cache.map]
    /\ cache.map = [a \in DOMAIN cache.map |-> Uncached(a, cache.built_for)]

CachesExact == Exact(delta_cache) /\ Exact(intermediate_cache)

LEMMA DefaultExact == Exact(Default)
BY DEF Exact, Default

LEMMA StampedExact ==
    ASSUME NEW cache, NEW p, Exact(cache)
    PROVE  Exact(Stamped(cache, p)) /\ Stamped(cache, p).built_for = p
BY DEF Exact, Stamped

\* An exact cache answers what hashing would.
LEMMA KeyExact ==
    ASSUME NEW cache, NEW p, NEW a, Exact(cache)
    PROVE  AccountKey(cache, a, p) = Uncached(a, p)
<1> DEFINE c == Stamped(cache, p)
<1>1. Exact(c) /\ c.built_for = p
  BY StampedExact
<1> HIDE DEF c
<1>2. ASSUME a \in DOMAIN c.map
      PROVE  c.map[a] = Uncached(a, p)
  BY <1>1, <1>2 DEF Exact
<1>. QED  BY <1>2 DEF AccountKey, c

LEMMA FilledExact ==
    ASSUME NEW cache, NEW p, NEW a, Exact(cache)
    PROVE  Exact(Filled(cache, a, p))
<1> DEFINE c == Stamped(cache, p)
           f == [x \in DOMAIN c.map \cup {a} |->
                    IF x \in DOMAIN c.map THEN c.map[x] ELSE Uncached(a, p)]
<1>1. Exact(c) /\ c.built_for = p
  BY StampedExact
<1> HIDE DEF c
<1>2. f = [x \in DOMAIN f |-> Uncached(x, p)]
  BY <1>1 DEF Exact
<1>3. Filled(cache, a, p) = [built_for |-> p, map |-> f]
  BY <1>1 DEF Filled, Exact, c
<1>. QED  BY <1>2, <1>3 DEF Exact

LEMMA CachesExactAlways == KeyCacheSpec => []CachesExact
<1>1. KeyCacheInit => CachesExact
  BY DefaultExact DEF KeyCacheInit, CachesExact
<1>2. CachesExact /\ [KeyCacheNext]_acvars => CachesExact'
  <2> SUFFICES ASSUME CachesExact, [KeyCacheNext]_acvars
               PROVE  CachesExact'
    OBVIOUS
  <2>1. ASSUME NEW a \in Address, ReadDelta(a)
        PROVE  CachesExact'
    BY <2>1, FilledExact DEF ReadDelta, CachesExact
  <2>2. ASSUME NEW a \in Address, ReadBelow(a)
        PROVE  CachesExact'
    BY <2>2, FilledExact DEF ReadBelow, CachesExact
  <2>3. CASE RotateCaches
    BY <2>3, DefaultExact DEF RotateCaches, CachesExact
  <2>4. CASE PutIntermediateRaw
    BY <2>4 DEF PutIntermediateRaw, caches, CachesExact
  <2>5. CASE UNCHANGED acvars
    BY <2>5 DEF acvars, caches, CachesExact
  <2>. QED  BY <2>1, <2>2, <2>3, <2>4, <2>5 DEF KeyCacheNext
<1>. QED  BY <1>1, <1>2, PTL DEF KeyCacheSpec

\* A derivation through a cache is the derivation itself, in every reachable
\* state.
THEOREM CachedKeysExactAlways == KeyCacheSpec => []CachedKeysExact
<1>1. CachesExact => CachedKeysExact
  BY KeyExact DEF CachesExact, CachedKeysExact
<1>. QED  BY <1>1, CachesExactAlways, PTL

-----------------------------------------------------------------------------
(* Sequences *)

LEMMA FunctionIsSeq ==
    ASSUME NEW S, NEW n \in Nat, NEW f \in [1..n -> S]
    PROVE  f \in Seq(S) /\ Len(f) = n
OBVIOUS

LEMMA Joined ==
    ASSUME NEW S, NEW s \in Seq(S), NEW t \in Seq(S)
    PROVE  /\ s \o t \in Seq(S) /\ Len(s \o t) = Len(s) + Len(t)
           /\ \A i \in 1..Len(s) : (s \o t)[i] = s[i]
           /\ \A i \in 1..Len(t) : (s \o t)[Len(s) + i] = t[i]
OBVIOUS

\* What a decoder cuts off at the front, and what it goes on with.
LEMMA CutOff ==
    ASSUME NEW S, NEW s \in Seq(S), NEW t \in Seq(S)
    PROVE  /\ SubSeq(s \o t, 1, Len(s)) = s
           /\ SubSeq(s \o t, Len(s) + 1, Len(s \o t)) = t
<1> DEFINE w == s \o t
<1>1. /\ w \in Seq(S) /\ Len(w) = Len(s) + Len(t) /\ Len(s) \in Nat /\ Len(t) \in Nat
      /\ \A i \in 1..Len(s) : w[i] = s[i]
      /\ \A i \in 1..Len(t) : w[Len(s) + i] = t[i]
  BY Joined
<1> HIDE DEF w
<1>2. SubSeq(w, 1, Len(s)) = s
  <2>1. SubSeq(w, 1, Len(s)) = [i \in 1..Len(s) |-> w[i]]
    BY <1>1
  <2>2. s = [i \in 1..Len(s) |-> s[i]]
    OBVIOUS
  <2>. QED  BY <1>1, <2>1, <2>2
<1>3. SubSeq(w, Len(s) + 1, Len(w)) = t
  <2>1. SubSeq(w, Len(s) + 1, Len(w)) = [i \in 1..Len(t) |-> w[Len(s) + i]]
    BY <1>1
  <2>2. t = [i \in 1..Len(t) |-> t[i]]
    OBVIOUS
  <2>. QED  BY <1>1, <2>1, <2>2
<1>. QED  BY <1>2, <1>3 DEF w

LEMMA PrefixOf ==
    ASSUME NEW S, NEW s \in Seq(S), NEW t \in Seq(S), IsPrefix(s, t)
    PROVE  Len(s) <= Len(t) /\ \A i \in 1..Len(s) : s[i] = t[i]
<1>1. Len(s) <= Len(t) /\ SubSeq(s, 1, Len(s)) = SubSeq(t, 1, Len(s))
  BY DEF IsPrefix
<1>2. /\ SubSeq(s, 1, Len(s)) = [i \in 1..Len(s) |-> s[i]]
      /\ SubSeq(t, 1, Len(s)) = [i \in 1..Len(s) |-> t[i]]
  BY <1>1
<1>. QED  BY <1>1, <1>2

LEMMA PrefixIf ==
    ASSUME NEW S, NEW s \in Seq(S), NEW t \in Seq(S), Len(s) <= Len(t),
           \A i \in 1..Len(s) : s[i] = t[i]
    PROVE  IsPrefix(s, t)
<1>1. /\ SubSeq(s, 1, Len(s)) = [i \in 1..Len(s) |-> s[i]]
      /\ SubSeq(t, 1, Len(s)) = [i \in 1..Len(s) |-> t[i]]
  OBVIOUS
<1>. QED  BY <1>1 DEF IsPrefix

LEMMA EmptyIsPrefix ==
    ASSUME NEW S, NEW t \in Seq(S)
    PROVE  IsPrefix(<<>>, t)
BY DEF IsPrefix

\* A marker at the front.
LEMMA Marked ==
    ASSUME NEW S, NEW x \in S, NEW s \in Seq(S)
    PROVE  /\ <<x>> \o s \in Seq(S) /\ Len(<<x>> \o s) = Len(s) + 1
           /\ <<x>> \o s # <<>>
           /\ Tail(<<x>> \o s) = s
           /\ (<<x>> \o s)[1] = x
           /\ \A y \in S : IsPrefix(<<y>>, <<x>> \o s) <=> y = x
<1> DEFINE w == <<x>> \o s
<1>1. <<x>> \in Seq(S) /\ Len(<<x>>) = 1 /\ <<x>>[1] = x
  OBVIOUS
<1>2. w \in Seq(S) /\ Len(w) = Len(s) + 1 /\ Len(s) \in Nat
  BY <1>1, Joined
<1>3. w[1] = x
  OBVIOUS
<1>4. SubSeq(w, 2, Len(w)) = s
  BY <1>1, CutOff
<1>5. Tail(w) = s
  BY <1>4, <1>2
<1>6. ASSUME NEW y \in S
      PROVE  IsPrefix(<<y>>, w) <=> y = x
  <2>1. <<y>> \in Seq(S) /\ Len(<<y>>) = 1 /\ <<y>>[1] = y
    OBVIOUS
  <2> HIDE DEF w
  <2>2. <<y>> \in Seq(S) /\ w \in Seq(S)
    BY <1>2, <2>1
  <2>3. ASSUME IsPrefix(<<y>>, w)
        PROVE  y = x
    <3>1. \A i \in 1..Len(<<y>>) : <<y>>[i] = w[i]
      BY <2>2, <2>3, PrefixOf, Zenon
    <3>. QED  BY <1>3, <2>1, <3>1
  <2>4. ASSUME y = x
        PROVE  IsPrefix(<<y>>, w)
    <3>1. Len(<<y>>) <= Len(w) /\ \A i \in 1..Len(<<y>>) : <<y>>[i] = w[i]
      BY <1>2, <1>3, <2>1, <2>4
    <3>. QED  BY <2>2, <3>1, PrefixIf, Zenon
  <2>. QED  BY <2>3, <2>4
<1>7. w # <<>>
  BY <1>2
<1>. QED  BY <1>2, <1>3, <1>5, <1>6, <1>7

\* Equal beginnings can be taken off.
LEMMA PrefixBehind ==
    ASSUME NEW S, NEW a \in Seq(S), NEW b \in Seq(S), Len(a) = Len(b),
           NEW s \in Seq(S), NEW t \in Seq(S)
    PROVE  IsPrefix(a \o s, b \o t) <=> a = b /\ IsPrefix(s, t)
<1> DEFINE v == a \o s
           w == b \o t
           n == Len(a)
<1>1. /\ v \in Seq(S) /\ Len(v) = n + Len(s) /\ n \in Nat /\ Len(s) \in Nat /\ Len(t) \in Nat
      /\ w \in Seq(S) /\ Len(w) = n + Len(t)
      /\ \A i \in 1..n : v[i] = a[i] /\ w[i] = b[i]
      /\ \A i \in 1..Len(s) : v[n + i] = s[i]
      /\ \A i \in 1..Len(t) : w[n + i] = t[i]
  <2>1. n \in Nat /\ Len(s) \in Nat /\ Len(t) \in Nat /\ Len(b) = n
    OBVIOUS
  <2>2. /\ v \in Seq(S) /\ Len(v) = Len(a) + Len(s)
        /\ \A i \in 1..Len(a) : v[i] = a[i]
        /\ \A i \in 1..Len(s) : v[Len(a) + i] = s[i]
    OBVIOUS
  <2>3. /\ w \in Seq(S) /\ Len(w) = Len(b) + Len(t)
        /\ \A i \in 1..Len(b) : w[i] = b[i]
        /\ \A i \in 1..Len(t) : w[Len(b) + i] = t[i]
    OBVIOUS
  <2> HIDE DEF v, w
  <2>. QED  BY <2>1, <2>2, <2>3
<1> HIDE DEF v, w, n
<1>2. ASSUME IsPrefix(v, w)
      PROVE  a = b /\ IsPrefix(s, t)
  <2>0. Len(v) <= Len(w) /\ \A i \in 1..Len(v) : v[i] = w[i]
    <3>1. v \in Seq(S) /\ w \in Seq(S)
      BY <1>1
    <3>. QED  BY <1>2, <3>1, PrefixOf, Zenon
  <2>1. Len(s) <= Len(t) /\ \A i \in 1..(n + Len(s)) : v[i] = w[i]
    BY <1>1, <2>0
  <2>2. \A i \in 1..n : a[i] = b[i]
    BY <1>1, <2>1
  <2>3. a = b
    BY <2>2 DEF n
  <2>4. ASSUME NEW i \in 1..Len(s)
        PROVE  s[i] = t[i]
    <3>1. n + i \in 1..(n + Len(s)) /\ i \in 1..Len(t)
      BY <1>1, <2>1
    <3>. QED  BY <1>1, <2>1, <3>1
  <2>. QED  BY <2>1, <2>3, <2>4, PrefixIf
<1>3. ASSUME a = b, IsPrefix(s, t)
      PROVE  IsPrefix(v, w)
  <2>0. Len(s) <= Len(t) /\ \A i \in 1..Len(s) : s[i] = t[i]
    BY <1>3, PrefixOf
  <2>1. Len(v) <= Len(w)
    BY <1>1, <2>0
  <2>2. ASSUME NEW i \in 1..Len(v)
        PROVE  v[i] = w[i]
    <3>1. CASE i <= n
      <4>1. i \in 1..n
        BY <1>1, <3>1
      <4>. QED  BY <1>1, <1>3, <4>1
    <3>2. CASE i > n
      <4>1. i - n \in 1..Len(s) /\ i - n \in 1..Len(t) /\ n + (i - n) = i
        BY <1>1, <2>0, <3>2
      <4>2. v[n + (i - n)] = s[i - n] /\ w[n + (i - n)] = t[i - n] /\ s[i - n] = t[i - n]
        BY <1>1, <2>0, <4>1
      <4>. QED  BY <4>1, <4>2
    <3>. QED  BY <1>1, <3>1, <3>2
  <2>3. v \in Seq(S) /\ w \in Seq(S)
    BY <1>1
  <2>. QED  BY <2>1, <2>2, <2>3, PrefixIf
<1>. QED  BY <1>2, <1>3 DEF v, w

-----------------------------------------------------------------------------
(* The keys a caller stores under *)

Pads == Pad \cup {1}

Markers == {STORAGE_PREFIX, CODE_HASH_PREFIX, DEPOSIT_LIST_PREFIX, VOTE_LIST_PREFIX}

Token == {<<b>> : b \in AddressByte} \cup {EVM_SPACE_TYPE} \cup Markers
         \cup {<<"account", p, a>> : p \in Pads, a \in Addresses}
         \cup {<<"storage", p, x>> : p \in Pads, x \in StorageBytes}

LEMMA BytesAreTokens ==
    ASSUME NEW n \in Nat
    PROVE  Bytes(n) \subseteq Seq(Token) /\ \A s \in Bytes(n) : Len(s) = n
<1> DEFINE B == {<<b>> : b \in AddressByte}
<1> SUFFICES ASSUME NEW s \in [1..n -> B]
             PROVE  s \in Seq(Token) /\ Len(s) = n
  BY DEF Bytes
<1>1. B \subseteq Token
  BY DEF Token
<1> HIDE DEF B
<1>2. s \in [1..n -> Token]
  BY <1>1
<1>. QED  BY <1>2, FunctionIsSeq

LEMMA Parts ==
    /\ ACCOUNT_BYTES \in Nat \ {0}
    /\ Addresses \subseteq Seq(Token) /\ \A a \in Addresses : Len(a) = ACCOUNT_BYTES
    /\ StorageBytes \subseteq Seq(Token) /\ \A x \in StorageBytes : x # <<>>
    /\ ShortAddresses \subseteq Seq(Token) /\ \A a \in ShortAddresses : Len(a) < ACCOUNT_BYTES
<1>1. ACCOUNT_BYTES \in Nat \ {0}
  BY AccountBytesAssumption
<1>2. ASSUME NEW x \in StorageBytes
      PROVE  x \in Seq(Token) /\ x # <<>>
  <2>1. PICK n \in 1..SuffixBytes : x \in Bytes(n)
    BY DEF StorageBytes
  <2>2. n \in Nat /\ n # 0
    BY SuffixAssumption
  <2>3. x \in Seq(Token) /\ Len(x) = n
    BY <2>1, <2>2, BytesAreTokens
  <2>. QED  BY <2>2, <2>3
<1>3. ASSUME NEW a \in ShortAddresses
      PROVE  a \in Seq(Token) /\ Len(a) < ACCOUNT_BYTES
  <2>1. PICK n \in 0..(ACCOUNT_BYTES - 1) : a \in Bytes(n)
    BY DEF ShortAddresses
  <2>2. n \in Nat /\ n < ACCOUNT_BYTES
    BY <1>1
  <2>. QED  BY <2>1, <2>2, BytesAreTokens
<1>. QED  BY <1>1, <1>2, <1>3, BytesAreTokens DEF Addresses

LEMMA FullKey ==
    ASSUME NEW k \in FullKeys
    PROVE  /\ k = StorageKey(k.kind, k.address, k.suffix, k.space)
           /\ k.address \in Addresses /\ k.space \in Spaces
           /\ \/ /\ k.kind \in {"Account", "StorageRoot", "CodeRoot", "DepositList", "VoteList"}
                 /\ k.suffix = <<>>
              \/ k.kind \in {"Storage", "Code"} /\ k.suffix \in StorageBytes
BY DEF FullKeys, StorageKey

\* What stands behind the address and the space marker.
Kind(k) == TypeMarker(k) \o k.suffix

DeltaKind(k, p) ==
    TypeMarker(k) \o (IF k.kind = "Storage" THEN <<StorageKeyPadding(k.suffix, p)>> ELSE <<>>)
    \o k.suffix

\* It is empty or begins with a marker other than the one of the space.
Clear(r) == r = <<>> \/ \E m \in Markers : \E s \in Seq(Token) : r = <<m>> \o s

LEMMA MarkersDiffer ==
    /\ EVM_SPACE_TYPE \notin Markers
    /\ STORAGE_PREFIX # CODE_HASH_PREFIX /\ STORAGE_PREFIX # DEPOSIT_LIST_PREFIX
    /\ STORAGE_PREFIX # VOTE_LIST_PREFIX /\ CODE_HASH_PREFIX # DEPOSIT_LIST_PREFIX
    /\ CODE_HASH_PREFIX # VOTE_LIST_PREFIX /\ DEPOSIT_LIST_PREFIX # VOTE_LIST_PREFIX
    /\ EVM_SPACE_TYPE \in Token /\ Markers \subseteq Token
BY DEF Markers, Token, EVM_SPACE_TYPE, STORAGE_PREFIX, CODE_HASH_PREFIX, DEPOSIT_LIST_PREFIX,
       VOTE_LIST_PREFIX

\* The parts of a key, by its kind.
LEMMA Kinds ==
    ASSUME NEW k \in FullKeys, NEW p \in Pads
    PROVE  /\ k.suffix \in Seq(Token)
           /\ k.kind = "Account" => /\ TypeMarker(k) = <<>> /\ Kind(k) = <<>>
                                    /\ DeltaKind(k, p) = <<>>
           /\ k.kind \in {"StorageRoot", "Storage"} => Kind(k) = <<STORAGE_PREFIX>> \o k.suffix
           /\ k.kind = "StorageRoot" => DeltaKind(k, p) = <<STORAGE_PREFIX>>
           /\ k.kind = "Storage" =>
                 DeltaKind(k, p) = <<STORAGE_PREFIX>> \o (<<StorageKeyPadding(k.suffix, p)>> \o k.suffix)
           /\ k.kind \in {"CodeRoot", "Code"} =>
                 Kind(k) = <<CODE_HASH_PREFIX>> \o k.suffix /\ DeltaKind(k, p) = Kind(k)
           /\ k.kind = "DepositList" =>
                 Kind(k) = <<DEPOSIT_LIST_PREFIX>> /\ DeltaKind(k, p) = Kind(k)
           /\ k.kind = "VoteList" =>
                 Kind(k) = <<VOTE_LIST_PREFIX>> /\ DeltaKind(k, p) = Kind(k)
<1>1. k.suffix \in Seq(Token)
  BY FullKey, Parts, EmptySeq
<1>2. \A s \in Seq(Token) : s \o <<>> = s /\ <<>> \o s = s
  BY ConcatEmptySeq
<1>3. \A m \in Token : <<m>> \in Seq(Token)
  OBVIOUS
<1>4. Markers \subseteq Token
  BY MarkersDiffer
<1>5. CASE k.kind = "Account"
  <2>1. TypeMarker(k) = <<>> /\ k.suffix = <<>>
    BY <1>5, FullKey DEF TypeMarker
  <2>. QED  BY <1>1, <1>2, <1>5, <2>1 DEF Kind, DeltaKind
<1>6. CASE k.kind = "StorageRoot"
  <2>1. TypeMarker(k) = <<STORAGE_PREFIX>> /\ k.suffix = <<>>
    BY <1>6, FullKey DEF TypeMarker
  <2>2. <<STORAGE_PREFIX>> \in Seq(Token)
    BY <1>3, <1>4 DEF Markers
  <2>. QED  BY <1>1, <1>2, <1>6, <2>1, <2>2 DEF Kind, DeltaKind
<1>7. CASE k.kind = "Storage"
  <2>1. TypeMarker(k) = <<STORAGE_PREFIX>> /\ k.suffix \in StorageBytes
    BY <1>7, FullKey DEF TypeMarker
  <2>2. StorageKeyPadding(k.suffix, p) \in Token
    BY <2>1 DEF Token, StorageKeyPadding
  <2>3. <<STORAGE_PREFIX>> \in Seq(Token) /\ <<StorageKeyPadding(k.suffix, p)>> \in Seq(Token)
    BY <1>3, <1>4, <2>2 DEF Markers
  <2>4. (<<STORAGE_PREFIX>> \o <<StorageKeyPadding(k.suffix, p)>>) \o k.suffix
          = <<STORAGE_PREFIX>> \o (<<StorageKeyPadding(k.suffix, p)>> \o k.suffix)
    BY <1>1, <2>3, ConcatAssociative
  <2>. QED  BY <1>1, <1>7, <2>1, <2>4 DEF Kind, DeltaKind
<1>8. CASE k.kind = "CodeRoot"
  <2>1. TypeMarker(k) = <<CODE_HASH_PREFIX>> /\ k.suffix = <<>>
    BY <1>8, FullKey DEF TypeMarker
  <2>2. <<CODE_HASH_PREFIX>> \in Seq(Token)
    BY <1>3, <1>4 DEF Markers
  <2>. QED  BY <1>1, <1>2, <1>8, <2>1, <2>2 DEF Kind, DeltaKind
<1>9. CASE k.kind = "Code"
  <2>1. TypeMarker(k) = <<CODE_HASH_PREFIX>> /\ k.suffix \in Seq(Token)
    BY <1>1, <1>9 DEF TypeMarker
  <2>2. <<CODE_HASH_PREFIX>> \in Seq(Token)
    BY <1>3, <1>4 DEF Markers
  <2>. QED  BY <1>1, <1>2, <1>9, <2>1, <2>2 DEF Kind, DeltaKind
<1>10. CASE k.kind = "DepositList"
  <2>1. TypeMarker(k) = <<DEPOSIT_LIST_PREFIX>> /\ k.suffix = <<>>
    BY <1>10, FullKey DEF TypeMarker
  <2>2. <<DEPOSIT_LIST_PREFIX>> \in Seq(Token)
    BY <1>3, <1>4 DEF Markers
  <2>. QED  BY <1>1, <1>2, <1>10, <2>1, <2>2 DEF Kind, DeltaKind
<1>11. CASE k.kind = "VoteList"
  <2>1. TypeMarker(k) = <<VOTE_LIST_PREFIX>> /\ k.suffix = <<>>
    BY <1>11, FullKey DEF TypeMarker
  <2>2. <<VOTE_LIST_PREFIX>> \in Seq(Token)
    BY <1>3, <1>4 DEF Markers
  <2>. QED  BY <1>1, <1>2, <1>11, <2>1, <2>2 DEF Kind, DeltaKind
<1>. QED  BY <1>5, <1>6, <1>7, <1>8, <1>9, <1>10, <1>11, FullKey

LEMMA KindsClear ==
    ASSUME NEW k \in FullKeys, NEW p \in Pads
    PROVE  /\ Kind(k) \in Seq(Token) /\ Clear(Kind(k))
           /\ DeltaKind(k, p) \in Seq(Token) /\ Clear(DeltaKind(k, p))
<1> DEFINE r(x) == x \in Seq(Token) /\ Clear(x)
<1>1. k.suffix \in Seq(Token)
  BY Kinds
<1>2. r(<<>>)
  BY EmptySeq DEF Clear
<1>3. ASSUME NEW m \in Markers, NEW s \in Seq(Token)
      PROVE  r(<<m>> \o s)
  <2>1. m \in Token
    BY MarkersDiffer
  <2>. QED  BY <2>1, Marked DEF Clear
<1>4. ASSUME NEW m \in Markers
      PROVE  r(<<m>>)
  <2>1. <<m>> \in Seq(Token)
    BY MarkersDiffer
  <2>2. <<m>> = <<m>> \o <<>>
    BY <2>1, ConcatEmptySeq
  <2>. QED  BY <1>3, <2>1, <2>2, EmptySeq DEF Clear
<1>5. /\ STORAGE_PREFIX \in Markers /\ CODE_HASH_PREFIX \in Markers
      /\ DEPOSIT_LIST_PREFIX \in Markers /\ VOTE_LIST_PREFIX \in Markers
  BY DEF Markers
<1> HIDE DEF r
<1>6. k.kind = "Storage" => <<StorageKeyPadding(k.suffix, p)>> \o k.suffix \in Seq(Token)
  <2>1. k.kind = "Storage" => StorageKeyPadding(k.suffix, p) \in Token
    BY FullKey DEF Token, StorageKeyPadding
  <2>. QED  BY <1>1, <2>1, Marked
<1>7. r(Kind(k)) /\ r(DeltaKind(k, p))
  <2>1. CASE k.kind = "Account"
    BY <1>2, <2>1, Kinds
  <2>2. CASE k.kind = "StorageRoot"
    BY <1>1, <1>3, <1>4, <1>5, <2>2, Kinds
  <2>3. CASE k.kind = "Storage"
    BY <1>1, <1>3, <1>5, <1>6, <2>3, Kinds
  <2>4. CASE k.kind \in {"CodeRoot", "Code"}
    BY <1>1, <1>3, <1>5, <2>4, Kinds
  <2>5. CASE k.kind \in {"DepositList", "VoteList"}
    BY <1>4, <1>5, <2>5, Kinds
  <2>. QED  BY <2>1, <2>2, <2>3, <2>4, <2>5, FullKey
<1>. QED  BY <1>7 DEF r

LEMMA SpaceSeq ==
    ASSUME NEW k \in FullKeys
    PROVE  SpaceMarker(k) \in Seq(Token)
<1>1. EVM_SPACE_TYPE \in Token
  BY MarkersDiffer
<1>. QED  BY <1>1, EmptySeq DEF SpaceMarker

LEMMA AccountSeq ==
    ASSUME NEW a \in Addresses, NEW p \in Pads
    PROVE  /\ NewAccountKey(a, p) \in Seq(Token)
           /\ Len(NewAccountKey(a, p)) = ACCOUNT_KEYPART
           /\ NewAccountKey(a, p)[1] = <<"account", p, a>>
           /\ Tail(NewAccountKey(a, p)) = a
<1>1. <<"account", p, a>> \in Token
  BY DEF Token
<1>2. a \in Seq(Token) /\ Len(a) = ACCOUNT_BYTES
  BY Parts
<1>. QED  BY <1>1, <1>2, Marked DEF NewAccountKey, ACCOUNT_KEYPART

\* The two encodings of a key, by their parts.
LEMMA Encodings ==
    ASSUME NEW k \in FullKeys, NEW p \in Pads
    PROVE  /\ ToKeyBytes(k) = k.address \o (SpaceMarker(k) \o Kind(k))
           /\ ToDeltaMptKeyBytes(k, p)
                = NewAccountKey(k.address, p) \o (SpaceMarker(k) \o DeltaKind(k, p))
<1>1. /\ k.address \in Seq(Token) /\ Len(k.address) = ACCOUNT_BYTES
      /\ SpaceMarker(k) \in Seq(Token) /\ k.suffix \in Seq(Token)
      /\ NewAccountKey(k.address, p) \in Seq(Token)
  BY FullKey, Parts, SpaceSeq, Kinds, AccountSeq
<1>2. TypeMarker(k) \in Seq(Token)
  <2>1. \A m \in Markers : <<m>> \in Seq(Token)
    BY MarkersDiffer
  <2>. QED  BY <2>1, FullKey, EmptySeq DEF TypeMarker, Markers
<1> DEFINE h == IF k.kind = "Storage" THEN <<StorageKeyPadding(k.suffix, p)>> ELSE <<>>
<1>3. h \in Seq(Token)
  <2>1. k.kind = "Storage" => StorageKeyPadding(k.suffix, p) \in Token
    BY FullKey DEF Token, StorageKeyPadding
  <2>. QED  BY <2>1, EmptySeq
<1>4. ~IsShortAccount(k) /\ k.kind \notin {"Empty", "AddressPrefix"}
  BY <1>1, FullKey, Parts DEF IsShortAccount
<1>6. ToKeyBytes(k) = ((k.address \o SpaceMarker(k)) \o TypeMarker(k)) \o k.suffix
  BY <1>4 DEF ToKeyBytes
<1>7. ToDeltaMptKeyBytes(k, p)
        = (((NewAccountKey(k.address, p) \o SpaceMarker(k)) \o TypeMarker(k)) \o h) \o k.suffix
  BY <1>4 DEF ToDeltaMptKeyBytes
<1>8. Kind(k) = TypeMarker(k) \o k.suffix /\ DeltaKind(k, p) = (TypeMarker(k) \o h) \o k.suffix
  BY DEF Kind, DeltaKind
<1> HIDE DEF h
<1> DEFINE a == k.address
           n == NewAccountKey(k.address, p)
           m == SpaceMarker(k)
           t == TypeMarker(k)
           x == k.suffix
<1>9. /\ a \in Seq(Token) /\ n \in Seq(Token) /\ m \in Seq(Token) /\ t \in Seq(Token)
      /\ x \in Seq(Token)
  BY <1>1, <1>2
<1> HIDE DEF a, n, m, t, x
<1> DEFINE mt == m \o t
           th == t \o h
           tx == t \o x
<1>10. mt \in Seq(Token) /\ th \in Seq(Token) /\ tx \in Seq(Token)
  BY <1>3, <1>9, ConcatProperties
<1>11. /\ (a \o m) \o t = a \o mt /\ (a \o mt) \o x = a \o (mt \o x) /\ mt \o x = m \o tx
       /\ (n \o m) \o t = n \o mt /\ (n \o mt) \o h = n \o (mt \o h) /\ mt \o h = m \o th
  <2>1. (a \o m) \o t = a \o mt
    <3>1. a \in Seq(Token) /\ m \in Seq(Token) /\ t \in Seq(Token)
      BY <1>3, <1>9, <1>10
    <3>. QED  BY <3>1, ConcatAssociative
  <2>2. (n \o m) \o t = n \o mt
    <3>1. n \in Seq(Token) /\ m \in Seq(Token) /\ t \in Seq(Token)
      BY <1>3, <1>9, <1>10
    <3>. QED  BY <3>1, ConcatAssociative
  <2>3. mt \o x = m \o tx
    <3>1. m \in Seq(Token) /\ t \in Seq(Token) /\ x \in Seq(Token)
      BY <1>3, <1>9, <1>10
    <3>. QED  BY <3>1, ConcatAssociative
  <2>4. mt \o h = m \o th
    <3>1. m \in Seq(Token) /\ t \in Seq(Token) /\ h \in Seq(Token)
      BY <1>3, <1>9, <1>10
    <3>. QED  BY <3>1, ConcatAssociative
  <2> HIDE DEF mt, th, tx
  <2>5. (a \o mt) \o x = a \o (mt \o x)
    <3>1. a \in Seq(Token) /\ mt \in Seq(Token) /\ x \in Seq(Token)
      BY <1>3, <1>9, <1>10
    <3>. QED  BY <3>1, ConcatAssociative
  <2>6. (n \o mt) \o h = n \o (mt \o h)
    <3>1. n \in Seq(Token) /\ mt \in Seq(Token) /\ h \in Seq(Token)
      BY <1>3, <1>9, <1>10
    <3>. QED  BY <3>1, ConcatAssociative
  <2>. QED  BY <2>1, <2>2, <2>3, <2>4, <2>5, <2>6
<1> DEFINE mth == m \o th
<1>12. mth \in Seq(Token)
  BY <1>9, <1>10, ConcatProperties
<1>13. (n \o mth) \o x = n \o (mth \o x) /\ mth \o x = m \o (th \o x)
  <2>1. mth \o x = m \o (th \o x)
    <3> HIDE DEF th
    <3>. QED  BY <1>9, <1>10, ConcatAssociative, SMTT(30)
  <2> HIDE DEF mth, th
  <2>2. (n \o mth) \o x = n \o (mth \o x)
    BY <1>9, <1>12, ConcatAssociative, SMTT(30)
  <2>. QED  BY <2>1, <2>2
<1> HIDE DEF mt, mth
<1>14. ((a \o m) \o t) \o x = a \o (m \o tx)
  BY <1>11
<1>15. (((n \o m) \o t) \o h) \o x = n \o (m \o (th \o x))
  BY <1>11, <1>13 DEF mth
<1>. QED  BY <1>6, <1>7, <1>8, <1>14, <1>15 DEF a, n, m, t, x

\* The space marker is told from what stands behind it.
LEMMA SpaceCut ==
    ASSUME NEW k \in FullKeys, NEW r \in Seq(Token), Clear(r)
    PROVE  LET tail == SpaceMarker(k) \o r
               isEvm == IsPrefix(<<EVM_SPACE_TYPE>>, tail)
           IN  /\ (IF isEvm THEN Tail(tail) ELSE tail) = r
               /\ (IF isEvm THEN "Ethereum" ELSE "Native") = k.space
<1> DEFINE tail == SpaceMarker(k) \o r
           isEvm == IsPrefix(<<EVM_SPACE_TYPE>>, tail)
<1>1. EVM_SPACE_TYPE \in Token
  BY MarkersDiffer
<1>2. CASE k.space = "Ethereum"
  <2>1. tail = <<EVM_SPACE_TYPE>> \o r
    BY <1>2 DEF SpaceMarker
  <2>2. isEvm /\ Tail(tail) = r
    BY <1>1, <2>1, Marked
  <2>. QED  BY <1>2, <2>2
<1>3. CASE k.space = "Native"
  <2>1. tail = r
    BY <1>3, ConcatEmptySeq DEF SpaceMarker
  <2>2. ~IsPrefix(<<EVM_SPACE_TYPE>>, r)
    <3>1. CASE r = <<>>
      BY <3>1 DEF IsPrefix
    <3>2. CASE \E m \in Markers : \E s \in Seq(Token) : r = <<m>> \o s
      BY <1>1, <3>2, Marked, MarkersDiffer
    <3>. QED  BY <3>1, <3>2 DEF Clear
  <2>. QED  BY <1>3, <2>1, <2>2
<1>. QED  BY <1>2, <1>3, FullKey DEF Spaces

-----------------------------------------------------------------------------
(* The decoders invert the encoders *)

\* No other marker stands at the beginning of r.
Starts(r, m) ==
    /\ r # <<>>
    /\ \A x \in Markers : (IsPrefix(<<x>>, r) <=> x = m) /\ (r = <<x>> => x = m)

LEMMA BehindMarker ==
    ASSUME NEW m \in Markers, NEW s \in Seq(Token)
    PROVE  /\ Tail(<<m>> \o s) = s /\ Len(<<m>> \o s) = Len(s) + 1
           /\ Starts(<<m>> \o s, m)
<1>1. /\ Tail(<<m>> \o s) = s /\ <<m>> \o s # <<>> /\ Len(<<m>> \o s) = Len(s) + 1
      /\ \A x \in Markers : IsPrefix(<<x>>, <<m>> \o s) <=> x = m
      /\ (<<m>> \o s)[1] = m
  BY Marked, MarkersDiffer
<1>2. \A x \in Markers : <<x>>[1] = x
  OBVIOUS
<1>3. \A x \in Markers : <<m>> \o s = <<x>> => x = m
  BY <1>1, <1>2
<1>. QED  BY <1>1, <1>3 DEF Starts

LEMMA MarkerAlone ==
    ASSUME NEW m \in Markers
    PROVE  Tail(<<m>>) = <<>> /\ Len(<<m>>) = 1 /\ Starts(<<m>>, m)
<1>1. m \in Token /\ <<m>> \in Seq(Token)
  BY MarkersDiffer
<1>2. <<m>> = <<m>> \o <<>>
  BY <1>1, ConcatEmptySeq
<1>3. Starts(<<m>> \o <<>>, m)
  BY BehindMarker, EmptySeq
<1>4. Tail(<<m>>) = <<>> /\ Len(<<m>>) = 1
  OBVIOUS
<1>. QED  BY <1>2, <1>3, <1>4

LEMMA MarkersIn ==
    /\ STORAGE_PREFIX \in Markers /\ CODE_HASH_PREFIX \in Markers
    /\ DEPOSIT_LIST_PREFIX \in Markers /\ VOTE_LIST_PREFIX \in Markers
BY DEF Markers

\* Which cases of a decoder apply.
LEMMA StartsWith ==
    ASSUME NEW r
    PROVE  /\ Starts(r, STORAGE_PREFIX) =>
                 /\ r # <<>> /\ IsPrefix(<<STORAGE_PREFIX>>, r)
                 /\ ~IsPrefix(<<CODE_HASH_PREFIX>>, r) /\ ~IsPrefix(<<DEPOSIT_LIST_PREFIX>>, r)
                 /\ ~IsPrefix(<<VOTE_LIST_PREFIX>>, r)
                 /\ r # <<DEPOSIT_LIST_PREFIX>> /\ r # <<VOTE_LIST_PREFIX>>
           /\ Starts(r, CODE_HASH_PREFIX) =>
                 /\ r # <<>> /\ ~IsPrefix(<<STORAGE_PREFIX>>, r)
                 /\ IsPrefix(<<CODE_HASH_PREFIX>>, r) /\ ~IsPrefix(<<DEPOSIT_LIST_PREFIX>>, r)
                 /\ ~IsPrefix(<<VOTE_LIST_PREFIX>>, r)
                 /\ r # <<DEPOSIT_LIST_PREFIX>> /\ r # <<VOTE_LIST_PREFIX>>
           /\ Starts(r, DEPOSIT_LIST_PREFIX) =>
                 /\ r # <<>> /\ ~IsPrefix(<<STORAGE_PREFIX>>, r)
                 /\ ~IsPrefix(<<CODE_HASH_PREFIX>>, r) /\ IsPrefix(<<DEPOSIT_LIST_PREFIX>>, r)
                 /\ ~IsPrefix(<<VOTE_LIST_PREFIX>>, r) /\ r # <<VOTE_LIST_PREFIX>>
           /\ Starts(r, VOTE_LIST_PREFIX) =>
                 /\ r # <<>> /\ ~IsPrefix(<<STORAGE_PREFIX>>, r)
                 /\ ~IsPrefix(<<CODE_HASH_PREFIX>>, r) /\ ~IsPrefix(<<DEPOSIT_LIST_PREFIX>>, r)
                 /\ IsPrefix(<<VOTE_LIST_PREFIX>>, r) /\ r # <<DEPOSIT_LIST_PREFIX>>
BY MarkersIn, MarkersDiffer DEF Starts

\* A stored key comes back from its canonical bytes.
LEMMA CanonicalRoundTrip ==
    ASSUME NEW k \in FullKeys
    PROVE  FromKeyBytes(ToKeyBytes(k)) = k
<1> DEFINE raw == ToKeyBytes(k)
           behind_address == SpaceMarker(k) \o Kind(k)
<1>1. 1 \in Pads
  BY DEF Pads
<1>2. /\ k.address \in Seq(Token) /\ Len(k.address) = ACCOUNT_BYTES /\ ACCOUNT_BYTES \in Nat \ {0}
      /\ k.suffix \in Seq(Token)
  BY <1>1, FullKey, Parts, Kinds
<1>3. behind_address \in Seq(Token)
  BY <1>1, SpaceSeq, KindsClear, ConcatProperties
<1>4. raw = k.address \o behind_address
  BY <1>1, Encodings
<1> HIDE DEF raw, behind_address
<1>5. /\ SubSeq(raw, 1, ACCOUNT_BYTES) = k.address
      /\ SubSeq(raw, ACCOUNT_BYTES + 1, Len(raw)) = behind_address
      /\ Len(raw) >= ACCOUNT_BYTES /\ raw # <<>>
  <2>1. SubSeq(raw, 1, Len(k.address)) = k.address
    BY <1>2, <1>3, <1>4, CutOff
  <2>2. SubSeq(raw, Len(k.address) + 1, Len(raw)) = behind_address
    BY <1>2, <1>3, <1>4, CutOff
  <2>3. raw \in Seq(Token) /\ Len(raw) = Len(k.address) + Len(behind_address)
    BY <1>2, <1>3, <1>4, ConcatProperties
  <2>4. Len(behind_address) \in Nat
    BY <1>3
  <2>5. raw # <<>>
    BY <1>2, <2>3, <2>4
  <2>. QED  BY <1>2, <2>1, <2>2, <2>3, <2>4, <2>5
<1> DEFINE isEvm == IsPrefix(<<EVM_SPACE_TYPE>>, behind_address)
<1>6. /\ (IF isEvm THEN Tail(behind_address) ELSE behind_address) = Kind(k)
      /\ (IF isEvm THEN "Ethereum" ELSE "Native") = k.space
  BY <1>1, SpaceCut, KindsClear DEF behind_address
<1> HIDE DEF isEvm
<1> DEFINE rest == Kind(k)
           decoded ==
             CASE rest = <<>> -> StorageKey("Account", k.address, <<>>, k.space)
               [] IsPrefix(<<STORAGE_PREFIX>>, rest) ->
                    Suffixed("StorageRoot", "Storage", k.address, Tail(rest), k.space)
               [] IsPrefix(<<CODE_HASH_PREFIX>>, rest) ->
                    Suffixed("CodeRoot", "Code", k.address, Tail(rest), k.space)
               [] rest = <<DEPOSIT_LIST_PREFIX>> ->
                    StorageKey("DepositList", k.address, <<>>, k.space)
               [] rest = <<VOTE_LIST_PREFIX>> ->
                    StorageKey("VoteList", k.address, <<>>, k.space)
               [] OTHER -> InvalidKey
<1>7. FromKeyBytes(raw) = decoded
  <2>1. ~(Len(raw) < ACCOUNT_BYTES)
    <3>1. raw \in Seq(Token)
      BY <1>2, <1>3, <1>4, ConcatProperties
    <3>. QED  BY <1>2, <1>5, <3>1
  <2>. QED  BY <1>5, <1>6, <2>1, Zenon DEF FromKeyBytes, isEvm
<1>8. decoded = k
  <2> HIDE DEF rest
  <2>1. CASE k.kind = "Account"
    <3>1. rest = <<>>
      BY <1>1, <2>1, Kinds DEF rest
    <3>2. ~IsPrefix(<<STORAGE_PREFIX>>, rest) /\ ~IsPrefix(<<CODE_HASH_PREFIX>>, rest)
      BY <3>1 DEF IsPrefix
    <3>3. StorageKey("Account", k.address, <<>>, k.space) = k
      BY <2>1, FullKey
    <3>. QED  BY <3>1, <3>2, <3>3
  <2>2. CASE k.kind \in {"StorageRoot", "Storage"}
    <3>1. rest = <<STORAGE_PREFIX>> \o k.suffix
      BY <1>1, <2>2, Kinds DEF rest
    <3>2. Starts(rest, STORAGE_PREFIX) /\ Tail(rest) = k.suffix
      BY <1>2, <3>1, BehindMarker, MarkersIn
    <3>3. Suffixed("StorageRoot", "Storage", k.address, k.suffix, k.space) = k
      BY <2>2, FullKey, Parts DEF Suffixed
    <3>. QED  BY <3>2, <3>3, StartsWith
  <2>3. CASE k.kind \in {"CodeRoot", "Code"}
    <3>1. rest = <<CODE_HASH_PREFIX>> \o k.suffix
      BY <1>1, <2>3, Kinds DEF rest
    <3>2. Starts(rest, CODE_HASH_PREFIX) /\ Tail(rest) = k.suffix
      BY <1>2, <3>1, BehindMarker, MarkersIn
    <3>3. Suffixed("CodeRoot", "Code", k.address, k.suffix, k.space) = k
      BY <2>3, FullKey, Parts DEF Suffixed
    <3>. QED  BY <3>2, <3>3, StartsWith
  <2>4. CASE k.kind = "DepositList"
    <3>1. rest = <<DEPOSIT_LIST_PREFIX>>
      BY <1>1, <2>4, Kinds DEF rest
    <3>2. Starts(rest, DEPOSIT_LIST_PREFIX)
      BY <3>1, MarkerAlone, MarkersIn
    <3>3. StorageKey("DepositList", k.address, <<>>, k.space) = k
      BY <2>4, FullKey
    <3>. QED  BY <3>1, <3>2, <3>3, StartsWith
  <2>5. CASE k.kind = "VoteList"
    <3>1. rest = <<VOTE_LIST_PREFIX>>
      BY <1>1, <2>5, Kinds DEF rest
    <3>2. Starts(rest, VOTE_LIST_PREFIX)
      BY <3>1, MarkerAlone, MarkersIn
    <3>3. StorageKey("VoteList", k.address, <<>>, k.space) = k
      BY <2>5, FullKey
    <3>. QED  BY <3>1, <3>2, <3>3, StartsWith
  <2>. QED  BY <2>1, <2>2, <2>3, <2>4, <2>5, FullKey
<1>. QED  BY <1>7, <1>8 DEF raw

\* Inside the delta a storage key is preceded by its digest, which is cut off
\* unread.
LEMMA StorageCut ==
    ASSUME NEW k \in FullKeys, NEW p \in Pads, k.kind = "Storage"
    PROVE  /\ Starts(DeltaKind(k, p), STORAGE_PREFIX)
           /\ Len(DeltaKind(k, p)) # 1
           /\ SubSeq(DeltaKind(k, p), 3, Len(DeltaKind(k, p))) = k.suffix
<1> DEFINE h == StorageKeyPadding(k.suffix, p)
           r == DeltaKind(k, p)
<1>1. k.suffix \in Seq(Token) /\ h \in Token /\ STORAGE_PREFIX \in Token
  <2>1. k.suffix \in Seq(Token)
    BY Kinds
  <2>2. k.suffix \in StorageBytes
    BY FullKey
  <2>3. h \in Token
    BY <2>2 DEF Token, StorageKeyPadding
  <2>. QED  BY <2>1, <2>3, MarkersDiffer, MarkersIn
<1>2. r = <<STORAGE_PREFIX>> \o (<<h>> \o k.suffix)
  BY Kinds
<1>3. <<h>> \o k.suffix \in Seq(Token) /\ Len(<<h>> \o k.suffix) = Len(k.suffix) + 1
  BY <1>1, Marked
<1> HIDE DEF h, r
<1>4. Starts(r, STORAGE_PREFIX) /\ Len(r) = Len(k.suffix) + 2 /\ Len(k.suffix) \in Nat
  <2>1. Starts(r, STORAGE_PREFIX) /\ Len(r) = Len(<<h>> \o k.suffix) + 1
    BY <1>2, <1>3, BehindMarker, MarkersIn
  <2>. QED  BY <1>1, <1>3, <2>1
<1>5. SubSeq(r, 3, Len(r)) = k.suffix
  <2> DEFINE two == <<STORAGE_PREFIX>> \o <<h>>
  <2>1. two \in Seq(Token) /\ Len(two) = 2
    <3>1. <<STORAGE_PREFIX>> \in Seq(Token) /\ <<h>> \in Seq(Token)
      BY <1>1
    <3>2. Len(<<STORAGE_PREFIX>>) = 1 /\ Len(<<h>>) = 1
      OBVIOUS
    <3>. QED  BY <3>1, <3>2, ConcatProperties
  <2>2. r = two \o k.suffix
    <3>1. <<STORAGE_PREFIX>> \in Seq(Token) /\ <<h>> \in Seq(Token) /\ k.suffix \in Seq(Token)
      BY <1>1
    <3>. QED  BY <1>2, <3>1, ConcatAssociative
  <2> HIDE DEF two
  <2>3. SubSeq(r, Len(two) + 1, Len(r)) = k.suffix
    BY <1>1, <2>1, <2>2, CutOff
  <2>. QED  BY <2>1, <2>3
<1>. QED  BY <1>4, <1>5 DEF r

\* A stored key comes back from its delta bytes under any padding.
LEMMA DeltaRoundTrip ==
    ASSUME NEW k \in FullKeys, NEW p \in Pads
    PROVE  FromDeltaMptKey(ToDeltaMptKeyBytes(k, p)) = k
<1> DEFINE raw == ToDeltaMptKeyBytes(k, p)
           account == NewAccountKey(k.address, p)
           behind_address == SpaceMarker(k) \o DeltaKind(k, p)
<1>2. /\ account \in Seq(Token) /\ Len(account) = ACCOUNT_KEYPART /\ Tail(account) = k.address
      /\ ACCOUNT_KEYPART \in Nat /\ ACCOUNT_KEYPART >= 2 /\ k.suffix \in Seq(Token)
      /\ DeltaKind(k, p) \in Seq(Token)
  <2>1. k.address \in Addresses /\ ACCOUNT_BYTES \in Nat \ {0}
    BY FullKey, Parts
  <2>2. /\ account \in Seq(Token) /\ Len(account) = ACCOUNT_KEYPART
        /\ Tail(account) = k.address
    BY <2>1, AccountSeq
  <2>3. ACCOUNT_KEYPART \in Nat /\ ACCOUNT_KEYPART >= 2
    BY <2>1 DEF ACCOUNT_KEYPART
  <2>. QED  BY <2>2, <2>3, Kinds, KindsClear
<1>3. behind_address \in Seq(Token)
  BY SpaceSeq, KindsClear, ConcatProperties
<1>4. raw = account \o behind_address
  BY Encodings
<1> HIDE DEF raw, account, behind_address
<1>5. /\ SubSeq(raw, 1, ACCOUNT_KEYPART) = account
      /\ SubSeq(raw, ACCOUNT_KEYPART + 1, Len(raw)) = behind_address
      /\ raw \in Seq(Token) /\ Len(raw) >= ACCOUNT_KEYPART
  <2>1. SubSeq(raw, 1, Len(account)) = account
    BY <1>2, <1>3, <1>4, CutOff
  <2>2. SubSeq(raw, Len(account) + 1, Len(raw)) = behind_address
    BY <1>2, <1>3, <1>4, CutOff
  <2>3. raw \in Seq(Token) /\ Len(raw) = Len(account) + Len(behind_address)
    BY <1>2, <1>3, <1>4, ConcatProperties
  <2>4. Len(behind_address) \in Nat
    BY <1>3
  <2>. QED  BY <1>2, <2>1, <2>2, <2>3, <2>4
<1>6. SubSeq(raw, 2, ACCOUNT_KEYPART) = k.address
  <2>1. account = [i \in 1..ACCOUNT_KEYPART |-> raw[i]]
    BY <1>2, <1>5
  <2>2. \A i \in 1..ACCOUNT_KEYPART : account[i] = raw[i]
    BY <2>1
  <2>3. SubSeq(account, 2, ACCOUNT_KEYPART) = SubSeq(raw, 2, ACCOUNT_KEYPART)
    <3>1. SubSeq(account, 2, ACCOUNT_KEYPART) = [i \in 1..(ACCOUNT_KEYPART - 1) |-> account[i + 1]]
      BY <1>2
    <3>2. SubSeq(raw, 2, ACCOUNT_KEYPART) = [i \in 1..(ACCOUNT_KEYPART - 1) |-> raw[i + 1]]
      BY <1>2, <1>5
    <3>3. \A i \in 1..(ACCOUNT_KEYPART - 1) : account[i + 1] = raw[i + 1]
      BY <1>2, <2>2
    <3>. QED  BY <3>1, <3>2, <3>3
  <2>4. Tail(account) = SubSeq(account, 2, ACCOUNT_KEYPART)
    BY <1>2
  <2>. QED  BY <1>2, <2>3, <2>4
<1> DEFINE isEvm == IsPrefix(<<EVM_SPACE_TYPE>>, behind_address)
<1>7. /\ (IF isEvm THEN Tail(behind_address) ELSE behind_address) = DeltaKind(k, p)
      /\ (IF isEvm THEN "Ethereum" ELSE "Native") = k.space
  BY SpaceCut, KindsClear DEF behind_address
<1> HIDE DEF isEvm
<1> DEFINE rest == DeltaKind(k, p)
           decoded ==
             CASE rest = <<>> -> StorageKey("Account", k.address, <<>>, k.space)
               [] IsPrefix(<<STORAGE_PREFIX>>, rest) ->
                    IF Len(rest) = 1
                    THEN StorageKey("StorageRoot", k.address, <<>>, k.space)
                    ELSE StorageKey("Storage", k.address, SubSeq(rest, 3, Len(rest)), k.space)
               [] IsPrefix(<<CODE_HASH_PREFIX>>, rest) ->
                    Suffixed("CodeRoot", "Code", k.address, Tail(rest), k.space)
               [] IsPrefix(<<DEPOSIT_LIST_PREFIX>>, rest) ->
                    StorageKey("DepositList", k.address, <<>>, k.space)
               [] IsPrefix(<<VOTE_LIST_PREFIX>>, rest) ->
                    StorageKey("VoteList", k.address, <<>>, k.space)
               [] OTHER -> InvalidKey
<1>8. FromDeltaMptKey(raw) = decoded
  <2>1. ~(Len(raw) < ACCOUNT_KEYPART)
    BY <1>2, <1>5
  <2>. QED  BY <1>5, <1>6, <1>7, <2>1, Zenon DEF FromDeltaMptKey, isEvm
<1>9. decoded = k
  <2> HIDE DEF rest
  <2>1. CASE k.kind = "Account"
    <3>1. rest = <<>>
      BY <2>1, Kinds DEF rest
    <3>2. /\ ~IsPrefix(<<STORAGE_PREFIX>>, rest) /\ ~IsPrefix(<<CODE_HASH_PREFIX>>, rest)
          /\ ~IsPrefix(<<DEPOSIT_LIST_PREFIX>>, rest) /\ ~IsPrefix(<<VOTE_LIST_PREFIX>>, rest)
      BY <3>1 DEF IsPrefix
    <3>3. StorageKey("Account", k.address, <<>>, k.space) = k
      BY <2>1, FullKey
    <3>. QED  BY <3>1, <3>2, <3>3
  <2>2. CASE k.kind = "StorageRoot"
    <3>1. rest = <<STORAGE_PREFIX>>
      BY <2>2, Kinds DEF rest
    <3>2. Starts(rest, STORAGE_PREFIX) /\ Len(rest) = 1
      BY <3>1, MarkerAlone, MarkersIn
    <3>3. StorageKey("StorageRoot", k.address, <<>>, k.space) = k
      BY <2>2, FullKey
    <3>. QED  BY <3>2, <3>3, StartsWith
  <2>3. CASE k.kind = "Storage"
    <3>1. /\ Starts(rest, STORAGE_PREFIX) /\ Len(rest) # 1
          /\ SubSeq(rest, 3, Len(rest)) = k.suffix
      BY <2>3, StorageCut DEF rest
    <3>2. StorageKey("Storage", k.address, k.suffix, k.space) = k
      BY <2>3, FullKey
    <3>. QED  BY <3>1, <3>2, StartsWith
  <2>4. CASE k.kind \in {"CodeRoot", "Code"}
    <3>1. rest = <<CODE_HASH_PREFIX>> \o k.suffix
      BY <2>4, Kinds DEF rest
    <3>2. Starts(rest, CODE_HASH_PREFIX) /\ Tail(rest) = k.suffix
      BY <1>2, <3>1, BehindMarker, MarkersIn
    <3>3. Suffixed("CodeRoot", "Code", k.address, k.suffix, k.space) = k
      BY <2>4, FullKey, Parts DEF Suffixed
    <3>. QED  BY <3>2, <3>3, StartsWith
  <2>5. CASE k.kind = "DepositList"
    <3>1. rest = <<DEPOSIT_LIST_PREFIX>>
      BY <2>5, Kinds DEF rest
    <3>2. Starts(rest, DEPOSIT_LIST_PREFIX)
      BY <3>1, MarkerAlone, MarkersIn
    <3>3. StorageKey("DepositList", k.address, <<>>, k.space) = k
      BY <2>5, FullKey
    <3>. QED  BY <3>1, <3>2, <3>3, StartsWith
  <2>6. CASE k.kind = "VoteList"
    <3>1. rest = <<VOTE_LIST_PREFIX>>
      BY <2>6, Kinds DEF rest
    <3>2. Starts(rest, VOTE_LIST_PREFIX)
      BY <3>1, MarkerAlone, MarkersIn
    <3>3. StorageKey("VoteList", k.address, <<>>, k.space) = k
      BY <2>6, FullKey
    <3>. QED  BY <3>1, <3>2, <3>3, StartsWith
  <2>. QED  BY <2>1, <2>2, <2>3, <2>4, <2>5, <2>6, FullKey
<1>. QED  BY <1>8, <1>9 DEF raw

\* So does an account with a short address, which is its own encoding; its
\* space is lost.
LEMMA ShortRoundTrip ==
    ASSUME NEW a \in ShortAddresses, NEW s, NEW p
    PROVE  LET k == StorageKey("Account", a, <<>>, s)
           IN  /\ IsShortAccount(k) /\ k.address = a
               /\ ToKeyBytes(k) = a /\ ToDeltaMptKeyBytes(k, p) = a
               /\ FromDeltaMptKey(ToDeltaMptKeyBytes(k, p)) = [k EXCEPT !.space = "Native"]
<1> DEFINE k == StorageKey("Account", a, <<>>, s)
<1>1. Len(a) < ACCOUNT_BYTES /\ Len(a) \in Nat /\ ACCOUNT_BYTES \in Nat
  BY Parts
<1>2. k.kind = "Account" /\ k.address = a
  BY DEF StorageKey
<1>3. IsShortAccount(k)
  BY <1>1, <1>2 DEF IsShortAccount
<1>4. ToKeyBytes(k) = a /\ ToDeltaMptKeyBytes(k, p) = a
  BY <1>2, <1>3 DEF ToKeyBytes, ToDeltaMptKeyBytes
<1>5. FromDeltaMptKey(a) = StorageKey("Account", a, <<>>, "Native")
  BY <1>1 DEF FromDeltaMptKey, ACCOUNT_KEYPART
<1>6. [k EXCEPT !.space = "Native"] = StorageKey("Account", a, <<>>, "Native")
  BY DEF StorageKey
<1>. QED  BY <1>2, <1>3, <1>4, <1>5, <1>6

-----------------------------------------------------------------------------
(* No two keys share their bytes *)

\* An encoded account of full length is at least an address long, and begins
\* with the digest under its padding.
LEMMA FullLength ==
    ASSUME NEW k \in FullKeys, NEW p \in Pads
    PROVE  /\ Len(ToKeyBytes(k)) >= ACCOUNT_BYTES
           /\ Len(ToDeltaMptKeyBytes(k, p)) >= ACCOUNT_BYTES
           /\ ToDeltaMptKeyBytes(k, p)[1] = <<"account", p, k.address>>
<1> DEFINE n == NewAccountKey(k.address, p)
           r == SpaceMarker(k) \o Kind(k)
           d == SpaceMarker(k) \o DeltaKind(k, p)
<1>1. /\ k.address \in Addresses /\ k.address \in Seq(Token) /\ Len(k.address) = ACCOUNT_BYTES
      /\ ACCOUNT_BYTES \in Nat \ {0}
  BY FullKey, Parts
<1>2. r \in Seq(Token) /\ d \in Seq(Token)
  BY SpaceSeq, KindsClear, ConcatProperties
<1>3. n \in Seq(Token) /\ Len(n) = ACCOUNT_BYTES + 1 /\ n[1] = <<"account", p, k.address>>
  BY <1>1, AccountSeq DEF ACCOUNT_KEYPART
<1>4. ToKeyBytes(k) = k.address \o r /\ ToDeltaMptKeyBytes(k, p) = n \o d
  BY Encodings
<1> HIDE DEF n, r, d
<1>5. Len(k.address \o r) >= ACCOUNT_BYTES
  BY <1>1, <1>2, ConcatProperties
<1>6. Len(n \o d) >= ACCOUNT_BYTES /\ (n \o d)[1] = n[1]
  <2>1. Len(n \o d) = Len(n) + Len(d) /\ \A i \in 1..Len(n) : (n \o d)[i] = n[i]
    BY <1>2, <1>3, Joined
  <2>2. 1 \in 1..Len(n) /\ Len(d) \in Nat
    BY <1>1, <1>2, <1>3
  <2>. QED  BY <1>1, <1>3, <2>1, <2>2
<1>. QED  BY <1>3, <1>4, <1>5, <1>6

LEMMA DataKey ==
    ASSUME NEW k \in DataKeys, k \notin FullKeys
    PROVE  \E a \in ShortAddresses, s \in Spaces : k = StorageKey("Account", a, <<>>, s)
BY DEF DataKeys, ShortAccounts

\* The short accounts are the data keys that are not full.
LEMMA ShortOrFull ==
    ASSUME NEW k \in DataKeys
    PROVE  IsShortAccount(k) <=> k \notin FullKeys
<1>1. CASE k \in FullKeys
  <2>1. Len(k.address) = ACCOUNT_BYTES /\ ACCOUNT_BYTES \in Nat
    BY <1>1, FullKey, Parts
  <2>. QED  BY <1>1, <2>1 DEF IsShortAccount
<1>2. CASE k \notin FullKeys
  BY <1>2, DataKey, ShortRoundTrip
<1>. QED  BY <1>1, <1>2

\* The bytes of a short account, in both encodings.
LEMMA ShortBytes ==
    ASSUME NEW k \in DataKeys, k \notin FullKeys, NEW p
    PROVE  /\ ToKeyBytes(k) = k.address /\ ToDeltaMptKeyBytes(k, p) = k.address
           /\ k.address \in ShortAddresses
<1>1. PICK a \in ShortAddresses, s \in Spaces : k = StorageKey("Account", a, <<>>, s)
  BY DataKey
<1>. QED  BY <1>1, ShortRoundTrip

\* They are none of a full key's.
LEMMA ShortApart ==
    ASSUME NEW k \in DataKeys, k \notin FullKeys, NEW o \in FullKeys, NEW p, NEW q \in Pads
    PROVE  /\ ToKeyBytes(k) # ToKeyBytes(o)
           /\ ToDeltaMptKeyBytes(k, p) # ToDeltaMptKeyBytes(o, q)
<1>1. /\ ToKeyBytes(k) = k.address /\ ToDeltaMptKeyBytes(k, p) = k.address
      /\ Len(k.address) < ACCOUNT_BYTES /\ Len(k.address) \in Nat /\ ACCOUNT_BYTES \in Nat
  BY ShortBytes, Parts
<1>2. Len(ToKeyBytes(o)) >= ACCOUNT_BYTES /\ Len(ToDeltaMptKeyBytes(o, q)) >= ACCOUNT_BYTES
  BY FullLength
<1>. QED  BY <1>1, <1>2

\* Full keys differ in their bytes, and move with the padding.
LEMMA FullApart ==
    ASSUME NEW k \in FullKeys, NEW o \in FullKeys, NEW p \in Pads, NEW q \in Pads
    PROVE  /\ ToKeyBytes(k) = ToKeyBytes(o) => k = o
           /\ ToDeltaMptKeyBytes(k, p) = ToDeltaMptKeyBytes(o, q) => k = o /\ p = q
<1>1. FromKeyBytes(ToKeyBytes(k)) = k /\ FromKeyBytes(ToKeyBytes(o)) = o
  BY CanonicalRoundTrip
<1>2. /\ FromDeltaMptKey(ToDeltaMptKeyBytes(k, p)) = k
      /\ FromDeltaMptKey(ToDeltaMptKeyBytes(o, q)) = o
  BY DeltaRoundTrip
<1>3. /\ ToDeltaMptKeyBytes(k, p)[1] = <<"account", p, k.address>>
      /\ ToDeltaMptKeyBytes(o, q)[1] = <<"account", q, o.address>>
  BY FullLength
<1>4. <<"account", p, k.address>> = <<"account", q, o.address>> => p = q
  OBVIOUS
<1>5. ToDeltaMptKeyBytes(k, p) = ToDeltaMptKeyBytes(o, q) => p = q
  BY <1>3, <1>4
<1>6. ToDeltaMptKeyBytes(k, p) = ToDeltaMptKeyBytes(o, q) => k = o
  BY <1>2
<1>. QED  BY <1>1, <1>5, <1>6

LEMMA KeysApart ==
    ASSUME NEW k \in DataKeys, NEW o \in DataKeys, NEW p \in Pads, NEW q \in Pads
    PROVE  /\ ToKeyBytes(k) = ToKeyBytes(o) <=> SameEntry(k, o)
           /\ ToDeltaMptKeyBytes(k, p) = ToDeltaMptKeyBytes(o, q)
                 <=> SameEntry(k, o) /\ (p = q \/ IsShortAccount(k))
<1> USE DEF SameEntry
<1>1. CASE k \in FullKeys /\ o \in FullKeys
  <2>1. ~IsShortAccount(k)
    BY <1>1, ShortOrFull
  <2>2. /\ ToKeyBytes(k) = ToKeyBytes(o) => k = o
        /\ ToDeltaMptKeyBytes(k, p) = ToDeltaMptKeyBytes(o, q) => k = o /\ p = q
    BY <1>1, FullApart
  <2>. QED  BY <2>1, <2>2
<1>2. CASE k \notin FullKeys /\ o \notin FullKeys
  <2>1. IsShortAccount(k) /\ IsShortAccount(o)
    BY <1>2, ShortOrFull
  <2>2. /\ ToKeyBytes(k) = k.address /\ ToDeltaMptKeyBytes(k, p) = k.address
        /\ ToKeyBytes(o) = o.address /\ ToDeltaMptKeyBytes(o, q) = o.address
    BY <1>2, ShortBytes
  <2>. QED  BY <2>1, <2>2
<1>3. CASE k \notin FullKeys /\ o \in FullKeys
  <2>1. IsShortAccount(k) /\ ~IsShortAccount(o)
    BY <1>3, ShortOrFull
  <2>2. ToKeyBytes(k) # ToKeyBytes(o) /\ ToDeltaMptKeyBytes(k, p) # ToDeltaMptKeyBytes(o, q)
    BY <1>3, ShortApart
  <2>. QED  BY <1>3, <2>1, <2>2
<1>4. CASE k \in FullKeys /\ o \notin FullKeys
  <2>1. ~IsShortAccount(k) /\ IsShortAccount(o)
    BY <1>4, ShortOrFull
  <2>2. ToKeyBytes(k) # ToKeyBytes(o) /\ ToDeltaMptKeyBytes(k, p) # ToDeltaMptKeyBytes(o, q)
    BY <1>4, ShortApart
  <2>. QED  BY <1>4, <2>1, <2>2
<1>. QED  BY <1>1, <1>2, <1>3, <1>4

-----------------------------------------------------------------------------
(* A prefix matches the same keys in both encodings *)

LEMMA MarkedPrefix ==
    ASSUME NEW x \in Token, NEW y \in Token, NEW s \in Seq(Token), NEW t \in Seq(Token)
    PROVE  IsPrefix(<<x>> \o s, <<y>> \o t) <=> x = y /\ IsPrefix(s, t)
<1>1. /\ <<x>> \in Seq(Token) /\ Len(<<x>>) = 1 /\ <<x>>[1] = x
      /\ <<y>> \in Seq(Token) /\ Len(<<y>>) = 1 /\ <<y>>[1] = y
  OBVIOUS
<1>2. IsPrefix(<<x>> \o s, <<y>> \o t) <=> <<x>> = <<y>> /\ IsPrefix(s, t)
  BY <1>1, PrefixBehind
<1>3. <<x>> = <<y>> <=> x = y
  BY <1>1
<1>. QED  BY <1>2, <1>3

\* Nothing but the empty sequence is a prefix of it.
LEMMA OnlyEmpty ==
    ASSUME NEW x \in Token, NEW s \in Seq(Token)
    PROVE  ~IsPrefix(<<x>> \o s, <<>>)
<1>1. Len(<<x>> \o s) = Len(s) + 1 /\ Len(s) \in Nat
  BY Marked
<1>. QED  BY <1>1 DEF IsPrefix

\* A native prefix stops before the space marker, or the spaces are the same.
LEMMA SpacesAlign ==
    ASSUME NEW o \in FullKeys, NEW k \in FullKeys, NEW s \in Seq(Token), NEW t \in Seq(Token),
           Clear(s), Clear(t)
    PROVE  IsPrefix(SpaceMarker(o) \o s, SpaceMarker(k) \o t)
             <=> \/ o.space = k.space /\ IsPrefix(s, t)
                 \/ o.space = "Native" /\ k.space = "Ethereum" /\ s = <<>>
<1>1. EVM_SPACE_TYPE \in Token /\ EVM_SPACE_TYPE \notin Markers /\ Markers \subseteq Token
  BY MarkersDiffer
<1>2. \A x \in Spaces : x = "Native" \/ x = "Ethereum"
  BY DEF Spaces
<1>3. o.space \in Spaces /\ k.space \in Spaces
  BY FullKey
<1>4. /\ \A x \in FullKeys : x.space = "Native" => SpaceMarker(x) = <<>>
      /\ \A x \in FullKeys : x.space = "Ethereum" => SpaceMarker(x) = <<EVM_SPACE_TYPE>>
  BY DEF SpaceMarker
<1>5. <<>> \o s = s /\ <<>> \o t = t
  BY ConcatEmptySeq
<1>6. CASE o.space = "Native" /\ k.space = "Native"
  BY <1>4, <1>5, <1>6
<1>7. CASE o.space = "Ethereum" /\ k.space = "Ethereum"
  <2>1. IsPrefix(<<EVM_SPACE_TYPE>> \o s, <<EVM_SPACE_TYPE>> \o t) <=> IsPrefix(s, t)
    BY <1>1, MarkedPrefix
  <2>. QED  BY <1>4, <1>7, <2>1
<1>8. CASE o.space = "Native" /\ k.space = "Ethereum"
  <2>1. SpaceMarker(o) \o s = s /\ SpaceMarker(k) \o t = <<EVM_SPACE_TYPE>> \o t
    BY <1>4, <1>5, <1>8
  <2>2. CASE s = <<>>
    <3>1. <<EVM_SPACE_TYPE>> \o t \in Seq(Token)
      BY <1>1, Marked
    <3>2. IsPrefix(<<>>, <<EVM_SPACE_TYPE>> \o t)
      BY <3>1, EmptyIsPrefix
    <3>. QED  BY <1>8, <2>1, <2>2, <3>2
  <2>3. CASE s # <<>>
    <3>1. PICK m \in Markers, r \in Seq(Token) : s = <<m>> \o r
      BY <2>3 DEF Clear
    <3>2. m \in Token /\ m # EVM_SPACE_TYPE
      BY <1>1
    <3>3. ~IsPrefix(<<m>> \o r, <<EVM_SPACE_TYPE>> \o t)
      BY <1>1, <3>2, MarkedPrefix
    <3>. QED  BY <1>8, <2>1, <2>3, <3>1, <3>3
  <2>. QED  BY <2>2, <2>3
<1>9. CASE o.space = "Ethereum" /\ k.space = "Native"
  <2>1. SpaceMarker(o) \o s = <<EVM_SPACE_TYPE>> \o s /\ SpaceMarker(k) \o t = t
    BY <1>4, <1>5, <1>9
  <2>2. ~IsPrefix(<<EVM_SPACE_TYPE>> \o s, t)
    <3>1. CASE t = <<>>
      BY <1>1, <3>1, OnlyEmpty
    <3>2. CASE \E m \in Markers : \E r \in Seq(Token) : t = <<m>> \o r
      <4>1. PICK m \in Markers, r \in Seq(Token) : t = <<m>> \o r
        BY <3>2
      <4>2. m \in Token /\ m # EVM_SPACE_TYPE
        BY <1>1
      <4>. QED  BY <1>1, <4>1, <4>2, MarkedPrefix
    <3>. QED  BY <3>1, <3>2 DEF Clear
  <2>. QED  BY <1>9, <2>1, <2>2
<1>. QED  BY <1>2, <1>3, <1>6, <1>7, <1>8, <1>9

\* The marker a key carries, and whether it is the one of the storage keys.
LEMMA Headed ==
    ASSUME NEW k \in FullKeys, k.kind # "Account"
    PROVE  \E m \in Markers : \E s \in Seq(Token) :
              /\ Kind(k) = <<m>> \o s
              /\ m = STORAGE_PREFIX <=> k.kind \in {"StorageRoot", "Storage"}
<1>1. 1 \in Pads
  BY DEF Pads
<1>2. k.suffix \in Seq(Token) /\ <<>> \in Seq(Token)
  BY <1>1, Kinds, EmptySeq
<1>3. \A m \in Markers : <<m>> = <<m>> \o <<>>
  <2>1. \A m \in Markers : <<m>> \in Seq(Token)
    BY MarkersDiffer
  <2>. QED  BY <2>1, ConcatEmptySeq
<1>4. CASE k.kind \in {"StorageRoot", "Storage"}
  <2>1. Kind(k) = <<STORAGE_PREFIX>> \o k.suffix
    BY <1>1, <1>4, Kinds
  <2>. QED  BY <1>2, <1>4, <2>1, MarkersIn
<1>5. CASE k.kind \in {"CodeRoot", "Code"}
  <2>1. Kind(k) = <<CODE_HASH_PREFIX>> \o k.suffix
    BY <1>1, <1>5, Kinds
  <2>. QED  BY <1>2, <1>5, <2>1, MarkersIn, MarkersDiffer
<1>6. CASE k.kind = "DepositList"
  <2>1. Kind(k) = <<DEPOSIT_LIST_PREFIX>> \o <<>>
    BY <1>1, <1>3, <1>6, Kinds, MarkersIn
  <2>. QED  BY <1>2, <1>6, <2>1, MarkersIn, MarkersDiffer
<1>7. CASE k.kind = "VoteList"
  <2>1. Kind(k) = <<VOTE_LIST_PREFIX>> \o <<>>
    BY <1>1, <1>3, <1>7, Kinds, MarkersIn
  <2>. QED  BY <1>2, <1>7, <2>1, MarkersIn, MarkersDiffer
<1>. QED  BY <1>4, <1>5, <1>6, <1>7, FullKey

\* Only a storage key differs behind the space marker.
LEMMA SameKind ==
    ASSUME NEW k \in FullKeys, NEW p \in Pads, k.kind # "Storage"
    PROVE  DeltaKind(k, p) = Kind(k)
<1>1. CASE k.kind = "StorageRoot"
  <2>1. <<STORAGE_PREFIX>> \in Seq(Token)
    BY MarkersDiffer, MarkersIn
  <2>2. k.suffix = <<>>
    BY <1>1, FullKey
  <2>. QED  BY <1>1, <2>1, <2>2, Kinds, ConcatEmptySeq
<1>2. CASE k.kind # "StorageRoot"
  BY <1>2, Kinds, FullKey
<1>. QED  BY <1>1, <1>2

LEMMA KindsAlign ==
    ASSUME NEW o \in FullKeys, NEW k \in FullKeys, NEW p \in Pads
    PROVE  IsPrefix(DeltaKind(o, p), DeltaKind(k, p))
             <=> IF o.kind = "Storage" THEN k.kind = "Storage" /\ k.suffix = o.suffix
                 ELSE IsPrefix(Kind(o), Kind(k))
<1> DEFINE h(x) == StorageKeyPadding(x.suffix, p)
           body(x) == <<h(x)>> \o x.suffix
<1>1. STORAGE_PREFIX \in Token /\ \A m \in Markers : m \in Token
  BY MarkersDiffer, MarkersIn
<1>2. ASSUME NEW x \in FullKeys, x.kind = "Storage"
      PROVE  /\ h(x) \in Token /\ x.suffix \in Seq(Token) /\ body(x) \in Seq(Token)
             /\ DeltaKind(x, p) = <<STORAGE_PREFIX>> \o body(x)
             /\ Kind(x) = <<STORAGE_PREFIX>> \o x.suffix
  <2>1. x.suffix \in StorageBytes /\ x.suffix \in Seq(Token)
    BY <1>2, FullKey, Kinds
  <2>2. h(x) \in Token
    BY <2>1 DEF Token, StorageKeyPadding
  <2>3. body(x) \in Seq(Token)
    BY <2>1, <2>2, Marked
  <2>. QED  BY <1>2, <2>1, <2>2, <2>3, Kinds
<1>3. <<>> \in Seq(Token)
  BY EmptySeq
<1>4. \A x \in FullKeys : x.kind = "Account" => Kind(x) = <<>> /\ DeltaKind(x, p) = <<>>
  BY Kinds
<1>5. h(o) = h(k) => o.suffix = k.suffix
  BY DEF StorageKeyPadding
<1> HIDE DEF h
<1>6. CASE o.kind # "Storage" /\ k.kind # "Storage"
  BY <1>6, SameKind
<1>7. CASE o.kind # "Storage" /\ k.kind = "Storage"
  <2>1. DeltaKind(o, p) = Kind(o)
    BY <1>7, SameKind
  <2>2. /\ DeltaKind(k, p) = <<STORAGE_PREFIX>> \o body(k) /\ body(k) \in Seq(Token)
        /\ Kind(k) = <<STORAGE_PREFIX>> \o k.suffix /\ k.suffix \in Seq(Token)
    BY <1>2, <1>7
  <2> HIDE DEF body
  <2>3. CASE o.kind = "Account"
    <3>1. IsPrefix(<<>>, DeltaKind(k, p)) /\ IsPrefix(<<>>, Kind(k))
      BY KindsClear, EmptyIsPrefix
    <3>. QED  BY <1>4, <1>7, <2>1, <2>3, <3>1
  <2>4. CASE o.kind = "StorageRoot"
    <3>1. o.suffix = <<>> /\ Kind(o) = <<STORAGE_PREFIX>> \o o.suffix
      BY <2>4, FullKey, Kinds
    <3>2. IsPrefix(<<>>, body(k)) /\ IsPrefix(<<>>, k.suffix)
      BY <2>2, EmptyIsPrefix
    <3>3. /\ IsPrefix(<<STORAGE_PREFIX>> \o <<>>, <<STORAGE_PREFIX>> \o body(k))
          /\ IsPrefix(<<STORAGE_PREFIX>> \o <<>>, <<STORAGE_PREFIX>> \o k.suffix)
      BY <1>1, <1>3, <2>2, <3>2, MarkedPrefix
    <3>. QED  BY <1>7, <2>1, <2>2, <3>1, <3>3
  <2>5. CASE o.kind \notin {"Account", "StorageRoot"}
    <3>1. PICK m \in Markers, s \in Seq(Token) : Kind(o) = <<m>> \o s /\ m # STORAGE_PREFIX
      BY <1>7, <2>5, Headed
    <3>2. /\ ~IsPrefix(<<m>> \o s, <<STORAGE_PREFIX>> \o body(k))
          /\ ~IsPrefix(<<m>> \o s, <<STORAGE_PREFIX>> \o k.suffix)
      BY <1>1, <2>2, <3>1, MarkedPrefix
    <3>. QED  BY <1>7, <2>1, <2>2, <3>1, <3>2
  <2>. QED  BY <2>3, <2>4, <2>5
<1>8. CASE o.kind = "Storage" /\ k.kind # "Storage"
  <2>1. DeltaKind(o, p) = <<STORAGE_PREFIX>> \o body(o) /\ body(o) \in Seq(Token)
    BY <1>2, <1>8
  <2>2. DeltaKind(k, p) = Kind(k)
    BY <1>8, SameKind
  <2>3. CASE k.kind = "Account"
    <3>1. ~IsPrefix(<<STORAGE_PREFIX>> \o body(o), <<>>)
      <4> HIDE DEF body
      <4>. QED  BY <1>1, <2>1, OnlyEmpty
    <3>. QED  BY <1>4, <1>8, <2>1, <2>3, <3>1
  <2>4. CASE k.kind = "StorageRoot"
    <3>1. k.suffix = <<>> /\ Kind(k) = <<STORAGE_PREFIX>> \o k.suffix
      BY <2>4, FullKey, Kinds
    <3>2. ~IsPrefix(body(o), <<>>)
      BY <1>2, <1>8, OnlyEmpty
    <3>3. ~IsPrefix(<<STORAGE_PREFIX>> \o body(o), <<STORAGE_PREFIX>> \o <<>>)
      <4> HIDE DEF body
      <4>. QED  BY <1>1, <1>3, <2>1, <3>2, MarkedPrefix
    <3>. QED  BY <1>8, <2>1, <2>2, <3>1, <3>3
  <2>5. CASE k.kind \notin {"Account", "StorageRoot"}
    <3>1. PICK m \in Markers, s \in Seq(Token) : Kind(k) = <<m>> \o s /\ m # STORAGE_PREFIX
      BY <1>8, <2>5, Headed
    <3>2. ~IsPrefix(<<STORAGE_PREFIX>> \o body(o), <<m>> \o s)
      <4> HIDE DEF body
      <4>. QED  BY <1>1, <2>1, <3>1, MarkedPrefix
    <3>. QED  BY <1>8, <2>1, <2>2, <3>1, <3>2
  <2>. QED  BY <2>3, <2>4, <2>5
<1>9. CASE o.kind = "Storage" /\ k.kind = "Storage"
  <2>1. /\ DeltaKind(o, p) = <<STORAGE_PREFIX>> \o body(o) /\ body(o) \in Seq(Token)
        /\ DeltaKind(k, p) = <<STORAGE_PREFIX>> \o body(k) /\ body(k) \in Seq(Token)
        /\ h(o) \in Token /\ h(k) \in Token /\ o.suffix \in Seq(Token) /\ k.suffix \in Seq(Token)
    BY <1>2, <1>9
  <2>2. IsPrefix(body(o), body(k)) <=> h(o) = h(k) /\ IsPrefix(o.suffix, k.suffix)
    BY <2>1, MarkedPrefix
  <2>3. IsPrefix(o.suffix, o.suffix)
    BY <2>1, PrefixIf
  <2>4. IsPrefix(body(o), body(k)) <=> k.suffix = o.suffix
    <3>1. o.suffix = k.suffix => h(o) = h(k)
      BY DEF h
    <3> HIDE DEF body
    <3>. QED  BY <1>5, <2>2, <2>3, <3>1
  <2> HIDE DEF body
  <2>5. IsPrefix(<<STORAGE_PREFIX>> \o body(o), <<STORAGE_PREFIX>> \o body(k))
          <=> IsPrefix(body(o), body(k))
    BY <1>1, <2>1, MarkedPrefix
  <2>. QED  BY <1>9, <2>1, <2>4, <2>5
<1>. QED  BY <1>6, <1>7, <1>8, <1>9

LEMMA SameAccount ==
    ASSUME NEW a \in Addresses, NEW b \in Addresses, NEW p \in Pads
    PROVE  NewAccountKey(a, p) = NewAccountKey(b, p) <=> a = b
BY AccountSeq

\* A stored key as a prefix of stored keys.
LEMMA FullPrefixAligns ==
    ASSUME NEW o \in FullKeys, NEW k \in FullKeys, NEW p \in Pads
    PROVE  IsPrefix(ToDeltaMptKeyBytes(o, p), ToDeltaMptKeyBytes(k, p))
             <=> IF o.kind = "Storage" THEN k = o ELSE IsPrefix(ToKeyBytes(o), ToKeyBytes(k))
<1> DEFINE so == SpaceMarker(o) \o DeltaKind(o, p)
           sk == SpaceMarker(k) \o DeltaKind(k, p)
           ro == SpaceMarker(o) \o Kind(o)
           rk == SpaceMarker(k) \o Kind(k)
           no == NewAccountKey(o.address, p)
           nk == NewAccountKey(k.address, p)
<1>1. /\ o.address \in Addresses /\ k.address \in Addresses
      /\ o.address \in Seq(Token) /\ k.address \in Seq(Token)
      /\ Len(o.address) = Len(k.address)
  BY FullKey, Parts
<1>2. /\ no \in Seq(Token) /\ nk \in Seq(Token) /\ Len(no) = Len(nk)
      /\ no = nk <=> o.address = k.address
  BY <1>1, AccountSeq, SameAccount
<1>3. /\ so \in Seq(Token) /\ sk \in Seq(Token) /\ ro \in Seq(Token) /\ rk \in Seq(Token)
  BY SpaceSeq, KindsClear, ConcatProperties
<1>4. /\ ToDeltaMptKeyBytes(o, p) = no \o so /\ ToDeltaMptKeyBytes(k, p) = nk \o sk
      /\ ToKeyBytes(o) = o.address \o ro /\ ToKeyBytes(k) = k.address \o rk
  BY Encodings
<1>5. /\ IsPrefix(so, sk) <=> \/ o.space = k.space /\ IsPrefix(DeltaKind(o, p), DeltaKind(k, p))
                              \/ /\ o.space = "Native" /\ k.space = "Ethereum"
                                 /\ DeltaKind(o, p) = <<>>
      /\ IsPrefix(ro, rk) <=> \/ o.space = k.space /\ IsPrefix(Kind(o), Kind(k))
                              \/ /\ o.space = "Native" /\ k.space = "Ethereum"
                                 /\ Kind(o) = <<>>
  BY KindsClear, SpacesAlign
<1> HIDE DEF so, sk, ro, rk, no, nk
<1>6. IsPrefix(no \o so, nk \o sk) <=> no = nk /\ IsPrefix(so, sk)
  BY <1>2, <1>3, PrefixBehind
<1>7. IsPrefix(o.address \o ro, k.address \o rk) <=> o.address = k.address /\ IsPrefix(ro, rk)
  BY <1>1, <1>3, PrefixBehind
<1>8. CASE o.kind = "Storage"
  <2>1. DeltaKind(o, p) # <<>>
    BY <1>8, StorageCut DEF Starts
  <2>2. IsPrefix(DeltaKind(o, p), DeltaKind(k, p)) <=> k.kind = o.kind /\ k.suffix = o.suffix
    BY <1>8, KindsAlign
  <2>3. IsPrefix(no \o so, nk \o sk)
          <=> /\ o.address = k.address /\ o.space = k.space
              /\ k.kind = o.kind /\ k.suffix = o.suffix
    BY <1>2, <1>5, <1>6, <2>1, <2>2
  <2>4. /\ o = StorageKey(o.kind, o.address, o.suffix, o.space)
        /\ k = StorageKey(k.kind, k.address, k.suffix, k.space)
    BY FullKey
  <2>5. k = o <=> /\ o.address = k.address /\ o.space = k.space
                  /\ k.kind = o.kind /\ k.suffix = o.suffix
    BY <2>4
  <2>. QED  BY <1>4, <1>8, <2>3, <2>5
<1>9. CASE o.kind # "Storage"
  <2>1. DeltaKind(o, p) = Kind(o)
    BY <1>9, SameKind
  <2>2. IsPrefix(DeltaKind(o, p), DeltaKind(k, p)) <=> IsPrefix(Kind(o), Kind(k))
    BY <1>9, KindsAlign
  <2>. QED  BY <1>2, <1>4, <1>5, <1>6, <1>7, <1>9, <2>1, <2>2
<1>. QED  BY <1>8, <1>9

LEMMA PrefixAligns ==
    ASSUME NEW o \in QueryKeys, NEW k \in FullKeys, NEW p \in Pads
    PROVE  IsPrefix(ToDeltaMptKeyBytes(o, p), ToDeltaMptKeyBytes(k, p))
             <=> \/ IsAddressPrefix(o)
                 \/ IF o.kind = "Storage" THEN k = o ELSE IsPrefix(ToKeyBytes(o), ToKeyBytes(k))
<1>1. CASE o \in FullKeys
  <2>1. o.kind # "AddressPrefix"
    BY <1>1, FullKey
  <2>. QED  BY <1>1, <2>1, FullPrefixAligns DEF IsAddressPrefix
<1>2. CASE o \notin FullKeys
  <2>1. PICK a : \/ o = StorageKey("AddressPrefix", a, <<>>, "Native")
                 \/ o = StorageKey("Empty", <<>>, <<>>, "Native")
    BY <1>2 DEF QueryKeys, AddressPrefixes
  <2>2. ~IsShortAccount(o) /\ o.kind \in {"Empty", "AddressPrefix"} /\ o.kind # "Storage"
    BY <2>1 DEF StorageKey, IsShortAccount
  <2>3. ToDeltaMptKeyBytes(o, p) = <<>>
    BY <2>2 DEF ToDeltaMptKeyBytes
  <2>4. ToDeltaMptKeyBytes(k, p) \in Seq(Token) /\ ToKeyBytes(k) \in Seq(Token)
    <3>1. k.address \in Addresses /\ k.address \in Seq(Token)
      BY FullKey, Parts
    <3>2. SpaceMarker(k) \o Kind(k) \in Seq(Token) /\ SpaceMarker(k) \o DeltaKind(k, p) \in Seq(Token)
      BY SpaceSeq, KindsClear, ConcatProperties
    <3>3. NewAccountKey(k.address, p) \in Seq(Token)
      BY <3>1, AccountSeq
    <3>. QED  BY <3>1, <3>2, <3>3, Encodings, ConcatProperties
  <2>5. IsPrefix(<<>>, ToDeltaMptKeyBytes(k, p)) /\ IsPrefix(<<>>, ToKeyBytes(k))
    BY <2>4, EmptyIsPrefix
  <2>6. CASE o.kind = "AddressPrefix"
    BY <2>3, <2>5, <2>6 DEF IsAddressPrefix
  <2>7. CASE o.kind = "Empty"
    <3>1. o.address = <<>>
      BY <2>1, <2>7 DEF StorageKey
    <3>2. ToKeyBytes(o) = <<>>
      BY <2>7, <3>1 DEF ToKeyBytes
    <3>. QED  BY <2>2, <2>3, <2>5, <3>2
  <2>. QED  BY <2>2, <2>6, <2>7
<1>. QED  BY <1>1, <1>2

-----------------------------------------------------------------------------
(* The laws, in every state of the walk *)

KeysDrawn ==
    /\ padding \in Pads /\ padding2 \in Pads
    /\ part = "keys" => key \in DataKeys /\ other \in QueryKeys \cup ShortAccounts

LEMMA KeysDrawnAlways == Spec => []KeysDrawn
<1>1. Init => KeysDrawn
  BY DEF Init, KeysDrawn, Pads
<1>2. KeysDrawn /\ [Next]_mcvars => KeysDrawn'
  <2> SUFFICES ASSUME KeysDrawn, [Next]_mcvars
               PROVE  KeysDrawn'
    OBVIOUS
  <2>1. CASE NextPaddings
    BY <2>1 DEF NextPaddings, KeysDrawn, Pads
  <2>2. CASE NextNumber
    BY <2>2 DEF NextNumber, keys, KeysDrawn
  <2>3. CASE NextAccess
    BY <2>3 DEF NextAccess, keys, KeysDrawn
  <2>4. CASE UNCHANGED mcvars
    BY <2>4 DEF mcvars, keys, KeysDrawn
  <2>. QED  BY <2>1, <2>2, <2>3, <2>4 DEF Next
<1>. QED  BY <1>1, <1>2, PTL DEF Spec

\* The decoders undo the encoders: whatever set stores under a key, scanning
\* the delta or the snapshot names that key again, under any padding, and a
\* short account survives the delta but for its space.
THEOREM RoundTripsAlways == Spec => []RoundTrips
<1>1. KeysDrawn => RoundTrips
  <2> SUFFICES ASSUME KeysDrawn, part = "keys"
               PROVE  /\ FromDeltaMptKey(ToDeltaMptKeyBytes(key, padding))
                            = IF IsShortAccount(key) THEN [key EXCEPT !.space = "Native"] ELSE key
                      /\ key \in FullKeys => FromKeyBytes(ToKeyBytes(key)) = key
    BY DEF RoundTrips
  <2>1. key \in DataKeys /\ padding \in Pads
    BY DEF KeysDrawn
  <2>2. CASE key \in FullKeys
    BY <2>1, <2>2, CanonicalRoundTrip, DeltaRoundTrip, ShortOrFull
  <2>3. CASE key \notin FullKeys
    BY <2>1, <2>3, DataKey, ShortRoundTrip
  <2>. QED  BY <2>2, <2>3
<1>. QED  BY <1>1, KeysDrawnAlways, PTL

\* to_key_bytes and to_delta_mpt_key_bytes file two data keys under the same
\* bytes exactly if they are one key or the short accounts of one address, and
\* exactly the keys of whole addresses move with the padding.
THEOREM NoCollisionsAlways == Spec => []NoCollisions
<1>1. KeysDrawn => NoCollisions
  <2> SUFFICES ASSUME KeysDrawn, part = "keys", other \in DataKeys
               PROVE  /\ ToKeyBytes(key) = ToKeyBytes(other) <=> SameEntry(key, other)
                      /\ ToDeltaMptKeyBytes(key, padding) = ToDeltaMptKeyBytes(other, padding2)
                            <=> SameEntry(key, other) /\ (padding = padding2 \/ IsShortAccount(key))
    BY Zenon DEF NoCollisions
  <2>1. key \in DataKeys /\ padding \in Pads /\ padding2 \in Pads
    BY Zenon DEF KeysDrawn
  <2>. QED  BY <2>1, KeysApart
<1>. QED  BY <1>1, KeysDrawnAlways, PTL

\* read_prefix finds in a delta the keys it finds in the snapshot:
\* the delta prefix matches what the canonical prefix matches, an address
\* prefix everything, a storage key only itself.
THEOREM PrefixesAlignAlways == Spec => []PrefixesAlign
<1>1. KeysDrawn => PrefixesAlign
  <2>1. ASSUME KeysDrawn
        PROVE  padding \in Pads
    BY <2>1, Zenon DEF KeysDrawn
  <2>2. \A o \in QueryKeys, k \in FullKeys, p \in Pads :
          IsPrefix(ToDeltaMptKeyBytes(o, p), ToDeltaMptKeyBytes(k, p))
            <=> \/ IsAddressPrefix(o)
                \/ IF o.kind = "Storage" THEN k = o ELSE IsPrefix(ToKeyBytes(o), ToKeyBytes(k))
    BY PrefixAligns, Zenon
  <2>. QED  BY <2>1, <2>2, Zenon DEF PrefixesAlign
<1>. QED  BY <1>1, KeysDrawnAlways, PTL

-----------------------------------------------------------------------------
(* Division, by divisors that are not literals *)

\* A product grows with its factors.
LEMMA ProductAtLeast ==
    ASSUME NEW a \in Nat, NEW d \in Nat, a >= 1
    PROVE  a * d >= d /\ a * d \in Nat
<1>1. (a - 1) * d \in Nat
  OBVIOUS
<1>2. a * d = (a - 1) * d + d
  OBVIOUS
<1>. QED  BY <1>1, <1>2

LEMMA Divided ==
    ASSUME NEW a \in Int, NEW d \in Nat, d > 0
    PROVE  /\ a \div d \in Int /\ a % d \in Nat /\ a % d < d
           /\ a = (a \div d) * d + (a % d)
OBVIOUS

\* Quotient and remainder are the only ones.
LEMMA DividedOnce ==
    ASSUME NEW a \in Int, NEW d \in Nat, NEW q \in Int, NEW r \in Nat, r < d, a = q * d + r
    PROVE  a \div d = q /\ a % d = r
<1> DEFINE p == a \div d
           s == a % d
<1>1. p \in Int /\ s \in Nat /\ s < d /\ a = p * d + s
  BY Divided
<1> HIDE DEF p, s
<1>2. ASSUME p < q
      PROVE  FALSE
  <2>1. q - p \in Nat /\ q - p >= 1
    BY <1>1, <1>2
  <2>2. (q - p) * d >= d
    BY <2>1, ProductAtLeast
  <2>3. (q - p) * d = q * d - p * d
    BY <1>1
  <2>4. q * d \in Int /\ p * d \in Int
    BY <1>1
  <2>. QED  BY <1>1, <2>2, <2>3, <2>4
<1>3. ASSUME q < p
      PROVE  FALSE
  <2>1. p - q \in Nat /\ p - q >= 1
    BY <1>1, <1>3
  <2>2. (p - q) * d >= d
    BY <2>1, ProductAtLeast
  <2>3. (p - q) * d = p * d - q * d
    BY <1>1
  <2>4. q * d \in Int /\ p * d \in Int
    BY <1>1
  <2>. QED  BY <1>1, <2>2, <2>3, <2>4
<1>4. p = q
  BY <1>1, <1>2, <1>3
<1>5. s = r
  BY <1>1, <1>4
<1>. QED  BY <1>4, <1>5 DEF p, s

\* Dividing by a product is dividing twice.
LEMMA DividedTwice ==
    ASSUME NEW a \in Nat, NEW b \in Nat, NEW c \in Nat, b > 0, c > 0
    PROVE  /\ b * c \in Nat /\ b * c > 0
           /\ a \div (b * c) = (a \div b) \div c
           /\ (a % (b * c)) = ((a \div b) % c) * b + (a % b)
           /\ a \div b \in Nat
<1> DEFINE q == a \div b
           r == a % b
           p == q \div c
           s == q % c
<1>1. q \in Int /\ r \in Nat /\ r < b /\ a = q * b + r
  BY Divided
<1> HIDE DEF q, r
<1>2. p \in Int /\ s \in Nat /\ s < c /\ q = p * c + s
  BY <1>1, Divided
<1> HIDE DEF p, s
<1>3. b * c \in Nat /\ b * c >= c
  BY ProductAtLeast
<1>4. a = p * (b * c) + (s * b + r)
  <2>1. (p * c + s) * b = p * (b * c) + s * b
    BY <1>1, <1>2
  <2>2. p * (b * c) \in Int /\ s * b \in Int
    BY <1>2, <1>3
  <2>. QED  BY <1>1, <1>2, <2>1, <2>2
<1>5. s * b + r \in Nat /\ s * b + r < b * c
  <2>1. c - s \in Nat /\ c - s >= 1
    BY <1>2
  <2>2. (c - s) * b >= b
    BY <2>1, ProductAtLeast
  <2>3. (c - s) * b = b * c - s * b /\ s * b \in Nat
    BY <1>2
  <2>. QED  BY <1>1, <1>3, <2>2, <2>3
<1>6. a \div (b * c) = p /\ (a % (b * c)) = s * b + r
  <2> DEFINE d == b * c
             w == s * b + r
  <2>1. d \in Nat /\ w \in Nat /\ w < d /\ a = p * d + w /\ p \in Int /\ a \in Int
    BY <1>2, <1>3, <1>4, <1>5
  <2> HIDE DEF d, w
  <2>2. a \div d = p /\ a % d = w
    BY <2>1, DividedOnce
  <2>. QED  BY <2>2 DEF d, w
<1>7. q \in Nat
  <2>1. ASSUME q < 0
        PROVE  FALSE
    <3>1. -q \in Nat /\ -q >= 1
      BY <1>1, <2>1
    <3>2. (-q) * b >= b /\ (-q) * b = -(q * b) /\ q * b \in Int
      BY <1>1, <3>1, ProductAtLeast
    <3>. QED  BY <1>1, <3>2
  <2>. QED  BY <1>1, <2>1
<1>. QED  BY <1>3, <1>6, <1>7 DEF q, r, p, s

\* What is below a product has a quotient below its factor.
LEMMA QuotientBelow ==
    ASSUME NEW a \in Nat, NEW b \in Nat, NEW c \in Nat, b > 0, a < c * b
    PROVE  a \div b \in Nat /\ a \div b < c
<1> DEFINE q == a \div b
<1>1. q \in Int /\ a % b \in Nat /\ a = q * b + (a % b)
  BY Divided
<1>2. q \in Nat
  BY DividedTwice
<1> HIDE DEF q
<1>3. ASSUME q >= c
      PROVE  FALSE
  <2>1. q - c \in Nat
    BY <1>2, <1>3
  <2>2. (q - c) * b \in Nat /\ (q - c) * b = q * b - c * b
    BY <1>2, <2>1
  <2>3. q * b \in Nat /\ c * b \in Nat
    BY <1>2
  <2>. QED  BY <1>1, <2>2, <2>3
<1>. QED  BY <1>2, <1>3 DEF q

LEMMA SmallDivided ==
    ASSUME NEW a \in Nat, NEW d \in Nat, a < d
    PROVE  a \div d = 0 /\ a % d = a
<1>1. a = 0 * d + a
  OBVIOUS
<1>. QED  BY <1>1, DividedOnce

-----------------------------------------------------------------------------
(* The powers of two *)

LEMMA TwoSteps == /\ Two \in [Nat -> Nat]
                  /\ Two[0] = 1
                  /\ \A n \in Nat : Two[n + 1] = 2 * Two[n]
<1> DEFINE Steps(n, f) == f[0] = 1 /\ \A i \in 1..n : f[i] = 2 * f[i - 1]
           S == {n \in Nat : \E f \in [0..n -> Nat] : Steps(n, f)}
           F(n) == CHOOSE f \in [0..n -> Nat] : Steps(n, f)
           g == [n \in Nat |-> F(n)[n]]
<1>1. Nat \subseteq S
  <2>1. 0 \in S
    <3>1. [i \in 0..0 |-> 1] \in [0..0 -> Nat] /\ Steps(0, [i \in 0..0 |-> 1])
      OBVIOUS
    <3>. QED  BY <3>1
  <2>2. ASSUME NEW n \in Nat, n \in S
        PROVE  n + 1 \in S
    <3>1. PICK f \in [0..n -> Nat] : Steps(n, f)
      BY <2>2
    <3> DEFINE h == [i \in 0..(n + 1) |-> IF i = n + 1 THEN 2 * f[n] ELSE f[i]]
    <3>2. h \in [0..(n + 1) -> Nat]
      BY <3>1
    <3>3. h[0] = 1
      BY <3>1
    <3>4. ASSUME NEW i \in 1..(n + 1)
          PROVE  h[i] = 2 * h[i - 1]
      <4>1. i - 1 \in 0..n /\ i - 1 # n + 1 /\ h[i - 1] = f[i - 1]
        OBVIOUS
      <4>2. CASE i = n + 1
        <5>1. h[i] = 2 * f[n] /\ i - 1 = n
          BY <4>2
        <5> HIDE DEF h
        <5>. QED  BY <4>1, <5>1
      <4>3. CASE i \in 1..n
        <5>1. h[i] = f[i] /\ f[i] = 2 * f[i - 1]
          BY <3>1, <4>3, SMTT(30)
        <5> HIDE DEF h
        <5>. QED  BY <4>1, <5>1
      <4>. QED  BY <4>2, <4>3
    <3> HIDE DEF h
    <3>5. Steps(n + 1, h)
      BY <3>3, <3>4
    <3> HIDE DEF Steps
    <3>6. \E k \in [0..(n + 1) -> Nat] : Steps(n + 1, k)
      BY <3>2, <3>5, Zenon
    <3>. QED  BY <3>6
  <2> HIDE DEF S
  <2>. QED  BY <2>1, <2>2, InductionOnSet
<1>2. \A n \in Nat : F(n) \in [0..n -> Nat] /\ Steps(n, F(n))
  BY <1>1
<1> HIDE DEF F
<1>3. g \in [Nat -> Nat]
  <2>1. \A n \in Nat : F(n)[n] \in Nat
    BY <1>2
  <2>. QED  BY <2>1
<1>4. g[0] = 1
  BY <1>2
<1>5. ASSUME NEW n \in Nat
      PROVE  g[n + 1] = 2 * g[n]
  <2> DEFINE T == {k \in Nat : k <= n => F(n + 1)[k] = F(n)[k]}
  <2>1. 0 \in T
    <3>1. F(n + 1)[0] = 1 /\ F(n)[0] = 1
      BY <1>2
    <3>. QED  BY <3>1
  <2>2. ASSUME NEW k \in Nat, k \in T
        PROVE  k + 1 \in T
    <3> SUFFICES ASSUME k + 1 <= n
                 PROVE  F(n + 1)[k + 1] = F(n)[k + 1]
      OBVIOUS
    <3>1. F(n + 1)[k] = F(n)[k]
      BY <2>2
    <3>2. k + 1 \in 1..n /\ k + 1 \in 1..(n + 1) /\ (k + 1) - 1 = k
      OBVIOUS
    <3>3. F(n + 1)[k + 1] = 2 * F(n + 1)[k] /\ F(n)[k + 1] = 2 * F(n)[k]
      BY <1>2, <3>2
    <3>. QED  BY <3>1, <3>3
  <2>3. Nat \subseteq T
    <3> HIDE DEF T
    <3>. QED  BY <2>1, <2>2, InductionOnSet
  <2>4. F(n + 1)[n] = F(n)[n]
    BY <2>3
  <2>5. n + 1 \in 1..(n + 1) /\ (n + 1) - 1 = n /\ n + 1 \in Nat
    OBVIOUS
  <2>6. F(n + 1)[n + 1] = 2 * F(n + 1)[n]
    BY <1>2, <2>5
  <2>. QED  BY <2>4, <2>5, <2>6
<1>6. g = [n \in Nat |-> IF n = 0 THEN 1 ELSE 2 * g[n - 1]]
  <2>1. ASSUME NEW n \in Nat
        PROVE  g[n] = IF n = 0 THEN 1 ELSE 2 * g[n - 1]
    <3>1. CASE n = 0
      BY <1>4, <3>1
    <3>2. CASE n # 0
      <4>1. n - 1 \in Nat /\ (n - 1) + 1 = n
        BY <3>2
      <4> HIDE DEF g
      <4>. QED  BY <1>5, <3>2, <4>1
    <3>. QED  BY <3>1, <3>2
  <2>2. g = [n \in Nat |-> g[n]]
    OBVIOUS
  <2> HIDE DEF g
  <2>. QED  BY <2>1, <2>2
<1> HIDE DEF g
<1>7. Two = [n \in Nat |-> IF n = 0 THEN 1 ELSE 2 * Two[n - 1]]
  BY <1>6 DEF Two
<1>8. Two[0] = 1
  BY <1>7
<1>9. \A n \in Nat : Two[n + 1] = 2 * Two[n]
  BY <1>7
<1> DEFINE U == {n \in Nat : Two[n] \in Nat}
<1>10. Nat \subseteq U
  <2>1. 0 \in U
    BY <1>8
  <2>2. \A n \in Nat : n \in U => n + 1 \in U
    BY <1>9
  <2> HIDE DEF U
  <2>. QED  BY <2>1, <2>2, InductionOnSet
<1>. QED  BY <1>7, <1>8, <1>9, <1>10

LEMMA TwoPositive == \A n \in Nat : Two[n] \in Nat /\ Two[n] > 0
<1> DEFINE S == {n \in Nat : Two[n] > 0}
<1>1. 0 \in S
  BY TwoSteps
<1>2. \A n \in Nat : n \in S => n + 1 \in S
  BY TwoSteps
<1>3. Nat \subseteq S
  <2> HIDE DEF S
  <2>. QED  BY <1>1, <1>2, InductionOnSet
<1>. QED  BY <1>3, TwoSteps

LEMMA TwoSum ==
    ASSUME NEW m \in Nat, NEW n \in Nat
    PROVE  Two[m + n] = Two[m] * Two[n]
<1> DEFINE S == {k \in Nat : Two[m + k] = Two[m] * Two[k]}
<1>1. 0 \in S
  BY TwoSteps
<1>2. ASSUME NEW k \in Nat, k \in S
      PROVE  k + 1 \in S
  <2>1. Two[m + (k + 1)] = 2 * Two[m + k]
    <3>1. m + (k + 1) = (m + k) + 1 /\ m + k \in Nat
      OBVIOUS
    <3>. QED  BY <3>1, TwoSteps
  <2>2. Two[m + k] = Two[m] * Two[k] /\ Two[k + 1] = 2 * Two[k] /\ Two[m] \in Nat /\ Two[k] \in Nat
    BY <1>2, TwoSteps
  <2>3. \A a, b \in Nat : 2 * (a * b) = a * (2 * b)
    OBVIOUS
  <2>. QED  BY <2>1, <2>2, <2>3
<1>3. Nat \subseteq S
  <2> HIDE DEF S
  <2>. QED  BY <1>1, <1>2, InductionOnSet
<1>. QED  BY <1>3

LEMMA TwoGrows ==
    ASSUME NEW m \in Nat, NEW n \in Nat, m <= n
    PROVE  Two[m] <= Two[n]
<1>1. n - m \in Nat /\ n = (n - m) + m
  OBVIOUS
<1>2. Two[n] = Two[n - m] * Two[m]
  BY <1>1, TwoSum
<1>3. Two[n - m] \in Nat /\ Two[n - m] >= 1 /\ Two[m] \in Nat
  BY <1>1, TwoPositive
<1>. QED  BY <1>2, <1>3, ProductAtLeast

-----------------------------------------------------------------------------
(* Numbers and their bytes *)

LEMMA Widths ==
    /\ ByteBits \in Nat /\ ByteBits > 3
    /\ WordBits \in Nat /\ Qc8Bytes \in Nat /\ Qc5eBytes \in Nat
    /\ WordBits > 0 /\ Qc8Bytes > 0 /\ Qc5eBytes > 0
    /\ ByteBits - 1 \in Nat /\ ByteBits - 2 \in Nat
    /\ Two[ByteBits] = 4 * ModeBit /\ More = 2 * ModeBit
    /\ ModeBit \in Nat /\ ModeBit >= 4
<1>1. /\ ByteBits \in Nat /\ ByteBits > 3
      /\ WordBits \in Nat /\ Qc8Bytes \in Nat /\ Qc5eBytes \in Nat
      /\ WordBits > 0 /\ Qc8Bytes > 0 /\ Qc5eBytes > 0
  BY WidthAssumption
<1>2. /\ ByteBits - 1 \in Nat /\ ByteBits - 2 \in Nat
      /\ (ByteBits - 1) + 1 = ByteBits /\ (ByteBits - 2) + 1 = ByteBits - 1
  BY <1>1
<1>3. Two[ByteBits] = 2 * Two[ByteBits - 1] /\ Two[ByteBits - 1] = 2 * Two[ByteBits - 2]
  BY <1>2, TwoSteps
<1>4. ModeBit \in Nat /\ ModeBit >= 4
  <2>1. Two[0 + 1] = 2 * Two[0] /\ Two[1 + 1] = 2 * Two[1] /\ Two[0] = 1
    BY TwoSteps
  <2>2. Two[2] = 4
    BY <2>1
  <2>3. 2 \in Nat /\ 2 <= ByteBits - 2
    BY <1>1
  <2>4. Two[2] <= Two[ByteBits - 2]
    BY <1>2, <2>3, TwoGrows
  <2>5. Two[ByteBits - 2] \in Nat
    BY <1>2, TwoPositive
  <2>. QED  BY <2>2, <2>4, <2>5 DEF ModeBit
<1>. QED  BY <1>1, <1>2, <1>3, <1>4 DEF ModeBit, More

\* The values of a function defined by recursion are the only ones.
LEMMA SameRecursion ==
    ASSUME NEW N \in Nat, NEW f, NEW g,
           f[0] = g[0], \A i \in 1..N : f[i - 1] = g[i - 1] => f[i] = g[i]
    PROVE  f[N] = g[N]
<1> DEFINE S == {i \in Nat : i <= N => f[i] = g[i]}
<1>1. 0 \in S
  OBVIOUS
<1>2. ASSUME NEW i \in Nat, i \in S
      PROVE  i + 1 \in S
  <2> SUFFICES ASSUME i + 1 <= N
               PROVE  f[i + 1] = g[i + 1]
    OBVIOUS
  <2>1. i + 1 \in 1..N /\ (i + 1) - 1 = i /\ i <= N
    OBVIOUS
  <2>2. f[i] = g[i]
    BY <1>2, <2>1
  <2>. QED  BY <2>1, <2>2
<1>3. Nat \subseteq S
  <2> HIDE DEF S
  <2>. QED  BY <1>1, <1>2, InductionOnSet
<1>. QED  BY <1>3

LEMMA NumberIs ==
    ASSUME NEW bytes, Len(bytes) \in Nat, NEW f,
           f = [i \in 0..Len(bytes) |-> IF i = 0 THEN 0 ELSE f[i - 1] * Two[ByteBits] + bytes[i]]
    PROVE  Number(bytes) = f[Len(bytes)]
<1> DEFINE R(g) == g = [i \in 0..Len(bytes) |->
                            IF i = 0 THEN 0 ELSE g[i - 1] * Two[ByteBits] + bytes[i]]
           value == CHOOSE g : R(g)
<1>1. R(f)
  OBVIOUS
<1>2. R(value)
  <2> HIDE DEF R
  <2>. QED  BY <1>1
<1>3. Number(bytes) = value[Len(bytes)]
  BY DEF Number
<1> HIDE DEF value
<1>4. \A i \in 1..Len(bytes) : /\ i \in 0..Len(bytes) /\ i # 0
                               /\ f[i] = f[i - 1] * Two[ByteBits] + bytes[i]
                               /\ value[i] = value[i - 1] * Two[ByteBits] + bytes[i]
  BY <1>1, <1>2
<1>5. f[0] = 0 /\ value[0] = 0
  BY <1>1, <1>2
<1>6. value[Len(bytes)] = f[Len(bytes)]
  <2> HIDE DEF R
  <2>1. value[0] = f[0] /\ \A i \in 1..Len(bytes) : value[i - 1] = f[i - 1] => value[i] = f[i]
    BY <1>4, <1>5
  <2>. QED  BY <2>1, SameRecursion
<1>. QED  BY <1>3, <1>6

\* The bytes of a number, the highest first, give it back.
LEMMA BigEndianRead ==
    ASSUME NEW v \in Nat, NEW n \in Nat, v < Two[ByteBits * n]
    PROVE  /\ BigEndian(v, n) \in Seq(Nat) /\ Len(BigEndian(v, n)) = n
           /\ Number(BigEndian(v, n)) = v
<1> DEFINE b == BigEndian(v, n)
           D == Two[ByteBits]
           W(i) == Two[ByteBits * (n - i)]
           f == [i \in 0..n |-> v \div W(i)]
<1>1. D \in Nat /\ D > 0 /\ ByteBits \in Nat
  BY Widths, TwoPositive
<1>2. \A i \in 0..n : n - i \in Nat /\ ByteBits * (n - i) \in Nat /\ W(i) \in Nat /\ W(i) > 0
  BY <1>1, TwoPositive
<1>3. b = [i \in 1..n |-> (v \div W(i)) % D]
  BY DEF BigEndian
<1>4. ASSUME NEW i \in 1..n
      PROVE  /\ v \div W(i) \in Nat
             /\ v \div W(i) = (v \div W(i - 1)) * D + ((v \div W(i)) % D)
  <2>1. i \in 0..n /\ i - 1 \in 0..n
    OBVIOUS
  <2>2. W(i - 1) = W(i) * D
    <3>1. ByteBits * (n - (i - 1)) = ByteBits * (n - i) + ByteBits
      BY <1>1
    <3>. QED  BY <1>1, <1>2, <2>1, <3>1, TwoSum
  <2> DEFINE w == W(i)
             q == v \div w
  <2>3. w \in Nat /\ w > 0
    BY <1>2, <2>1
  <2> HIDE DEF w
  <2>4. v \div (w * D) = q \div D /\ q \in Nat
    BY <1>1, <2>3, DividedTwice
  <2>5. q = (q \div D) * D + (q % D)
    <3>1. q \in Int /\ D \in Nat /\ D > 0
      BY <1>1, <2>4
    <3> HIDE DEF q, D
    <3>. QED  BY <3>1, Divided
  <2>. QED  BY <2>2, <2>4, <2>5 DEF w
<1>5. b \in Seq(Nat) /\ Len(b) = n
  <2>1. \A i \in 1..n : (v \div W(i)) % D \in Nat
    <3> SUFFICES ASSUME NEW i \in 1..n
                 PROVE  (v \div W(i)) % D \in Nat
      OBVIOUS
    <3>1. v \div W(i) \in Nat
      BY <1>4
    <3>. QED  BY <1>1, <3>1, Divided
  <2> HIDE DEF b, W
  <2>. QED  BY <1>3, <2>1, FunctionIsSeq
<1>6. v \div W(0) = 0 /\ v \div W(n) = v
  <2>1. n - 0 = n /\ ByteBits * (n - n) = 0
    BY <1>1
  <2>2. W(n) = 1 /\ W(0) = Two[ByteBits * n]
    BY <2>1, TwoSteps
  <2>3. v \div Two[ByteBits * n] = 0
    <3>1. ByteBits * n \in Nat
      BY <1>1
    <3>. QED  BY <3>1, SmallDivided, TwoPositive
  <2>4. v \div 1 = v
    OBVIOUS
  <2>. QED  BY <2>2, <2>3, <2>4
<1>7. f = [i \in 0..Len(b) |-> IF i = 0 THEN 0 ELSE f[i - 1] * Two[ByteBits] + b[i]]
  <2>1. ASSUME NEW i \in 0..n
        PROVE  f[i] = IF i = 0 THEN 0 ELSE f[i - 1] * D + b[i]
    <3>1. CASE i = 0
      BY <1>6, <3>1
    <3>2. CASE i \in 1..n
      <4>1. i - 1 \in 0..n /\ f[i] = v \div W(i) /\ f[i - 1] = v \div W(i - 1)
        BY <3>2
      <4>2. b[i] = (v \div W(i)) % D
        BY <1>3, <3>2
      <4>3. v \div W(i) = (v \div W(i - 1)) * D + ((v \div W(i)) % D)
        BY <1>4, <3>2
      <4> HIDE DEF f, W, b, D
      <4>. QED  BY <3>2, <4>1, <4>2, <4>3
    <3>. QED  BY <3>1, <3>2
  <2>2. f = [i \in 0..n |-> f[i]]
    OBVIOUS
  <2> HIDE DEF f, b
  <2>. QED  BY <1>5, <2>1, <2>2
<1>8. f[n] = v
  BY <1>6
<1> HIDE DEF f, b
<1>9. Number(b) = f[Len(b)]
  BY <1>5, <1>7, NumberIs
<1>. QED  BY <1>5, <1>8, <1>9 DEF b

-----------------------------------------------------------------------------
(* The modes of Qc8 and Qc5e *)

\* put begins behind offset.
Stands(put, data, offset) ==
    /\ put \in Seq(Nat) /\ data \in Seq(Nat) /\ offset \in Nat
    /\ offset + Len(put) <= Len(data)
    /\ \A i \in 1..Len(put) : data[offset + i] = put[i]

LEMMA StandsBetween ==
    ASSUME NEW put \in Seq(Nat), NEW b \in Nat
    PROVE  /\ Stands(put, <<b>> \o put \o <<b>>, 1)
           /\ Stands(put, put \o <<b>>, 0)
           /\ Stands(put, put, 0)
<1>1. <<b>> \in Seq(Nat) /\ Len(<<b>>) = 1 /\ Len(put) \in Nat
  OBVIOUS
<1>2. /\ <<b>> \o put \in Seq(Nat) /\ Len(<<b>> \o put) = 1 + Len(put)
      /\ \A i \in 1..Len(put) : (<<b>> \o put)[1 + i] = put[i]
  OBVIOUS
<1>3. /\ <<b>> \o put \o <<b>> \in Seq(Nat)
      /\ Len(<<b>> \o put \o <<b>>) = 2 + Len(put)
      /\ \A i \in 1..(1 + Len(put)) : (<<b>> \o put \o <<b>>)[i] = (<<b>> \o put)[i]
  BY <1>1, <1>2
<1>4. /\ put \o <<b>> \in Seq(Nat) /\ Len(put \o <<b>>) = Len(put) + 1
      /\ \A i \in 1..Len(put) : (put \o <<b>>)[i] = put[i]
  OBVIOUS
<1>5. Stands(put, <<b>> \o put \o <<b>>, 1)
  BY <1>1, <1>2, <1>3 DEF Stands
<1>6. Stands(put, put \o <<b>>, 0)
  BY <1>1, <1>4 DEF Stands
<1>7. Stands(put, put, 0)
  BY <1>1 DEF Stands
<1>. QED  BY <1>5, <1>6, <1>7

\* A number that fits leaves the two top bits free.
LEMMA TopByte ==
    ASSUME NEW v \in Nat, NEW n \in Nat, n > 0, Fits(v, n)
    PROVE  /\ v < Two[ByteBits * n]
           /\ BigEndian(v, n)[1] \in Nat /\ BigEndian(v, n)[1] < ModeBit
<1> DEFINE w == Two[ByteBits * (n - 1)]
           q == v \div w
<1>1. ByteBits \in Nat /\ ByteBits - 2 \in Nat /\ n - 1 \in Nat /\ ByteBits * (n - 1) \in Nat
  BY Widths
<1>2. ByteBits * n - 2 = (ByteBits - 2) + ByteBits * (n - 1)
  BY <1>1
<1>3. Two[ByteBits * n - 2] = ModeBit * w
  BY <1>1, <1>2, TwoSum DEF ModeBit
<1>4. w \in Nat /\ w > 0 /\ ModeBit \in Nat /\ ModeBit >= 4 /\ Two[ByteBits] = 4 * ModeBit
  BY <1>1, TwoPositive, Widths
<1>5. v < ModeBit * w
  BY <1>3 DEF Fits
<1>6. q \in Nat /\ q < ModeBit
  <2> HIDE DEF w
  <2>. QED  BY <1>4, <1>5, QuotientBelow
<1>7. BigEndian(v, n)[1] = q % Two[ByteBits]
  BY DEF BigEndian
<1> HIDE DEF q
<1>8. q % Two[ByteBits] = q
  BY <1>4, <1>6, SmallDivided
<1>9. v < Two[ByteBits * n]
  <2>1. ByteBits * n - 2 \in Nat /\ ByteBits * n \in Nat /\ ByteBits * n - 2 <= ByteBits * n
    <3>1. ByteBits * n = ByteBits * (n - 1) + ByteBits
      BY <1>1
    <3>. QED  BY <1>1, <1>2, <3>1
  <2>2. Two[ByteBits * n - 2] <= Two[ByteBits * n]
    BY <2>1, TwoGrows
  <2>3. Two[ByteBits * n - 2] \in Nat /\ Two[ByteBits * n] \in Nat
    BY <2>1, TwoPositive
  <2>. QED  BY <2>2, <2>3 DEF Fits
<1>. QED  BY <1>6, <1>7, <1>8, <1>9

WithMode(bytes, m) == [bytes EXCEPT ![1] = (@ % ModeBit) + m * ModeBit]

LEMMA ModeByte ==
    ASSUME NEW b \in Nat, b < ModeBit, NEW m \in 0..3
    PROVE  LET x == (b % ModeBit) + m * ModeBit
           IN  x \in Nat /\ x \div ModeBit = m /\ x % ModeBit = b
<1>1. ModeBit \in Nat /\ ModeBit >= 4
  BY Widths
<1>2. b % ModeBit = b
  BY <1>1, SmallDivided
<1>3. m * ModeBit \in Nat /\ m \in Int
  BY <1>1
<1> DEFINE x == m * ModeBit + b
<1>4. x \in Int /\ x \in Nat /\ x = m * ModeBit + b
  BY <1>3
<1> HIDE DEF x
<1>5. x \div ModeBit = m /\ x % ModeBit = b
  BY <1>1, <1>3, <1>4, DividedOnce
<1>6. (b % ModeBit) + m * ModeBit = x
  BY <1>2, <1>3, <1>4
<1>. QED  BY <1>4, <1>5, <1>6

\* What the reader of a mode makes of a number written in it.
LEMMA ModeRead ==
    ASSUME NEW v \in Nat, NEW n \in Nat, n > 0, Fits(v, n), NEW m \in 0..3
    PROVE  /\ WithMode(BigEndian(v, n), m) \in Seq(Nat)
           /\ Len(WithMode(BigEndian(v, n), m)) = n
           /\ \A data, offset : Stands(WithMode(BigEndian(v, n), m), data, offset) =>
                  /\ offset < Len(data)
                  /\ data[offset + 1] \div ModeBit = m
                  /\ ReadMode(data, offset, n) = Ok(v, offset + n)
<1> DEFINE b == BigEndian(v, n)
           x == (b[1] % ModeBit) + m * ModeBit
           put == [b EXCEPT ![1] = x]
<1>1. v < Two[ByteBits * n] /\ b[1] \in Nat /\ b[1] < ModeBit
  BY TopByte
<1>2. b \in Seq(Nat) /\ Len(b) = n /\ Number(b) = v
  BY <1>1, BigEndianRead
<1> HIDE DEF b
<1>3. x \in Nat /\ x \div ModeBit = m /\ x % ModeBit = b[1]
  BY <1>1, ModeByte
<1> HIDE DEF x
<1>4. WithMode(b, m) = put
  BY DEF WithMode, x
<1>5. put \in Seq(Nat) /\ Len(put) = n /\ put[1] = x /\ 1 \in 1..n
  BY <1>2, <1>3
<1>6. b = [put EXCEPT ![1] = @ % ModeBit]
  <2>1. b \in [1..n -> Nat] /\ put \in [1..n -> Nat]
    BY <1>2, <1>5
  <2>2. \A i \in 1..n : b[i] = IF i = 1 THEN put[1] % ModeBit ELSE put[i]
    BY <1>2, <1>3
  <2> HIDE DEF put
  <2>3. [put EXCEPT ![1] = @ % ModeBit] = [i \in 1..n |-> b[i]]
    BY <2>1, <2>2
  <2>4. b = [i \in 1..n |-> b[i]]
    BY <2>1
  <2>. QED  BY <2>3, <2>4
<1> HIDE DEF put
<1>7. ASSUME NEW data, NEW offset, Stands(put, data, offset)
      PROVE  /\ offset < Len(data)
             /\ data[offset + 1] \div ModeBit = m
             /\ ReadMode(data, offset, n) = Ok(v, offset + n)
  <2>1. /\ data \in Seq(Nat) /\ offset \in Nat /\ Len(data) \in Nat
        /\ offset + n <= Len(data) /\ \A i \in 1..n : data[offset + i] = put[i]
    BY <1>5, <1>7 DEF Stands
  <2>2. SubSeq(data, offset + 1, offset + n) = put
    <3> DEFINE s == SubSeq(data, offset + 1, offset + n)
    <3>1. /\ offset + 1 \in 1..(Len(data) + 1) /\ offset + n \in ((offset + 1) - 1)..Len(data)
          /\ (offset + n) - (offset + 1) + 1 = n
          /\ \A i \in 1..n : (offset + 1) + i - 1 = offset + i
      BY <2>1
    <3>2. s \in Seq(Nat) /\ Len(s) = n /\ \A i \in 1..n : s[i] = data[offset + i]
      BY <2>1, <3>1, SubSeqProperties
    <3> HIDE DEF s
    <3>3. s \in [1..n -> Nat] /\ put \in [1..n -> Nat]
      BY <1>5, <3>2
    <3>4. \A i \in 1..n : s[i] = put[i]
      BY <2>1, <3>2
    <3>5. s = put
      BY <3>3, <3>4
    <3>. QED  BY <3>5 DEF s
  <2>3. ReadMode(data, offset, n) = Ok(Number(b), offset + n)
    <3>1. ~(offset + n > Len(data))
      BY <2>1
    <3>2. ReadMode(data, offset, n) = Ok(Number([put EXCEPT ![1] = @ % ModeBit]), offset + n)
      BY <2>2, <3>1 DEF ReadMode
    <3>. QED  BY <1>6, <3>2
  <2>4. data[offset + 1] = x
    BY <1>5, <2>1
  <2>. QED  BY <1>2, <1>3, <2>1, <2>3, <2>4
<1>8. WithMode(b, m) \in Seq(Nat) /\ Len(WithMode(b, m)) = n
  BY <1>4, <1>5
<1>. QED  BY <1>4, <1>7, <1>8 DEF b

\* A wider mode fits what a narrower one does.
LEMMA FitsWider ==
    ASSUME NEW v \in Nat, NEW n \in Nat, NEW k \in Nat, 0 < n, n <= k, Fits(v, n)
    PROVE  Fits(v, k)
<1>1. ByteBits \in Nat /\ ByteBits > 3
  BY Widths
<1>2. (k - n) * ByteBits \in Nat /\ (n - 1) * ByteBits \in Nat
  BY <1>1
<1>3. /\ ByteBits * k = ByteBits * n + (k - n) * ByteBits
      /\ ByteBits * n = (n - 1) * ByteBits + ByteBits
  BY <1>1
<1>4. ByteBits * n - 2 \in Nat /\ ByteBits * k - 2 \in Nat /\ ByteBits * n - 2 <= ByteBits * k - 2
  BY <1>1, <1>2, <1>3
<1>5. Two[ByteBits * n - 2] <= Two[ByteBits * k - 2]
  BY <1>4, TwoGrows
<1>6. Two[ByteBits * n - 2] \in Nat /\ Two[ByteBits * k - 2] \in Nat
  BY <1>4, TwoPositive
<1>. QED  BY <1>5, <1>6 DEF Fits

LEMMA PutModeFits ==
    ASSUME NEW v \in Nat, NEW shortest \in Nat, NEW modes \in SUBSET (0..3), NEW top \in modes,
           \A m \in modes : shortest + m > 0 /\ m <= top
    PROVE  /\ Fits(v, shortest + top) =>
                  \E m \in modes : /\ Fits(v, shortest + m)
                                   /\ PutMode(v, shortest, modes)
                                        = Ok(WithMode(BigEndian(v, shortest + m), m), 0)
           /\ ~Fits(v, shortest + top) => PutMode(v, shortest, modes) = Err
<1> DEFINE wide == {m \in modes : Fits(v, shortest + m)}
           mode == Min(wide)
<1>1. wide \in SUBSET Nat
  <2>1. \A m \in modes : m \in Nat
    OBVIOUS
  <2>. QED  BY <2>1
<1>2. ASSUME Fits(v, shortest + top)
      PROVE  \E m \in modes : /\ Fits(v, shortest + m)
                              /\ PutMode(v, shortest, modes)
                                   = Ok(WithMode(BigEndian(v, shortest + m), m), 0)
  <2>1. wide # {}
    BY <1>2
  <2>2. mode \in wide
    <3> HIDE DEF wide
    <3>. QED  BY <1>1, <2>1, LeastElement
  <2>3. PutMode(v, shortest, modes) = Ok(WithMode(BigEndian(v, shortest + mode), mode), 0)
    BY <2>1 DEF PutMode, WithMode
  <2> HIDE DEF mode
  <2>. QED  BY <2>2, <2>3
<1>3. ASSUME ~Fits(v, shortest + top)
      PROVE  PutMode(v, shortest, modes) = Err
  <2>1. \A m \in modes : ~Fits(v, shortest + m)
    <3> SUFFICES ASSUME NEW m \in modes, Fits(v, shortest + m)
                 PROVE  FALSE
      OBVIOUS
    <3>1. /\ shortest + m \in Nat /\ shortest + top \in Nat
          /\ 0 < shortest + m /\ shortest + m <= shortest + top
      OBVIOUS
    <3>. QED  BY <1>3, <3>1, FitsWider
  <2>2. wide = {}
    BY <2>1
  <2>. QED  BY <2>2 DEF PutMode
<1>. QED  BY <1>2, <1>3

LEMMA Qc8RoundTrip ==
    ASSUME NEW v \in Nat
    PROVE  LET put == PutQc8(v)
           IN  IF v < Two[ByteBits * (Qc8Bytes + 3) - 2]
               THEN /\ put.value \in Seq(Nat)
                    /\ \A data, offset : Stands(put.value, data, offset) =>
                          ReadQc8(data, offset) = Ok(v, offset + Len(put.value))
               ELSE put = Err
<1>1. /\ Qc8Bytes \in Nat /\ 0..3 \in SUBSET (0..3) /\ 3 \in 0..3
      /\ \A m \in 0..3 : Qc8Bytes + m > 0 /\ m <= 3 /\ Qc8Bytes + m \in Nat
  BY Widths
<1>2. v < Two[ByteBits * (Qc8Bytes + 3) - 2] <=> Fits(v, Qc8Bytes + 3)
  BY DEF Fits
<1>3. ASSUME Fits(v, Qc8Bytes + 3)
      PROVE  /\ PutQc8(v).value \in Seq(Nat)
             /\ \A data, offset : Stands(PutQc8(v).value, data, offset) =>
                   ReadQc8(data, offset) = Ok(v, offset + Len(PutQc8(v).value))
  <2>1. PICK m \in 0..3 : /\ Fits(v, Qc8Bytes + m)
                          /\ PutMode(v, Qc8Bytes, 0..3)
                               = Ok(WithMode(BigEndian(v, Qc8Bytes + m), m), 0)
    BY <1>1, <1>3, PutModeFits
  <2> DEFINE n == Qc8Bytes + m
             put == WithMode(BigEndian(v, n), m)
  <2>2. PutQc8(v).value = put
    BY <2>1 DEF PutQc8, Ok
  <2>3. n \in Nat /\ n > 0 /\ Fits(v, n)
    BY <1>1, <2>1
  <2>4. /\ put \in Seq(Nat) /\ Len(put) = n
        /\ \A data, offset : Stands(put, data, offset) =>
               /\ offset < Len(data)
               /\ data[offset + 1] \div ModeBit = m
               /\ ReadMode(data, offset, n) = Ok(v, offset + n)
    <3> HIDE DEF n
    <3>. QED  BY <2>3, ModeRead
  <2> HIDE DEF put
  <2>5. ASSUME NEW data, NEW offset, Stands(put, data, offset)
        PROVE  ReadQc8(data, offset) = Ok(v, offset + n)
    <3>1. /\ offset < Len(data) /\ data[offset + 1] \div ModeBit = m
          /\ ReadMode(data, offset, n) = Ok(v, offset + n)
      BY <2>4, <2>5
    <3>2. offset \in Nat /\ Len(data) \in Nat
      BY <2>5 DEF Stands
    <3>3. ~(offset >= Len(data))
      BY <3>1, <3>2
    <3>. QED  BY <3>1, <3>3 DEF ReadQc8
  <2>. QED  BY <2>2, <2>4, <2>5
<1>4. ASSUME ~Fits(v, Qc8Bytes + 3)
      PROVE  PutQc8(v) = Err
  BY <1>1, <1>4, PutModeFits DEF PutQc8
<1>. QED  BY <1>2, <1>3, <1>4

LEMMA OkIsNoErr == \A x, y : Ok(x, y) # Err
<1> SUFFICES ASSUME NEW x, NEW y, Ok(x, y) = Err
             PROVE  FALSE
  OBVIOUS
<1>1. DOMAIN Ok(x, y) = {"value", "next"} /\ DOMAIN Err = {"error"}
  BY DEF Ok, Err
<1>. QED  BY <1>1

\* The number, or the name it has been given.
LEMMA Qc5eRoundTrip ==
    ASSUME NEW v \in Nat, NEW e \in {None, 0, 1, 2}
    PROVE  LET put == PutQc5e(v, e)
               q   == IF e = None THEN Integer(v) ELSE Enum(e)
           IN  IF e # None \/ v < Two[ByteBits * (Qc5eBytes + 2) - 2]
               THEN /\ put.value \in Seq(Nat)
                    /\ \A data, offset : Stands(put.value, data, offset) =>
                          ReadQc5e(data, offset) = Ok(q, offset + Len(put.value))
               ELSE put = Err
<1>0. ModeBit \in Nat /\ ModeBit >= 4
  BY Widths
<1>1. CASE e # None
  <2>1. e \in Nat /\ e < ModeBit
    BY <1>0, <1>1 DEF None
  <2>2. PutQc5e(v, e).value = <<e>> /\ <<e>> \in Seq(Nat) /\ Len(<<e>>) = 1
    BY <1>1, <2>1 DEF PutQc5e, Ok
  <2>3. e \div ModeBit = 0 /\ e % ModeBit = e
    BY <1>0, <2>1, SmallDivided
  <2>4. ASSUME NEW data, NEW offset, Stands(<<e>>, data, offset)
        PROVE  ReadQc5e(data, offset) = Ok(Enum(e), offset + 1)
    <3>1. /\ offset \in Nat /\ Len(data) \in Nat /\ offset + 1 <= Len(data)
          /\ data[offset + 1] = e
      <4>1. 1 \in 1..Len(<<e>>) /\ <<e>>[1] = e /\ Len(<<e>>) = 1
        OBVIOUS
      <4>. QED  BY <2>4, <4>1 DEF Stands
    <3>2. ~(offset >= Len(data))
      BY <3>1
    <3>. QED  BY <2>3, <3>1, <3>2 DEF ReadQc5e
  <2>. QED  BY <1>1, <2>2, <2>4
<1>2. CASE e = None
  <2> DEFINE low == Qc5eBytes - 1
  <2>1. /\ low \in Nat /\ 1..3 \in SUBSET (0..3) /\ 3 \in 1..3
        /\ \A m \in 1..3 : low + m > 0 /\ m <= 3 /\ low + m \in Nat
        /\ low + 3 = Qc5eBytes + 2
    BY Widths
  <2>2. v < Two[ByteBits * (Qc5eBytes + 2) - 2] <=> Fits(v, low + 3)
    BY <2>1 DEF Fits
  <2>3. PutQc5e(v, e) = PutMode(v, low, 1..3)
    BY <1>2 DEF PutQc5e
  <2>4. ASSUME Fits(v, low + 3)
        PROVE  /\ PutQc5e(v, e).value \in Seq(Nat)
               /\ \A data, offset : Stands(PutQc5e(v, e).value, data, offset) =>
                     ReadQc5e(data, offset)
                        = Ok(Integer(v), offset + Len(PutQc5e(v, e).value))
    <3> HIDE DEF low
    <3>1. PICK m \in 1..3 : /\ Fits(v, low + m)
                            /\ PutMode(v, low, 1..3)
                                 = Ok(WithMode(BigEndian(v, low + m), m), 0)
      BY <2>1, <2>4, PutModeFits
    <3> DEFINE n == low + m
               put == WithMode(BigEndian(v, n), m)
    <3>2. PutQc5e(v, e).value = put
      BY <2>3, <3>1 DEF Ok
    <3>3. n \in Nat /\ n > 0 /\ Fits(v, n) /\ m \in 0..3 /\ m # 0
      BY <2>1, <3>1
    <3>4. /\ put \in Seq(Nat) /\ Len(put) = n
          /\ \A data, offset : Stands(put, data, offset) =>
                 /\ offset < Len(data)
                 /\ data[offset + 1] \div ModeBit = m
                 /\ ReadMode(data, offset, n) = Ok(v, offset + n)
      <4> HIDE DEF n
      <4>. QED  BY <3>3, ModeRead
    <3> HIDE DEF put
    <3>5. ASSUME NEW data, NEW offset, Stands(put, data, offset)
          PROVE  ReadQc5e(data, offset) = Ok(Integer(v), offset + n)
      <4>1. /\ offset < Len(data) /\ data[offset + 1] \div ModeBit = m
            /\ ReadMode(data, offset, n) = Ok(v, offset + n)
        BY <3>4, <3>5
      <4>2. offset \in Nat /\ Len(data) \in Nat
        BY <3>5 DEF Stands
      <4>3. ~(offset >= Len(data))
        BY <4>1, <4>2
      <4>4. ReadMode(data, offset, Qc5eBytes - 1 + m) = Ok(v, offset + n)
        BY <4>1 DEF low
      <4>5. Ok(v, offset + n) # Err
        BY OkIsNoErr
      <4>6. Ok(v, offset + n).value = v /\ Ok(v, offset + n).next = offset + n
        BY DEF Ok
      <4> HIDE DEF n
      <4>. QED  BY <3>3, <4>1, <4>3, <4>4, <4>5, <4>6 DEF ReadQc5e
    <3>. QED  BY <3>2, <3>4, <3>5
  <2>5. ASSUME ~Fits(v, low + 3)
        PROVE  PutQc5e(v, e) = Err
    <3> HIDE DEF low
    <3>. QED  BY <2>1, <2>3, <2>5, PutModeFits
  <2>. QED  BY <1>2, <2>2, <2>4, <2>5
<1>. QED  BY <1>1, <1>2

-----------------------------------------------------------------------------
(* Groups of seven bits, and the sign *)

LEMMA Shifts ==
    /\ More \in Nat /\ More > 0
    /\ Shift(0) = 1
    /\ \A i \in Nat : Shift(i) \in Nat /\ Shift(i) > 0 /\ Shift(i + 1) = Shift(i) * More
<1>1. ByteBits - 1 \in Nat /\ More \in Nat /\ More > 0
  BY Widths, TwoPositive DEF More
<1>2. (ByteBits - 1) * 0 = 0
  BY <1>1
<1>3. ASSUME NEW i \in Nat
      PROVE  Shift(i) \in Nat /\ Shift(i) > 0 /\ Shift(i + 1) = Shift(i) * More
  <2>1. (ByteBits - 1) * i \in Nat /\ (ByteBits - 1) * (i + 1) = (ByteBits - 1) * i + (ByteBits - 1)
    BY <1>1
  <2>. QED  BY <1>1, <2>1, TwoPositive, TwoSum DEF Shift, More
<1>. QED  BY <1>1, <1>2, <1>3, TwoSteps DEF Shift

LEMMA Groups ==
    ASSUME NEW v \in Nat, NEW i \in Nat
    PROVE  /\ Group(v, i) \in Nat /\ Group(v, i) < More
           /\ v % Shift(i) \in Nat
           /\ v % Shift(i + 1) = (v % Shift(i)) + Group(v, i) * Shift(i)
<1> DEFINE w == Shift(i)
           q == v \div w
<1>1. More \in Nat /\ More > 0 /\ w \in Nat /\ w > 0 /\ Shift(i + 1) = w * More
  BY Shifts
<1> HIDE DEF w
<1>2. q \in Nat /\ (v % (w * More)) = (q % More) * w + (v % w) /\ v % w \in Nat
  <2>1. v % w \in Nat
    BY <1>1, Divided
  <2>2. q \in Nat /\ (v % (w * More)) = (q % More) * w + (v % w)
    BY <1>1, DividedTwice, Zenon
  <2>. QED  BY <2>1, <2>2
<1> HIDE DEF q
<1>3. q % More \in Nat /\ q % More < More
  BY <1>1, <1>2, Divided
<1>4. (q % More) * w \in Nat
  BY <1>1, <1>3
<1>. QED  BY <1>1, <1>2, <1>3, <1>4 DEF Group, w, q

LEMMA Lengths ==
    ASSUME NEW v \in Nat, v < Two[WordBits]
    PROVE  LET n == Uleb128Len(v)
           IN  /\ n \in Nat /\ n >= 1 /\ v < Shift(n)
               /\ (n - 1) * (ByteBits - 1) < WordBits
<1> DEFINE wide == {n \in Nat : n >= 1 /\ v < Shift(n)}
           P(n) == v < Shift(n) /\ \A m \in 1..(n - 1) : v >= Shift(m)
           k == Min(wide)
<1>1. /\ ByteBits - 1 \in Nat /\ ByteBits - 1 >= 1 /\ WordBits \in Nat /\ WordBits >= 1
      /\ Two[WordBits] \in Nat
  BY Widths, TwoPositive
<1>2. WordBits \in wide
  <2>1. (ByteBits - 1) * WordBits >= WordBits /\ (ByteBits - 1) * WordBits \in Nat
    BY <1>1, ProductAtLeast
  <2>2. Two[WordBits] <= Shift(WordBits)
    BY <1>1, <2>1, TwoGrows DEF Shift
  <2>3. Shift(WordBits) \in Nat
    BY <1>1, Shifts
  <2>. QED  BY <1>1, <2>2, <2>3
<1>3. k \in wide /\ \A y \in wide : k <= y
  <2>1. wide \in SUBSET Nat
    OBVIOUS
  <2> HIDE DEF wide
  <2>. QED  BY <1>2, <2>1, LeastElement
<1>4. \A m \in Nat : Shift(m) \in Nat
  BY Shifts
<1>5. k \in 1..WordBits /\ P(k)
  <2>1. k \in Nat /\ k >= 1 /\ v < Shift(k) /\ k <= WordBits
    BY <1>2, <1>3
  <2>2. ASSUME NEW m \in 1..(k - 1)
        PROVE  v >= Shift(m)
    <3>1. m \in Nat /\ m >= 1 /\ ~(k <= m) /\ Shift(m) \in Nat
      BY <1>4, <2>1
    <3>2. m \notin wide
      BY <1>3, <3>1
    <3>. QED  BY <3>1, <3>2
  <2> HIDE DEF k
  <2>. QED  BY <1>1, <2>1, <2>2
<1> DEFINE n == Uleb128Len(v)
<1>6. n \in 1..WordBits /\ P(n)
  <2>1. n = CHOOSE i \in 1..WordBits : P(i)
    BY DEF Uleb128Len
  <2> HIDE DEF k, P, n
  <2>. QED  BY <1>5, <2>1
<1> HIDE DEF n
<1>7. (n - 1) * (ByteBits - 1) < WordBits
  <2>1. CASE n = 1
    BY <1>1, <2>1
  <2>2. CASE n # 1
    <3>1. n - 1 \in 1..(n - 1) /\ n - 1 \in Nat
      BY <1>1, <1>6, <2>2
    <3>2. v >= Shift(n - 1) /\ Shift(n - 1) \in Nat
      BY <1>4, <1>6, <3>1
    <3>3. (n - 1) * (ByteBits - 1) = (ByteBits - 1) * (n - 1) /\ (ByteBits - 1) * (n - 1) \in Nat
      BY <1>1, <3>1
    <3>4. ASSUME WordBits <= (ByteBits - 1) * (n - 1)
          PROVE  FALSE
      <4>1. Two[WordBits] <= Shift(n - 1)
        BY <1>1, <3>3, <3>4, TwoGrows DEF Shift
      <4>. QED  BY <1>1, <3>2, <4>1
    <3>. QED  BY <1>1, <3>3, <3>4
  <2>. QED  BY <2>1, <2>2
<1>. QED  BY <1>1, <1>6, <1>7 DEF n

LEMMA Uleb128RoundTrip ==
    ASSUME NEW v \in Nat, v < Two[WordBits]
    PROVE  /\ PutUleb128(v) \in Seq(Nat)
           /\ \A data, offset : Stands(PutUleb128(v), data, offset) =>
                  ReadUleb128(data, offset) = Ok(v, offset + Len(PutUleb128(v)))
<1> DEFINE n == Uleb128Len(v)
           put == PutUleb128(v)
           g(i) == Group(v, i - 1)
<1>1. /\ n \in Nat /\ n >= 1 /\ v < Shift(n) /\ (n - 1) * (ByteBits - 1) < WordBits
      /\ ByteBits - 1 \in Nat /\ WordBits \in Nat /\ n - 1 \in Nat
      /\ (n - 1) * (ByteBits - 1) \in Nat
  BY Lengths, Widths
<1>2. put = [i \in 1..n |-> g(i) + (IF i < n THEN More ELSE 0)]
  BY DEF PutUleb128
<1> HIDE DEF n, put
<1>3. More \in Nat /\ More > 0
  BY Shifts
<1>4. \A i \in 1..n : i - 1 \in Nat /\ g(i) \in Nat /\ g(i) < More
  <2>1. \A i \in 1..n : i - 1 \in Nat
    OBVIOUS
  <2>. QED  BY <2>1, Groups
<1> HIDE DEF g
<1>5. put \in Seq(Nat) /\ Len(put) = n
  <2>1. \A i \in 1..n : g(i) + (IF i < n THEN More ELSE 0) \in Nat
    BY <1>3, <1>4
  <2>2. put \in [1..n -> Nat]
    BY <1>2, <2>1
  <2>. QED  BY <1>1, <2>2, FunctionIsSeq
<1>6. ASSUME NEW i \in 1..n
      PROVE  put[i] \in Nat /\ put[i] % More = g(i) /\ (put[i] < More <=> i = n)
  <2>1. i \in Nat /\ i <= n /\ n \in Nat /\ g(i) \in Nat /\ g(i) < More
    BY <1>1, <1>4
  <2>2. CASE i = n
    <3>1. put[i] = g(i)
      BY <1>2, <2>1, <2>2
    <3>. QED  BY <1>3, <2>1, <2>2, <3>1, SmallDivided
  <2>3. CASE i < n
    <3>1. put[i] = g(i) + More
      BY <1>2, <2>3
    <3> DEFINE one == 1
    <3>2. put[i] \in Int /\ one \in Int /\ put[i] = one * More + g(i)
      BY <1>3, <2>1, <3>1
    <3> HIDE DEF one
    <3>3. put[i] % More = g(i)
      BY <1>3, <2>1, <3>2, DividedOnce
    <3>. QED  BY <1>3, <2>1, <2>3, <3>1, <3>3
  <2>. QED  BY <2>1, <2>2, <2>3
<1>7. ASSUME NEW data, NEW offset, Stands(put, data, offset)
      PROVE  ReadUleb128(data, offset) = Ok(v, offset + n)
  <2> DEFINE ends == {i \in (offset + 1)..Len(data) : data[i] < More}
             end == Min(ends)
             R(N, f) == f = [i \in 0..N |->
                                IF i = 0 THEN 0
                                ELSE f[i - 1] + (data[offset + i] % More) * Shift(i - 1)]
             value(N) == CHOOSE f : R(N, f)
             F == [i \in 0..n |-> v % Shift(i)]
  <2>1. /\ offset \in Nat /\ Len(data) \in Nat /\ offset + n <= Len(data)
        /\ \A i \in 1..n : data[offset + i] = put[i]
    BY <1>1, <1>5, <1>7 DEF Stands
  <2>2. offset + n \in ends
    <3>1. n \in 1..n /\ offset + n \in (offset + 1)..Len(data)
      BY <1>1, <2>1
    <3>. QED  BY <1>6, <2>1, <3>1
  <2>3. \A j \in ends : offset + n <= j
    <3> SUFFICES ASSUME NEW j \in ends, j < offset + n
                 PROVE  FALSE
      BY <1>1, <2>1
    <3>1. j - offset \in 1..n /\ j - offset # n /\ offset + (j - offset) = j
      BY <1>1, <2>1
    <3>2. data[j] < More
      OBVIOUS
    <3> HIDE DEF ends
    <3>. QED  BY <1>6, <2>1, <3>1, <3>2
  <2>4. end = offset + n
    <3>1. ends \in SUBSET Nat /\ ends # {}
      BY <2>1, <2>2
    <3>2. \A j \in ends : j \in Nat
      BY <2>1
    <3> HIDE DEF ends
    <3>3. end \in ends /\ \A j \in ends : end <= j
      BY <3>1, LeastElement
    <3> HIDE DEF end
    <3>4. end <= offset + n /\ offset + n <= end /\ end \in Nat /\ offset + n \in Nat
      BY <2>2, <2>3, <3>2, <3>3
    <3>. QED  BY <3>4
  <2>5. ends # {} /\ end - offset = n /\ ~((n - 1) * (ByteBits - 1) >= WordBits)
    <3> HIDE DEF ends, end
    <3>. QED  BY <1>1, <2>1, <2>2, <2>4
  <2>6. ReadUleb128(data, offset) = Ok(value(n)[n] % Two[WordBits], offset + n)
    <3>1. ReadUleb128(data, offset) =
             IF ends = {} \/ ((end - offset) - 1) * (ByteBits - 1) >= WordBits THEN Err
             ELSE Ok(value(end - offset)[end - offset] % Two[WordBits], end)
      BY DEF ReadUleb128
    <3> HIDE DEF ends, end, value
    <3>. QED  BY <2>4, <2>5, <3>1
  <2>7. R(n, F)
    <3>1. ASSUME NEW i \in 0..n
          PROVE  F[i] = IF i = 0 THEN 0
                        ELSE F[i - 1] + (data[offset + i] % More) * Shift(i - 1)
      <4>1. CASE i = 0
        <5>1. v % 1 = 0
          OBVIOUS
        <5>2. F[i] = v % Shift(0)
          BY <4>1
        <5>. QED  BY <4>1, <5>1, <5>2, Shifts
      <4>2. CASE i \in 1..n
        <5>1. i - 1 \in 0..n /\ i - 1 \in Nat /\ (i - 1) + 1 = i /\ i # 0
          BY <1>1, <4>2
        <5>2. F[i] = v % Shift(i) /\ F[i - 1] = v % Shift(i - 1)
          BY <5>1
        <5>3. v % Shift(i) = (v % Shift(i - 1)) + Group(v, i - 1) * Shift(i - 1)
          <6>1. v % Shift((i - 1) + 1) = (v % Shift(i - 1)) + Group(v, i - 1) * Shift(i - 1)
            BY <5>1, Groups
          <6>. QED  BY <5>1, <6>1
        <5>4. data[offset + i] % More = Group(v, i - 1)
          BY <1>6, <2>1, <4>2 DEF g
        <5> HIDE DEF F
        <5>. QED  BY <5>1, <5>2, <5>3, <5>4
      <4>. QED  BY <4>1, <4>2
    <3>2. F = [i \in 0..n |-> F[i]]
      OBVIOUS
    <3> HIDE DEF F
    <3>. QED  BY <3>1, <3>2
  <2>8. value(n)[n] = F[n]
    <3>1. R(n, value(n))
      <4> HIDE DEF R, F
      <4>. QED  BY <2>7
    <3> HIDE DEF value, F
    <3>2. \A i \in 1..n :
             /\ i \in 0..n /\ i # 0
             /\ F[i] = F[i - 1] + (data[offset + i] % More) * Shift(i - 1)
             /\ value(n)[i] = value(n)[i - 1] + (data[offset + i] % More) * Shift(i - 1)
      BY <1>1, <2>7, <3>1
    <3>3. F[0] = 0 /\ value(n)[0] = 0
      BY <1>1, <2>7, <3>1
    <3> HIDE DEF R
    <3> DEFINE V == value(n)
    <3>4. F[0] = V[0] /\ \A i \in 1..n : F[i - 1] = V[i - 1] => F[i] = V[i]
      BY <3>2, <3>3
    <3> HIDE DEF V
    <3>5. F[n] = V[n]
      BY <1>1, <3>4, SameRecursion
    <3>. QED  BY <3>5 DEF V
  <2>9. F[n] = v /\ v % Two[WordBits] = v
    <3>1. n \in 0..n /\ Shift(n) \in Nat /\ Two[WordBits] \in Nat
      BY <1>1, Shifts, TwoPositive
    <3>2. F[n] = v % Shift(n)
      BY <3>1
    <3>. QED  BY <1>1, <3>1, <3>2, SmallDivided
  <2> HIDE DEF F, value
  <2>. QED  BY <2>6, <2>8, <2>9
<1>. QED  BY <1>5, <1>7 DEF put

LEMMA ZigZagRoundTrip ==
    ASSUME NEW v \in Int, -Two[WordBits - 1] <= v, v < Two[WordBits - 1]
    PROVE  ZigZagDecode(ZigZagEncode(v)) = v
<1> DEFINE H == Two[WordBits - 1]
           D == Two[WordBits]
<1>1. H \in Nat /\ D = 2 * H /\ H > 0
  <2>1. WordBits - 1 \in Nat /\ (WordBits - 1) + 1 = WordBits
    BY Widths
  <2>2. Two[(WordBits - 1) + 1] = 2 * Two[WordBits - 1]
    BY <2>1, TwoSteps
  <2>. QED  BY <2>1, <2>2, TwoPositive
<1> HIDE DEF D
<1>2. -H <= v /\ v < H
  OBVIOUS
<1> HIDE DEF H
<1>3. CASE v >= 0
  <2>1. (2 * v) % D = 2 * v
    <3>1. 2 * v \in Nat /\ 2 * v < D /\ D \in Nat
      BY <1>1, <1>2, <1>3
    <3>. QED  BY <3>1, SmallDivided
  <2>2. ZigZagEncode(v) = 2 * v
    BY <1>3, <2>1 DEF ZigZagEncode, D
  <2>3. (2 * v) % 2 = 0 /\ (2 * v) \div 2 = v
    OBVIOUS
  <2>. QED  BY <2>2, <2>3 DEF ZigZagDecode
<1>4. CASE v < 0
  <2> DEFINE r == 2 * v + D
             u == D - 1 - r
  <2>1. D \in Nat /\ r \in Nat /\ r < D /\ 2 * v \in Int /\ -1 \in Int /\ 2 * v = (-1) * D + r
    BY <1>1, <1>2, <1>4
  <2>2. (2 * v) % D = r
    <3> HIDE DEF r
    <3>. QED  BY <2>1, DividedOnce
  <2>3. ZigZagEncode(v) = u
    BY <1>4, <2>2 DEF ZigZagEncode, D
  <2>4. u = 2 * (-v - 1) + 1 /\ -v - 1 \in Nat
    BY <1>1, <1>4
  <2> DEFINE k == -v - 1
  <2>5. u % 2 = 1 /\ u \div 2 = k
    <3>1. k \in Nat /\ u = 2 * k + 1
      BY <2>4
    <3> HIDE DEF k, u
    <3>. QED  BY <3>1
  <2>6. -k - 1 = v
    OBVIOUS
  <2> HIDE DEF u, k
  <2>. QED  BY <2>3, <2>5, <2>6 DEF ZigZagDecode
<1>. QED  BY <1>3, <1>4

-----------------------------------------------------------------------------
(* The law of the integer codecs *)

LEMMA Limits ==
    /\ Two[ByteBits * (Qc5eBytes + 2) - 2] \in Nat
    /\ Two[ByteBits * (Qc5eBytes + 2) - 2] > 0
    /\ \A v \in {0, GasLimits[1], GasLimits[2], CorePrice, EspacePrice} :
          v \in Nat /\ v < Two[ByteBits * (Qc5eBytes + 2) - 2]
<1>1. ByteBits \in Nat /\ ByteBits > 3 /\ Qc5eBytes \in Nat
  BY Widths
<1>2. ByteBits * Qc5eBytes \in Nat /\ ByteBits * (Qc5eBytes + 2) = ByteBits * Qc5eBytes + 2 * ByteBits
  BY <1>1
<1>3. ByteBits * (Qc5eBytes + 2) - 2 \in Nat
  BY <1>1, <1>2
<1> DEFINE L == Two[ByteBits * (Qc5eBytes + 2) - 2]
<1>4. L \in Nat /\ L > 0
  BY <1>3, TwoPositive
<1>5. \A v \in {GasLimits[1], GasLimits[2], CorePrice, EspacePrice} : v \in Nat /\ v < L
  BY NamedAssumption DEF Fits
<1> HIDE DEF L
<1>. QED  BY <1>4, <1>5 DEF L

\* A named price is read as the number it stands for.
LEMMA BasePriceRoundTrip ==
    ASSUME NEW v \in Nat, NEW b \in Nat, NEW espace \in BOOLEAN
    PROVE  LET put == PutQc5e(v, BasePriceEnum(v, espace))
           IN  IF v < Two[ByteBits * (Qc5eBytes + 2) - 2]
               THEN /\ BasePrice(ReadQc5e(put.value, 0).value, espace) = v
                    /\ ReadQc5e(put.value \o <<b>>, 0).next = Len(put.value)
               ELSE put = Err
<1> DEFINE e == BasePriceEnum(v, espace)
           put == PutQc5e(v, e)
           q == IF e = None THEN Integer(v) ELSE Enum(e)
           L == Two[ByteBits * (Qc5eBytes + 2) - 2]
<1>1. /\ e \in {None, 0, 1, 2}
      /\ e # None => v < L
      /\ BasePrice(q, espace) = v
  <2>1. \/ e = 0 /\ v = 0
        \/ e = 1 /\ v = DefaultPrice(espace)
        \/ e = None
    BY DEF BasePriceEnum
  <2>2. v = DefaultPrice(espace) => v \in {CorePrice, EspacePrice}
    BY DEF DefaultPrice
  <2>3. e # None => v < L
    BY <2>1, <2>2, Limits
  <2> HIDE DEF e, L
  <2>4. BasePrice(q, espace) = v
    BY <2>1 DEF BasePrice, Enum, Integer, None
  <2>. QED  BY <2>1, <2>3, <2>4
<1> HIDE DEF e, q
<1>2. IF e # None \/ v < L
      THEN /\ put.value \in Seq(Nat)
           /\ \A data, offset : Stands(put.value, data, offset) =>
                 ReadQc5e(data, offset) = Ok(q, offset + Len(put.value))
      ELSE put = Err
  BY <1>1, Qc5eRoundTrip DEF q
<1> HIDE DEF put, L
<1>3. CASE v < L
  <2>1. /\ put.value \in Seq(Nat)
        /\ \A data, offset : Stands(put.value, data, offset) =>
              ReadQc5e(data, offset) = Ok(q, offset + Len(put.value))
    BY <1>2, <1>3
  <2>2. Stands(put.value, put.value, 0) /\ Stands(put.value, put.value \o <<b>>, 0)
    BY <2>1, StandsBetween
  <2>3. /\ ReadQc5e(put.value, 0) = Ok(q, 0 + Len(put.value))
        /\ ReadQc5e(put.value \o <<b>>, 0) = Ok(q, 0 + Len(put.value))
    BY <2>1, <2>2
  <2>4. 0 + Len(put.value) = Len(put.value)
    BY <2>1
  <2>5. /\ BasePrice(ReadQc5e(put.value, 0).value, espace) = v
        /\ ReadQc5e(put.value \o <<b>>, 0).next = Len(put.value)
    BY <1>1, <2>3, <2>4 DEF Ok
  <2>. QED  BY <1>3, <2>5 DEF put, e, L
<1>4. CASE ~(v < L)
  <2>1. put = Err
    BY <1>1, <1>2, <1>4
  <2>. QED  BY <1>4, <2>1 DEF put, e, L
<1>. QED  BY <1>3, <1>4

LEMMA GasLimitRoundTrip ==
    ASSUME NEW v \in Nat
    PROVE  LET put == PutQc5e(v, GasLimitEnum(v))
           IN  IF v < Two[ByteBits * (Qc5eBytes + 2) - 2]
               THEN GasLimit(ReadQc5e(put.value, 0).value) = v
               ELSE put = Err
<1> DEFINE e == GasLimitEnum(v)
           put == PutQc5e(v, e)
           q == IF e = None THEN Integer(v) ELSE Enum(e)
           L == Two[ByteBits * (Qc5eBytes + 2) - 2]
<1>1. /\ e \in {None, 0, 1, 2}
      /\ e # None => v < L
      /\ GasLimit(q) = v
  <2>1. \/ e = 1 /\ v = GasLimits[1]
        \/ e = 2 /\ v = GasLimits[2]
        \/ e = 0 /\ v = 0
        \/ e = None
    BY DEF GasLimitEnum
  <2>2. /\ e = 1 => v < L
        /\ e = 2 => v < L
        /\ e = 0 => v < L
    BY <2>1, Limits DEF None
  <2> HIDE DEF e, L
  <2>3. CASE e = None
    BY <2>3 DEF GasLimit, Integer
  <2>4. CASE e # None
    <3>1. q = [enum |-> TRUE, number |-> e] /\ e \in {0, 1, 2}
      BY <2>1, <2>4 DEF Enum
    <3>2. GasLimit(q) = IF e \in {1, 2} THEN GasLimits[e] ELSE 0
      BY <3>1 DEF GasLimit
    <3>3. GasLimit(q) = v
      BY <2>1, <2>4, <3>2 DEF None
    <3>. QED  BY <2>2, <3>1, <3>3
  <2>. QED  BY <2>3, <2>4
<1> HIDE DEF e, q
<1>2. IF e # None \/ v < L
      THEN /\ put.value \in Seq(Nat)
           /\ \A data, offset : Stands(put.value, data, offset) =>
                 ReadQc5e(data, offset) = Ok(q, offset + Len(put.value))
      ELSE put = Err
  BY <1>1, Qc5eRoundTrip DEF q
<1> HIDE DEF put, L
<1>3. CASE v < L
  <2>1. /\ put.value \in Seq(Nat)
        /\ \A data, offset : Stands(put.value, data, offset) =>
              ReadQc5e(data, offset) = Ok(q, offset + Len(put.value))
    BY <1>2, <1>3
  <2>2. Stands(put.value, put.value, 0)
    BY <2>1, StandsBetween
  <2>3. ReadQc5e(put.value, 0) = Ok(q, 0 + Len(put.value))
    BY <2>1, <2>2
  <2>4. GasLimit(ReadQc5e(put.value, 0).value) = v
    BY <1>1, <2>3 DEF Ok
  <2>. QED  BY <1>3, <2>4 DEF put, e, L
<1>4. CASE ~(v < L)
  <2>1. put = Err
    BY <1>1, <1>2, <1>4
  <2>. QED  BY <1>4, <2>1 DEF put, e, L
<1>. QED  BY <1>3, <1>4

\* The numbers a behaviour walks through.
NumbersDrawn == part = "numbers" => number \in Nat /\ behind \in Nat

LEMMA NumbersDrawnAlways == Spec => []NumbersDrawn
<1>1. Init => NumbersDrawn
  <2>1. Two[ByteBits] - 1 \in Nat
    BY Widths, TwoPositive
  <2>. QED  BY <2>1 DEF Init, NumbersDrawn
<1>2. NumbersDrawn /\ [Next]_mcvars => NumbersDrawn'
  <2> SUFFICES ASSUME NumbersDrawn, [Next]_mcvars
               PROVE  NumbersDrawn'
    OBVIOUS
  <2>1. CASE NextPaddings
    BY <2>1 DEF NextPaddings, NumbersDrawn, numbers
  <2>2. CASE NextNumber
    <3> DEFINE top == Two[ByteBits * (Qc8Bytes + 3) - 2]
               K == Cardinality(Numbers)
    <3>1. top \in Nat
      <4>1. ByteBits \in Nat /\ ByteBits > 3 /\ ByteBits * Qc8Bytes \in Nat
            /\ ByteBits * (Qc8Bytes + 3) = ByteBits * Qc8Bytes + 3 * ByteBits
        BY Widths
      <4>2. ByteBits * (Qc8Bytes + 3) - 2 \in Nat
        BY <4>1
      <4>. QED  BY <4>2, TwoPositive
    <3>2. K \in Nat /\ K > 0
      <4> HIDE DEF top
      <4>1. Cardinality(0..top) = top - 0 + 1
        BY <3>1, FS_Interval
      <4>. QED  BY <3>1, <4>1 DEF Numbers, top
    <3>3. part = "numbers" /\ number \in Nat /\ behind \in Nat
      BY <2>2 DEF NextNumber, NumbersDrawn
    <3>4. number' = (number + 1) % K /\ behind' = behind
      BY <2>2 DEF NextNumber
    <3> HIDE DEF K
    <3>5. number' \in Nat
      <4>1. number + 1 \in Int
        BY <3>3
      <4>. QED  BY <3>2, <3>4, <4>1, Divided
    <3>. QED  BY <3>3, <3>4, <3>5 DEF NumbersDrawn
  <2>3. CASE NextAccess
    BY <2>3 DEF NextAccess, NumbersDrawn, numbers
  <2>4. CASE UNCHANGED mcvars
    BY <2>4 DEF mcvars, NumbersDrawn, numbers
  <2>. QED  BY <2>1, <2>2, <2>3, <2>4 DEF Next
<1>. QED  BY <1>1, <1>2, PTL DEF Spec

\* crates/cfxpack/src/codec.rs: put_uleb128, zigzag_encode, put_qc8 and
\* put_qc5e invert their readers up to their widths and refuse what is wider,
\* for bytes, words and modes of any width and every number.
THEOREM NumbersRoundTripAlways == Spec => []NumbersRoundTrip
<1>1. NumbersDrawn => NumbersRoundTrip
  <2> SUFFICES ASSUME NumbersDrawn, part = "numbers"
               PROVE  NumbersRoundTrip
    BY DEF NumbersRoundTrip
  <2> DEFINE D == Two[WordBits]
             H == Two[WordBits - 1]
  <2>1. number \in Nat /\ behind \in Nat
    BY DEF NumbersDrawn
  <2>2. D \in Nat /\ D > 0 /\ H \in Nat /\ D = 2 * H
    <3>1. WordBits \in Nat /\ WordBits - 1 \in Nat /\ (WordBits - 1) + 1 = WordBits
      BY Widths
    <3>2. Two[(WordBits - 1) + 1] = 2 * Two[WordBits - 1]
      BY <3>1, TwoSteps
    <3>. QED  BY <3>1, <3>2, TwoPositive
  <2>3. Word \in Nat /\ Word < D
    <3> HIDE DEF D
    <3>. QED  BY <2>1, <2>2, Divided DEF Word, D
  <2>4. Signed \in Int /\ -H <= Signed /\ Signed < H
    <3> HIDE DEF D, H
    <3>1. Signed = IF Word < H THEN Word ELSE Word - D
      BY DEF Signed, D, H
    <3>. QED  BY <2>2, <2>3, <3>1
  <2>5. ReadBack(PutUleb128(Word), ReadUleb128, Word)
    <3> DEFINE put == PutUleb128(Word)
    <3>1. /\ put \in Seq(Nat)
          /\ \A data, offset : Stands(put, data, offset) =>
                 ReadUleb128(data, offset) = Ok(Word, offset + Len(put))
      BY <2>3, Uleb128RoundTrip
    <3> HIDE DEF put
    <3>2. Stands(put, <<behind>> \o put \o <<behind>>, 1)
      BY <2>1, <3>1, StandsBetween
    <3>. QED  BY <3>1, <3>2 DEF ReadBack, put
  <2>6. ZigZagDecode(ZigZagEncode(Signed)) = Signed
    BY <2>4, ZigZagRoundTrip
  <2>7. LET put == PutQc8(number)
        IN  IF number < Two[ByteBits * (Qc8Bytes + 3) - 2]
            THEN ReadBack(put.value, ReadQc8, number) ELSE put = Err
    <3> DEFINE put == PutQc8(number)
               L == Two[ByteBits * (Qc8Bytes + 3) - 2]
    <3>1. IF number < L
          THEN /\ put.value \in Seq(Nat)
               /\ \A data, offset : Stands(put.value, data, offset) =>
                     ReadQc8(data, offset) = Ok(number, offset + Len(put.value))
          ELSE put = Err
      BY <2>1, Qc8RoundTrip
    <3> HIDE DEF put, L
    <3>2. ASSUME number < L
          PROVE  ReadBack(put.value, ReadQc8, number)
      <4>1. put.value \in Seq(Nat)
        BY <3>1, <3>2
      <4>2. Stands(put.value, <<behind>> \o put.value \o <<behind>>, 1)
        BY <2>1, <4>1, StandsBetween
      <4>. QED  BY <3>1, <3>2, <4>2 DEF ReadBack
    <3>. QED  BY <3>1, <3>2 DEF put, L
  <2>8. ASSUME NEW espace \in BOOLEAN
        PROVE  LET put == PutQc5e(number, BasePriceEnum(number, espace))
                   gas == PutQc5e(number, GasLimitEnum(number))
               IN  IF number < Two[ByteBits * (Qc5eBytes + 2) - 2]
                   THEN /\ BasePrice(ReadQc5e(put.value, 0).value, espace) = number
                        /\ GasLimit(ReadQc5e(gas.value, 0).value) = number
                        /\ ReadQc5e(put.value \o <<behind>>, 0).next = Len(put.value)
                   ELSE put = Err /\ gas = Err
    BY <2>1, BasePriceRoundTrip, GasLimitRoundTrip
  <2>. QED  BY <2>5, <2>6, <2>7, <2>8 DEF NumbersRoundTrip
<1>. QED  BY <1>1, NumbersDrawnAlways, PTL
=============================================================================
