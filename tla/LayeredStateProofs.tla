------------------------- MODULE LayeredStateProofs -------------------------
(***************************************************************************)
(* Proofs about LayeredState and StateManager, for every key set, value    *)
(* set, encoding and hash function that meet their assumptions, and every  *)
(* number of commits, failing saves and restarts.                          *)
(***************************************************************************)
EXTENDS StateManager, TLAPS

(* What a delta key decodes to. *)

LEMMA RawKeyType ==
    ASSUME NEW k \in Key, NEW p \in Padding
    PROVE  /\ DeltaBytes(k, p) \in RawKey
           /\ CanonicalBytes(k) \in CanonicalKey
BY DEF RawKey, CanonicalKey

LEMMA DecodeRaw ==
    ASSUME NEW r \in RawKey
    PROVE  /\ KeyOfDelta(r) \in Key
           /\ Canonical(r) \in CanonicalKey
<1>1. PICK k \in Key, p \in Padding : r = DeltaBytes(k, p)
  BY DEF RawKey
<1>2. KeyOfDelta(r) = k
  BY <1>1, CodecAssumption
<1>. QED  BY <1>2 DEF Canonical, CanonicalKey

LEMMA EmptyTypes == EmptyLayer \in Layer /\ EmptyStore \in Store
BY DEF EmptyLayer, EmptyStore, Layer, Store

LEMMA RootTypes ==
    /\ \A m \in Layer \cup Store : TrieRoot(m) \in Digest
    /\ MERKLE_NULL_NODE \in Digest
BY HashAssumption, EmptyTypes DEF MERKLE_NULL_NODE

LEMMA VisibleType ==
    ASSUME NEW e \in Entry \cup {Absent}
    PROVE  Visible(e) \in Value \cup {Absent}
BY DEF Visible, Entry

LEMMA MergedType ==
    ASSUME TypeOK
    PROVE  Merged \in Store
<1>1. SUFFICES ASSUME NEW c \in CanonicalKey
               PROVE  Merged[c] \in Value \cup {Absent}
  BY DEF Merged, Store
<1> DEFINE updates == {r \in RawKey : intermediate[r] # Absent /\ Canonical(r) = c}
<1>2. CASE updates = {}
  <2>1. Merged[c] = snapshot[c]
    BY <1>2 DEF Merged
  <2>. QED  BY <2>1 DEF TypeOK, Store
<1>3. CASE updates # {}
  <2>1. (CHOOSE r \in updates : TRUE) \in RawKey
    BY <1>3
  <2>2. Merged[c] = Visible(intermediate[CHOOSE r \in updates : TRUE])
    BY <1>3 DEF Merged
  <2>3. intermediate[CHOOSE r \in updates : TRUE] \in Entry \cup {Absent}
    BY <2>1 DEF TypeOK, Layer
  <2>. QED  BY <2>2, <2>3, VisibleType
<1>. QED  BY <1>2, <1>3

(* Type correctness. *)

LEMMA InitTypeOK == Init => TypeOK
<1> SUFFICES ASSUME NEW s \in Store, FromSnapshot(s)
             PROVE  TypeOK
  BY DEF Init
<1>1. TrieRoot(s) \in Digest
  BY RootTypes
<1>2. /\ FromRoots(MERKLE_NULL_NODE, MERKLE_NULL_NODE) \in Padding
      /\ FromRoots(TrieRoot(s), MERKLE_NULL_NODE) \in Padding
  BY <1>1, RootTypes, HashAssumption
<1>. QED
  BY <1>1, <1>2, RootTypes, EmptyTypes, BoundAssumption DEF FromSnapshot, TypeOK

LEMMA SetTypeOK ==
    ASSUME TypeOK, NEW k \in Key, NEW v \in Value \cup {Absent}, Set(k, v)
    PROVE  TypeOK'
<1>1. Stored(v) \in Entry
  BY DEF Stored, Entry
<1>2. delta' \in Layer /\ delta_inc' \in Layer
  BY <1>1 DEF Set, TypeOK, Layer
<1>. QED
  BY <1>2 DEF Set, TypeOK, roots

LEMMA DeleteTypeOK ==
    ASSUME TypeOK, NEW q \in Query, DeletePrefix(q)
    PROVE  TypeOK'
<1>1. ASSUME NEW map \in Layer
      PROVE  AfterDelete(map, q) \in Layer
  BY DEF AfterDelete, Layer, Entry
<1>2. delta' \in Layer /\ delta_inc' \in Layer
  BY <1>1 DEF DeletePrefix, TypeOK
<1>. QED
  BY <1>2 DEF DeletePrefix, TypeOK, roots

LEMMA CommitTypeOK ==
    ASSUME TypeOK, Commit
    PROVE  TypeOK'
<1> DEFINE d == TrieRoot(delta_inc)
<1>1. d \in Digest
  BY RootTypes DEF TypeOK
<1>2. last_root' \in CommitRoot
  BY <1>1 DEF Commit, NewCommitRoot, TypeOK, CommitRoot
<1>3. height' \in 0..MaxHeight
  BY BoundAssumption DEF Commit, TypeOK
<1>4. CASE Rotate(d)
  <2>1. snapshot' \in Store /\ snapshot_root' \in Digest
    BY <1>4, MergedType, RootTypes DEF Rotate
  <2>2. delta_padding' \in Padding
    BY <1>1, <1>4, <2>1, HashAssumption DEF Rotate
  <2>. QED
    BY <1>1, <1>2, <1>3, <1>4, <2>1, <2>2, EmptyTypes DEF Rotate, TypeOK, Commit
<1>5. CASE UNCHANGED <<layers, roots>>
  BY <1>2, <1>3, <1>5 DEF TypeOK, Commit, layers, roots
<1>. QED  BY <1>4, <1>5 DEF Commit

\* Every reachable state is well typed: in particular no tombstone ever
\* reaches the snapshot, and every root and padding stays a digest.
THEOREM TypeCorrect == Spec => []TypeOK
<1>1. TypeOK /\ [Next]_vars => TypeOK'
  <2> SUFFICES ASSUME TypeOK, [Next]_vars
               PROVE  TypeOK'
    OBVIOUS
  <2>1. CASE UNCHANGED vars
    BY <2>1 DEF vars, layers, roots, TypeOK
  <2>. QED
    BY <2>1, SetTypeOK, DeleteTypeOK, CommitTypeOK DEF Next
<1>. QED  BY <1>1, InitTypeOK, PTL DEF Spec

-----------------------------------------------------------------------------
(* The inductive invariant: layers are filed under their own paddings and  *)
(* roots belong to what the layers hold.                                   *)

IInv == TypeOK /\ LayersKeyed /\ RootsCurrent

LEMMA InitIInv == Init => IInv
<1> SUFFICES ASSUME NEW s \in Store, FromSnapshot(s)
             PROVE  LayersKeyed /\ RootsCurrent
  BY InitTypeOK DEF Init, IInv
<1>1. LayersKeyed
  BY DEF FromSnapshot, LayersKeyed, KeyedBy, EmptyLayer
<1>2. RootsCurrent
  BY DEF FromSnapshot, RootsCurrent, MERKLE_NULL_NODE
<1>. QED  BY <1>1, <1>2

LEMMA SetIInv ==
    ASSUME IInv, NEW k \in Key, NEW v \in Value \cup {Absent}, Set(k, v)
    PROVE  IInv'
<1>1. TypeOK'
  BY SetTypeOK DEF IInv
<1>2. KeyedBy(delta', delta_padding')
  <2> SUFFICES ASSUME NEW r \in RawKey, delta'[r] # Absent
               PROVE  \E l \in Key : r = DeltaBytes(l, delta_padding)
    BY DEF KeyedBy, Set, roots
  <2>1. CASE r = DeltaKey(k)
    BY <2>1 DEF DeltaKey
  <2>2. CASE r # DeltaKey(k)
    <3>1. delta'[r] = delta[r]
      BY <2>2 DEF Set, IInv, TypeOK, Layer
    <3>. QED  BY <3>1 DEF IInv, LayersKeyed, KeyedBy
  <2>. QED  BY <2>1, <2>2
<1>3. LayersKeyed' /\ RootsCurrent'
  BY <1>2 DEF IInv, LayersKeyed, RootsCurrent, KeyedBy, Set, roots
<1>. QED  BY <1>1, <1>3 DEF IInv

\* A tombstone that delete_prefix plants is filed under the delta's padding.
LEMMA BuriedKeyed ==
    ASSUME TypeOK, NEW q \in Query, NEW r \in Buried(q)
    PROVE  \E l \in Key : r = DeltaBytes(l, delta_padding)
<1>1. CASE \E x \in IntermediateMatches(q) : r = DeltaKey(KeyOfDelta(x))
  <2>1. PICK x \in IntermediateMatches(q) : r = DeltaKey(KeyOfDelta(x))
    BY <1>1
  <2>2. x \in RawKey
    BY DEF IntermediateMatches, AddressFilter, ScanPrefix
  <2>. QED  BY <2>1, <2>2, DecodeRaw DEF DeltaKey
<1>2. CASE \E c \in SnapshotMatches(q) : r = DeltaKey(KeyOfCanonical(c))
  <2>1. PICK c \in SnapshotMatches(q) : r = DeltaKey(KeyOfCanonical(c))
    BY <1>2
  <2>2. PICK k \in Key : c = CanonicalBytes(k)
    BY DEF SnapshotMatches, CanonicalKey
  <2>3. r = DeltaBytes(KeyOfCanonical(CanonicalBytes(k)), delta_padding)
    BY <2>1, <2>2 DEF DeltaKey
  <2>. QED  BY <2>3, RekeyAssumption DEF TypeOK
<1>. QED  BY <1>1, <1>2 DEF Buried

LEMMA DeleteIInv ==
    ASSUME IInv, NEW q \in Query, DeletePrefix(q)
    PROVE  IInv'
<1>1. TypeOK'
  BY DeleteTypeOK DEF IInv
<1>2. KeyedBy(delta', delta_padding')
  <2> SUFFICES ASSUME NEW r \in RawKey, delta'[r] # Absent
               PROVE  \E l \in Key : r = DeltaBytes(l, delta_padding)
    BY DEF KeyedBy, DeletePrefix, roots
  <2>1. CASE r \in Buried(q)
    BY <2>1, BuriedKeyed DEF IInv
  <2>2. CASE r \notin Buried(q)
    <3>1. delta[r] # Absent
      BY <2>2 DEF DeletePrefix, AfterDelete
    <3>. QED  BY <3>1 DEF IInv, LayersKeyed, KeyedBy
  <2>. QED  BY <2>1, <2>2
<1>3. delta_inc' = delta'
  BY DEF DeletePrefix, IInv, RootsCurrent
<1>4. LayersKeyed' /\ RootsCurrent'
  BY <1>2, <1>3 DEF IInv, LayersKeyed, RootsCurrent, KeyedBy, DeletePrefix, roots
<1>. QED  BY <1>1, <1>4 DEF IInv

LEMMA CommitIInv ==
    ASSUME IInv, Commit
    PROVE  IInv'
<1>1. TypeOK'
  BY CommitTypeOK DEF IInv
<1>2. CASE Rotate(TrieRoot(delta_inc))
  <2>1. KeyedBy(delta', delta_padding')
    BY <1>2 DEF Rotate, KeyedBy, EmptyLayer
  <2>2. KeyedBy(intermediate', intermediate_padding')
    BY <1>2 DEF Rotate, KeyedBy, IInv, LayersKeyed
  <2>3. RootsCurrent'
    BY <1>2 DEF Rotate, IInv, RootsCurrent
  <2>. QED  BY <1>1, <2>1, <2>2, <2>3 DEF IInv, LayersKeyed
<1>3. CASE UNCHANGED <<layers, roots>>
  BY <1>1, <1>3 DEF IInv, LayersKeyed, KeyedBy, RootsCurrent, layers, roots
<1>. QED  BY <1>2, <1>3 DEF Commit

LEMMA NextIInv == IInv /\ [Next]_vars => IInv'
<1> SUFFICES ASSUME IInv, [Next]_vars
             PROVE  IInv'
  OBVIOUS
<1>1. CASE UNCHANGED vars
  BY <1>1 DEF vars, layers, roots, IInv, TypeOK, LayersKeyed, KeyedBy, RootsCurrent
<1>. QED
  BY <1>1, SetIInv, DeleteIInv, CommitIInv DEF Next

LEMMA Invariance == Spec => []IInv
BY InitIInv, NextIInv, PTL DEF Spec

\* No entry is ever filed under a padding its layer is not read with.
THEOREM LayersKeyedAlways == Spec => []LayersKeyed
BY Invariance, PTL DEF IInv

\* The roots a commit publishes are always those of the data readers see.
THEOREM RootsCurrentAlways == Spec => []RootsCurrent
BY Invariance, PTL DEF IInv

-----------------------------------------------------------------------------
(* Published roots. *)

LEMMA LastRootInductive == Spec => []LastRootInForce
<1>1. Init => LastRootInForce
  BY DEF Init, FromSnapshot, LastRootInForce
<1>2. LastRootInForce /\ [Next]_vars => LastRootInForce'
  <2> SUFFICES ASSUME LastRootInForce, [Next]_vars
               PROVE  LastRootInForce'
    OBVIOUS
  <2>1. ASSUME NEW k \in Key, NEW v \in Value \cup {Absent}, Set(k, v)
        PROVE  LastRootInForce'
    BY <2>1 DEF Set, LastRootInForce, roots
  <2>2. ASSUME NEW q \in Query, DeletePrefix(q)
        PROVE  LastRootInForce'
    BY <2>2 DEF DeletePrefix, LastRootInForce, roots
  <2>3. CASE Commit
    <3>1. CASE height' % snapshot_epoch_count = 0
      BY <2>3, <3>1 DEF Commit, NewCommitRoot, Rotate, LastRootInForce
    <3>2. CASE height' % snapshot_epoch_count # 0
      BY <2>3, <3>2 DEF Commit, NewCommitRoot, LastRootInForce, roots
    <3>. QED  BY <3>1, <3>2
  <2>4. CASE UNCHANGED vars
    BY <2>4 DEF vars, layers, roots, LastRootInForce
  <2>. QED  BY <2>1, <2>2, <2>3, <2>4 DEF Next
<1>. QED  BY <1>1, <1>2, PTL DEF Spec

\* The roots of consecutive commits chain, across every rotation.
THEOREM RootsChainAlways == Spec => RootsChain
<1>1. LastRootInForce /\ [Next]_vars =>
        [height' # height /\ last_root # NoRoot =>
            Follows(last_root', last_root, height % snapshot_epoch_count = 0)]_vars
  <2> SUFFICES ASSUME LastRootInForce, [Next]_vars,
                      height' # height, last_root # NoRoot
               PROVE  Follows(last_root', last_root, height % snapshot_epoch_count = 0)
    OBVIOUS
  <2>1. Commit
    BY DEF Next, Set, DeletePrefix, vars
  <2>. QED  BY <2>1 DEF Commit, NewCommitRoot, LastRootInForce, Follows
<1>. QED  BY <1>1, LastRootInductive, PTL DEF Spec, RootsChain

-----------------------------------------------------------------------------
(* Reads across a rotation. *)

LEMMA DeltaKeyInjective ==
    ASSUME NEW k \in Key, NEW l \in Key, NEW p \in Padding,
           DeltaBytes(k, p) = DeltaBytes(l, p)
    PROVE  k = l
<1>1. KeyOfDelta(DeltaBytes(k, p)) = k
  BY CodecAssumption
<1>2. KeyOfDelta(DeltaBytes(l, p)) = l
  BY CodecAssumption
<1>. QED  BY <1>1, <1>2

LEMMA CanonicalOfKey ==
    ASSUME NEW k \in Key, NEW p \in Padding
    PROVE  Canonical(DeltaBytes(k, p)) = CanonicalBytes(k)
BY CodecAssumption DEF Canonical

\* The intermediate's entries for a canonical key are at most one.
LEMMA UpdateUnique ==
    ASSUME IInv, NEW k \in Key, NEW r \in RawKey,
           intermediate[r] # Absent, Canonical(r) = CanonicalBytes(k)
    PROVE  r = IntermediateKey(k)
<1>1. PICK l \in Key : r = DeltaBytes(l, intermediate_padding)
  BY DEF IInv, LayersKeyed, KeyedBy
<1>2. CanonicalBytes(l) = CanonicalBytes(k)
  BY <1>1, CanonicalOfKey DEF IInv, TypeOK
<1>3. l = k
  BY <1>2, CodecAssumption
<1>. QED  BY <1>1, <1>3 DEF IntermediateKey

\* Merging the intermediate into the snapshot reads like looking through it.
LEMMA MergedReads ==
    ASSUME IInv, NEW k \in Key
    PROVE  Merged[CanonicalBytes(k)] = GetBelow(k)
<1> DEFINE c == CanonicalBytes(k)
           updates == {r \in RawKey : intermediate[r] # Absent /\ Canonical(r) = c}
<1>1. c \in CanonicalKey /\ IntermediateKey(k) \in RawKey
  BY RawKeyType DEF IInv, TypeOK, IntermediateKey
<1>2. Canonical(IntermediateKey(k)) = c
  BY CanonicalOfKey DEF IInv, TypeOK, IntermediateKey
<1>3. \A r \in updates : r = IntermediateKey(k)
  BY UpdateUnique
<1>4. CASE intermediate[IntermediateKey(k)] # Absent
  <2>1. updates # {}
    BY <1>1, <1>2, <1>4
  <2>2. (CHOOSE r \in updates : TRUE) = IntermediateKey(k)
    BY <1>3, <2>1
  <2>3. Merged[c] = Visible(intermediate[CHOOSE r \in updates : TRUE])
    BY <1>1, <2>1 DEF Merged
  <2>. QED  BY <1>4, <2>2, <2>3 DEF GetBelow
<1>5. CASE intermediate[IntermediateKey(k)] = Absent
  <2>1. updates = {}
    BY <1>3, <1>5
  <2>2. Merged[c] = snapshot[c]
    BY <1>1, <2>1 DEF Merged
  <2>. QED  BY <1>5, <2>2 DEF GetBelow
<1>. QED  BY <1>4, <1>5

LEMMA RotationReads ==
    ASSUME IInv, Rotate(TrieRoot(delta_inc)), NEW k \in Key
    PROVE  GetBelow(k)' = Get(k) /\ Get(k)' = Get(k)
<1>1. IntermediateKey(k)' = DeltaKey(k)
  BY DEF Rotate, IntermediateKey, DeltaKey
<1>2. snapshot'[CanonicalBytes(k)] = GetBelow(k)
  BY MergedReads DEF Rotate
<1>3. GetBelow(k)' = Get(k)
  BY <1>1, <1>2 DEF GetBelow, Get, Lookup, Rotate
<1>4. delta' = EmptyLayer /\ delta_padding' \in Padding
  BY CommitTypeOK, RootTypes, HashAssumption, MergedType DEF Rotate, IInv, TypeOK
<1>5. delta'[DeltaKey(k)'] = Absent
  BY <1>4, RawKeyType DEF EmptyLayer, DeltaKey
<1>6. Get(k)' = GetBelow(k)'
  BY <1>5 DEF Get, Lookup, DeltaKey, GetBelow
<1>. QED  BY <1>3, <1>6

LEMMA CommitReads ==
    ASSUME IInv, Commit, NEW k \in Key
    PROVE  Get(k)' = Get(k)
<1>1. CASE Rotate(TrieRoot(delta_inc))
  BY <1>1, RotationReads
<1>2. CASE UNCHANGED <<layers, roots>>
  BY <1>2 DEF layers, roots, Get, Lookup, GetBelow, DeltaKey, IntermediateKey
<1>. QED  BY <1>1, <1>2 DEF Commit

\* No commit changes what any key reads as, for any epoch count and any hash.
THEOREM CommitKeepsViewAlways == Spec => CommitKeepsView
<1>1. IInv /\ [Next]_vars => [height' # height => \A k \in Key : Get(k)' = Get(k)]_vars
  <2> SUFFICES ASSUME IInv, [Next]_vars, height' # height
               PROVE  \A k \in Key : Get(k)' = Get(k)
    OBVIOUS
  <2>1. Commit
    BY DEF Next, Set, DeletePrefix, vars
  <2>. QED  BY <2>1, CommitReads
<1>. QED  BY <1>1, Invariance, PTL DEF Spec, CommitKeepsView
-----------------------------------------------------------------------------
(* Prefix operations by prefixes of whole fields. *)

LEMMA AddressPrefixWhole ==
    ASSUME NEW q \in Query, CutsAddress(q)
    PROVE  q \in WholeQuery
BY PrefixAssumption DEF PrefixAssumption, WholeQuery, WholeField

\* A scan of the delta finds the live entries of the keys a query names, and
\* of all keys if it cuts an address.
LEMMA DeltaScanned ==
    ASSUME IInv, NEW q \in WholeQuery, NEW k \in Key
    PROVE  DeltaKey(k) \in DeltaMatches(q) <=>
              /\ delta[DeltaKey(k)] # Absent
              /\ CutsAddress(q) \/ k \in Matching(q)
<1>1. DeltaKey(k) \in RawKey /\ delta_padding \in Padding
  BY RawKeyType DEF IInv, TypeOK, DeltaKey
<1>. QED  BY <1>1 DEF WholeQuery, WholeField, DeltaMatches, ScanPrefix, DeltaKey, Matching

\* The intermediate is scanned and filtered to the keys the query names.
LEMMA IntermediateScanned ==
    ASSUME IInv, NEW q \in WholeQuery, NEW k \in Key
    PROVE  IntermediateKey(k) \in IntermediateMatches(q) <=>
              /\ intermediate[IntermediateKey(k)] # Absent
              /\ k \in Matching(q)
<1>1. IntermediateKey(k) \in RawKey /\ intermediate_padding \in Padding
  BY RawKeyType DEF IInv, TypeOK, IntermediateKey
<1>2. Canonical(IntermediateKey(k)) = CanonicalBytes(k)
  BY <1>1, CanonicalOfKey DEF IntermediateKey
<1>3. StartsWith(IntermediateKey(k), IntermediateKey(q)) <=>
         CutsAddress(q) \/ StartsWith(CanonicalBytes(k), CanonicalBytes(q))
  BY <1>1 DEF WholeQuery, WholeField, IntermediateKey
<1>. QED  BY <1>1, <1>2, <1>3 DEF IntermediateMatches, AddressFilter, ScanPrefix, Matching

\* Whatever the prefix, a delete buries no key it does not name.
LEMMA BuriedNamed ==
    ASSUME RekeyExact, IInv, NEW q \in Query, NEW k \in Key, DeltaKey(k) \in Buried(q)
    PROVE  k \in Matching(q)
<1>1. delta_padding \in Padding /\ intermediate_padding \in Padding
  BY DEF IInv, TypeOK
<1>2. ASSUME NEW l \in Key, DeltaKey(l) = DeltaKey(k)
      PROVE  l = k
  BY <1>1, <1>2, DeltaKeyInjective DEF DeltaKey
<1>3. ASSUME NEW r \in IntermediateMatches(q), DeltaKey(k) = DeltaKey(KeyOfDelta(r))
      PROVE  k \in Matching(q)
  <2>1. r \in RawKey /\ intermediate[r] # Absent /\ StartsWith(r, IntermediateKey(q))
    BY DEF IntermediateMatches, AddressFilter, ScanPrefix
  <2>2. PICK l \in Key : r = DeltaBytes(l, intermediate_padding)
    BY <2>1 DEF IInv, LayersKeyed, KeyedBy
  <2>3. l = k
    BY <1>1, <1>2, <1>3, <2>2, CodecAssumption
  <2>4. CutsAddress(q) => StartsWith(CanonicalBytes(k), CanonicalBytes(q))
    BY <1>1, <2>2, <2>3, CanonicalOfKey DEF IntermediateMatches, AddressFilter
  <2>5. CutsAddress(q) \/ StartsWith(CanonicalBytes(k), CanonicalBytes(q))
    BY <1>1, <2>1, <2>2, <2>3, PrefixAssumption DEF PrefixAssumption, IntermediateKey
  <2>. QED  BY <2>4, <2>5 DEF Matching
<1>4. ASSUME NEW c \in SnapshotMatches(q), DeltaKey(k) = DeltaKey(KeyOfCanonical(c))
      PROVE  k \in Matching(q)
  <2>1. PICK l \in Key : c = CanonicalBytes(l)
    BY DEF SnapshotMatches, CanonicalKey
  <2>2. l = k
    BY <1>2, <1>4, <2>1 DEF RekeyExact
  <2>. QED  BY <2>1, <2>2 DEF SnapshotMatches, Matching
<1>. QED  BY <1>3, <1>4 DEF Buried

\* A delete buries the keys under the prefix that a lower layer shows, and no
\* others.
LEMMA BuriedExactly ==
    ASSUME RekeyExact, IInv, NEW q \in WholeQuery, NEW k \in Key
    PROVE  DeltaKey(k) \in Buried(q) <=>
              /\ k \in Matching(q)
              /\ \/ intermediate[IntermediateKey(k)] \notin {Absent, Tombstone}
                 \/ snapshot[CanonicalBytes(k)] # Absent
<1>1. delta_padding \in Padding /\ intermediate_padding \in Padding
  BY DEF IInv, TypeOK
<1>2. ASSUME NEW l \in Key, DeltaKey(l) = DeltaKey(k)
      PROVE  l = k
  BY <1>1, <1>2, DeltaKeyInjective DEF DeltaKey
<1>3. ASSUME NEW r \in IntermediateMatches(q)
      PROVE  \E l \in Key : r = IntermediateKey(l) /\ KeyOfDelta(r) = l
  <2>1. r \in RawKey /\ intermediate[r] # Absent
    BY DEF IntermediateMatches, AddressFilter, ScanPrefix
  <2>2. PICK l \in Key : r = DeltaBytes(l, intermediate_padding)
    BY <2>1 DEF IInv, LayersKeyed, KeyedBy
  <2>. QED  BY <1>1, <2>2, CodecAssumption DEF IntermediateKey
<1>4. KeyOfDelta(IntermediateKey(k)) = k
  BY <1>1, CodecAssumption DEF IntermediateKey
<1>5. (\E r \in IntermediateMatches(q) :
          intermediate[r] # Tombstone /\ DeltaKey(k) = DeltaKey(KeyOfDelta(r)))
      <=> k \in Matching(q) /\ intermediate[IntermediateKey(k)] \notin {Absent, Tombstone}
  BY <1>2, <1>3, <1>4, IntermediateScanned
<1>6. (\E c \in SnapshotMatches(q) : DeltaKey(k) = DeltaKey(KeyOfCanonical(c)))
      <=> k \in Matching(q) /\ snapshot[CanonicalBytes(k)] # Absent
  <2>1. ASSUME NEW c \in SnapshotMatches(q), DeltaKey(k) = DeltaKey(KeyOfCanonical(c))
        PROVE  k \in Matching(q) /\ snapshot[CanonicalBytes(k)] # Absent
    <3>1. PICK l \in Key : c = CanonicalBytes(l)
      BY DEF SnapshotMatches, CanonicalKey
    <3>2. KeyOfCanonical(c) = l
      BY <3>1 DEF RekeyExact
    <3>3. l = k
      BY <1>2, <2>1, <3>2
    <3>. QED  BY <3>1, <3>3 DEF SnapshotMatches, Matching
  <2>2. ASSUME k \in Matching(q), snapshot[CanonicalBytes(k)] # Absent
        PROVE  CanonicalBytes(k) \in SnapshotMatches(q)
    BY <2>2 DEF SnapshotMatches, CanonicalKey, Matching
  <2>. QED  BY <2>1, <2>2 DEF RekeyExact
<1>. QED  BY <1>5, <1>6 DEF Buried

\* What get would return for a key after a delete: nothing under the prefix;
\* elsewhere what it returned before, or, if the prefix cuts an address, what
\* lies below the delta.
LEMMA DeleteReads ==
    ASSUME RekeyExact, IInv, NEW q \in WholeQuery, NEW k \in Key
    PROVE  Lookup(AfterDelete(delta, q), k) =
              IF k \in Matching(q) THEN Absent
              ELSE IF CutsAddress(q) THEN GetBelow(k) ELSE Get(k)
<1>1. DeltaKey(k) \in RawKey
  BY RawKeyType DEF IInv, TypeOK, DeltaKey
<1>2. AfterDelete(delta, q)[DeltaKey(k)] =
         IF DeltaKey(k) \in Buried(q) THEN Tombstone
         ELSE IF DeltaKey(k) \in DeltaMatches(q) THEN Absent ELSE delta[DeltaKey(k)]
  BY <1>1 DEF AfterDelete
<1>3. CASE k \in Matching(q)
  <2>1. CASE DeltaKey(k) \in Buried(q)
    <3>1. AfterDelete(delta, q)[DeltaKey(k)] = Tombstone
      BY <1>2, <2>1
    <3>. QED  BY <1>3, <3>1, ValueAssumption DEF Lookup, Visible, ValueAssumption
  <2>2. CASE DeltaKey(k) \notin Buried(q)
    <3>1. AfterDelete(delta, q)[DeltaKey(k)] = Absent
      BY <1>2, <1>3, <2>2, DeltaScanned
    <3>2. GetBelow(k) = Absent
      BY <1>3, <2>2, BuriedExactly DEF GetBelow, Visible
    <3>. QED  BY <1>3, <3>1, <3>2 DEF Lookup
  <2>. QED  BY <2>1, <2>2
<1>4. CASE k \notin Matching(q)
  <2>1. DeltaKey(k) \notin Buried(q)
    BY <1>4, BuriedExactly
  <2>. QED  BY <1>2, <1>4, <2>1, DeltaScanned DEF Lookup, Get
<1>. QED  BY <1>3, <1>4

\* After a delete by a prefix of whole fields nothing under it can be read, in
\* every reachable state, if every canonical key decodes to the key it encodes;
\* delete_all_by_prefix keeps its promise.
THEOREM DeleteHidesAlways ==
    ASSUME RekeyExact
    PROVE  Spec => []DeleteHides
<1>1. IInv => DeleteHides
  BY DeleteReads DEF DeleteHides, Matching
<1>. QED  BY <1>1, Invariance, PTL

\* The delta entries that a prefix read takes, as keys.
LEMMA DeltaTaken ==
    ASSUME IInv, NEW q \in WholeQuery
    PROVE  AddressFilter(q, DeltaMatches(q)) =
              {DeltaKey(k) : k \in {l \in Matching(q) : delta[DeltaKey(l)] # Absent}}
<1>1. delta_padding \in Padding
  BY DEF IInv, TypeOK
<1>2. ASSUME NEW r \in DeltaMatches(q)
      PROVE  \E l \in Key : r = DeltaKey(l)
  BY DEF IInv, LayersKeyed, KeyedBy, DeltaKey, DeltaMatches, ScanPrefix
<1>3. ASSUME NEW k \in Key
      PROVE  Canonical(DeltaKey(k)) = CanonicalBytes(k)
  BY <1>1, CanonicalOfKey DEF DeltaKey
<1>4. ASSUME NEW k \in Key
      PROVE  DeltaKey(k) \in AddressFilter(q, DeltaMatches(q)) <=>
                k \in Matching(q) /\ delta[DeltaKey(k)] # Absent
  BY <1>3, DeltaScanned DEF AddressFilter, Matching
<1>. QED  BY <1>2, <1>4 DEF AddressFilter, Matching

LEMMA IntermediateTaken ==
    ASSUME IInv, NEW q \in WholeQuery
    PROVE  IntermediateMatches(q) =
              {IntermediateKey(k) :
                 k \in {l \in Matching(q) : intermediate[IntermediateKey(l)] # Absent}}
<1>1. ASSUME NEW r \in IntermediateMatches(q)
      PROVE  \E l \in Key : r = IntermediateKey(l)
  BY DEF IInv, LayersKeyed, KeyedBy, IntermediateKey, IntermediateMatches,
         AddressFilter, ScanPrefix
<1>. QED  BY <1>1, IntermediateScanned DEF Matching

LEMMA SnapshotTaken ==
    ASSUME NEW q
    PROVE  SnapshotMatches(q) =
              {CanonicalBytes(k) :
                 k \in {l \in Matching(q) : snapshot[CanonicalBytes(l)] # Absent}}
BY DEF SnapshotMatches, Matching, CanonicalKey

LEMMA PrefixReads ==
    ASSUME IInv, NEW q \in WholeQuery
    PROVE  ReadPrefix(q) = {<<CanonicalBytes(k), Get(k)>> :
                               k \in {l \in Matching(q) : Get(l) # Absent}}
<1> DEFINE inDelta   == AddressFilter(q, DeltaMatches(q))
           seenDelta == {Canonical(r) : r \in inDelta}
           inInter   == {r \in IntermediateMatches(q) : Canonical(r) \notin seenDelta}
           seenInter == {Canonical(r) : r \in IntermediateMatches(q)}
           inSnap    == SnapshotMatches(q) \ (seenDelta \cup seenInter)
           D == {k \in Matching(q) : delta[DeltaKey(k)] # Absent}
           I == {k \in Matching(q) : intermediate[IntermediateKey(k)] # Absent}
           S == {k \in Matching(q) : snapshot[CanonicalBytes(k)] # Absent}
<1>1. ASSUME NEW k \in Key
      PROVE  /\ Canonical(DeltaKey(k)) = CanonicalBytes(k)
             /\ Canonical(IntermediateKey(k)) = CanonicalBytes(k)
  BY CanonicalOfKey DEF IInv, TypeOK, DeltaKey, IntermediateKey
<1>2. D \subseteq Key /\ I \subseteq Key /\ S \subseteq Key
  BY DEF Matching
<1>3. seenDelta = {CanonicalBytes(k) : k \in D}
  BY <1>1, <1>2, DeltaTaken
<1>4. seenInter = {CanonicalBytes(k) : k \in I}
  BY <1>1, <1>2, IntermediateTaken
<1>5. inInter = {IntermediateKey(k) : k \in I \ D}
  <2>1. ASSUME NEW k \in I
        PROVE  CanonicalBytes(k) \in seenDelta <=> k \in D
    BY <1>2, <1>3, CodecAssumption
  <2>. QED  BY <1>1, <1>2, <2>1, IntermediateTaken
<1>6. inSnap = {CanonicalBytes(k) : k \in S \ (D \cup I)}
  <2>1. ASSUME NEW k \in S
        PROVE  CanonicalBytes(k) \in seenDelta \cup seenInter <=> k \in D \cup I
    BY <1>2, <1>3, <1>4, CodecAssumption
  <2>. QED  BY <2>1, SnapshotTaken
<1>7. LiveIn(delta, inDelta) =
         {<<CanonicalBytes(k), delta[DeltaKey(k)]>> :
             k \in {l \in D : delta[DeltaKey(l)] # Tombstone}}
  BY <1>1, <1>2, DeltaTaken DEF LiveIn
<1>8. LiveIn(intermediate, inInter) =
         {<<CanonicalBytes(k), intermediate[IntermediateKey(k)]>> :
             k \in {l \in I \ D : intermediate[IntermediateKey(l)] # Tombstone}}
  BY <1>1, <1>2, <1>5 DEF LiveIn
<1>9. {<<c, snapshot[c]>> : c \in inSnap} =
         {<<CanonicalBytes(k), snapshot[CanonicalBytes(k)]>> : k \in S \ (D \cup I)}
  BY <1>6
<1>10. ReadPrefix(q) = LiveIn(delta, inDelta) \cup LiveIn(intermediate, inInter)
                          \cup {<<c, snapshot[c]>> : c \in inSnap}
  BY DEF ReadPrefix
<1>11. ASSUME NEW k \in Matching(q)
       PROVE  Get(k) = IF k \in D THEN Visible(delta[DeltaKey(k)])
                       ELSE IF k \in I THEN Visible(intermediate[IntermediateKey(k)])
                       ELSE snapshot[CanonicalBytes(k)]
  BY DEF Get, Lookup, GetBelow
<1> HIDE DEF inDelta, inInter, inSnap
<1>12. {l \in Matching(q) : Get(l) # Absent} =
          {l \in D : delta[DeltaKey(l)] # Tombstone}
          \cup {l \in I \ D : intermediate[IntermediateKey(l)] # Tombstone}
          \cup (S \ (D \cup I))
  BY <1>11 DEF Visible
<1>. QED  BY <1>7, <1>8, <1>9, <1>10, <1>11, <1>12 DEF Visible

\* get_all_by_prefix returns the keys under the prefix that get returns a value
\* for, with those values, in every reachable state, for every prefix of whole
\* fields.
THEOREM PrefixReadsAgreeAlways == Spec => []PrefixReadsAgree
<1>1. IInv => PrefixReadsAgree
  BY PrefixReads DEF PrefixReadsAgree
<1>. QED  BY <1>1, Invariance, PTL
-----------------------------------------------------------------------------
(* The layered state implements the checkpointed map. *)

LEMMA ReadTypes ==
    ASSUME TypeOK, NEW k \in Key
    PROVE  Get(k) \in Value \cup {Absent} /\ GetBelow(k) \in Value \cup {Absent}
<1>1. DeltaKey(k) \in RawKey /\ IntermediateKey(k) \in RawKey
  BY RawKeyType DEF TypeOK, DeltaKey, IntermediateKey
<1>2. CanonicalBytes(k) \in CanonicalKey
  BY DEF CanonicalKey
<1>3. delta[DeltaKey(k)] \in Entry \cup {Absent}
  BY <1>1 DEF TypeOK, Layer
<1>4. intermediate[IntermediateKey(k)] \in Entry \cup {Absent}
  BY <1>1 DEF TypeOK, Layer
<1>5. snapshot[CanonicalBytes(k)] \in Value \cup {Absent}
  BY <1>2 DEF TypeOK, Store
<1>6. GetBelow(k) \in Value \cup {Absent}
  BY <1>4, <1>5, VisibleType DEF GetBelow
<1>. QED  BY <1>3, <1>6, VisibleType DEF Get, Lookup

LEMMA InitRefines == Init => KV!KVInit
<1> SUFFICES ASSUME Init
             PROVE  KV!KVInit
  OBVIOUS
<1>1. TypeOK
  BY InitTypeOK
<1>2. ASSUME NEW k \in Key
      PROVE  Get(k) = GetBelow(k)
  <2>1. DeltaKey(k) \in RawKey
    BY <1>1, RawKeyType DEF TypeOK, DeltaKey
  <2>2. delta = EmptyLayer
    BY DEF Init, FromSnapshot
  <2>. QED  BY <2>1, <2>2 DEF EmptyLayer, Get, Lookup
<1>. QED  BY <1>1, <1>2, ReadTypes DEF KV!KVInit, KV!Map

LEMMA SetRefines ==
    ASSUME IInv, NEW k \in Key, NEW v \in Value \cup {Absent}, Set(k, v)
    PROVE  KV!Put(k, v)
<1>1. UNCHANGED <<snapshot, intermediate, delta_padding, intermediate_padding>>
  BY DEF Set, roots
<1>2. ASSUME NEW l \in Key
      PROVE  /\ DeltaKey(l)' = DeltaKey(l) /\ DeltaKey(l) \in RawKey
             /\ GetBelow(l)' = GetBelow(l)
             /\ l # k => DeltaKey(l) # DeltaKey(k)
  BY <1>1, RawKeyType, DeltaKeyInjective
     DEF IInv, TypeOK, DeltaKey, GetBelow, IntermediateKey
<1>3. ASSUME NEW l \in Key, l # k
      PROVE  Get(l)' = Get(l)
  <2>1. delta'[DeltaKey(l)] = delta[DeltaKey(l)]
    BY <1>2, <1>3 DEF Set, IInv, TypeOK, Layer
  <2>. QED  BY <1>2, <2>1 DEF Get, Lookup
<1>4. Get(k)' = v
  <2>1. delta'[DeltaKey(k)] = Stored(v)
    BY <1>2 DEF Set, IInv, TypeOK, Layer
  <2>2. Stored(v) # Absent /\ Visible(Stored(v)) = v
    BY ValueAssumption DEF ValueAssumption, Stored, Visible
  <2>. QED  BY <1>2, <2>1, <2>2 DEF Get, Lookup
<1>. QED  BY <1>2, <1>3, <1>4 DEF KV!Put

LEMMA DeleteRefines ==
    ASSUME RekeyExact, IInv, NEW q \in WholeQuery, DeletePrefix(q)
    PROVE  IF CutsAddress(q) THEN KV!EraseAddress(Matching(q)) ELSE KV!Erase(Matching(q))
<1>1. UNCHANGED <<snapshot, intermediate, delta_padding, intermediate_padding>>
  BY DEF DeletePrefix, roots
<1>2. ASSUME NEW k \in Key
      PROVE  /\ GetBelow(k)' = GetBelow(k)
             /\ Get(k)' = Lookup(AfterDelete(delta, q), k)
  <2>1. GetBelow(k)' = GetBelow(k) /\ DeltaKey(k)' = DeltaKey(k)
    BY <1>1 DEF GetBelow, IntermediateKey, DeltaKey
  <2>. QED  BY <2>1 DEF DeletePrefix, Get, Lookup
<1>. QED  BY <1>2, DeleteReads DEF KV!EraseAddress, KV!Erase

\* A delete by a prefix that cuts a hashed field buries or drops keys it names,
\* perhaps not all of them, and touches no others.
LEMMA CutDeleteReads ==
    ASSUME RekeyExact, IInv, NEW q \in Query, ~CutsAddress(q), NEW k \in Key
    PROVE  \/ Lookup(AfterDelete(delta, q), k) = Get(k)
           \/ k \in Matching(q) /\ Lookup(AfterDelete(delta, q), k) = Absent
<1>1. /\ DeltaKey(k) \in RawKey /\ IntermediateKey(k) \in RawKey
      /\ delta_padding \in Padding /\ intermediate_padding \in Padding
  BY RawKeyType DEF IInv, TypeOK, DeltaKey, IntermediateKey
<1>2. AfterDelete(delta, q)[DeltaKey(k)] =
         IF DeltaKey(k) \in Buried(q) THEN Tombstone
         ELSE IF DeltaKey(k) \in DeltaMatches(q) THEN Absent ELSE delta[DeltaKey(k)]
  BY <1>1 DEF AfterDelete
<1>3. CASE DeltaKey(k) \in Buried(q)
  <2>1. k \in Matching(q)
    BY <1>3, BuriedNamed
  <2>2. Lookup(AfterDelete(delta, q), k) = Absent
    BY <1>2, <1>3, ValueAssumption DEF Lookup, Visible, ValueAssumption
  <2>. QED  BY <2>1, <2>2
<1>4. CASE DeltaKey(k) \notin Buried(q) /\ DeltaKey(k) \notin DeltaMatches(q)
  BY <1>2, <1>4 DEF Lookup, Get
<1>5. CASE DeltaKey(k) \notin Buried(q) /\ DeltaKey(k) \in DeltaMatches(q)
  <2>1. StartsWith(DeltaKey(k), DeltaKey(q))
    BY <1>5 DEF DeltaMatches, ScanPrefix
  <2>2. /\ StartsWith(IntermediateKey(k), IntermediateKey(q))
        /\ StartsWith(CanonicalBytes(k), CanonicalBytes(q))
    BY <1>1, <2>1, PrefixAssumption DEF PrefixAssumption, DeltaKey, IntermediateKey
  <2>3. intermediate[IntermediateKey(k)] \in {Absent, Tombstone}
    <3>1. SUFFICES ASSUME intermediate[IntermediateKey(k)] \notin {Absent, Tombstone}
                   PROVE  DeltaKey(k) \in Buried(q)
      BY <1>5
    <3>2. IntermediateKey(k) \in IntermediateMatches(q)
      BY <1>1, <2>2, <3>1 DEF IntermediateMatches, AddressFilter, ScanPrefix
    <3>3. KeyOfDelta(IntermediateKey(k)) = k
      BY <1>1, CodecAssumption DEF IntermediateKey
    <3>. QED  BY <3>1, <3>2, <3>3 DEF Buried
  <2>4. snapshot[CanonicalBytes(k)] = Absent
    <3>1. SUFFICES ASSUME snapshot[CanonicalBytes(k)] # Absent
                   PROVE  DeltaKey(k) \in Buried(q)
      BY <1>5
    <3>2. CanonicalBytes(k) \in SnapshotMatches(q)
      BY <2>2, <3>1 DEF SnapshotMatches, CanonicalKey
    <3>3. KeyOfCanonical(CanonicalBytes(k)) = k
      BY DEF RekeyExact
    <3>. QED  BY <3>2, <3>3 DEF Buried
  <2>5. GetBelow(k) = Absent
    BY <2>3, <2>4 DEF GetBelow, Visible
  <2>6. k \in Matching(q)
    BY <2>2 DEF Matching
  <2>. QED  BY <1>2, <1>5, <2>5, <2>6 DEF Lookup
<1>. QED  BY <1>3, <1>4, <1>5

LEMMA CutDeleteRefines ==
    ASSUME RekeyExact, IInv, NEW q \in Query, ~CutsAddress(q), DeletePrefix(q)
    PROVE  \E T \in SUBSET Matching(q) : KV!Erase(T)
<1> DEFINE T == {k \in Matching(q) : Lookup(AfterDelete(delta, q), k) = Absent}
<1>1. UNCHANGED <<snapshot, intermediate, delta_padding, intermediate_padding>>
  BY DEF DeletePrefix, roots
<1>2. ASSUME NEW k \in Key
      PROVE  /\ GetBelow(k)' = GetBelow(k)
             /\ Get(k)' = Lookup(AfterDelete(delta, q), k)
  <2>1. GetBelow(k)' = GetBelow(k) /\ DeltaKey(k)' = DeltaKey(k)
    BY <1>1 DEF GetBelow, IntermediateKey, DeltaKey
  <2>. QED  BY <2>1 DEF DeletePrefix, Get, Lookup
<1>3. ASSUME NEW k \in Key
      PROVE  Get(k)' = IF k \in T THEN Absent ELSE Get(k)
  BY <1>2, CutDeleteReads
<1> HIDE DEF T
<1>4. KV!Erase(T)
  BY <1>2, <1>3 DEF KV!Erase
<1>5. T \in SUBSET Matching(q)
  BY DEF T
<1>. QED  BY <1>4, <1>5

LEMMA CommitRefines ==
    ASSUME IInv, Commit
    PROVE  KV!Checkpoint \/ UNCHANGED KV!kv
<1>1. CASE Rotate(TrieRoot(delta_inc))
  BY <1>1, RotationReads DEF KV!Checkpoint
<1>2. CASE UNCHANGED <<layers, roots>>
  BY <1>2 DEF layers, roots, Get, Lookup, GetBelow, DeltaKey, IntermediateKey, KV!kv
<1>. QED  BY <1>1, <1>2 DEF Commit

LEMMA StepRefines ==
    ASSUME RekeyExact, IInv, [Next]_vars
    PROVE  [KV!KVNext]_KV!kv
<1>1. ASSUME NEW k \in Key, NEW v \in Value \cup {Absent}, Set(k, v)
      PROVE  KV!KVNext
  BY <1>1, SetRefines DEF KV!KVNext
<1>2. ASSUME NEW q \in Query, DeletePrefix(q)
      PROVE  KV!KVNext
  <2>1. CASE CutsAddress(q)
    BY <1>2, <2>1, DeleteRefines, AddressPrefixWhole DEF KV!KVNext
  <2>2. CASE ~CutsAddress(q) /\ q \in WholeQuery
    BY <1>2, <2>2, DeleteRefines DEF KV!KVNext
  <2>3. CASE ~CutsAddress(q) /\ q \notin WholeQuery
    BY <1>2, <2>3, CutDeleteRefines DEF KV!KVNext
  <2>. QED  BY <2>1, <2>2, <2>3
<1>3. CASE Commit
  BY <1>3, CommitRefines DEF KV!KVNext
<1>4. CASE UNCHANGED vars
  BY <1>4 DEF vars, layers, roots, Get, Lookup, GetBelow, DeltaKey, IntermediateKey, KV!kv
<1>. QED  BY <1>1, <1>2, <1>3, <1>4 DEF Next

\* Three layers, two encodings and a moving padding read and write like one
\* map whose period ends checkpoint it, whatever prefixes are used, if every
\* canonical key decodes to the key it encodes.
THEOREM RefinementHolds ==
    ASSUME RekeyExact
    PROVE  Spec => Refinement
<1>1. Init => KV!KVInit
  BY InitRefines
<1>2. IInv /\ [Next]_vars => [KV!KVNext]_KV!kv
  BY StepRefines
<1>. QED  BY <1>1, <1>2, Invariance, PTL DEF Spec, Refinement, KV!KVSpec
-----------------------------------------------------------------------------
(* The layered state refines the model of its fuzz target. *)

\* The model's view of a layer, at the canonical form of a key.
LEMMA ModelledAt ==
    ASSUME NEW layer \in Layer, NEW p \in Padding, KeyedBy(layer, p), NEW k \in Key
    PROVE  Modelled(layer)[CanonicalBytes(k)] =
              IF layer[DeltaBytes(k, p)] = Absent THEN Absent
              ELSE [raw_key |-> DeltaBytes(k, p), value |-> Visible(layer[DeltaBytes(k, p)])]
<1> DEFINE c == CanonicalBytes(k)
           d == DeltaBytes(k, p)
           raws == {r \in RawKey : layer[r] # Absent /\ Canonical(r) = c}
<1>1. c \in CanonicalKey /\ d \in RawKey /\ Canonical(d) = c
  BY RawKeyType, CanonicalOfKey
<1>2. ASSUME NEW r \in raws
      PROVE  r = d
  <2>1. PICK l \in Key : r = DeltaBytes(l, p)
    BY DEF KeyedBy
  <2>2. CanonicalBytes(l) = CanonicalBytes(k)
    BY <2>1, CanonicalOfKey
  <2>. QED  BY <2>1, <2>2, CodecAssumption
<1>3. Modelled(layer)[c] =
         IF raws = {} THEN Absent
         ELSE [raw_key |-> CHOOSE x \in raws : TRUE,
               value |-> Visible(layer[CHOOSE x \in raws : TRUE])]
  BY <1>1 DEF Modelled
<1>4. CASE layer[d] = Absent
  <2>1. raws = {}
    BY <1>2, <1>4
  <2>. QED  BY <1>3, <1>4, <2>1
<1>5. CASE layer[d] # Absent
  <2>1. d \in raws
    BY <1>1, <1>5
  <2>2. (CHOOSE x \in raws : TRUE) = d
    BY <1>2, <2>1
  <2>. QED  BY <1>3, <1>5, <2>1, <2>2
<1>. QED  BY <1>4, <1>5

\* Whether the model has an entry, and what it says, in terms of the layer's.
LEMMA ModelledEntry ==
    ASSUME NEW layer \in Layer, NEW p \in Padding, KeyedBy(layer, p), NEW k \in Key
    PROVE  /\ Modelled(layer)[CanonicalBytes(k)] = Absent <=> layer[DeltaBytes(k, p)] = Absent
           /\ layer[DeltaBytes(k, p)] # Absent =>
                 /\ Modelled(layer)[CanonicalBytes(k)].raw_key = DeltaBytes(k, p)
                 /\ Modelled(layer)[CanonicalBytes(k)].value = Visible(layer[DeltaBytes(k, p)])
<1>1. DeltaBytes(k, p) \in RawKey
  BY RawKeyType
<1>2. layer[DeltaBytes(k, p)] \in Entry \cup {Absent}
  BY <1>1 DEF Layer
<1>3. [raw_key |-> DeltaBytes(k, p), value |-> Visible(layer[DeltaBytes(k, p)])] # Absent
  BY <1>1, <1>2, VisibleType, ModelledAssumption
<1> DEFINE d == DeltaBytes(k, p)
<1>4. CASE layer[d] = Absent
  <2>1. Modelled(layer)[CanonicalBytes(k)] = Absent
    BY <1>4, ModelledAt
  <2>. QED  BY <1>4, <2>1
<1>5. CASE layer[d] # Absent
  <2>1. Modelled(layer)[CanonicalBytes(k)] = [raw_key |-> d, value |-> Visible(layer[d])]
    BY <1>5, ModelledAt
  <2>. QED  BY <1>3, <1>5, <2>1
<1>. QED  BY <1>4, <1>5

\* A scan of a layer and the model's scan of its view take the same keys.
LEMMA ScannedAlike ==
    ASSUME NEW layer \in Layer, NEW p \in Padding, KeyedBy(layer, p), NEW q, NEW k \in Key
    PROVE  /\ CanonicalBytes(k) \in Oracle!Scanned(Modelled(layer), q, p) <=>
                 DeltaBytes(k, p) \in ScanPrefix(layer, DeltaBytes(q, p))
           /\ CanonicalBytes(k) \in Oracle!OfAddress(q, Oracle!Scanned(Modelled(layer), q, p)) <=>
                 DeltaBytes(k, p) \in AddressFilter(q, ScanPrefix(layer, DeltaBytes(q, p)))
<1>1. CanonicalBytes(k) \in CanonicalKey /\ DeltaBytes(k, p) \in RawKey
  BY RawKeyType
<1>2. Canonical(DeltaBytes(k, p)) = CanonicalBytes(k)
  BY CanonicalOfKey
<1>3. CanonicalBytes(k) \in Oracle!Scanned(Modelled(layer), q, p) <=>
         DeltaBytes(k, p) \in ScanPrefix(layer, DeltaBytes(q, p))
  BY <1>1, ModelledEntry DEF Oracle!Scanned, Oracle!CanonicalKey, CanonicalKey, ScanPrefix
<1>. QED  BY <1>2, <1>3 DEF Oracle!OfAddress, AddressFilter

\* What the two layers hold, for use with the lemmas above.
LEMMA LayersModelled ==
    ASSUME IInv
    PROVE  /\ delta \in Layer /\ delta_padding \in Padding /\ KeyedBy(delta, delta_padding)
           /\ intermediate \in Layer /\ intermediate_padding \in Padding
           /\ KeyedBy(intermediate, intermediate_padding)
BY DEF IInv, TypeOK, LayersKeyed

\* get and the model's lookup agree.
LEMMA GetAnswers ==
    ASSUME IInv, NEW k \in Key
    PROVE  Get(k) = Oracle!ModelGet(CanonicalBytes(k))
<1>1. /\ Modelled(delta)[CanonicalBytes(k)] = Absent <=> delta[DeltaKey(k)] = Absent
      /\ delta[DeltaKey(k)] # Absent =>
            Modelled(delta)[CanonicalBytes(k)].value = Visible(delta[DeltaKey(k)])
  BY LayersModelled, ModelledEntry DEF DeltaKey
<1>2. /\ Modelled(intermediate)[CanonicalBytes(k)] = Absent <=>
            intermediate[IntermediateKey(k)] = Absent
      /\ intermediate[IntermediateKey(k)] # Absent =>
            Modelled(intermediate)[CanonicalBytes(k)].value =
                Visible(intermediate[IntermediateKey(k)])
  BY LayersModelled, ModelledEntry DEF IntermediateKey
<1>. QED  BY <1>1, <1>2 DEF Get, Lookup, GetBelow, Oracle!ModelGet

\* The keys of the intermediate that a prefix operation looks at.
LEMMA IntermediateAlike ==
    ASSUME IInv, NEW q, NEW k \in Key
    PROVE  CanonicalBytes(k) \in Oracle!InIntermediate(q) <=>
              IntermediateKey(k) \in IntermediateMatches(q)
BY LayersModelled, ScannedAlike DEF Oracle!InIntermediate, IntermediateMatches, IntermediateKey

LEMMA SnapshotAlike ==
    ASSUME NEW q
    PROVE  Oracle!InSnapshot(q) = SnapshotMatches(q)
BY DEF Oracle!InSnapshot, SnapshotMatches, Oracle!CanonicalKey, CanonicalKey

\* Canonical forms of the entries taken from a layer are the model's keys.
LEMMA TakenAlike ==
    ASSUME NEW layer \in Layer, NEW p \in Padding, KeyedBy(layer, p), NEW q
    PROVE  Oracle!OfAddress(q, Oracle!Scanned(Modelled(layer), q, p)) =
              {Canonical(r) : r \in AddressFilter(q, ScanPrefix(layer, DeltaBytes(q, p)))}
<1> DEFINE model == Oracle!OfAddress(q, Oracle!Scanned(Modelled(layer), q, p))
           taken == AddressFilter(q, ScanPrefix(layer, DeltaBytes(q, p)))
<1>1. ASSUME NEW c \in model
      PROVE  c \in {Canonical(r) : r \in taken}
  <2>1. PICK k \in Key : c = CanonicalBytes(k)
    BY DEF Oracle!OfAddress, Oracle!Scanned, Oracle!CanonicalKey
  <2>2. DeltaBytes(k, p) \in taken
    BY <2>1, ScannedAlike
  <2>. QED  BY <2>1, <2>2, CanonicalOfKey
<1>2. ASSUME NEW r \in taken
      PROVE  Canonical(r) \in model
  <2>1. r \in RawKey /\ layer[r] # Absent
    BY DEF AddressFilter, ScanPrefix
  <2>2. PICK k \in Key : r = DeltaBytes(k, p)
    BY <2>1 DEF KeyedBy
  <2>3. CanonicalBytes(k) \in model
    BY <2>2, ScannedAlike
  <2>. QED  BY <2>2, <2>3, CanonicalOfKey
<1>. QED  BY <1>1, <1>2

\* The live pairs of a layer, restricted to some of its keys.
LEMMA LiveAlike ==
    ASSUME NEW layer \in Layer, NEW p \in Padding, KeyedBy(layer, p),
           NEW raws \in SUBSET RawKey, \A r \in raws : layer[r] # Absent
    PROVE  {<<c, Modelled(layer)[c].value>> :
               c \in {x \in {Canonical(r) : r \in raws} : Modelled(layer)[x].value # Absent}}
           = LiveIn(layer, raws)
<1>1. ASSUME NEW r \in raws
      PROVE  /\ Modelled(layer)[Canonical(r)].value = Visible(layer[r])
             /\ layer[r] # Absent
  <2>1. PICK k \in Key : r = DeltaBytes(k, p)
    BY DEF KeyedBy
  <2>. QED  BY <2>1, ModelledEntry, CanonicalOfKey
<1>2. ASSUME NEW r \in raws
      PROVE  Modelled(layer)[Canonical(r)].value # Absent <=> layer[r] # Tombstone
  BY <1>1 DEF Visible
<1>3. ASSUME NEW r \in raws, layer[r] # Tombstone
      PROVE  Modelled(layer)[Canonical(r)].value = layer[r]
  BY <1>1, <1>3 DEF Visible
<1>. QED  BY <1>2, <1>3 DEF LiveIn

\* get_all_by_prefix and the model's prefix read agree, whatever the prefix.
LEMMA PrefixAnswers ==
    ASSUME IInv, NEW q
    PROVE  ReadPrefix(q) = Oracle!ModelPrefixGet(q)
<1> DEFINE rawDelta  == AddressFilter(q, DeltaMatches(q))
           seenDelta == {Canonical(r) : r \in rawDelta}
           rawInter  == {r \in IntermediateMatches(q) : Canonical(r) \notin seenDelta}
           seenInter == {Canonical(r) : r \in IntermediateMatches(q)}
           below     == SnapshotMatches(q) \ (seenDelta \cup seenInter)
           inDelta   == Oracle!OfAddress(q, Oracle!Scanned(Modelled(delta), q, delta_padding))
           inInter   == Oracle!InIntermediate(q) \ inDelta
           inSnap    == Oracle!InSnapshot(q) \ (inDelta \cup inInter)
           Live(layer, keys) ==
               {<<c, layer[c].value>> : c \in {x \in keys : layer[x].value # Absent}}
<1>1. inDelta = seenDelta
  BY LayersModelled, TakenAlike DEF DeltaMatches, DeltaKey
<1>2. Oracle!InIntermediate(q) = seenInter
  BY LayersModelled, TakenAlike DEF Oracle!InIntermediate, IntermediateMatches, IntermediateKey
<1>3. inInter = {Canonical(r) : r \in rawInter}
  BY <1>1, <1>2
<1>4. inSnap = below
  BY <1>1, <1>2, SnapshotAlike
<1>5. Live(Modelled(delta), inDelta) = LiveIn(delta, rawDelta)
  <2>1. rawDelta \in SUBSET RawKey /\ \A r \in rawDelta : delta[r] # Absent
    BY DEF AddressFilter, DeltaMatches, ScanPrefix
  <2> HIDE DEF rawDelta, inDelta
  <2>. QED  BY <1>1, <2>1, LayersModelled, LiveAlike
<1>6. Live(Modelled(intermediate), inInter) = LiveIn(intermediate, rawInter)
  <2>1. rawInter \in SUBSET RawKey /\ \A r \in rawInter : intermediate[r] # Absent
    BY DEF AddressFilter, IntermediateMatches, ScanPrefix
  <2> HIDE DEF rawInter, inInter
  <2>. QED  BY <1>3, <2>1, LayersModelled, LiveAlike
<1>7. Oracle!ModelPrefixGet(q) =
         Live(Modelled(delta), inDelta) \cup Live(Modelled(intermediate), inInter)
            \cup {<<c, snapshot[c]>> : c \in inSnap}
  BY DEF Oracle!ModelPrefixGet
<1>8. ReadPrefix(q) = LiveIn(delta, rawDelta) \cup LiveIn(intermediate, rawInter)
                         \cup {<<c, snapshot[c]>> : c \in below}
  BY DEF ReadPrefix
<1> HIDE DEF rawDelta, rawInter, below, inDelta, inInter, inSnap, Live
<1>. QED  BY <1>4, <1>5, <1>6, <1>7, <1>8

\* In every reachable state both read paths give the answers of the model the
\* fuzz target keeps, for every prefix, those that cut a key or an address
\* included.
THEOREM OracleAnswersAlways == Spec => []OracleAnswers
<1>1. IInv => OracleAnswers
  BY GetAnswers, PrefixAnswers DEF OracleAnswers
<1>. QED  BY <1>1, Invariance, PTL

\* Two views of a layer are equal if they agree on the canonical form of every
\* key.
LEMMA ViewsEqual ==
    ASSUME NEW layer, NEW view,
           view = [c \in CanonicalKey |-> view[c]],
           \A k \in Key : Modelled(layer)[CanonicalBytes(k)] = view[CanonicalBytes(k)]
    PROVE  Modelled(layer) = view
<1>1. \A c \in CanonicalKey : Modelled(layer)[c] = view[c]
  BY DEF CanonicalKey
<1>2. Modelled(layer) = [c \in CanonicalKey |-> Modelled(layer)[c]]
  BY DEF Modelled
<1>. QED  BY <1>1, <1>2

LEMMA EmptyModelled == Modelled(EmptyLayer) = Oracle!Unset
BY DEF Modelled, EmptyLayer, Oracle!Unset, Oracle!CanonicalKey, CanonicalKey

LEMMA SetModelled ==
    ASSUME IInv, NEW k \in Key, NEW v \in Value \cup {Absent}, Set(k, v)
    PROVE  Oracle!ModelSet(k, v)
<1> DEFINE view == [Modelled(delta) EXCEPT ![CanonicalBytes(k)] = Oracle!Written(k, v)]
<1>1. UNCHANGED <<snapshot, intermediate, delta_padding, intermediate_padding,
                  height, snapshot_epoch_count>>
  BY DEF Set, roots
<1>2. delta' \in Layer /\ KeyedBy(delta', delta_padding)
  BY <1>1, SetIInv DEF IInv, TypeOK, LayersKeyed
<1>3. ASSUME NEW l \in Key
      PROVE  Modelled(delta')[CanonicalBytes(l)] = view[CanonicalBytes(l)]
  <2>1. /\ DeltaKey(l) \in RawKey /\ CanonicalBytes(l) \in CanonicalKey
        /\ l # k => /\ DeltaKey(l) # DeltaKey(k)
                    /\ CanonicalBytes(l) # CanonicalBytes(k)
    BY RawKeyType, DeltaKeyInjective, CodecAssumption, LayersModelled DEF DeltaKey
  <2>2. CASE l = k
    <3>1. delta'[DeltaKey(k)] = Stored(v)
      BY <2>1, <2>2, LayersModelled DEF Set, Layer
    <3>2. Stored(v) # Absent /\ Visible(Stored(v)) = v
      BY ValueAssumption DEF ValueAssumption, Stored, Visible
    <3>3. Modelled(delta')[CanonicalBytes(k)] = Oracle!Written(k, v)
      BY <1>2, <3>1, <3>2, LayersModelled, ModelledAt DEF Oracle!Written, DeltaKey
    <3>. QED  BY <2>1, <2>2, <3>3 DEF Modelled
  <2>3. CASE l # k
    <3>1. delta'[DeltaKey(l)] = delta[DeltaKey(l)]
      BY <2>1, <2>3, LayersModelled DEF Set, Layer
    <3>2. Modelled(delta')[CanonicalBytes(l)] =
             IF delta'[DeltaKey(l)] = Absent THEN Absent
             ELSE [raw_key |-> DeltaKey(l), value |-> Visible(delta'[DeltaKey(l)])]
      BY <1>2, LayersModelled, ModelledAt DEF DeltaKey
    <3>3. Modelled(delta)[CanonicalBytes(l)] =
             IF delta[DeltaKey(l)] = Absent THEN Absent
             ELSE [raw_key |-> DeltaKey(l), value |-> Visible(delta[DeltaKey(l)])]
      BY LayersModelled, ModelledAt DEF DeltaKey
    <3>4. Modelled(delta')[CanonicalBytes(l)] = Modelled(delta)[CanonicalBytes(l)]
      BY <3>1, <3>2, <3>3
    <3>. QED  BY <2>1, <2>3, <3>4 DEF Modelled
  <2>. QED  BY <2>2, <2>3
<1>4. view = [c \in CanonicalKey |-> view[c]]
  BY DEF Modelled
<1>5. Modelled(delta') = view
  <2> HIDE DEF view
  <2>. QED  BY <1>3, <1>4, ViewsEqual
<1>6. Modelled(delta)' = view
  BY <1>5 DEF Modelled
<1>7. UNCHANGED Modelled(intermediate)
  BY <1>1 DEF Modelled
<1>. QED  BY <1>1, <1>6, <1>7 DEF Oracle!ModelSet

\* The keys a delete buries, under either name.
LEMMA BuriedAlike ==
    ASSUME RekeyExact, IInv, NEW q, NEW k \in Key
    PROVE  DeltaKey(k) \in Buried(q) <=>
              \/ /\ CanonicalBytes(k) \in Oracle!InIntermediate(q)
                 /\ Modelled(intermediate)[CanonicalBytes(k)].value # Absent
              \/ CanonicalBytes(k) \in Oracle!InSnapshot(q)
<1>1. ASSUME NEW l \in Key, DeltaKey(l) = DeltaKey(k)
      PROVE  l = k
  BY <1>1, LayersModelled, DeltaKeyInjective DEF DeltaKey
<1>2. ASSUME NEW r \in IntermediateMatches(q)
      PROVE  \E l \in Key : r = IntermediateKey(l) /\ KeyOfDelta(r) = l
  <2>1. r \in RawKey /\ intermediate[r] # Absent
    BY DEF IntermediateMatches, AddressFilter, ScanPrefix
  <2>2. PICK l \in Key : r = DeltaBytes(l, intermediate_padding)
    BY <2>1, LayersModelled DEF KeyedBy
  <2>. QED  BY <2>2, LayersModelled, CodecAssumption DEF IntermediateKey
<1>3. KeyOfDelta(IntermediateKey(k)) = k
  BY LayersModelled, CodecAssumption DEF IntermediateKey
<1>4. (\E r \in IntermediateMatches(q) :
          intermediate[r] # Tombstone /\ DeltaKey(k) = DeltaKey(KeyOfDelta(r)))
      <=> /\ IntermediateKey(k) \in IntermediateMatches(q)
          /\ intermediate[IntermediateKey(k)] # Tombstone
  BY <1>1, <1>2, <1>3
<1>5. (\E c \in SnapshotMatches(q) : DeltaKey(k) = DeltaKey(KeyOfCanonical(c)))
      <=> CanonicalBytes(k) \in SnapshotMatches(q)
  <2>1. ASSUME NEW c \in SnapshotMatches(q), DeltaKey(k) = DeltaKey(KeyOfCanonical(c))
        PROVE  CanonicalBytes(k) \in SnapshotMatches(q)
    <3>1. PICK l \in Key : c = CanonicalBytes(l)
      BY DEF SnapshotMatches, CanonicalKey
    <3>. QED  BY <1>1, <2>1, <3>1 DEF RekeyExact
  <2>. QED  BY <2>1 DEF RekeyExact
<1>6. ASSUME IntermediateKey(k) \in IntermediateMatches(q)
      PROVE  intermediate[IntermediateKey(k)] # Tombstone <=>
                Modelled(intermediate)[CanonicalBytes(k)].value # Absent
  <2>1. intermediate[IntermediateKey(k)] # Absent
    BY <1>6 DEF IntermediateMatches, AddressFilter, ScanPrefix
  <2>2. Modelled(intermediate)[CanonicalBytes(k)].value = Visible(intermediate[IntermediateKey(k)])
    BY <2>1, LayersModelled, ModelledEntry DEF IntermediateKey
  <2>. QED  BY <2>1, <2>2 DEF Visible
<1>. QED  BY <1>4, <1>5, <1>6, IntermediateAlike, SnapshotAlike DEF Buried

LEMMA DeleteModelled ==
    ASSUME RekeyExact, IInv, NEW q \in Query, DeletePrefix(q)
    PROVE  Oracle!ModelPrefixDelete(q)
<1> DEFINE buried == {c \in Oracle!InIntermediate(q) : Modelled(intermediate)[c].value # Absent}
                         \cup Oracle!InSnapshot(q)
           view == [c \in CanonicalKey |->
                      IF c \in buried THEN Oracle!Written(KeyOfCanonical(c), Absent)
                      ELSE IF c \in Oracle!Scanned(Modelled(delta), q, delta_padding)
                      THEN Absent ELSE Modelled(delta)[c]]
<1>1. UNCHANGED <<snapshot, intermediate, delta_padding, intermediate_padding,
                  height, snapshot_epoch_count>>
  BY DEF DeletePrefix, roots
<1>2. delta' \in Layer /\ KeyedBy(delta', delta_padding)
  BY <1>1, DeleteIInv DEF IInv, TypeOK, LayersKeyed
<1>3. ASSUME NEW k \in Key
      PROVE  Modelled(delta')[CanonicalBytes(k)] = view[CanonicalBytes(k)]
  <2>1. DeltaKey(k) \in RawKey /\ CanonicalBytes(k) \in CanonicalKey
    BY RawKeyType, LayersModelled DEF DeltaKey
  <2>2. delta'[DeltaKey(k)] =
           IF DeltaKey(k) \in Buried(q) THEN Tombstone
           ELSE IF DeltaKey(k) \in DeltaMatches(q) THEN Absent ELSE delta[DeltaKey(k)]
    BY <2>1 DEF DeletePrefix, AfterDelete
  <2>3. DeltaKey(k) \in Buried(q) <=> CanonicalBytes(k) \in buried
    BY BuriedAlike
  <2>4. DeltaKey(k) \in DeltaMatches(q) <=>
           CanonicalBytes(k) \in Oracle!Scanned(Modelled(delta), q, delta_padding)
    BY LayersModelled, ScannedAlike DEF DeltaMatches, DeltaKey
  <2>5. Modelled(delta')[CanonicalBytes(k)] =
           IF delta'[DeltaKey(k)] = Absent THEN Absent
           ELSE [raw_key |-> DeltaKey(k), value |-> Visible(delta'[DeltaKey(k)])]
    BY <1>2, LayersModelled, ModelledAt DEF DeltaKey
  <2>6. Modelled(delta)[CanonicalBytes(k)] =
           IF delta[DeltaKey(k)] = Absent THEN Absent
           ELSE [raw_key |-> DeltaKey(k), value |-> Visible(delta[DeltaKey(k)])]
    BY LayersModelled, ModelledAt DEF DeltaKey
  <2>7. view[CanonicalBytes(k)] =
           IF CanonicalBytes(k) \in buried THEN Oracle!Written(k, Absent)
           ELSE IF CanonicalBytes(k) \in Oracle!Scanned(Modelled(delta), q, delta_padding)
           THEN Absent ELSE Modelled(delta)[CanonicalBytes(k)]
    BY <2>1 DEF RekeyExact
  <2> HIDE DEF buried, view
  <2>8. CASE DeltaKey(k) \in Buried(q)
    <3>1. Modelled(delta')[CanonicalBytes(k)] = [raw_key |-> DeltaKey(k), value |-> Absent]
      BY <2>2, <2>5, <2>8, ValueAssumption DEF ValueAssumption, Visible
    <3>. QED  BY <2>3, <2>7, <2>8, <3>1 DEF Oracle!Written, DeltaKey
  <2>9. CASE DeltaKey(k) \notin Buried(q)
    BY <2>2, <2>3, <2>4, <2>5, <2>6, <2>7, <2>9
  <2>. QED  BY <2>8, <2>9
<1>4. view = [c \in CanonicalKey |-> view[c]]
  OBVIOUS
<1>5. Modelled(delta') = view
  <2> HIDE DEF view
  <2>. QED  BY <1>3, <1>4, ViewsEqual
<1>6. Modelled(delta)' = view
  BY <1>5 DEF Modelled
<1>7. UNCHANGED Modelled(intermediate)
  BY <1>1 DEF Modelled
<1>. QED  BY <1>1, <1>6, <1>7 DEF Oracle!ModelPrefixDelete, Oracle!CanonicalKey, CanonicalKey

LEMMA CommitModelled ==
    ASSUME IInv, Commit
    PROVE  \E delta_root \in Digest : Oracle!Advance(delta_root)
<1> DEFINE d == TrieRoot(delta_inc)
           view == [c \in CanonicalKey |-> IF Modelled(intermediate)[c] = Absent THEN snapshot[c]
                                           ELSE Modelled(intermediate)[c].value]
<1>1. d \in Digest
  BY RootTypes DEF IInv, TypeOK
<1>2. ASSUME Rotate(d)
      PROVE  Oracle!Rotated(d)
  <2>1. ASSUME NEW k \in Key
        PROVE  Merged[CanonicalBytes(k)] = view[CanonicalBytes(k)]
    <3>1. CanonicalBytes(k) \in CanonicalKey
      BY RawKeyType, LayersModelled
    <3>2. /\ Modelled(intermediate)[CanonicalBytes(k)] = Absent <=>
                intermediate[IntermediateKey(k)] = Absent
          /\ intermediate[IntermediateKey(k)] # Absent =>
                Modelled(intermediate)[CanonicalBytes(k)].value =
                    Visible(intermediate[IntermediateKey(k)])
      BY LayersModelled, ModelledEntry DEF IntermediateKey
    <3>3. Merged[CanonicalBytes(k)] = GetBelow(k)
      BY MergedReads
    <3>. QED  BY <3>1, <3>2, <3>3 DEF GetBelow
  <2>2. snapshot' = view
    <3>1. \A c \in CanonicalKey : Merged[c] = view[c]
      BY <2>1 DEF CanonicalKey
    <3>2. Merged = [c \in CanonicalKey |-> Merged[c]]
      BY DEF Merged
    <3>3. Merged = view
      BY <3>1, <3>2
    <3>. QED  BY <1>2, <3>3 DEF Rotate
  <2>3. Modelled(intermediate)' = Modelled(delta) /\ Modelled(delta)' = Oracle!Unset
    <3>1. intermediate' = delta /\ delta' = EmptyLayer
      BY <1>2 DEF Rotate
    <3>2. Modelled(delta') = Oracle!Unset
      BY <3>1, EmptyModelled
    <3>. QED  BY <3>1, <3>2 DEF Modelled
  <2>4. /\ intermediate_padding' = delta_padding
        /\ delta_padding' = FromRoots(TrieRoot(snapshot'), d)
    BY <1>2 DEF Rotate
  <2>. QED  BY <2>2, <2>3, <2>4 DEF Oracle!Rotated, Oracle!CanonicalKey, CanonicalKey
<1>3. ASSUME UNCHANGED <<layers, roots>>
      PROVE  UNCHANGED <<snapshot, Modelled(intermediate), Modelled(delta),
                         intermediate_padding, delta_padding>>
  BY <1>3 DEF layers, roots, Modelled
<1>4. Oracle!Advance(d)
  BY <1>2, <1>3 DEF Commit, Oracle!Advance
<1>. QED  BY <1>1, <1>4

LEMMA InitModelled == Init => Oracle!OracleInit
<1> SUFFICES ASSUME Init
             PROVE  Oracle!OracleInit
  OBVIOUS
<1>1. TypeOK
  BY InitTypeOK
<1>2. intermediate = EmptyLayer /\ delta = EmptyLayer /\ height = 0
  BY DEF Init, FromSnapshot
<1>3. snapshot_epoch_count \in Nat \ {0}
  BY <1>1, BoundAssumption DEF TypeOK
<1>4. Modelled(intermediate) = Oracle!Unset /\ Modelled(delta) = Oracle!Unset
  BY <1>2, EmptyModelled
<1>5. /\ Oracle!Unset \in [Oracle!CanonicalKey -> Oracle!ModelValue \cup {Absent}]
      /\ \A c \in Oracle!CanonicalKey : Oracle!Unset[c] = Absent
  BY DEF Oracle!Unset
<1>. QED
  BY <1>1, <1>2, <1>3, <1>4, <1>5
     DEF Oracle!OracleInit, TypeOK, Store, Oracle!CanonicalKey, CanonicalKey

\* Operation by operation the layered state does what the fuzz target's model
\* does, if every canonical key decodes to the key it encodes: three maps keyed
\* by canonical bytes are enough to say what the padded layers hold.
THEOREM OracleRefinementHolds ==
    ASSUME RekeyExact
    PROVE  Spec => OracleRefinement
<1>1. Init => Oracle!OracleInit
  BY InitModelled
<1>2. IInv /\ [Next]_vars => [Oracle!OracleNext]_Oracle!ovars
  <2> SUFFICES ASSUME IInv, [Next]_vars
               PROVE  [Oracle!OracleNext]_Oracle!ovars
    OBVIOUS
  <2>1. ASSUME NEW k \in Key, NEW v \in Value \cup {Absent}, Set(k, v)
        PROVE  Oracle!OracleNext
    BY <2>1, SetModelled DEF Oracle!OracleNext
  <2>2. ASSUME NEW q \in Query, DeletePrefix(q)
        PROVE  Oracle!OracleNext
    BY <2>2, DeleteModelled DEF Oracle!OracleNext
  <2>3. CASE Commit
    BY <2>3, CommitModelled DEF Oracle!OracleNext
  <2>4. CASE UNCHANGED vars
    BY <2>4 DEF vars, layers, roots, Modelled, Oracle!ovars
  <2>. QED  BY <2>1, <2>2, <2>3, <2>4 DEF Next
<1>. QED  BY <1>1, <1>2, Invariance, PTL DEF Spec, OracleRefinement, Oracle!OracleSpec

-----------------------------------------------------------------------------
(* StateManager: the file, and what a commit that returned Ok has saved. *)

\* A saved state from which the layered state's own invariant can be restored.
Sound(state) == /\ KeyedBy(state.delta, state.delta_padding)
                /\ KeyedBy(state.intermediate, state.intermediate_padding)
                /\ Coherent(state)

\* Where a commit stands: until the rename the file is one of an earlier
\* commit, after it the file is the state in memory.
SaveInv ==
    /\ file # NoState => Sound(file) /\ file.height <= height
    /\ pc # "idle" => Coherent(Persisted)
    /\ pc \in {"writing", "renaming"} /\ file # NoState => file.height < height
    /\ pc = "renaming" => tmp = Persisted
    /\ pc = "renamed" => file = Persisted

FilesOK == /\ file \in PersistedState \cup {NoState}
           /\ pc \in {"idle", "writing", "renaming", "renamed"}
           /\ acked.height \in Nat

MInv == IInv /\ FilesOK /\ SaveInv /\ AckedIsDurable

LEMMA PersistedType ==
    ASSUME TypeOK
    PROVE  Persisted \in PersistedState
BY DEF TypeOK, Persisted, PersistedState

\* What is in memory can be written and read back, right after a commit too.
LEMMA PersistedSound ==
    ASSUME IInv, Coherent(Persisted)
    PROVE  Sound(Persisted)
BY DEF IInv, LayersKeyed, Sound, Persisted

LEMMA CommitCoherent ==
    ASSUME IInv, Commit
    PROVE  Coherent(Persisted)'
<1> DEFINE d == TrieRoot(delta_inc)
<1>1. d = TrieRoot(delta)
  BY DEF IInv, RootsCurrent
<1>2. /\ last_root' = NewCommitRoot(d)
      /\ snapshot_epoch_count' = snapshot_epoch_count
  BY DEF Commit
<1>3. CASE height' % snapshot_epoch_count = 0
  <2>1. Rotate(d)
    BY <1>3 DEF Commit
  <2>. QED  BY <1>1, <1>2, <1>3, <2>1
            DEF Coherent, Persisted, Rotate, NewCommitRoot
<1>4. CASE height' % snapshot_epoch_count # 0
  <2>1. UNCHANGED <<layers, roots>>
    BY <1>4 DEF Commit
  <2>. QED  BY <1>1, <1>2, <1>4, <2>1
            DEF Coherent, Persisted, layers, roots, NewCommitRoot, IInv, RootsCurrent
<1>. QED  BY <1>3, <1>4

-----------------------------------------------------------------------------
(* One lemma per action. *)

LEMMA InitMInv == ManagerInit => MInv
<1> SUFFICES ASSUME ManagerInit
             PROVE  MInv
  OBVIOUS
<1>1. IInv
  BY InitIInv, EmptyTypes DEF ManagerInit, InitNew, Init
<1>. QED  BY <1>1 DEF ManagerInit, MInv, FilesOK, SaveInv, AckedIsDurable

LEMMA WriteMInv ==
    ASSUME MInv, Write
    PROVE  MInv'
<1>1. [Next]_vars /\ UNCHANGED <<height, last_root>>
  BY DEF Write, Next, Set, DeletePrefix
<1>2. IInv'
  BY <1>1, NextIInv DEF MInv
<1>3. UNCHANGED storage /\ pc = "idle"
  BY DEF Write
<1>4. UNCHANGED <<file, tmp, pc, acked>>
  BY <1>3 DEF storage
<1>. QED  BY <1>1, <1>2, <1>3, <1>4 DEF MInv, FilesOK, SaveInv, AckedIsDurable

LEMMA CommitMInv ==
    ASSUME MInv, ManagerCommit
    PROVE  MInv'
<1>1. Commit /\ pc' = "writing" /\ UNCHANGED <<file, tmp, acked>>
  BY DEF ManagerCommit
<1>2. IInv' /\ Coherent(Persisted)'
  BY <1>1, CommitIInv, CommitCoherent DEF MInv
<1>3. height \in Nat /\ height' = height + 1
  BY <1>1, BoundAssumption DEF Commit, MInv, IInv, TypeOK
<1>4. file # NoState => file.height \in Nat
  BY BoundAssumption DEF MInv, FilesOK, PersistedState
<1>5. SaveInv'
  BY <1>1, <1>2, <1>3, <1>4 DEF MInv, SaveInv
<1>. QED  BY <1>1, <1>2, <1>5 DEF MInv, FilesOK, AckedIsDurable

LEMMA WriteTmpMInv ==
    ASSUME MInv, WriteTmp
    PROVE  MInv'
<1>1. UNCHANGED vars /\ UNCHANGED <<file, acked>>
  BY DEF WriteTmp
<1>2. pc = "writing" /\ pc' = "renaming" /\ tmp' = Persisted
  BY DEF WriteTmp
<1>3. IInv'
  BY <1>1, NextIInv DEF MInv
<1>4. Persisted' = Persisted /\ height' = height
  BY <1>1 DEF vars, layers, roots, Persisted
<1>5. SaveInv'
  BY <1>1, <1>2, <1>4 DEF MInv, SaveInv
<1>. QED  BY <1>1, <1>2, <1>3, <1>5 DEF MInv, FilesOK, AckedIsDurable

\* The renamed file is of a later commit than any that was acknowledged.
LEMMA RenameMInv ==
    ASSUME MInv, Rename
    PROVE  MInv'
<1>1. UNCHANGED vars /\ acked' = acked
  BY DEF Rename
<1>2. pc = "renaming" /\ pc' = "renamed" /\ file' = Persisted
  BY DEF Rename, MInv, SaveInv
<1>3. IInv'
  BY <1>1, NextIInv DEF MInv
<1>4. Persisted' = Persisted /\ height' = height
  BY <1>1 DEF vars, layers, roots, Persisted
<1>5. file' \in PersistedState /\ file' # NoState
  BY <1>2, PersistedType, FileAssumption DEF MInv, IInv
<1>6. Sound(file') /\ file'.height = height
  <2>1. Coherent(Persisted)
    BY <1>2 DEF MInv, SaveInv
  <2>2. Persisted.height = height
    BY DEF Persisted
  <2>. QED  BY <1>2, <2>1, <2>2, PersistedSound DEF MInv
<1>7. height \in Nat /\ (file # NoState => file.height \in Nat /\ file.height < height)
  BY <1>2, BoundAssumption DEF MInv, IInv, TypeOK, FilesOK, PersistedState, SaveInv
<1>8. SaveInv'
  <2>1. (pc # "idle" => Coherent(Persisted))'
    BY <1>2, <1>4 DEF MInv, SaveInv
  <2>. QED  BY <1>2, <1>4, <1>5, <1>6, <1>7, <2>1 DEF SaveInv
<1>9. AckedIsDurable'
  BY <1>1, <1>4, <1>5, <1>6, <1>7 DEF MInv, AckedIsDurable, FilesOK
<1>. QED  BY <1>1, <1>2, <1>3, <1>5, <1>8, <1>9 DEF MInv, FilesOK

LEMMA ReturnMInv ==
    ASSUME MInv, Return
    PROVE  MInv'
<1>1. UNCHANGED vars /\ UNCHANGED <<file, tmp>>
  BY DEF Return
<1>2. pc = "renamed" /\ pc' = "idle" /\ acked' = [height |-> height, root |-> last_root]
  BY DEF Return
<1>3. IInv'
  BY <1>1, NextIInv DEF MInv
<1>4. file = Persisted
  BY <1>2 DEF MInv, SaveInv
<1>5. file # NoState /\ file.height = height /\ file.last_root = last_root
  <2>1. Persisted # NoState
    BY PersistedType, FileAssumption DEF MInv, IInv
  <2>. QED  BY <1>4, <2>1 DEF Persisted
<1>6. height \in Nat /\ height' = height
  BY <1>1, BoundAssumption DEF MInv, IInv, TypeOK, vars
<1>. QED  BY <1>1, <1>2, <1>3, <1>5, <1>6 DEF MInv, FilesOK, SaveInv, AckedIsDurable

LEMMA SaveFailsMInv ==
    ASSUME MInv, SaveFails
    PROVE  MInv'
<1>1. UNCHANGED vars /\ UNCHANGED <<file, acked>> /\ pc' = "idle"
  BY DEF SaveFails
<1>2. IInv'
  BY <1>1, NextIInv DEF MInv
<1>3. height' = height
  BY <1>1 DEF vars
<1>. QED  BY <1>1, <1>2, <1>3 DEF MInv, FilesOK, SaveInv, AckedIsDurable

\* A loaded file brings back typed, keyed layers with current roots.
LEMMA ReloadIInv ==
    ASSUME MInv, file # NoState, NEW n \in EpochCount, FromPersisted(file, n)
    PROVE  IInv'
<1>1. file \in PersistedState /\ Sound(file)
  BY DEF MInv, FilesOK, SaveInv
<1>2. TrieRoot(file.snapshot) \in Digest /\ TrieRoot(file.intermediate) \in Digest
  BY <1>1, RootTypes DEF PersistedState
<1>3. TypeOK'
  BY <1>1, <1>2 DEF FromPersisted, PersistedState, TypeOK, RecoveredRoot
<1>4. LayersKeyed'
  BY <1>1 DEF FromPersisted, Sound, LayersKeyed
<1>5. RootsCurrent'
  BY <1>1 DEF FromPersisted, Sound, Coherent, RootsCurrent, RecoveredRoot
<1>. QED  BY <1>3, <1>4, <1>5 DEF IInv

LEMMA FreshIInv ==
    ASSUME NEW n \in EpochCount, FromNothing(n)
    PROVE  IInv'
<1>1. TypeOK'
  BY EmptyTypes, RootTypes, HashAssumption, BoundAssumption
     DEF FromNothing, TypeOK, BoundAssumption
<1>2. LayersKeyed'
  BY DEF FromNothing, LayersKeyed, KeyedBy, EmptyLayer
<1>3. RootsCurrent'
  BY HashAssumption DEF FromNothing, RootsCurrent, MERKLE_NULL_NODE
<1>. QED  BY <1>1, <1>2, <1>3 DEF IInv

LEMMA RestartMInv ==
    ASSUME MInv, Restart
    PROVE  MInv'
<1>1. UNCHANGED <<file, acked>> /\ pc' = "idle"
  BY DEF Restart
<1>2. PICK n \in EpochCount :
          IF file = NoState THEN FromNothing(n) ELSE FromPersisted(file, n)
  BY DEF Restart
<1>3. IInv'
  BY <1>2, ReloadIInv, FreshIInv
<1>4. file # NoState => file.height <= height'
  <2>1. SUFFICES ASSUME file # NoState
                 PROVE  file.height <= height'
    OBVIOUS
  <2>2. height' = file.height
    BY <1>2, <2>1 DEF FromPersisted
  <2>3. file.height \in Nat
    BY <2>1, BoundAssumption DEF MInv, FilesOK, PersistedState
  <2>. QED  BY <2>2, <2>3
<1>. QED  BY <1>1, <1>3, <1>4 DEF MInv, FilesOK, SaveInv, AckedIsDurable

LEMMA NextMInv == MInv /\ [ManagerNext]_mvars => MInv'
<1> SUFFICES ASSUME MInv, [ManagerNext]_mvars
             PROVE  MInv'
  OBVIOUS
<1>1. CASE UNCHANGED mvars
  <2>1. UNCHANGED vars /\ UNCHANGED <<file, tmp, pc, acked>>
    BY <1>1 DEF mvars, storage
  <2>2. IInv'
    BY <2>1, NextIInv DEF MInv
  <2>3. Persisted' = Persisted /\ height' = height
    BY <2>1 DEF vars, layers, roots, Persisted
  <2>4. Coherent(Persisted) => Coherent(Persisted)'
    BY <2>3
  <2>. QED  BY <2>1, <2>2, <2>3, <2>4 DEF MInv, FilesOK, SaveInv, AckedIsDurable
<1>. QED  BY <1>1, WriteMInv, CommitMInv, WriteTmpMInv, RenameMInv, ReturnMInv,
             SaveFailsMInv, RestartMInv DEF ManagerNext

LEMMA ManagerInvariance == ManagerSpec => []MInv
BY InitMInv, NextMInv, PTL DEF ManagerSpec

\* Every file ever in place describes itself, so that a restart goes on with
\* the roots the stopped process would have published.
THEOREM FileCoherentAlways == ManagerSpec => []FileCoherent
<1>1. MInv => FileCoherent
  BY DEF MInv, SaveInv, Sound, FileCoherent
<1>. QED  BY <1>1, ManagerInvariance, PTL

\* No failure and no restart takes back a commit that returned Ok.
THEOREM AckedIsDurableAlways == ManagerSpec => []AckedIsDurable
BY ManagerInvariance, PTL DEF MInv

\* What the layered state guarantees within one process it guarantees across
\* failing saves and restarts, a restart being none of its own steps.
THEOREM LayersSurviveRestarts ==
    ManagerSpec => [](LayersKeyed /\ RootsCurrent /\ PrefixReadsAgree)
<1>1. MInv => LayersKeyed /\ RootsCurrent /\ PrefixReadsAgree
  BY PrefixReads DEF MInv, IInv, PrefixReadsAgree
<1>. QED  BY <1>1, ManagerInvariance, PTL

-----------------------------------------------------------------------------
(* The manager implements the durable map. *)

\* What is read after a restart is what the file holds.
LEMMA ReloadReads ==
    ASSUME NEW n \in EpochCount, FromPersisted(file, n), NEW k \in Key
    PROVE  Get(k)' = OnDisk!Get(k) /\ GetBelow(k)' = OnDisk!GetBelow(k)
BY DEF FromPersisted, Get, Lookup, GetBelow, DeltaKey, IntermediateKey, Visible,
       OnDisk!Get, OnDisk!Lookup, OnDisk!GetBelow, OnDisk!DeltaKey,
       OnDisk!IntermediateKey, OnDisk!Visible

LEMMA FreshReads ==
    ASSUME NEW n \in EpochCount, FromNothing(n), NEW k \in Key
    PROVE  Get(k)' = Absent /\ GetBelow(k)' = Absent
<1>1. TypeOK'
  BY FreshIInv DEF IInv
<1>2. /\ DeltaBytes(k, delta_padding') \in RawKey
      /\ DeltaBytes(k, intermediate_padding') \in RawKey
      /\ CanonicalBytes(k) \in CanonicalKey
  BY <1>1, RawKeyType DEF TypeOK
<1>3. GetBelow(k)' = Absent
  BY <1>2 DEF FromNothing, EmptyLayer, EmptyStore, GetBelow, IntermediateKey
<1>. QED  BY <1>2, <1>3 DEF FromNothing, EmptyLayer, Get, Lookup, DeltaKey

\* As long as the file stays, a restart would read the same.
LEMMA FileKept ==
    ASSUME UNCHANGED file
    PROVE  UNCHANGED Durable!saved
BY DEF Durable!saved, OnDisk!Get, OnDisk!Lookup, OnDisk!GetBelow, OnDisk!DeltaKey,
       OnDisk!IntermediateKey, OnDisk!Visible

LEMMA ReadsKept ==
    ASSUME UNCHANGED vars
    PROVE  UNCHANGED Durable!kv
BY DEF vars, layers, roots, Get, Lookup, GetBelow, DeltaKey, IntermediateKey, Visible,
       Durable!kv

\* The steps of the durable map beside its saves are those of the checkpointed one.
LEMMA SameSteps ==
    ASSUME KV!KVNext
    PROVE  Durable!KVNext
BY DEF KV!KVNext, KV!Put, KV!Erase, KV!EraseAddress, KV!Checkpoint,
       Durable!KVNext, Durable!Put, Durable!Erase, Durable!EraseAddress, Durable!Checkpoint

LEMMA DurableInitRefines == ManagerInit => Durable!DurableInit
<1> SUFFICES ASSUME ManagerInit
             PROVE  Durable!DurableInit
  OBVIOUS
<1>1. KV!KVInit
  BY InitRefines, EmptyTypes DEF ManagerInit, InitNew, Init
<1>2. TypeOK /\ snapshot = EmptyStore /\ intermediate = EmptyLayer /\ delta = EmptyLayer
  BY InitTypeOK, EmptyTypes DEF ManagerInit, InitNew, Init, FromSnapshot
<1>3. ASSUME NEW k \in Key
      PROVE  Get(k) = Absent /\ GetBelow(k) = Absent
  <2>1. DeltaKey(k) \in RawKey /\ IntermediateKey(k) \in RawKey
    BY <1>2, RawKeyType DEF TypeOK, DeltaKey, IntermediateKey
  <2>2. CanonicalBytes(k) \in CanonicalKey
    BY DEF CanonicalKey
  <2>3. GetBelow(k) = Absent
    BY <1>2, <2>1, <2>2 DEF EmptyLayer, EmptyStore, GetBelow
  <2>. QED  BY <1>2, <2>1, <2>3 DEF EmptyLayer, Get, Lookup
<1>4. file = NoState
  BY DEF ManagerInit
<1>. QED  BY <1>1, <1>3, <1>4
          DEF KV!KVInit, KV!Map, Durable!DurableInit, Durable!KVInit, Durable!Map

LEMMA StateStepRefines ==
    ASSUME RekeyExact, IInv, Next, UNCHANGED file
    PROVE  [Durable!DurableNext]_<<Durable!kv, Durable!saved>>
<1>1. UNCHANGED Durable!saved
  BY FileKept
<1>2. KV!KVNext \/ UNCHANGED KV!kv
  BY StepRefines
<1>3. UNCHANGED KV!kv => UNCHANGED Durable!kv
  BY DEF KV!kv, Durable!kv
<1>4. CASE KV!KVNext
  BY <1>1, <1>4, SameSteps DEF Durable!DurableNext
<1>. QED  BY <1>1, <1>2, <1>3, <1>4

LEMMA QuietStepRefines ==
    ASSUME UNCHANGED vars, UNCHANGED file
    PROVE  [Durable!DurableNext]_<<Durable!kv, Durable!saved>>
BY FileKept, ReadsKept

LEMMA RenameRefines ==
    ASSUME MInv, Rename
    PROVE  Durable!Save
<1>1. UNCHANGED vars /\ file' = Persisted
  BY DEF Rename, MInv, SaveInv
<1>2. UNCHANGED Durable!kv
  BY <1>1, ReadsKept
<1>3. file' # NoState
  BY <1>1, PersistedType, FileAssumption DEF MInv, IInv
<1>4. ASSUME NEW k \in Key
      PROVE  OnDisk!Get(k)' = Get(k) /\ OnDisk!GetBelow(k)' = GetBelow(k)
  BY <1>1 DEF Persisted, Get, Lookup, GetBelow, DeltaKey, IntermediateKey, Visible,
       OnDisk!Get, OnDisk!Lookup, OnDisk!GetBelow, OnDisk!DeltaKey,
       OnDisk!IntermediateKey, OnDisk!Visible
<1>. QED  BY <1>2, <1>3, <1>4 DEF Durable!Save

LEMMA RestartRefines ==
    ASSUME MInv, Restart
    PROVE  Durable!Crash
<1>1. PICK n \in EpochCount :
          IF file = NoState THEN FromNothing(n) ELSE FromPersisted(file, n)
  BY DEF Restart
<1>2. UNCHANGED Durable!saved
  BY FileKept DEF Restart
<1>3. CASE file = NoState
  BY <1>1, <1>2, <1>3, FreshReads DEF Durable!Crash
<1>4. CASE file # NoState
  BY <1>1, <1>2, <1>4, ReloadReads DEF Durable!Crash
<1>. QED  BY <1>3, <1>4

LEMMA DurableStepRefines ==
    ASSUME RekeyExact, MInv, [ManagerNext]_mvars
    PROVE  [Durable!DurableNext]_<<Durable!kv, Durable!saved>>
<1>1. CASE Write
  BY <1>1, StateStepRefines DEF Write, Next, storage, MInv
<1>2. CASE ManagerCommit
  BY <1>2, StateStepRefines DEF ManagerCommit, Next, MInv
<1>3. CASE WriteTmp
  BY <1>3, QuietStepRefines DEF WriteTmp
<1>4. CASE Rename
  BY <1>4, RenameRefines DEF Durable!DurableNext
<1>5. CASE Return
  BY <1>5, QuietStepRefines DEF Return
<1>6. CASE SaveFails
  BY <1>6, QuietStepRefines DEF SaveFails
<1>7. CASE Restart
  BY <1>7, RestartRefines DEF Durable!DurableNext
<1>8. CASE UNCHANGED mvars
  BY <1>8, QuietStepRefines DEF mvars, storage
<1>. QED  BY <1>1, <1>2, <1>3, <1>4, <1>5, <1>6, <1>7, <1>8 DEF ManagerNext

\* Saves, failing saves and restarts are those of one map that is saved as a
\* whole and goes back to what was saved last, if every canonical key decodes
\* to the key it encodes.
THEOREM DurableRefinementHolds ==
    ASSUME RekeyExact
    PROVE  ManagerSpec => DurableRefinement
<1>1. MInv /\ [ManagerNext]_mvars =>
         [Durable!DurableNext]_<<Durable!kv, Durable!saved>>
  BY DurableStepRefines
<1>. QED  BY <1>1, DurableInitRefines, ManagerInvariance, PTL
          DEF ManagerSpec, DurableRefinement, Durable!DurableSpec
=============================================================================
