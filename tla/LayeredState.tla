---------------------------- MODULE LayeredState ----------------------------
(***************************************************************************)
(* The three-layer state of minimal-mpt: crates/minimal-mpt/src/state/     *)
(* {mod,prefix,rotation}.rs.                                               *)
(*                                                                         *)
(* A read looks a key up in the delta, then in the intermediate, then in   *)
(* the snapshot.  Every write goes to the delta.  At the commit that ends  *)
(* a period the snapshot absorbs the intermediate, the delta becomes the   *)
(* intermediate, and a new key padding is derived from the two new roots.  *)
(*                                                                         *)
(* Hash functions and key encodings are parameters.  TrieRoot and          *)
(* FromRoots may be any functions at all, so nothing here rests on digests *)
(* being injective; what is needed of the encodings is CodecAssumption and *)
(* RekeyAssumption, which TLC evaluates for the operators of KeyCodec.     *)
(* A map that holds no entry for a key maps it to Absent.                  *)
(***************************************************************************)
EXTENDS Naturals

CONSTANTS
    Key,                    \* the StorageKeyWithSpace values used as data keys
    Query,                  \* the ones passed to the prefix operations
    Value,                  \* non-empty values
    Tombstone,              \* MptValue::Tombstone
    Absent,                 \* no entry, or None
    Digest,                 \* Merkle roots
    Padding,                \* DeltaMptKeyPadding values
    NoRoot,                 \* last_root = None
    EpochCount,             \* the snapshot_epoch_counts a State may be given
    MaxHeight,              \* bound on the number of commits
    TrieRoot(_),            \* the root of a layer
    FromRoots(_, _),        \* DeltaMptKeyPadding::from_roots
    CanonicalBytes(_),      \* to_key_bytes
    DeltaBytes(_, _),       \* to_delta_mpt_key_bytes, under a padding
    KeyOfDelta(_),          \* from_delta_mpt_key
    KeyOfCanonical(_),      \* from_key_bytes
    StartsWith(_, _),       \* StartsWith(bytes, prefix)
    CutsAddress(_)          \* matches StorageKey::AddressPrefix

RawKey       == {DeltaBytes(k, p) : k \in Key, p \in Padding}
CanonicalKey == {CanonicalBytes(k) : k \in Key}

Entry == Value \cup {Tombstone}
Layer == [RawKey -> Entry \cup {Absent}]
Store == [CanonicalKey -> Value \cup {Absent}]

EmptyLayer == [r \in RawKey |-> Absent]
EmptyStore == [c \in CanonicalKey |-> Absent]

\* The three kinds of cell content are told apart.
ValueAssumption ==
    /\ Tombstone \notin Value
    /\ Absent \notin Value
    /\ Tombstone # Absent

ASSUME ValueAssumption

ASSUME BoundAssumption ==
    /\ MaxHeight \in Nat
    /\ EpochCount \subseteq Nat \ {0}

\* A root is a digest, two roots give a padding, an empty layer's root is
\* MERKLE_NULL_NODE whatever kind of key it would hold.
ASSUME HashAssumption ==
    /\ \A m \in Layer \cup Store : TrieRoot(m) \in Digest
    /\ \A a, b \in Digest : FromRoots(a, b) \in Padding
    /\ TrieRoot(EmptyLayer) = TrieRoot(EmptyStore)

\* Decoding a delta key gives back the key, and canonical keys are distinct.
ASSUME CodecAssumption ==
    /\ \A k \in Key, p \in Padding :
          KeyOfDelta(DeltaBytes(k, p)) = k
    /\ \A k, l \in Key : CanonicalBytes(k) = CanonicalBytes(l) => k = l

\* delete_prefix decodes a canonical key and encodes the result again: it
\* lands on the delta key of some data key, not always of the one it read.
ASSUME RekeyAssumption ==
    \A k \in Key, p \in Padding :
        DeltaBytes(KeyOfCanonical(CanonicalBytes(k)), p) \in
            {DeltaBytes(l, p) : l \in Key}

\* Whether a prefix finds a key in the hashed encoding does not depend on the
\* padding.  An address prefix finds every key, any other one only keys that
\* carry it.
ASSUME PrefixAssumption ==
    \A q \in Query, k \in Key :
        \/ /\ \A p \in Padding : StartsWith(DeltaBytes(k, p), DeltaBytes(q, p))
           /\ CutsAddress(q) \/ StartsWith(CanonicalBytes(k), CanonicalBytes(q))
        \/ /\ \A p \in Padding : ~StartsWith(DeltaBytes(k, p), DeltaBytes(q, p))
           /\ ~CutsAddress(q)
-----------------------------------------------------------------------------
VARIABLES
    snapshot,               \* live entries by canonical key
    intermediate,           \* the previous period's delta, never written
    delta,                  \* this period's writes by padded delta key
    delta_inc,              \* entries of the incremental trie beside delta
    snapshot_root,
    intermediate_root,
    intermediate_padding,
    delta_padding,
    height,
    snapshot_epoch_count,
    last_root

layers == <<snapshot, intermediate, delta, delta_inc>>
roots  == <<snapshot_root, intermediate_root, intermediate_padding, delta_padding>>
vars   == <<layers, roots, height, snapshot_epoch_count, last_root>>

MERKLE_NULL_NODE == TrieRoot(EmptyLayer)

CommitRoot ==
    [snapshot_root : Digest, intermediate_delta_root : Digest,
     delta_root : Digest, delta_mpt_key_padding : Padding]

-----------------------------------------------------------------------------
(* Reads *)

\* Mutation: writes and reads of the delta use the lower layer's padding.
DeltaKeyStale(k)   == DeltaBytes(k, intermediate_padding)

DeltaKey(k)        == DeltaBytes(k, delta_padding)
IntermediateKey(k) == DeltaBytes(k, intermediate_padding)

\* Mutation: tombstones are passed on as values.
VisibleRaw(e) == e

Visible(e) == IF e = Tombstone THEN Absent ELSE e

\* What the two lower layers hold for a key, and what get returns for it.
GetBelow(k) ==
    IF intermediate[IntermediateKey(k)] # Absent
    THEN Visible(intermediate[IntermediateKey(k)])
    ELSE snapshot[CanonicalBytes(k)]

Lookup(map, k) == IF map[DeltaKey(k)] # Absent THEN Visible(map[DeltaKey(k)])
                                               ELSE GetBelow(k)

Get(k) == Lookup(delta, k)

\* The canonical form of a raw delta key.
Canonical(r) == CanonicalBytes(KeyOfDelta(r))

ScanPrefix(layer, prefix) ==
    {r \in RawKey : layer[r] # Absent /\ StartsWith(r, prefix)}

\* Mutation: the filter is forgotten.
AddressFilterNone(q, raws) == raws

\* Raw keys are kept unless the query is an address prefix they do not carry.
AddressFilter(q, raws) ==
    {r \in raws : CutsAddress(q) => StartsWith(Canonical(r), CanonicalBytes(q))}

DeltaMatches(q)        == ScanPrefix(delta, DeltaKey(q))

\* Mutation: the intermediate is scanned under the delta's padding.
IntermediateMatchesStale(q) == AddressFilter(q, ScanPrefix(intermediate, DeltaKey(q)))

IntermediateMatches(q) == AddressFilter(q, ScanPrefix(intermediate, IntermediateKey(q)))
SnapshotMatches(q)     ==
    {c \in CanonicalKey : snapshot[c] # Absent /\ StartsWith(c, CanonicalBytes(q))}

LiveIn(layer, raws) == {<<Canonical(r), layer[r]>> : r \in {x \in raws : layer[x] # Tombstone}}

\* get_all_by_prefix: the first layer that knows a canonical key decides, and
\* a tombstone decides for absence.  delete_prefix collects the same result.
ReadPrefix(q) ==
    LET inDelta   == AddressFilter(q, DeltaMatches(q))
        seenDelta == {Canonical(r) : r \in inDelta}
        inInter   == {r \in IntermediateMatches(q) : Canonical(r) \notin seenDelta}
        seenInter == {Canonical(r) : r \in IntermediateMatches(q)}
        inSnap    == SnapshotMatches(q) \ (seenDelta \cup seenInter)
    IN  LiveIn(delta, inDelta) \cup LiveIn(intermediate, inInter)
            \cup {<<c, snapshot[c]>> : c \in inSnap}

-----------------------------------------------------------------------------
(* Operations *)

\* MptValue of a value: an empty one, here Absent, is stored as a tombstone.
Stored(v) == IF v = Absent THEN Tombstone ELSE v

Set(k, v) ==
    /\ delta'     = [delta     EXCEPT ![DeltaKey(k)] = Stored(v)]
    /\ delta_inc' = [delta_inc EXCEPT ![DeltaKey(k)] = Stored(v)]
    /\ UNCHANGED <<snapshot, intermediate, roots, height, snapshot_epoch_count, last_root>>

\* Mutation: snapshot matches are reported but not buried.
BuriedAbove(q) ==
    {DeltaKey(KeyOfDelta(r)) :
        r \in {x \in IntermediateMatches(q) : intermediate[x] # Tombstone}}

\* The delta keys that delete_prefix overwrites with tombstones.
Buried(q) ==
    {DeltaKey(KeyOfDelta(r)) :
        r \in {x \in IntermediateMatches(q) : intermediate[x] # Tombstone}}
    \cup {DeltaKey(KeyOfCanonical(c)) : c \in SnapshotMatches(q)}

\* Mutation: the delta matches are removed after the lower ones are buried.
AfterDeleteLate(map, q) ==
    [r \in RawKey |-> IF r \in DeltaMatches(q) THEN Absent
                      ELSE IF r \in Buried(q) THEN Tombstone ELSE map[r]]

\* Mutation: only the delta entries of the address are removed.
AfterDeleteFiltered(map, q) ==
    [r \in RawKey |-> IF r \in Buried(q) THEN Tombstone
                      ELSE IF r \in AddressFilter(q, DeltaMatches(q)) THEN Absent ELSE map[r]]

AfterDelete(map, q) ==
    [r \in RawKey |-> IF r \in Buried(q) THEN Tombstone
                      ELSE IF r \in DeltaMatches(q) THEN Absent ELSE map[r]]

\* Mutation: the incremental trie is not told of the deletion.
DeletePrefixUnmirrored(q) ==
    /\ delta' = AfterDelete(delta, q)
    /\ UNCHANGED <<snapshot, intermediate, delta_inc, roots, height,
                   snapshot_epoch_count, last_root>>

\* delete_all_by_prefix: matching delta entries go first, without the address
\* filter; then the matches below are buried.
DeletePrefix(q) ==
    /\ delta'     = AfterDelete(delta, q)
    /\ delta_inc' = AfterDelete(delta_inc, q)
    /\ UNCHANGED <<snapshot, intermediate, roots, height, snapshot_epoch_count, last_root>>

\* Mutation: the intermediate is dropped instead of merged.
MergedNothing == snapshot

\* The snapshot after apply_updates has absorbed the intermediate.
Merged ==
    [c \in CanonicalKey |->
        LET updates == {r \in RawKey : intermediate[r] # Absent /\ Canonical(r) = c}
        IN  IF updates = {} THEN snapshot[c]
            ELSE Visible(intermediate[CHOOSE r \in updates : TRUE])]

\* advance_after_commit at a period boundary.
Rotate(delta_root) ==
    /\ snapshot'             = Merged
    /\ snapshot_root'        = TrieRoot(snapshot')
    /\ intermediate'         = delta
    /\ delta'                = EmptyLayer
    /\ delta_inc'            = EmptyLayer
    /\ intermediate_root'    = delta_root
    /\ intermediate_padding' = delta_padding
    /\ delta_padding'        = FromRoots(snapshot_root', intermediate_root')

\* Mutation: the two delta roots change places.
NewCommitRootSwapped(delta_root) ==
    [snapshot_root           |-> snapshot_root,
     intermediate_delta_root |-> delta_root,
     delta_root              |-> intermediate_root,
     delta_mpt_key_padding   |-> delta_padding]

\* CommitRoot::new with the roots in force before the rotation.
NewCommitRoot(delta_root) ==
    [snapshot_root           |-> snapshot_root,
     intermediate_delta_root |-> intermediate_root,
     delta_root              |-> delta_root,
     delta_mpt_key_padding   |-> delta_padding]

Commit ==
    LET delta_root == TrieRoot(delta_inc)
    IN  /\ height < MaxHeight
        /\ last_root' = NewCommitRoot(delta_root)
        /\ height' = height + 1
        /\ IF height' % snapshot_epoch_count = 0
           THEN Rotate(delta_root) ELSE UNCHANGED <<layers, roots>>
        /\ UNCHANGED snapshot_epoch_count

\* State::new and State::from_snapshot.
FromSnapshot(s) ==
    /\ snapshot             = s
    /\ intermediate         = EmptyLayer
    /\ delta                = EmptyLayer
    /\ delta_inc            = EmptyLayer
    /\ snapshot_root        = TrieRoot(s)
    /\ intermediate_root    = MERKLE_NULL_NODE
    /\ intermediate_padding = FromRoots(MERKLE_NULL_NODE, MERKLE_NULL_NODE)
    /\ delta_padding        = FromRoots(TrieRoot(s), MERKLE_NULL_NODE)
    /\ height               = 0
    /\ snapshot_epoch_count \in EpochCount
    /\ last_root            = NoRoot

Init    == \E s \in Store : FromSnapshot(s)
InitNew == FromSnapshot(EmptyStore)

Next == \/ \E k \in Key, v \in Value \cup {Absent} : Set(k, v)
        \/ \E q \in Query : DeletePrefix(q)
        \/ Commit

Spec    == Init /\ [][Next]_vars
SpecNew == InitNew /\ [][Next]_vars
-----------------------------------------------------------------------------
(* Properties *)

TypeOK ==
    /\ snapshot \in Store
    /\ intermediate \in Layer
    /\ delta \in Layer
    /\ delta_inc \in Layer
    /\ snapshot_root \in Digest
    /\ intermediate_root \in Digest
    /\ intermediate_padding \in Padding
    /\ delta_padding \in Padding
    /\ height \in 0..MaxHeight
    /\ snapshot_epoch_count \in EpochCount
    /\ last_root \in CommitRoot \cup {NoRoot}

\* Every entry of a layer is filed under that layer's own padding.  get looks
\* a key up under the current paddings only, so an entry filed under another
\* one could never be read again.
KeyedBy(layer, padding) ==
    \A r \in RawKey : layer[r] # Absent =>
        \E k \in Key : r = DeltaBytes(k, padding)

LayersKeyed == /\ KeyedBy(delta, delta_padding)
               /\ KeyedBy(intermediate, intermediate_padding)

\* The roots the next commit will publish are the roots of what the layers
\* hold, the incremental trie mirrors the delta it is updated beside, and the
\* padding is the one derived from the two lower roots.
RootsCurrent ==
    /\ snapshot_root = TrieRoot(snapshot)
    /\ intermediate_root = TrieRoot(intermediate)
    /\ delta_inc = delta
    /\ delta_padding = FromRoots(snapshot_root, intermediate_root)

\* The data keys a prefix names, by their canonical bytes.
Matching(q) == {k \in Key : StartsWith(CanonicalBytes(k), CanonicalBytes(q))}

\* A prefix of whole fields selects the same keys in both encodings; one that
\* cuts a storage key hashes to another digest and does not.
WholeField(q) ==
    \A k \in Key, p \in Padding :
        StartsWith(DeltaBytes(k, p), DeltaBytes(q, p)) <=>
            CutsAddress(q) \/ StartsWith(CanonicalBytes(k), CanonicalBytes(q))

WholeQuery == {q \in Query : WholeField(q)}

\* get_all_by_prefix returns exactly the keys under the prefix that get would
\* return a value for, with those values: the two read paths agree on layer
\* precedence and on tombstones.
PrefixReadsAgree ==
    \A q \in WholeQuery :
        ReadPrefix(q) = {<<CanonicalBytes(k), Get(k)>> :
                            k \in {l \in Matching(q) : Get(l) # Absent}}

\* No commit, rotation included, changes what get returns for any key.
CommitKeepsView == [][height' # height => \A k \in Key : Get(k)' = Get(k)]_vars

\* After delete_all_by_prefix no key under the prefix is visible, whichever
\* layers held it.
DeleteHides ==
    \A q \in WholeQuery : \A k \in Matching(q) : Lookup(AfterDelete(delta, q), k) = Absent

\* How the last published root relates to the roots in force: a period that
\* goes on keeps all but the delta root, a rotation turns the published delta
\* root and padding into those of the intermediate.
LastRootInForce ==
    last_root # NoRoot =>
        IF height % snapshot_epoch_count = 0
        THEN /\ intermediate_root = last_root.delta_root
             /\ intermediate_padding = last_root.delta_mpt_key_padding
        ELSE /\ snapshot_root = last_root.snapshot_root
             /\ intermediate_root = last_root.intermediate_delta_root
             /\ delta_padding = last_root.delta_mpt_key_padding

\* Consecutive commit roots chain: within a period only the delta root may
\* move, and the first commit of a period publishes the last delta root of
\* the one before as its intermediate root.
Follows(next, prev, rotated) ==
    IF rotated
    THEN next.intermediate_delta_root = prev.delta_root
    ELSE /\ next.intermediate_delta_root = prev.intermediate_delta_root
         /\ next.snapshot_root = prev.snapshot_root
         /\ next.delta_mpt_key_padding = prev.delta_mpt_key_padding

RootsChain ==
    [][height' # height /\ last_root # NoRoot =>
          Follows(last_root', last_root, height % snapshot_epoch_count = 0)]_vars

-----------------------------------------------------------------------------
(* Refinement *)

\* Every canonical key decodes to the key it encodes; accounts shorter than an
\* address do not.
RekeyExact == \A k \in Key : KeyOfCanonical(CanonicalBytes(k)) = k

KV == INSTANCE CheckpointedKV WITH
        view <- [k \in Key |-> Get(k)],
        base <- [k \in Key |-> GetBelow(k)],
        Erasures <- {Matching(q) : q \in {x \in WholeQuery : ~CutsAddress(x)}},
        AddressErasures <- {Matching(q) : q \in {x \in Query : CutsAddress(x)}},
        CutErasures <- {Matching(q) : q \in Query \ WholeQuery}

\* The layered state implements the checkpointed map.
Refinement == KV!KVSpec
-----------------------------------------------------------------------------
(* The fuzz target's model *)

\* A mutable layer as the model keeps it.
Modelled(layer) ==
    [c \in CanonicalKey |->
        LET raws == {r \in RawKey : layer[r] # Absent /\ Canonical(r) = c}
        IN  IF raws = {} THEN Absent
            ELSE LET r == CHOOSE x \in raws : TRUE
                 IN  [raw_key |-> r, value |-> Visible(layer[r])]]

\* Some and None are told apart: no entry of the model is the absent one.
ASSUME ModelledAssumption ==
    \A r \in RawKey, v \in Value \cup {Absent} : [raw_key |-> r, value |-> v] # Absent

Oracle == INSTANCE LayeredOracle WITH
    intermediate <- Modelled(intermediate), delta <- Modelled(delta)

\* Step by step, for whole prefixes and for those that cut a key or an
\* address, the layered state does what the model of its fuzz target does.
OracleRefinement == Oracle!OracleSpec

\* Both read paths give the model's answers at every moment.
OracleAnswers ==
    /\ \A k \in Key : Get(k) = Oracle!ModelGet(CanonicalBytes(k))
    /\ \A q \in Query : ReadPrefix(q) = Oracle!ModelPrefixGet(q)
=============================================================================
