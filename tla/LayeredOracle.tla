---------------------------- MODULE LayeredOracle ----------------------------
(***************************************************************************)
(* The model the fuzz target of the layered state compares it with         *)
(* (crates/minimal-mpt/fuzz/fuzz_targets/layered_state_ops.rs, Model).     *)
(*                                                                         *)
(* It holds one ordered map per layer, all three keyed by canonical bytes, *)
(* and keeps the padded key of a write beside its value.  There are no     *)
(* roots here: the root that a commit returned is an input of Advance.     *)
(***************************************************************************)
EXTENDS Naturals

CONSTANTS Key, Query, Value, Absent, Digest, Padding, MaxHeight,
          TrieRoot(_), FromRoots(_, _), CanonicalBytes(_), DeltaBytes(_, _),
          KeyOfCanonical(_), StartsWith(_, _), CutsAddress(_)

CanonicalKey == {CanonicalBytes(k) : k \in Key}

\* Some(value) or None for a tombstone, here Absent, and the key it is under.
ModelValue == [raw_key : {DeltaBytes(k, p) : k \in Key, p \in Padding},
               value : Value \cup {Absent}]

Unset == [c \in CanonicalKey |-> Absent]

VARIABLES snapshot, intermediate, delta, intermediate_padding, delta_padding,
          height, snapshot_epoch_count

ovars == <<snapshot, intermediate, delta, intermediate_padding, delta_padding,
           height, snapshot_epoch_count>>

-----------------------------------------------------------------------------
Written(k, v) == [raw_key |-> DeltaBytes(k, delta_padding), value |-> v]

ModelGet(c) == IF delta[c] # Absent THEN delta[c].value
               ELSE IF intermediate[c] # Absent THEN intermediate[c].value
               ELSE snapshot[c]

\* The entries of a mutable layer whose padded key carries the prefix.
Scanned(layer, q, padding) ==
    {c \in CanonicalKey : /\ layer[c] # Absent
                          /\ StartsWith(layer[c].raw_key, DeltaBytes(q, padding))}

OfAddress(q, keys) ==
    {c \in keys : CutsAddress(q) => StartsWith(c, CanonicalBytes(q))}

InSnapshot(q) ==
    {c \in CanonicalKey : snapshot[c] # Absent /\ StartsWith(c, CanonicalBytes(q))}

InIntermediate(q) == OfAddress(q, Scanned(intermediate, q, intermediate_padding))

\* The answer to a prefix read, and to a prefix delete.
ModelPrefixGet(q) ==
    LET inDelta == OfAddress(q, Scanned(delta, q, delta_padding))
        inInter == InIntermediate(q) \ inDelta
        inSnap  == InSnapshot(q) \ (inDelta \cup inInter)
        Live(layer, keys) == {<<c, layer[c].value>> : c \in {x \in keys : layer[x].value # Absent}}
    IN  Live(delta, inDelta) \cup Live(intermediate, inInter)
            \cup {<<c, snapshot[c]>> : c \in inSnap}

-----------------------------------------------------------------------------
ModelSet(k, v) ==
    /\ delta' = [delta EXCEPT ![CanonicalBytes(k)] = Written(k, v)]
    /\ UNCHANGED <<snapshot, intermediate, intermediate_padding, delta_padding,
                   height, snapshot_epoch_count>>

ModelPrefixDelete(q) ==
    LET buried == {c \in InIntermediate(q) : intermediate[c].value # Absent}
                      \cup InSnapshot(q)
    IN  /\ delta' = [c \in CanonicalKey |->
                        IF c \in buried THEN Written(KeyOfCanonical(c), Absent)
                        ELSE IF c \in Scanned(delta, q, delta_padding) THEN Absent
                        ELSE delta[c]]
        /\ UNCHANGED <<snapshot, intermediate, intermediate_padding, delta_padding,
                       height, snapshot_epoch_count>>

\* A period ends.  The padding comes from the snapshot's root, computed from
\* scratch, and the root of the delta that the commit returned.
Rotated(delta_root) ==
    /\ snapshot' = [c \in CanonicalKey |-> IF intermediate[c] = Absent THEN snapshot[c]
                                           ELSE intermediate[c].value]
    /\ intermediate' = delta
    /\ delta' = Unset
    /\ intermediate_padding' = delta_padding
    /\ delta_padding' = FromRoots(TrieRoot(snapshot'), delta_root)

Advance(delta_root) ==
    /\ height < MaxHeight
    /\ height' = height + 1
    /\ IF height' % snapshot_epoch_count = 0 THEN Rotated(delta_root)
       ELSE UNCHANGED <<snapshot, intermediate, delta, intermediate_padding, delta_padding>>
    /\ UNCHANGED snapshot_epoch_count

\* Model::new, with what the harness loads into it: a snapshot, and values
\* and tombstones of an intermediate layer, under any padding.
OracleInit ==
    /\ snapshot \in [CanonicalKey -> Value \cup {Absent}]
    /\ intermediate \in [CanonicalKey -> ModelValue \cup {Absent}]
    /\ \A c \in CanonicalKey : intermediate[c] # Absent =>
          intermediate[c].raw_key = DeltaBytes(KeyOfCanonical(c), intermediate_padding)
    /\ delta = Unset
    /\ intermediate_padding \in Padding
    /\ delta_padding \in Padding
    /\ height = 0
    /\ snapshot_epoch_count \in Nat \ {0}

\* PersistRoundtrip advances the oracle as Commit does.
OracleNext == \/ \E k \in Key, v \in Value \cup {Absent} : ModelSet(k, v)
              \/ \E q \in Query : ModelPrefixDelete(q)
              \/ \E delta_root \in Digest : Advance(delta_root)

OracleSpec == OracleInit /\ [][OracleNext]_ovars
=============================================================================
