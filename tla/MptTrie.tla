------------------------------ MODULE MptTrie ------------------------------
(***************************************************************************)
(* The stateless trie root of minimal-mpt: crates/minimal-mpt/src/trie.rs. *)
(*                                                                         *)
(* Keys are sequences of nibbles.  Keccak is a term constructor: the hash  *)
(* of a buffer is the record of what went into it, so two hashes are equal *)
(* when the same bytes were hashed.                                        *)
(***************************************************************************)
EXTENDS Naturals, Sequences, SequencesExt

CONSTANTS Nibble,           \* 0..CHILDREN-1
          Tombstone         \* MptValue::Tombstone

ASSUME NibbleAssumption == Nibble \subseteq Nat

MERKLE_NULL_NODE == [kind |-> "null"]

\* A tombstone hashes like an empty value.
MerkleValue(v) == IF v = Tombstone THEN <<>> ELSE <<v>>

\* Value is empty for a node without a value, otherwise a singleton.
NodeMerkle(children, value) ==
    [kind |-> "node", children |-> children, value |-> value]

\* Nibbles packed into whole bytes: a path that starts at an odd depth gives
\* its first nibble a byte of its own, a nibble left over at the end is
\* followed by zero.
CompressNibbles(path, odd) ==
    (IF odd THEN <<0>> ELSE <<>>) \o path
        \o (IF (Len(path) % 2 = 1) # odd THEN <<0>> ELSE <<>>)

PathMerkle(path, startDepth, node) ==
    IF path = <<>> THEN node
    ELSE LET odd == startDepth % 2 = 1
         IN [kind |-> "path",
             info |-> 128 + (IF odd THEN 64 ELSE 0) + (Len(path) % 63),
             path |-> CompressNibbles(path, odd),
             node |-> node]

\* The keys under a path.  They are contiguous in the sorted entries: a slice
\* for merkle_for_node, a range for memo_node.
Block(map, p) == {k \in DOMAIN map : IsPrefix(p, k)}

\* Where the nodes of a trie may sit.
Paths(map) == UNION {Prefixes(k) : k \in DOMAIN map}

\* merkle_for_node on the block under p; below gives what its calls for the
\* children return.  Only the root has an empty path, and only the root is
\* called without path compression.
MerkleForNode(map, p, below) ==
    LET block    == Block(map, p)
        full     == IF p = <<>> THEN p ELSE LongestCommonPrefix(block)
        value    == {MerkleValue(map[k]) : k \in {x \in block : Len(x) = Len(full)}}
        children == [c \in Nibble |-> IF Block(map, Append(full, c)) # {}
                                      THEN below[Append(full, c)] ELSE MERKLE_NULL_NODE]
    IN PathMerkle(SubSeq(full, Len(p) + 1, Len(full)), Len(p), NodeMerkle(children, value))

\* The hash of the subtree at every path.
MerkleAt(map) == LET hash[p \in Paths(map)] == MerkleForNode(map, p, hash) IN hash

\* trie_root.
TrieRoot(map) == IF DOMAIN map = {} THEN MERKLE_NULL_NODE ELSE MerkleAt(map)[<<>>]
=============================================================================
