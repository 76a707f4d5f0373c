------------------------------ MODULE MemoWalk ------------------------------
(***************************************************************************)
(* The two walks that reuse cached hashes or leave them behind: memo_node  *)
(* and memo_node_rebuild of crates/minimal-mpt/src/incremental.rs.         *)
(* memo_node_lmdb of snapshot.rs is memo_node over database cursors.       *)
(*                                                                         *)
(* A walk of a node returns its hash and the cache entries made at it and  *)
(* below it.                                                               *)
(***************************************************************************)
EXTENDS MptTrie

\* The order of the entries.
Precedes(a, b) ==
    \/ IsStrictPrefix(a, b)
    \/ \E i \in DOMAIN a \cap DOMAIN b :
          a[i] < b[i] /\ SubSeq(a, 1, i - 1) = SubSeq(b, 1, i - 1)

FirstKey(block) == CHOOSE k \in block : \A l \in block \ {k} : Precedes(k, l)
LastKey(block)  == CHOOSE k \in block : \A l \in block \ {k} : Precedes(l, k)

\* Nibbles that first and last share.
CommonPrefix(first, last) == LongestCommonPrefix({first, last})

\* The cache entry a walked node leaves behind.
Retained(policy, rp, hash, singleton) ==
    IF policy = "Full" \/ ~singleton THEN {<<rp, hash>>} ELSE {}

\* The result for a node from its children's: hits and walked are sets of
\* pairs, a nibble with a cached hash and a nibble with the result of a call.
Combined(policy, rp, full, singleton, value, hits, walked) ==
    LET hashes   == hits \cup {<<w[1], w[2].hash>> : w \in walked}
        children == [c \in Nibble |-> IF \E x \in hashes : x[1] = c
                                      THEN (CHOOSE x \in hashes : x[1] = c)[2]
                                      ELSE MERKLE_NULL_NODE]
        hash     == PathMerkle(SubSeq(full, Len(rp) + 1, Len(full)), Len(rp),
                               NodeMerkle(children, value))
    IN [hash  |-> hash,
        fresh |-> (UNION {w[2].fresh : w \in walked})
                    \cup Retained(policy, rp, hash, singleton)]

\* memo_node at rp; below gives what its calls for the children return.
MemoNode(map, kept, policy, rp, below) ==
    IF rp \in DOMAIN kept THEN [hash |-> kept[rp], fresh |-> {}]
    ELSE LET block  == Block(map, rp)
             first  == FirstKey(block)
             last   == IF rp # <<>> \/ policy = "SkipSingleton" THEN LastKey(block) ELSE first
             full   == IF rp = <<>> THEN rp ELSE CommonPrefix(first, last)
             value  == {MerkleValue(map[k]) : k \in DOMAIN map \cap {full}}
             cached == {c \in Nibble : Append(full, c) \in DOMAIN kept}
             others == {c \in Nibble \ cached : Block(map, Append(full, c)) # {}}
         IN Combined(policy, rp, full, first = last, value,
                     {<<c, kept[Append(full, c)]>>  : c \in cached},
                     {<<c, below[Append(full, c)]>> : c \in others})

\* memo_node_rebuild at rp, over a slice of the sorted entries, without a cache.
MemoNodeRebuild(map, policy, rp, below) ==
    LET block  == Block(map, rp)
        first  == FirstKey(block)
        last   == LastKey(block)
        full   == IF rp = <<>> THEN rp ELSE CommonPrefix(first, last)
        value  == {MerkleValue(map[k]) : k \in {x \in block : Len(x) = Len(full)}}
        others == {c \in Nibble : Block(map, Append(full, c)) # {}}
    IN Combined(policy, rp, full, first = last, value, {},
                {<<c, below[Append(full, c)]>> : c \in others})

\* The results at every path, below the prefixes whose hash is in kept.
MemoAt(map, kept, policy) ==
    LET result[rp \in Paths(map)] == MemoNode(map, kept, policy, rp, result) IN result

RebuiltAt(map, policy) ==
    LET result[rp \in Paths(map)] == MemoNodeRebuild(map, policy, rp, result) IN result

\* A cache is a function from routing prefixes to hashes.
NoCache == [p \in {} |-> MERKLE_NULL_NODE]
AsCache(pairs) == [p \in {x[1] : x \in pairs} |-> (CHOOSE x \in pairs : x[1] = p)[2]]
=============================================================================
