-------------------------- MODULE IncrementalTrie --------------------------
(***************************************************************************)
(* The incremental trie behind the delta and the snapshot:                 *)
(* crates/minimal-mpt/src/incremental.rs, and the in-memory SnapshotTrie   *)
(* of snapshot.rs that wraps it.                                           *)
(*                                                                         *)
(* Writes only note the key.  root evicts every cached hash on the path of *)
(* a noted key, then walks the trie and stops at cached hashes.            *)
(***************************************************************************)
EXTENDS MemoWalk, FiniteSets

CONSTANTS Key,              \* nibble sequences of even length
          Value,
          Absent,
          Policies,         \* subset of {"Full", "SkipSingleton"}
          RebuildThreshold  \* PARALLEL_REBUILD_THRESHOLD

Entry == Value \cup {Tombstone}

ASSUME TrieAssumption == /\ Key \subseteq Seq(Nibble)
                         /\ IsFiniteSet(Key)
                         /\ Absent \notin Entry
                         /\ Policies \subseteq {"Full", "SkipSingleton"}

VARIABLES
    entries,                \* function from the keys present to their entries
    cache,                  \* function from routing prefixes to hashes
    dirty,                  \* keys changed since the last root
    policy                  \* the CachePolicy this trie's owner passes to root

tvars == <<entries, cache, dirty, policy>>

\* A map with an entry more, or with another value for a key it has.
Put(map, k, v) == [x \in DOMAIN map \cup {k} |-> IF x = k THEN v ELSE map[x]]

\* The entries of f, and those of g where f has none.
Over(f, g) == [x \in DOMAIN f \cup DOMAIN g |-> IF x \in DOMAIN f THEN f[x] ELSE g[x]]

\* Mutation: the prefix as long as the key itself is forgotten.
EvictedProper(map, keys) ==
    Restrict(map, {p \in DOMAIN map : ~\E k \in keys : IsStrictPrefix(p, k)})

\* Mutation: everything that starts with a dirty key's first nibble goes.
EvictedWide(map, keys) ==
    Restrict(map, {p \in DOMAIN map : p # <<>> /\ ~\E k \in keys : p[1] = k[1]})

\* A cache without any prefix of any dirty key.
Evicted(map, keys) ==
    Restrict(map, {p \in DOMAIN map : ~\E k \in keys : IsPrefix(p, k)})

\* The walk root makes when there are entries.
Walk == LET kept == Evicted(cache, dirty)
        IN IF DOMAIN kept = {} /\ Cardinality(DOMAIN entries) >= RebuildThreshold
           THEN RebuiltAt(entries, policy)[<<>>]
           ELSE MemoAt(entries, kept, policy)[<<>>]

-----------------------------------------------------------------------------
\* Only a delta trie is given tombstones: SnapshotTrie::apply_updates turns
\* them into removals.
Insert(k, v) ==
    /\ policy = "SkipSingleton" => v # Tombstone
    /\ entries' = Put(entries, k, v)
    /\ dirty' = dirty \cup {k}
    /\ UNCHANGED <<cache, policy>>

\* Mutation: removing a key does not make it dirty.
RemoveKeyClean(k) ==
    /\ entries' = Restrict(entries, DOMAIN entries \ {k})
    /\ UNCHANGED <<dirty, cache, policy>>

RemoveKey(k) ==
    /\ entries' = Restrict(entries, DOMAIN entries \ {k})
    /\ dirty' = dirty \cup {k}
    /\ UNCHANGED <<cache, policy>>

\* The delta's reset at a rotation; a snapshot trie is never cleared.
Clear == /\ policy = "Full"
         /\ entries' = <<>>
         /\ cache' = NoCache
         /\ dirty' = {}
         /\ UNCHANGED policy

Root == /\ cache' = IF DOMAIN entries = {} THEN NoCache
                    ELSE Over(AsCache(Walk.fresh), Evicted(cache, dirty))
        /\ dirty' = {}
        /\ UNCHANGED <<entries, policy>>

\* from_delta and from_snapshot.
TrieInit == /\ policy \in Policies
            /\ \E present \in SUBSET Key :
                  entries \in [present -> IF policy = "Full" THEN Entry ELSE Value]
            /\ cache = NoCache
            /\ dirty = {}

TrieNext == \/ \E k \in Key, v \in Entry : Insert(k, v)
            \/ \E k \in Key : RemoveKey(k)
            \/ Clear
            \/ Root

TrieSpec == TrieInit /\ [][TrieNext]_tvars
-----------------------------------------------------------------------------
\* What root would return now is the stateless root of the same entries,
\* whatever was written, removed and hashed in between.
RootExact == DOMAIN entries # {} => Walk.hash = TrieRoot(entries)

\* A root over a warm cache hashes only nodes next to the path of a dirty key:
\* a node is walked only if its parent prefix leads to a key that changed.  The
\* one-key nodes of a snapshot are never kept and do not count.
WalkKeepsToFrontier ==
    DOMAIN cache # {} /\ DOMAIN entries # {} =>
        \A x \in Walk.fresh :
            x[1] # <<>> => \E k \in dirty : IsPrefix(Front(x[1]), k)

\* The trie obeys the rule of SubtreeCache.
SubtreeHash(p, subtree) ==
    LET present == {k \in DOMAIN subtree : subtree[k] # Absent}
    IN  IF present = {} THEN MERKLE_NULL_NODE
        ELSE MerkleAt(Restrict(subtree, present))[p]

AllPrefixes == UNION {Prefixes(k) : k \in Key}

\* A map with every key of a set, Absent where it had none.
Total(map, keys) == [k \in keys |-> IF k \in DOMAIN map THEN map[k] ELSE Absent]

Rule == INSTANCE SubtreeCache WITH
    Prefix <- AllPrefixes, Content <- Entry, Covers <- IsPrefix, Hash <- SubtreeHash,
    entries <- Total(entries, Key), cache <- Total(cache, AllPrefixes)

CacheRule == Rule!CacheSpec
=============================================================================
