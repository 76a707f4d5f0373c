---------------------------- MODULE SubtreeCache ----------------------------
(***************************************************************************)
(* The rule the incremental trie rests on (crates/minimal-mpt/src/         *)
(* incremental.rs, module comment): a cached hash of the subtree at a      *)
(* prefix may be used until a key under that prefix changes.  Which hashes *)
(* are kept, and which are looked up, is left open here, and so are the    *)
(* shape of the trie and the hash function.                                *)
(***************************************************************************)
CONSTANTS Key,
          Prefix,           \* routing prefixes a node may sit at
          Content,
          Absent,           \* no entry, or nothing cached
          Covers(_, _),     \* Covers(p, k): key k lies in the subtree at p
          Hash(_, _)        \* Hash(p, subtree): the Merkle hash of a subtree

VARIABLES entries, cache, dirty

scvars == <<entries, cache, dirty>>

Entries == [Key -> Content \cup {Absent}]

\* What the trie holds under a prefix.
Under(map, p) == [k \in {x \in Key : Covers(p, x)} |-> map[k]]

Touched(p) == \E k \in dirty : Covers(p, k)

Mark(changed) == dirty' = dirty \cup changed

\* Some keys are written, others of them perhaps removed.
Change(changed) ==
    /\ entries' \in Entries
    /\ \A k \in Key \ changed : entries'[k] = entries[k]
    /\ Mark(changed)
    /\ UNCHANGED cache

\* Hashes of touched subtrees are dropped, any others may be added or lost.
Settle ==
    /\ cache' \in [Prefix -> {Absent} \cup {cache[p] : p \in Prefix}
                                      \cup {Hash(p, Under(entries, p)) : p \in Prefix}]
    /\ \A p \in Prefix :
          \/ cache'[p] \in {Absent, Hash(p, Under(entries, p))}
          \/ cache'[p] = cache[p] /\ ~Touched(p)
    /\ dirty' = {}
    /\ UNCHANGED entries

\* All entries go, and with them every cached hash.
Reset ==
    /\ entries' = [k \in Key |-> Absent]
    /\ cache'   = [p \in Prefix |-> Absent]
    /\ dirty'   = {}

\* The cache starts empty or with the hashes of a full walk.
CacheInit == /\ entries \in Entries
             /\ cache \in [Prefix -> {Absent} \cup {Hash(p, Under(entries, p)) : p \in Prefix}]
             /\ \A p \in Prefix : cache[p] \in {Absent, Hash(p, Under(entries, p))}
             /\ dirty = {}

CacheNext == \/ \E changed \in SUBSET Key : Change(changed)
             \/ Settle
             \/ Reset

CacheSpec == CacheInit /\ [][CacheNext]_scvars
-----------------------------------------------------------------------------
CacheTypeOK == /\ entries \in Entries
               /\ dirty \subseteq Key
               /\ DOMAIN cache = Prefix

\* A cached hash that no dirty key lies under is the hash of what the trie
\* holds there now, however often the node at that prefix went away and came
\* back since it was cached.
CacheSound ==
    \A p \in Prefix : cache[p] # Absent /\ ~Touched(p)
                        => cache[p] = Hash(p, Under(entries, p))
=============================================================================
