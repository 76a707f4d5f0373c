---------------------------- MODULE SnapshotTrie ----------------------------
(***************************************************************************)
(* The two snapshot backends of crates/minimal-mpt/src/snapshot.rs, driven *)
(* in lockstep.                                                            *)
(*                                                                         *)
(* A build holds its snapshot either in an IncrementalTrie (the default)   *)
(* or in an LMDB database (feature snapshot-lmdb) with a cache, a dirty    *)
(* set and an entry counter of its own.  The database starts with the      *)
(* cache of a full walk, the in-memory trie with none.  A delta trie       *)
(* (policy "Full") has no database: db stays empty beside it.              *)
(*                                                                         *)
(* LMDB keeps no empty key, so Key must not hold the empty sequence.       *)
(***************************************************************************)
EXTENDS IncrementalTrie

CONSTANT MaxBatch           \* bound on the updates of one apply_updates

ASSUME SnapshotAssumption == <<>> \notin Key /\ MaxBatch \in Nat

VARIABLES
    db,                     \* the database: function from keys to live values
    db_cache,
    db_dirty,
    db_len                  \* SnapshotTrie::len

lmdb  == <<db, db_cache, db_dirty, db_len>>
svars == <<tvars, lmdb>>

Update == Key \X Entry

-----------------------------------------------------------------------------
(* Batches of updates *)

\* A tombstone removes.
Updated(map, u) == IF u[2] = Tombstone THEN Restrict(map, DOMAIN map \ {u[1]})
                                       ELSE Put(map, u[1], u[2])

\* Mutation: an overwritten entry is counted as a new one.
CountedBlind(s, u) ==
    [db  |-> Updated(s.db, u),
     len |-> IF u[2] # Tombstone THEN s.len + 1
             ELSE IF u[1] \in DOMAIN s.db THEN s.len - 1 ELSE s.len]

\* One update inside the write transaction, with the counter beside it.
Counted(s, u) ==
    LET existed == u[1] \in DOMAIN s.db
    IN  [db  |-> Updated(s.db, u),
         len |-> IF u[2] # Tombstone /\ ~existed THEN s.len + 1
                 ELSE IF u[2] = Tombstone /\ existed THEN s.len - 1
                 ELSE s.len]

\* The database and its counter after every update of a batch.
CountedAll(batch) ==
    LET after[i \in 0..Len(batch)] ==
            IF i = 0 THEN [db |-> db, len |-> db_len] ELSE Counted(after[i - 1], batch[i])
    IN after[Len(batch)]

\* The ordered map after every update of a batch.
UpdatedAll(batch) ==
    LET after[i \in 0..Len(batch)] ==
            IF i = 0 THEN entries ELSE Updated(after[i - 1], batch[i])
    IN after[Len(batch)]

Touches(batch) == {batch[i][1] : i \in DOMAIN batch}

\* Mutation: an update that finds no entry does not make its key dirty.
LmdbApplyLazy(batch) ==
    LET done == CountedAll(batch)
    IN  /\ db' = done.db
        /\ db_len' = done.len
        /\ db_dirty' = db_dirty \cup (Touches(batch) \cap DOMAIN db)
        /\ UNCHANGED db_cache

LmdbApply(batch) ==
    LET done == CountedAll(batch)
    IN  /\ db' = done.db
        /\ db_len' = done.len
        /\ db_dirty' = db_dirty \cup Touches(batch)
        /\ UNCHANGED db_cache

MemoryApply(batch) ==
    /\ entries' = UpdatedAll(batch)
    /\ dirty' = dirty \cup Touches(batch)
    /\ UNCHANGED <<cache, policy>>

ApplyUpdates(batch) == /\ policy = "SkipSingleton"
                       /\ MemoryApply(batch)
                       /\ LmdbApply(batch)

-----------------------------------------------------------------------------
(* Roots *)

\* The walk root_with_policy makes; it never rebuilds.
LmdbWalk == MemoAt(db, Evicted(db_cache, db_dirty), policy)[<<>>]

\* The counter decides whether there is anything to walk.
LmdbRoot == /\ db_cache' = IF db_len = 0 THEN NoCache
                           ELSE Over(AsCache(LmdbWalk.fresh), Evicted(db_cache, db_dirty))
            /\ db_dirty' = {}
            /\ UNCHANGED <<db, db_len>>

SnapshotRoot == /\ policy = "SkipSingleton"
                /\ Root
                /\ LmdbRoot

\* rebuild_snapshot_root_cache.
RebuiltCache(map) ==
    IF DOMAIN map = {} THEN NoCache
    ELSE AsCache(RebuiltAt(map, policy)[<<>>].fresh)

-----------------------------------------------------------------------------
\* from_snapshot of either backend; a delta trie on its own.
SnapInit ==
    /\ TrieInit
    /\ db = IF policy = "SkipSingleton" THEN entries ELSE <<>>
    /\ db_cache = RebuiltCache(db)
    /\ db_dirty = {}
    /\ db_len = Cardinality(DOMAIN db)

\* The operations of a delta trie.
DeltaStep == /\ policy = "Full"
             /\ TrieNext
             /\ UNCHANGED lmdb

SnapNext == \/ DeltaStep
            \/ \E n \in 1..MaxBatch : \E batch \in [1..n -> Update] : ApplyUpdates(batch)
            \/ SnapshotRoot

SnapSpec == SnapInit /\ [][SnapNext]_svars
-----------------------------------------------------------------------------
\* Whichever backend a build has, it publishes the same root: that of a
\* stateless recomputation over the same entries.  The database answers from
\* a cache with another history, and takes its own counter's word for being
\* empty.
BackendsAgree ==
    policy = "SkipSingleton" =>
        /\ db = entries
        /\ (db_len = 0) <=> (DOMAIN db = {})
        /\ db_len > 0 => LmdbWalk.hash = TrieRoot(entries)

LmdbRule == INSTANCE SubtreeCache WITH
    Prefix <- AllPrefixes, Content <- Entry, Covers <- IsPrefix, Hash <- SubtreeHash,
    entries <- Total(db, Key), cache <- Total(db_cache, AllPrefixes), dirty <- db_dirty

\* Both caches obey the rule of SubtreeCache: a cached hash goes with every
\* change below it, whichever hashes are kept and however many keys a batch
\* touches, from the cold start of a delta trie and the warm one of a snapshot.
CacheRules == /\ CacheRule
              /\ LmdbRule!CacheSpec
=============================================================================
