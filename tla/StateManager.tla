---------------------------- MODULE StateManager ----------------------------
(***************************************************************************)
(* A StateManager over a FileStore: crates/minimal-mpt/src/state/mod.rs    *)
(* (persisted, from_persisted, StateManager) and store.rs.                 *)
(*                                                                         *)
(* A commit advances the in-memory state, writes the whole of it to a      *)
(* temporary file and renames that over the latest one.  Either file       *)
(* operation may fail, in which case the caller gets an error and keeps a  *)
(* state that has already advanced; the process may stop between any two   *)
(* of them and be started again, possibly with another period length.      *)
(***************************************************************************)
EXTENDS LayeredState

CONSTANTS NoState,          \* no file at the path
          Torn,             \* a temporary file cut short by a crash or an error
          MaxCrashes        \* bound on the number of crashes

\* The fields of PersistedState, the layers and the root typed as in State.
PersistedState ==
    [snapshot : Store, intermediate : Layer, delta : Layer,
     intermediate_padding : Padding, delta_padding : Padding,
     height : 0..MaxHeight, snapshot_epoch_count : EpochCount,
     last_root : CommitRoot \cup {NoRoot}]

\* load_latest tells a missing file from every state a file may hold.
ASSUME FileAssumption ==
    /\ NoState \notin PersistedState
    /\ NoRoot \notin CommitRoot

VARIABLES
    file,                   \* the PersistedState at the store's path
    tmp,                    \* the file beside it, with extension "tmp"
    pc,                     \* where the manager's commit stands
    acked,                  \* the height and root of the last commit that returned Ok
    crashes

storage == <<file, tmp, pc, acked>>
mvars   == <<vars, storage, crashes>>

\* Mutation: tombstones are not written out.
PersistedLive ==
    [snapshot |-> snapshot, intermediate |-> intermediate,
     delta |-> [r \in RawKey |-> IF delta[r] = Tombstone THEN Absent ELSE delta[r]],
     intermediate_padding |-> intermediate_padding, delta_padding |-> delta_padding,
     height |-> height, snapshot_epoch_count |-> snapshot_epoch_count,
     last_root |-> last_root]

\* The whole state, the caches and the incremental trie apart.
Persisted ==
    [snapshot |-> snapshot, intermediate |-> intermediate, delta |-> delta,
     intermediate_padding |-> intermediate_padding, delta_padding |-> delta_padding,
     height |-> height, snapshot_epoch_count |-> snapshot_epoch_count,
     last_root |-> last_root]

\* Mutation: the intermediate root is taken over from the last commit.
RecoveredRootStale(state) == state.last_root.intermediate_delta_root

\* The intermediate root that from_persisted computes again.
RecoveredRoot(state) == TrieRoot(state.intermediate)

\* from_persisted: the two roots are computed again, the incremental trie is
\* rebuilt from the delta.
FromPersisted(state, epochs) ==
    /\ snapshot'             = state.snapshot
    /\ intermediate'         = state.intermediate
    /\ delta'                = state.delta
    /\ delta_inc'            = state.delta
    /\ snapshot_root'        = TrieRoot(state.snapshot)
    /\ intermediate_root'    = RecoveredRoot(state)
    /\ intermediate_padding' = state.intermediate_padding
    /\ delta_padding'        = state.delta_padding
    /\ height'               = state.height
    /\ last_root'            = state.last_root
    /\ snapshot_epoch_count' = epochs

\* State::new, when load_latest finds no file.
FromNothing(epochs) ==
    /\ snapshot'             = EmptyStore
    /\ intermediate'         = EmptyLayer
    /\ delta'                = EmptyLayer
    /\ delta_inc'            = EmptyLayer
    /\ snapshot_root'        = MERKLE_NULL_NODE
    /\ intermediate_root'    = MERKLE_NULL_NODE
    /\ intermediate_padding' = FromRoots(MERKLE_NULL_NODE, MERKLE_NULL_NODE)
    /\ delta_padding'        = FromRoots(MERKLE_NULL_NODE, MERKLE_NULL_NODE)
    /\ height'               = 0
    /\ last_root'            = NoRoot
    /\ snapshot_epoch_count' = epochs

-----------------------------------------------------------------------------
\* A write through the manager, or through state_mut.
Write == /\ pc = "idle"
         /\ \/ \E k \in Key, v \in Value \cup {Absent} : Set(k, v)
            \/ \E q \in Query : DeletePrefix(q)
         /\ UNCHANGED <<storage, crashes>>

\* StateManager::commit as far as state.commit().
ManagerCommit == /\ pc = "idle"
                 /\ Commit
                 /\ pc' = "writing"
                 /\ UNCHANGED <<file, tmp, acked, crashes>>

\* save_latest: fs::write, then fs::rename.
WriteTmp == /\ pc = "writing"
            /\ tmp' = Persisted
            /\ pc' = "renaming"
            /\ UNCHANGED <<vars, file, acked, crashes>>

Rename == /\ pc = "renaming"
          /\ file' = tmp
          /\ tmp' = NoState
          /\ pc' = "renamed"
          /\ UNCHANGED <<vars, acked, crashes>>

\* Mutation: the caller is answered before the file is in place.
ReturnEarly == /\ pc \in {"renaming", "renamed"}
               /\ acked' = [height |-> height, root |-> last_root]
               /\ pc' = "idle"
               /\ UNCHANGED <<vars, file, tmp, crashes>>

\* commit returns Ok(root).
Return == /\ pc = "renamed"
          /\ acked' = [height |-> height, root |-> last_root]
          /\ pc' = "idle"
          /\ UNCHANGED <<vars, file, tmp, crashes>>

\* Either operation fails: commit returns Err, nothing is rolled back.
SaveFails == /\ pc \in {"writing", "renaming"}
             /\ tmp' = IF pc = "writing" THEN Torn ELSE tmp
             /\ pc' = "idle"
             /\ UNCHANGED <<vars, file, acked, crashes>>

\* The process stops and StateManager::new loads the latest file; the other
\* constructor then overrides the period length.
Restart == /\ crashes < MaxCrashes
           /\ crashes' = crashes + 1
           /\ tmp' = IF pc = "writing" THEN Torn ELSE tmp
           /\ pc' = "idle"
           /\ \E n \in EpochCount :
                 IF file = NoState THEN FromNothing(n)
                 ELSE FromPersisted(file, n)
           /\ UNCHANGED <<file, acked>>

ManagerInit ==
    /\ InitNew
    /\ file = NoState
    /\ tmp = NoState
    /\ pc = "idle"
    /\ acked = [height |-> 0, root |-> NoRoot]
    /\ crashes = 0

ManagerNext ==
    Write \/ ManagerCommit \/ WriteTmp \/ Rename \/ Return \/ SaveFails \/ Restart

ManagerSpec == ManagerInit /\ [][ManagerNext]_mvars
-----------------------------------------------------------------------------
(* Properties *)

\* A saved state describes itself: the root it carries is the root of the
\* layers it carries, read across the rotation when the commit that wrote it
\* ended a period, and its padding follows from its roots.
Coherent(state) ==
    LET rotated   == state.height % state.snapshot_epoch_count = 0
        root      == state.last_root
        published == IF rotated THEN state.intermediate ELSE state.delta
        padding   == IF rotated THEN state.intermediate_padding ELSE state.delta_padding
    IN  /\ root.delta_root = TrieRoot(published)
        /\ root.delta_mpt_key_padding = padding
        /\ ~rotated => /\ root.snapshot_root = TrieRoot(state.snapshot)
                       /\ root.intermediate_delta_root = TrieRoot(state.intermediate)
        /\ state.delta_padding =
              FromRoots(TrieRoot(state.snapshot), TrieRoot(state.intermediate))

\* The file is coherent.  from_persisted computes the roots again, so a file
\* that is not would publish other roots after a restart than the process that
\* wrote it.
FileCoherent == file # NoState => Coherent(file)

\* Whatever fails or crashes later, the file never goes back behind a commit
\* that returned Ok, and holds that very commit until a later one replaces it.
AckedIsDurable ==
    acked.root # NoRoot =>
        /\ file # NoState
        /\ file.height >= acked.height
        /\ file.height = acked.height => file.last_root = acked.root

\* The state a restart would load.
OnDisk == INSTANCE LayeredState WITH
    snapshot <- file.snapshot, intermediate <- file.intermediate,
    delta <- file.delta, delta_inc <- file.delta,
    snapshot_root <- TrieRoot(file.snapshot),
    intermediate_root <- TrieRoot(file.intermediate),
    intermediate_padding <- file.intermediate_padding,
    delta_padding <- file.delta_padding, height <- file.height,
    snapshot_epoch_count <- file.snapshot_epoch_count, last_root <- file.last_root

Durable == INSTANCE DurableKV WITH
    view <- [k \in Key |-> Get(k)],
    base <- [k \in Key |-> GetBelow(k)],
    savedView <- [k \in Key |-> IF file = NoState THEN Absent ELSE OnDisk!Get(k)],
    savedBase <- [k \in Key |-> IF file = NoState THEN Absent ELSE OnDisk!GetBelow(k)],
    Erasures <- {Matching(q) : q \in {x \in WholeQuery : ~CutsAddress(x)}},
    AddressErasures <- {Matching(q) : q \in {x \in Query : CutsAddress(x)}},
    CutErasures <- {Matching(q) : q \in Query \ WholeQuery}

\* The manager implements the durable map: a save stores what readers see, a
\* crash loses exactly what was not saved.
DurableRefinement == Durable!DurableSpec
=============================================================================
