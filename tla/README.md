# A TLA+ development for cfx-minimal-execution

This directory specifies the parts of cfx-minimal-execution that keep state or
move it between threads, files and formats: the layered key-value state of
`minimal-mpt`, the archive format of `cfxpack`, and the extraction tools of
`replay-data-extractor`. TLC checks every module on a small instance; TLAPS
proves nearly all the safety properties of the runs, and the refinements of the
state, for every value of the constants.

Run a check with `tlc -config X.cfg M`, the proofs with `tlapm M.tla`.
`PROJECT.json` names the runs, the source lines of every definition, the
mutants each property catches, the hazards and the theorems. A definition whose
comment begins with "Mutation" is a plausible mistake in the definition that
follows it; no specification uses it.

## The system

| Component | Source (under `src/crates`) | State | Operations |
|---|---|---|---|
| layered state | `minimal-mpt/src/state/` | snapshot, intermediate, delta, their roots and paddings, height, last root | `get`, `set`, `get_all_by_prefix`, `delete_all_by_prefix`, `commit` with rotation, `new`, `from_snapshot` |
| state manager, stores | `state/mod.rs`, `store.rs` | the state, a file, a temporary file | `commit` = state commit + save; load at start |
| key codec, account key caches | `key_codec.rs` | two caches stamped with a padding | canonical key, delta key, both decoders, cached derivation, rotation |
| trie root | `trie.rs` | none | root of a map from scratch |
| incremental trie | `incremental.rs` | entries, cached subtree hashes, dirty keys | `insert`, `remove`, `clear`, `root` |
| snapshot trie, LMDB backend | `snapshot.rs` | a database, a counter, a cache, dirty keys | `apply_updates`, `root`, open with a warm cache |
| packet encoder, decoder | `cfxpack/src/packet`, `decode` | none | `encode_packet`, `decode_packet_ext` |
| integer codecs | `cfxpack/src/codec.rs` | none | LEB128, ZigZag, Qc8, Qc5e |
| verifier, replay check | `verify.rs`, `validate.rs` | none | count records and items, check a packet |
| container reader | `cfxpack/src/container.rs` | a directory of files | list, check contiguity, parse |
| reward injection | `bin/patch_pos_reward.rs` | one container | decode, add a reward, encode |
| extraction | `extract/mod.rs`, `extract/db.rs` | read-only node databases | collect a group of epochs into a packet |
| packing pipeline | `extract/pack.rs` | task queue, channel, reorder buffer, files | workers, one writer, join |
| shard pipeline | `extract/shards.rs` | task queue, files, progress events | workers, a logger, join |
| flag patch | `extract/flagpatch.rs` | a container in memory, shared cursor, files | lookup threads, monitor, rewrite |
| tables, command line, benchmarks, demo | `tables.rs`, `cli/`, `bench.rs`, `bin/` | none | pure or printing |

How they interact. The extractor reads the node's databases, makes packets of
groups of epochs and hands them, through a channel, to the writer, which puts
them in containers. Patch tools rewrite containers afterwards. A replay lists
the containers, reads the packets, executes them (the executor is not in this
repository) and writes into the layered state, whose commit publishes a root
for each epoch; the state manager makes the commits durable. The layered state
keeps its delta a second time inside an incremental trie, and its snapshot in
one or in LMDB.

What is hard about it:

* Concurrency: workers and a writer that may each fail (`pack.rs`), workers and
  a logger (`shards.rs`), lookup threads with a shared cursor, an error slot
  and a monitor (`flagpatch.rs`).
* Crashes and failing calls: the save of a commit (`store.rs`), containers that
  are written in place, the rewrite of containers file by file, a replay that
  stops and resumes over an archive that has changed.
* Keys that change: writes are filed under a padding that is derived from roots
  and moves when a period ends. Three layers have two encodings between them.
* Caches: the hash of a subtree must go when anything under it changes, a
  derived key when its padding does; LMDB keeps a counter beside the data.
* Things the wire does not carry: the epoch of a block, whether a record ends
  in a PoS view, where a transaction was seen before, what its epoch height is
  relative to.

What makes each part correct: the layered state is a map (with two documented
peculiarities of prefixes), whatever the rotation does; its roots are those of its
contents and form a chain; the incremental root is the root from scratch; both
snapshot backends publish one root; a saved commit survives; the archive gives
back what the databases held, however it was cut into groups; a replay executes
consecutive epochs; pipelines end, put things in order and never report a
failure as success.

## Modules

| Module | Models | Notes |
|---|---|---|
| `KeyCodec` | `key_codec.rs`, encodings | a key is a sequence of cells: an address byte, a marker, a digest |
| `AccountKeyCache` | `key_codec.rs`, caches | filled and rotated as `state/` does, and by `put_intermediate_raw` |
| `LayeredState` | `state/{mod,prefix,rotation}.rs` | codec and hash are constants with assumptions, so that it can be proved about |
| `CheckpointedKV` | abstract: a map `view` and the map `base` below the delta | what the layered state promises |
| `LayeredOracle` | the `Model` of the fuzz target `layered_state_ops.rs` | a second, independent specification: the state refines it step by step |
| `StateManager` | the manager and `FileStore`, extends `LayeredState` | adds file, temporary file, the step the commit stands at, crashes |
| `DurableKV` | abstract: `CheckpointedKV` with `Save` and `Crash` | what the manager promises |
| `MptTrie` | `trie.rs` | a hash is the record of what was hashed |
| `MemoWalk` | `memo_node`, `memo_node_rebuild` of `incremental.rs` | a walk returns a hash and the entries it leaves in the cache |
| `IncrementalTrie` | `incremental.rs` | entries, cache, dirty set, both policies; extends `MemoWalk` |
| `SubtreeCache` | abstract: the caching rule, for any prefixes and hash | implemented by `IncrementalTrie`, proved sound |
| `SnapshotTrie` | `snapshot.rs` | the two backends in lockstep; the database has a cache of its own |
| `ByteCodec` | `cfxpack/src/codec.rs` | widths are parameters |
| `EpochGroups` | `build_tasks` and the task queue both pipelines share | |
| `PackPipeline` | `extract/pack.rs` | worker threads, channel, writer |
| `Shards` | `extract/shards.rs` | worker threads, files, logger |
| `FlagPatch` | `extract/flagpatch.rs` | lookup threads, main thread, monitor, rerun |
| `Ascending` | the order of a sorted table | used by `Container` and `EpochPacket` |
| `Container` | `cfxpack/src/container.rs` | pure: listing, parsing, contiguity |
| `Archive` | a directory with its writers and a replay; composes `Container` with `flush_container` | the executor is external |
| `EpochPacket` | `extract/{mod,db}.rs`, `cfxpack` encoder and decoder, injection, replay check | composes extraction, format and patch tool |
| `*Proofs`, `AscendingLemmas` | theorems | |
| `MC*` | instances for TLC | |

How state and actions correspond to the code:

* `LayeredState`. `snapshot`, `intermediate`, `delta`, the two roots and the
  two paddings are the fields of `State`; `delta_inc` is the entry map of the
  incremental trie. An absent key holds `Absent`. `Set`, `DeletePrefix` and
  `Commit` are the three methods that write; `Commit` includes
  `advance_after_commit`, its merge, the new roots and the new paddings. `Get`
  and `ReadPrefix` are the two reading methods. `Visible` is `visible_value`.
* `StateManager` adds one action per step of `commit` that another event can
  come between: the write of the temporary file, the rename, the return, the
  failure of either, and `Restart` (with `from_persisted`, which computes the
  roots again from the layers it loads). `Persisted` is `persisted()`.
* `AccountKeyCache`. `ReadDelta`, `ReadBelow`, `RotateCaches` and the
  replacement of a padding are what the methods of `State` do to the caches.
* `IncrementalTrie`. `Insert`, `RemoveKey`, `Clear` and `Root` are the four
  methods. `MemoNode` and `MemoNodeRebuild` are one call of the function they
  are named like, given what its calls for the children return; `MemoAt` and
  `RebuiltAt` tie the calls together in a function over the paths of the trie
  (`MerkleForNode` and `MerkleAt` do so for `trie.rs`). `Walk` chooses between
  the two as the code does. The number of keys at which the rebuild is chosen
  is a constant.
* `SnapshotTrie`. `db`, `db_cache`, `db_dirty` and `db_len` are the fields of
  the LMDB `SnapshotTrie`; every action applies one operation to both backends.
  The code calls `apply_updates` alone (`rotation.rs:43`), so `insert` with a
  tombstone, which the backends treat differently, never happens. LMDB refuses
  empty keys, so `Key` holds none; only an account of an empty address has one.
* `PackPipeline`. One action for each step of a worker (claim, deliver, fail,
  find the queue empty), of the writer (receive, add a group to the
  container, close down) and `Join`. Channels are sequences. `flush_container`
  may fail in every call, before or after it has created the file.
* `Shards`. One action for each step of a worker that another thread can
  see (claim, open the file, finish it, fail), of the logger, and the join. The
  directory may hold files of earlier runs.
* `FlagPatch`. `ClaimBlock` is `cursor.fetch_add` with the loop condition,
  `Lookup` and `LookupFails` the two results of `read_reward`; the main thread
  walks through `pc`. `Rerun` kills the process and runs the command again. It
  lists `.cfxpack` files only; a compressed one is decompressed, patched and
  compressed again by hand.
* `Archive`. `CreateContainer` and `FinishContainer` are the two ends of
  `flush_container`: between them the file stands under its final name with
  any number of its bytes. `StartReplay` calls `CollectFiles` on some order of
  the directory, `OpenFile` calls `Parses`, `ReadGroup` calls `Contiguous`. What
  the executor does between these calls is external; it is what the functions
  and `src/README.md:64-90` (checkpoints between groups) are written for.
  `validate_contiguity` does not advance `next_expected`; its caller does.
* `EpochPacket`. `Raw` is `extract_raw`, `Encode` is `encode_packet`, `Decode`
  is `decode_packet_ext`; each is a definition by the same steps as the code's.
  `ReadPosRewards` is the map `read_pos_rewards` fills, where the last PoS epoch
  of a hash replaces the others. `Extract(count)` makes a packet of the next
  `count` epochs, `Inject(e, k)` is the patch tool on the packets there are: it
  adds the reward to the pivot of `e` whatever rewards it has, and writes every
  packet again.
* `LayeredOracle` starts, as the harness does, from any snapshot and any
  intermediate layer. The harness's `PersistRoundtrip` is a commit for the
  oracle; that a state read back from its file holds the map that was saved is
  `DurableRefinement`.

## Runs

| Run | Instance | Asks |
|---|---|---|
| `Codecs` | addresses of 2 cells over 2 bytes, 2 spaces, all kinds of key, 3 paddings; every number of an instance with 4-bit bytes; caches of 4 addresses | the laws of the codecs, and of the caches |
| `LayeredState` | 3 keys (two storage keys, one a prefix of the other, and an account of the other space), 4 prefixes, 1 value, up to 3 commits, periods of 1 and 2 | the map refinement, the fuzz model, and the invariants below them |
| `ShortAddress` | accounts with short addresses | a violation, see below |
| `StateManager` | 2 keys, up to 3 commits, 1 crash, saves that fail | durability |
| `SnapshotTrie` | 4 keys of 2 and 4 nibbles, one of them a prefix of the others; batches of 2; both policies | every order of operations, no depth bound |
| `Extractor` | packing and shards: 3 workers, 5 epochs in 3 groups the last of them short, 2 packet lengths; flags: 2 threads, 2 files of 2 blocks, 1 crash | order, verdict, completeness, atomicity, termination |
| `FlagPatchError` | 1 file | a violation, see below |
| `Archive` | 4 epochs in groups of 2, 2 packing runs, 3 files, 2 replays | what a replay executes |
| `EpochPacket` | 4 epochs with a side and a skipped block, groups of 1 to 3 epochs, PoS from height 2 | what comes back out of the archive |
| `RoundtripStable` | the same chains, records that fit the smallest prefix | a violation, see below |
| `ReplayAccepts`, `EveryReward` | the same chains | violations, see below |

`Extractor` puts the three commands that run threads in one run; a behaviour
is a run of one of them.

The properties, and what each would catch:

* `RoundTrips`, `NoCollisions`, `PrefixesAlign` (key codec): a key decoded
  wrongly, two entries in one place, a prefix that selects other keys in the two
  encodings. An account whose address is shorter than 20 bytes is encoded as
  the address alone (`key_codec.rs:83-90`, `126`), so it is one entry for both
  spaces and under every padding. `NoCollisions` says exactly that: two data
  keys have equal bytes if and only if they are equal or are such an account in
  two spaces, and a delta key is the same under two paddings if and only if it
  is such an account. `NumbersRoundTrip`: a number that loses a bit at the border of two
  forms or past the widest. `CachedKeysExact`: a derived key served for another
  padding.
* `LayersKeyed`: an entry filed under a padding it is not looked up with.
  `RootsCurrent`: a root, a padding or the copy of the delta left behind by an
  operation. `PrefixReadsAgree`: the prefix read and the single read disagree
  on layers or tombstones. `DeleteHides`: something readable after a delete.
  `CommitKeepsView`: a rotation that loses or revives a value. `RootsChain`:
  published roots a follower cannot connect. `Refinement`: any of it, as seen
  by a user of the map. `OracleRefinement`, `OracleAnswers`: any difference
  from the model the fuzz target compares the state with, deletes by a storage
  key cut short (`minimal-mpt/docs/DEV_DOC.md` section 5) included.
* `FileCoherent`: a saved state whose roots cannot be computed again from its
  layers. `AckedIsDurable`: a commit that returned Ok and is gone after a crash.
  `DurableRefinement`: a crash that loses anything but the unsaved writes.
* `RootExact`: a stale hash in a root. `WalkKeepsToFrontier`: a commit that
  hashes subtrees nobody touched. `BackendsAgree`: the two builds publish
  different roots. `CacheRules`: both caches implement the abstract rule.
* `FilesJoin`, `OkMeansComplete`, `PrefixSalvaged`: groups out of order or
  missing, an error that vanishes, work thrown away. `ShardsComplete`,
  `ShardsSalvaged`, `ProgressAccounts`: the same of the shards, and a progress
  line that does not add up. `CommandsReturn`: a thread that waits for ever.
* `AllOrNothing`, `AscendingOrder`, `OkMeansPatched`: a container with part of
  its flags, files patched out of order, Ok with a block left out or counted
  twice.
* `ExecutesConsecutively`, `OpensWholeFilesOnly`, `CleanArchiveReplays`: an
  epoch executed twice or left out across files and restarts, a file cut short
  that is taken for whole, an archive without a fault that is refused.
* `EpochsRecovered`, `TransactionsRecovered`, `ViewsRecovered`, `UnlocksOnce`,
  `RewardsRecovered`: any difference between what the extractor reads from the
  databases and what a replayer is given, over every way to cut the epochs into
  groups and after containers have been patched, once or repeatedly. Of the
  rewards it says which entries a pivot has, in which order and how often: the
  one `read_pos_rewards` returned, then one for each injection. It does not say
  that this is what the chain distributed. It is not when two PoS epochs share
  a hash (`EveryReward`), when the node recorded the hash of a fork, as
  `docs/cfxpack_patch_changelog.md:5-7` tells of 115 PoS epochs whose rewards
  the extractor skipped and the tool had to add, or when the tool is run twice
  for one reward, which then is there twice: it does not look.

`CHECK_DEADLOCK FALSE` is said where the system stops: the tools return, the
height, the crashes, the runs and the files are bounded, all epochs are extracted. The runs of
`Codecs` and `SnapshotTrie` never stop.

### Bounds, and why they are enough

* `MaxHeight = 3`, periods of 1 and 2 commits: with period 1 three rotations
  happen, so a value is written in one period, becomes intermediate in the
  second and is merged in the third, and all three layers hold something at
  once; with period 2 there are commits that do not rotate.
* Keys: one per way two keys can relate to a prefix (inside it, cut by it,
  outside it, in the other space). `MCDigest`
  and `MCPadding` have three members, so digests collide: the properties
  checked on them must not depend on distinct digests, and every one that
  compares roots compares them with the root operator itself.
* `MaxCrashes = 1`: recovery keeps nothing but the file, so a second crash
  starts from a state the first one can start from.
* Codecs: a byte of 4 bits and a word of 7 reach every form of every codec and
  the first number past the last; the arithmetic has the same shape at 8 and 64.
* Trie keys: a key inside the path of others, a branch with two leaves under
  it and a leaf that diverges earlier make nodes split, dissolve and come back.
  `RebuildThreshold` is 3 instead of 4096. `MaxBatch = 2` lets a batch touch
  one key twice.
* Pipelines: three workers and three groups let a group be overtaken by all later ones.
* Archive: `MaxFiles = 3` is a second packing run beside a first one with
  another cut, with a compressed twin; `MaxReplays = 2` is one resume, which
  keeps nothing but the checkpoint. The header, a directory entry and a payload
  count one byte each, so a file may end inside any of them or between.
* Packet: PoS starts at the second epoch, the side block lies below or above
  that height in different chains, a transaction repeats within a packet and
  across packets, and PoS references that stand still, move on and skip.
  `PrefixSizes` are the five sizes of `choose_prefix_size`, in cells, with its
  thresholds of nine and seven records in ten; the fields that pass through
  take few cells or many (`MCWidth`), so that all records fit the smallest
  prefix or some overflow the largest. Five PoS epochs have a reward: one at a
  pivot, two at another, one at a fork and one at a block that is no pivot.
  `MaxInjections = 2` allows two epochs, or one epoch twice; the reward is the
  same, which is the case in which a doubled entry could be taken for one.
* `ToolPosEnable` is the height `patch_pos_reward.rs:75` has built in, 37400000.
  It is the mainnet's, and `ToolAssumption` says that it is the configured one:
  on a network with another height the tool would read the records wrongly.
* What the runs take for granted of `flagpatch.rs`: `collect_sorted_pack_files`
  returns the files in range, ascending. `CommandsReturn` asks of the flag patch
  only that it returns if nothing fails; the failing case is the violation
  `FlagPatchError`.

### Fairness

Weak fairness of every thread of a command (`Fairness` in `MCExtractor`,
`FlagFairness`): threads are scheduled by the operating system, no thread of
the three tools waits for another except through a join or a channel whose
senders all end, and a database read, an extraction or a file operation
returns, with or without an error. No fairness is put on the operator (no rerun
is promised) and none on failures: a step that may fail is one action or two
that are alternatives of one fair disjunction, so that fairness never forces
success. The other specifications state no liveness property and have no
fairness.

### Disagreements between code and documentation

* `ShortAddress`: the development document says that prefixes that are
  short addresses can be deleted normally. An account with a short address
  that has reached the snapshot decodes to an address prefix there, the
  tombstone lands on the empty delta key, and the account stays readable.
* `FlagPatchError`: after an error inside the file loop `add_total_reward_flag`
  never returns, since the flag the monitor thread waits for is only set at
  the end of the loop.
* `RoundtripStable`: the `roundtrip` command decodes without the height PoS
  starts from, so the views are gone from the records it encodes. A view equal to
  `min_pos_height` is written as a zero, and the prefix of a record is padded
  with zeros, so a packet whose views are all equal and whose records fit comes
  back the same; one with views above the least does not. The run has only records
  that fit the smallest prefix without the view and with it, so that its trace
  shows a view that is lost and not a prefix that changed.
* `ReplayAccepts`: the replay check refuses flag bit 6, which extraction sets for
  a block whose total reward is zero.
* `EveryReward`: `read_pos_rewards` is documented to return every distribution
  whose hash is a pivot's. It returns a map with one entry for each hash, so of two
  PoS epochs distributed in one PoW epoch the first is dropped.

Two more are plain to see in the code and have no run:

* The order of an epoch's blocks. `cfxpack/DESIGN.md:327` puts the skipped blocks
  behind the executed ones; `collect_blocks` (`extract/mod.rs:414-417`) puts them
  behind the other executed ones but in front of the pivot, as `Ordered` does. The
  code is right and the document should follow: the wire has no epochs, the
  decoder ends one at its pivot, and blocks behind it would be given to the next
  epoch or, at the end of a group, refused. `EpochsRecovered` asks for the order
  of the executed blocks and of the skipped ones and for the pivot to be last;
  it does not hold of the documented order.
* `collect_files` is documented (`container.rs:16-18`) to return all files of the
  directory, with a compressed one in place of its plain twin. It tells files
  apart by their start epoch alone, so of `epochs_1_1` and `epochs_1_2`, as two
  packing runs leave them, one is not returned. `Archive` has such directories,
  and `ExecutesConsecutively` covers what a replay makes of them.

## Proofs

Every proof of a safety property has the same shape: an inductive invariant, a
lemma for the initial states, one lemma for each action or group of actions
that disturbs it, and a last temporal step. TLC evaluates every assumption the
proofs rest on in the runs of the module that states it.

`LayeredStateProofs` proves of `Spec`, for any sets of keys, values and
queries, any hash, any periods and heights:

* `TypeCorrect`, by itself inductive;
* `LayersKeyedAlways` and `RootsCurrentAlways`, from the inductive invariant
  `IInv == TypeOK /\ LayersKeyed /\ RootsCurrent`. The two need each other's
  company: the padding an entry is filed under is the one derived from the
  roots in force, and the rotation sets the intermediate's root to the root of
  the incremental copy, which is right because the copy equals the delta;
* `RootsChainAlways`, from `LastRootInForce`, which says how the last published
  root relates to the roots in force now, in both halves of a period's end;
* `CommitKeepsViewAlways`, an action property: in a step that rotates, a key is
  found in the new intermediate if it was in the delta, in the merged snapshot
  otherwise;
* `PrefixReadsAgreeAlways`. `DeltaTaken`, `IntermediateTaken` and
  `SnapshotTaken` turn what each layer contributes into sets of keys; each key
  is then taken from the topmost layer that has it, as `get` does.

Two more hold when `RekeyExact` does, that is, when a canonical key decodes to
the key it encodes:

* `DeleteHidesAlways`. `BuriedExactly` says which entries of the delta become
  tombstones, and `DeleteReads` what each key then reads as: nothing under the
  prefix, and elsewhere what it read before. A prefix that cuts an address is
  the exception the code makes: its scan of the delta drops the updates of
  every key outside it, and what lies below the delta shows again.
* `RefinementHolds`, the implementation of `CheckpointedKV`: a lemma for each
  operation (`SetRefines`, `DeleteRefines`, `CommitRefines`). A delete by a
  prefix that cuts a hashed field erases some of the keys it names.

The condition is what the code's callers should respect and not what its
types enforce: `ShortAddress` shows what happens without it.
`InstanceAssumption` in `MCLayeredState` has TLC evaluate which instances meet
it. They rest on `ValueAssumption`, `BoundAssumption`, `HashAssumption` (roots
are digests, two roots give a padding, the two kinds of empty map have one
root), `CodecAssumption`, `RekeyAssumption` and `PrefixAssumption` (what the
codec does), which `Codecs` checks of `KeyCodec` over all its small keys.

The second specification of the state, the model of the fuzz target, has two:

* `OracleAnswersAlways`: for every query, one that cuts a field included, both
  read paths answer as the model does. This one needs no `RekeyExact`.
* `OracleRefinementHolds`: the three maps of the model, whose keys are canonical
  bytes, follow the three layers through every operation. Besides the
  assumptions above it uses `ModelledAssumption`: which prefixes the model
  treats as cut is what the codec makes of them.

The module goes on with the manager over a file, from `IInv`, with
`MInv == IInv /\ FilesOK /\ SaveInv /\ AckedIsDurable`. `SaveInv` says what is
in memory, in the temporary file and in the file at each step of a commit: what
is about to be written describes itself (`Coherent`), which `RootsCurrent`
gives right after a commit and writes would break, and is later than the file.
A restart then starts from a `Sound` file, and `RecoveredRoot` computes the
root the stopped process had. `FileCoherentAlways`, `AckedIsDurableAlways` and
`LayersSurviveRestarts` follow; `DurableRefinementHolds` (under `RekeyExact`)
maps the saved map to the file's layers.

`CodecProofs`, for addresses and suffixes of any length over any bytes
(`SuffixBytes` bounds them, and is any number), short addresses included:

* `RoundTripsAlways`, `NoCollisionsAlways`, `PrefixesAlignAlways`, from
  `KeysDrawn`, which only says which keys and paddings are compared; the rest
  is about sequences. `Encodings` gives the cells of every kind of key in both
  encodings: digests or address, space, marker, suffix. Two kinds differ in a
  marker, at a place both have, and of two sequences that begin with the same
  cells one is a prefix of the other exactly if their rests are
  (`PrefixBehind`), so a prefix selects the same keys in both (`KindsAlign`). A
  short account is told from all other keys by its length, and is the only key
  that no padding moves.
* `CachedKeysExactAlways`, from `CachesExact`: a cache holds derivations under
  the padding it is stamped with and no others.
* `NumbersRoundTripAlways`, for any widths (`WidthAssumption`) and any number.
  `DividedOnce` and `DividedTwice` say of division what the digits need, for
  divisors that are powers (`TwoSum`, `TwoGrows`). What a reader has after `i`
  bytes is a quotient of the number (`BigEndianRead`) or a remainder
  (`Uleb128RoundTrip`), and a number that fits a mode leaves the two bits of the
  mode free (`TopByte`). `NamedAssumption`: a gas limit or price with a name
  could be written as a number. A byte has at least four bits, so that the
  names 0 to 2 are told from a mode.

`ExtractorProofs`, for any ranges, group sizes, workers, packet lengths and
target size:

* `FilesJoinAlways`, `PrefixSalvagedAlways`, `OkMeansCompleteAlways`, from
  `PackInv == PackTypeOK /\ QueueInv /\ WriterInv /\ EndInv`. `QueueInv` says
  where each claimed group is: written, gathered, waiting, sent, in the hands
  of a worker, or what a worker failed on. `WriterInv` says that the files, the
  torn one and the builder are one run of groups. That the groups cover the
  range exactly (`GroupCountBounds` and the lemmas behind it) is arithmetic of
  the rounded-up division.
* `ShardsSalvagedAlways`, `ShardsCompleteAlways`, from `ShardsInv`: no two
  workers hold one group, none holds a reported one, and a reported one has a
  whole file. That an epoch lies in exactly one group turns into a cardinality.
* `ProgressAccountsAlways`, from `ProgressInv`: a claimed task is counted,
  reported in an event on its way, or in the hands of a worker
  (`ProgressCounts`), and the last event of a worker says whether it is busy
  (`EventsTell`). It rests on `ThreadsAssumption`, a finite set of workers.
* `AllOrNothingAlways`, `AscendingOrderAlways` and `OkMeansPatchedAlways` of the
  flag patch, from `FlagInv`. While the threads run, every block that was
  claimed and has a zero reward is handed in, in the hands of a thread, or being
  read, unless a lookup failed (`LookupInv`); so a join without an error has
  them all, and what is about to be written is the complete patch. `OnceInv`
  adds that no block is in two of these places, and `CountInv` that the summary
  counts the blocks of the files done so far, each once (`CountedInv` is all of it).

`ArchiveProofs`, for any number of epochs, group size, packing runs, files and
replays:

* `ExecutesConsecutivelyAlways`, `OpensWholeFilesOnlyAlways`, from `ArchiveInv`:
  no file is longer than its container, and the group expected next, or the
  resume height before the first group, is the one right behind what was
  executed. Nothing is assumed of the files that lie in the directory.
* `CleanArchiveReplaysAlways`, from `NamedOK` and `TrackOK` beside it. `NamedOK`
  says that the groups of a file follow from its name (`Cut`), so that two files
  of the same epochs, as a plain and a compressed one, have the same groups
  (`Twins`). `ListingIs` says what `collect_files` returns: files of the
  directory, one for each start there is, ascending. Those of a clean archive
  then leave no epoch out (`QueueInLine`), and `InLine` carries that through the
  replay: what is still to be read is in line, and what is expected is its
  first, or the first past the checkpoint. TLC checks `NamedOK` and `TrackOK`
  on the instance of the run as well.

`EpochPacketProofs`, for any chains, blocks and transactions, any way to cut
epochs into groups and any sequence of injections, of any rewards into any
epochs, the same ones again included (`MaxInjections` ends the runs and is any
number in the proofs): `EpochsRecoveredAlways`,
`ViewsRecoveredAlways`, `TransactionsRecoveredAlways`, `RewardsRecoveredAlways` and
`UnlocksOnceAlways`, from the invariant `ArchiveInv` of that module. A `Sound`
packet, whose views, epochs and references are as the format needs them,
decodes to what was encoded (`PacketBack`), and what extraction makes of the
databases is sound (`RawSound`). `ArchiveInv` says that the archive holds
encodings of sound packets, that what they decode to is `TrueBlocks`, the
blocks of the databases with the rewards injected so far, and that block
number `i` of all that is replayed is block number `i` of the databases, with
the unlock events that are due there. That number is why the groups do not
matter: `End` counts the blocks up to an epoch, `Placed` says which block
has a number. The scan of a group starts at the version the pivot before the
group refers to, so that no event is given twice or lost across a
border of groups. `ConfigAssumption` is about the numbers a run is given,
`SchemaAssumption` about what the databases hold: each epoch has a block, each block a
height, a PoS reference that is there, transactions and a width for the fields
that pass through; the events and the PoS epochs with a reward are finitely
many, and the hash of a reward may be anything. `DatabaseAssumption` is
what the node keeps to: the pivot of an epoch has its height and is in no other
epoch, PoS references and versions do not go back from pivot to pivot, a block is
executed once or skipped and names a transaction once. `ToolAssumption`: the
height built into the tool is the configured one.

`SubtreeCacheProofs` proves `CacheSoundAlways` for any set of keys and
prefixes and any hash of the entries under a prefix: a cached value is
right unless a key under its prefix was touched since.

`TrieProofs`, for any finite set of keys over any nibbles, any values, rebuild
threshold and size of a batch, states every property of the run `SnapshotTrie`:

* The order of the entries is total (`BeforeTotal`) and a block is an interval
  of it, so the first and the last key of a block share what all of it shares
  (`EndsOfBlock`, what the comment at `incremental.rs:516` says), and
  `memo_node`, which looks at two keys, finds the node that `trie.rs`, which
  looks at all, finds. `MerkleAtIs`, `MemoAtIs` and `RebuiltAtIs` say that the
  three recursions have a value at every path, by induction from the longest
  paths up (`FromBelow`); the same induction gives that a walk below right hashes
  returns the right hash and leaves right hashes behind (`WalkIsExact`), and
  that a hash only depends on what is below its path (`HashIsLocal`).
* `RootExactAlways` and `BackendsAgreeAlways`, from `SnapInv`: in both caches
  every hash is right or has a dirty key under it (`Settled`), a batch changes
  no key but those it names (`CountedAllIs`), and the counter of the database is
  the number of its keys. Root and writes alone do not give it: that a hash
  with no changed key under it stays right while the trie around it splits and
  merges is `ChangeSettled`.
* `CacheRulesHold`: both caches implement `SubtreeCache`, step by step
  (`MemoryChange`, `MemorySettle`, `LmdbChange`, `LmdbSettle`, `MemoryReset`).
* `WalkKeepsToFrontierAlways`, from `FrontierInv`, which adds `Complete`: a cache
  that is not empty has every hash the policy keeps, but for the children of
  nodes with a dirty key under them. What a walk reaches without meeting a
  cached hash it caches (`FreshReaches`), so a root restores `Complete`.

They rest on `NibbleAssumption`, `TrieAssumption` (keys are finitely many
sequences of nibbles) and `SnapshotAssumption`.

`AscendingLemmas` holds what several proofs need of numbers: least elements,
induction along a set, the rank of a number in a finite set and the number of a
rank, and `RecursionExists`, that a function defined by recursion over 0..n
exists. The theorems of the library that take an operator as a parameter cannot
be used with the installed provers; an induction here is along the set of numbers for which a
claim holds.

Only model-checked: liveness (`CommandsReturn`). The counterexample runs are
about single behaviours and have nothing to prove.

## Not modelled

* `put_intermediate_raw` in `LayeredState`: it replaces the delta padding
  without moving the keys filed under the old one, so it only fits a state that
  is being set up, and nothing in the repository calls it. `AccountKeyCache` has what it does to a warm cache.
* Power loss: `FileStore` does not sync, and what a file system then keeps is
  outside the code.
* The limit LMDB puts on the length of keys (511 bytes), and its transactions: every error is a panic.
* Interned tables, snappy, RLP, prices, nonces, and the fields a packet passes
  through unread; the offset arithmetic of `verify_packet`; `align_to` and the
  fixed-width integers.
* RocksDB, the finalized epoch offset, the block number, the settled rewards.
* The executor that replays the packets, which is not in the repository.
* Command line, logging, `bench.rs`, `dump_pos_reward`, `trace_standalone`,
  which drive the rest or print.

## Plan

All modules of the plan exist. What could follow, in this order:

1. An abstract log of epochs that extraction, packing, archive and replay
   implement together; today `EpochPacket` covers the contents and `Archive`
   the order.
2. The tables a packet interns and the offsets `verify_packet` walks.
