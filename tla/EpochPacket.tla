----------------------------- MODULE EpochPacket -----------------------------
(***************************************************************************)
(* What an archive holds of the chain: the extraction of a group of epochs *)
(* from the node's databases (crates/replay-data-extractor/src/extract),   *)
(* the packet it is encoded to and decoded from (crates/cfxpack/src) and   *)
(* the tool that decodes a packet, adds a PoS reward and encodes it again  *)
(* (cfxpack/src/bin/patch_pos_reward.rs).                                  *)
(*                                                                         *)
(* The operator cuts the epochs into groups as he likes.  Fields that pass *)
(* through unread (roots, timestamps, prices, the interned tables) are     *)
(* left out but for the room they take in a record; any other field is one *)
(* cell of it.                                                             *)
(***************************************************************************)
EXTENDS Integers, SequencesExt, FiniteSetsExt, Ascending

CONSTANTS Databases,        \* contents of the node's databases
          FirstEpoch, LastEpoch,
          GroupEpochs,      \* the numbers of epochs a group may have
          PosEnable,        \* pos_reference_enable_height
          ToolPosEnable,    \* the height patch_pos_reward has built in
          EspaceRatio,      \* evm_transaction_block_ratio
          PrefixSizes,      \* the five prefix sizes, in cells
          JsonRewards,      \* PoS epochs whose rewards the operator has as JSON
          MaxInjections,    \* bound on the injections
          None

Epoch == FirstEpoch..LastEpoch

ASSUME ConfigAssumption ==
    /\ FirstEpoch \in Nat \ {0} /\ LastEpoch \in Nat /\ FirstEpoch <= LastEpoch + 1
    /\ GroupEpochs \subseteq Nat \ {0}
    /\ PosEnable \in Nat /\ EspaceRatio \in Nat \ {0}
    /\ PrefixSizes \in [1..5 -> Nat]
    /\ JsonRewards \subseteq Nat /\ MaxInjections \in Nat
    /\ None \notin Nat /\ None \notin Nat \X Nat

\* The tool is for the mainnet: its height is that of the network's configuration.
ASSUME ToolAssumption == ToolPosEnable = PosEnable

\* The databases by block, epoch, transaction, PoS reference and PoS epoch.  A
\* PoS epoch's reward is recorded with the hash of the epoch it was distributed
\* in as the node last executed it, which need not be on the main chain.
ASSUME SchemaAssumption ==
    \A d \in Databases :
        LET Block == DOMAIN d.body
        IN  /\ d.executed \in [(FirstEpoch - 1)..LastEpoch -> Seq(Block) \ {<<>>}]
            /\ d.skipped \in [(FirstEpoch - 1)..LastEpoch -> Seq(Block)]
            /\ d.height \in [Block -> Nat]
            /\ d.width \in [Block -> Nat]
            /\ d.pos \in [Block -> DOMAIN d.version]
            /\ d.version \in [DOMAIN d.version -> Nat]
            /\ d.body \in [Block -> Seq(DOMAIN d.target)]
            /\ d.target \in [DOMAIN d.target -> Nat]
            /\ DOMAIN d.version \subseteq Nat
            /\ d.events \subseteq Nat /\ IsFiniteSet(d.events)
            /\ DOMAIN d.rewards \subseteq Nat /\ IsFiniteSet(DOMAIN d.rewards)

\* They are the node's own: a pivot's height is its epoch's number, its PoS
\* reference never goes back nor do the versions of later references, a block
\* is either executed, once, or skipped, a pivot is in no other epoch, and a
\* block carries a transaction once.
ASSUME DatabaseAssumption ==
    \A d \in Databases :
        /\ \A e \in (FirstEpoch - 1)..LastEpoch :
              /\ d.height[Last(d.executed[e])] = e
              /\ e >= FirstEpoch => d.pos[Last(d.executed[e - 1])] <= d.pos[Last(d.executed[e])]
              /\ IsInjective(d.executed[e])
              /\ \A i \in DOMAIN d.executed[e] : ~Contains(d.skipped[e], d.executed[e][i])
              /\ \A f \in ((FirstEpoch - 1)..LastEpoch) \ {e} :
                    ~Contains(d.executed[f] \o d.skipped[f], Last(d.executed[e]))
        /\ \A v, w \in DOMAIN d.version : v <= w => d.version[v] <= d.version[w]
        /\ \A h \in DOMAIN d.body : IsInjective(d.body[h])

VARIABLES db,               \* the PoW and PoS databases
          next,             \* first epoch not yet extracted
          archive,          \* packets, in epoch order
          injected,         \* rewards injected into each epoch, in order
          failed            \* a group was refused

evars == <<db, next, archive, injected, failed>>

-----------------------------------------------------------------------------
\* What a sequence has at some of its positions.
Picked(seq, S) == [k \in 1..Cardinality(S) |-> seq[Nth(S, k)]]

-----------------------------------------------------------------------------
(* Reading the databases *)

Pivot(e) == Last(db.executed[e])

EffectivePos(h) == IF db.height[h] < PosEnable THEN None ELSE db.pos[h]

\* Mutation: the pivot is not popped before it is pushed last.
OrderedUnpopped(e) == db.executed[e] \o db.skipped[e] \o <<Pivot(e)>>

\* Blocks of an epoch in packet order.
Ordered(e) == Front(db.executed[e]) \o db.skipped[e] \o <<Pivot(e)>>

Flags(e, h) ==
    {f \in {"pivot", "espace", "skipped", "zero"} :
        \/ f = "pivot"   /\ h = Pivot(e)
        \/ f = "espace"  /\ h = Pivot(e) /\ db.height[h] % EspaceRatio = 0
        \/ f = "skipped" /\ Contains(db.skipped[e], h)
        \/ f = "zero"    /\ h \in db.zero}

\* read_unlock_events: versions from start on, end excluded.
UnlockEvents(start, end) == InOrder({v \in db.events : start <= v /\ v < end})

\* Mutation: only the references of the group itself are looked at.
StartVersionLocal(ref) == None

\* The version the scan of a group starts from.
StartVersion(ref) == IF ref = None THEN None ELSE db.version[ref]

\* collect_unlock_events: the last PoS reference and version seen, and the
\* events of every epoch, after i epochs of the group.
UnlockScan(first, count) ==
    LET before == EffectivePos(Pivot(first - 1))
        scan[i \in 0..count] ==
          IF i = 0 THEN [ref |-> before, version |-> StartVersion(before), found |-> <<>>]
          ELSE LET last == scan[i - 1]
                   curr == EffectivePos(Pivot(first + i - 1))
                   moved == last.version # None /\ curr # None /\ last.ref # curr
               IN  [ref     |-> curr,
                    version |-> IF curr = None THEN last.version ELSE db.version[curr],
                    found   |-> Append(last.found,
                                  IF moved THEN UnlockEvents(last.version, db.version[curr])
                                           ELSE <<>>)]
    IN  scan[count].found

\* A transaction as it is executed: its epoch_height is absolute.
Transaction(t) == [tx |-> t, epoch_height |-> db.target[t]]

\* A PosRewardEntry: the account rewards of PoS epoch k, distributed at h.
RewardEntry(k, h) == [account_rewards |-> k, execution_epoch_hash |-> h]

\* read_pos_rewards: a map by hash, filled in the order of the PoS epochs.  Of
\* several with one hash the last is kept; one with no pivot's hash is not read.
ReadPosRewards(pivots) ==
    LET epochs(h) == {k \in DOMAIN db.rewards : db.rewards[k] = h}
    IN  [h \in {p \in pivots : epochs(p) # {}} |-> RewardEntry(Max(epochs(h)), h)]

RawBlock(e, h, unlocks, paid) ==
    [epoch   |-> e,
     hash    |-> h,
     height  |-> db.height[h],
     flags   |-> Flags(e, h),
     view    |-> EffectivePos(h),
     txs     |-> [i \in DOMAIN db.body[h] |-> Transaction(db.body[h][i])],
     refs    |-> <<>>,
     rewards |-> IF h \in DOMAIN paid THEN <<paid[h]>> ELSE <<>>,
     unlocks |-> IF h = Pivot(e) THEN unlocks ELSE <<>>,
     width   |-> db.width[h]]

\* extract_raw: the group of count epochs from first on.
Raw(first, count) ==
    LET unlocks == UnlockScan(first, count)
        paid == ReadPosRewards({Pivot(e) : e \in first..(first + count - 1)})
        blocks == FlattenSeq([i \in 1..count |->
                    LET e == first + i - 1
                    IN  [j \in DOMAIN Ordered(e) |-> RawBlock(e, Ordered(e)[j], unlocks[i], paid)]])
        views == {blocks[i].view : i \in DOMAIN blocks} \ {None}
    IN  [prev           |-> Pivot(first - 1),
         min_height     |-> Min({blocks[i].height : i \in DOMAIN blocks}),
         min_pos_height |-> IF views = {} THEN 0 ELSE Min(views),
         blocks         |-> blocks]

-----------------------------------------------------------------------------
(* Encoding *)

IsPivot(b) == "pivot" \in b.flags

\* The pivot that ends the epoch of block i, or 0.
PivotOf(blocks, i) ==
    LET ahead == {j \in i..Len(blocks) : IsPivot(blocks[j])}
    IN  IF ahead = {} THEN 0 ELSE Min(ahead)

\* validate_input
ValidInput(p) ==
    /\ p.blocks # <<>>
    /\ \A i \in DOMAIN p.blocks :
          LET pivot == PivotOf(p.blocks, i)
          IN  pivot # 0 /\ p.blocks[i].epoch = p.blocks[pivot].height

HasRefs(b) == Len(b.refs) = Len(b.txs)

\* seen_txs: where transaction t was encoded in full.
FirstSeen(blocks, t) ==
    LET b == Min({i \in DOMAIN blocks :
                    ~HasRefs(blocks[i]) /\ \E j \in DOMAIN blocks[i].txs : blocks[i].txs[j] = t})
    IN  <<b, Min({j \in DOMAIN blocks[b].txs : blocks[b].txs[j] = t})>>

\* Where transaction j of block i refers to; itself if it is encoded in full.
Reference(blocks, i, j) ==
    IF HasRefs(blocks[i])
    THEN IF blocks[i].refs[j] = None THEN <<i, j>> ELSE blocks[i].refs[j]
    ELSE FirstSeen(blocks, blocks[i].txs[j])

\* append_tx: the transaction, or the place it refers to.
TxItem(blocks, i, j) ==
    LET b == blocks[i]
        ref == Reference(blocks, i, j)
    IN  IF ref = <<i, j>>
        THEN [kind |-> "tx", of |-> b.txs[j].tx, delta |-> b.txs[j].epoch_height - b.epoch]
        ELSE [kind |-> "ref", of |-> ref]

\* encode_tx_payload: transactions, rewards, unlock events.
Payload(blocks, i) ==
    LET b == blocks[i]
    IN  [j \in DOMAIN b.txs |-> TxItem(blocks, i, j)]
        \o [j \in DOMAIN b.rewards |-> [kind |-> "reward", of |-> b.rewards[j]]]
        \o [j \in DOMAIN b.unlocks |-> [kind |-> "unlock", of |-> b.unlocks[j]]]

\* What follows the payload in a record: the fields that pass through, whose
\* lengths the reader learns as it reads them, and the PoS view if there is one.
Trailer(p, b) ==
    <<b.width>> \o [k \in 1..b.width |-> 0]
    \o IF b.view = None THEN <<>> ELSE <<b.view - p.min_pos_height>>

\* Mutation: a block counts as having a payload only for its transactions.
RecordByTxs(p, i) ==
    LET b == p.blocks[i]
        payload == Payload(p.blocks, i)
        flags == (b.flags \ {"has_tx"}) \cup (IF b.txs = <<>> THEN {} ELSE {"has_tx"})
    IN  <<b.hash, flags, b.height - p.min_height, payload>> \o Trailer(p, b)

\* encode_block_record: the PoS view comes last, and only if there is one.
Record(p, i) ==
    LET b == p.blocks[i]
        payload == Payload(p.blocks, i)
        flags == (b.flags \ {"has_tx"}) \cup (IF payload = <<>> THEN {} ELSE {"has_tx"})
    IN  <<b.hash, flags, b.height - p.min_height, payload>> \o Trailer(p, b)

\* choose_prefix_size: the first size that nine records in ten fit, for the two
\* smallest, or seven in ten, for the next two; else the largest.
PrefixSize(records) ==
    LET fit(k) == Cardinality({i \in DOMAIN records : Len(records[i]) <= PrefixSizes[k]})
        enough(k) == 10 * fit(k) >= (IF k <= 2 THEN 9 ELSE 7) * Len(records)
    IN  PrefixSizes[Min({k \in 1..5 : k = 5 \/ enough(k)})]

\* pack_block_body: what does not fit the prefix goes to the overflow area.
Encode(p) ==
    LET records == [i \in DOMAIN p.blocks |-> Record(p, i)]
        size == PrefixSize(records)
        Prefix(r) == IF Len(r) >= size THEN SubSeq(r, 1, size)
                                       ELSE r \o [k \in 1..(size - Len(r)) |-> 0]
        Rest(r) == SubSeq(r, size + 1, Len(r))
        long == {i \in DOMAIN records : Len(records[i]) > size}
    IN  [prev           |-> p.prev,
         min_height     |-> p.min_height,
         min_pos_height |-> p.min_pos_height,
         prefixes       |-> [i \in DOMAIN records |-> Prefix(records[i])],
         bitmap         |-> long,
         overflow       |-> Picked([i \in DOMAIN records |-> Rest(records[i])], long)]

-----------------------------------------------------------------------------
(* Decoding; enable is the reader's pos_reference_enable_height *)

\* The height decode_packet assumes: no block is that high.
Never == 2 * LastEpoch + 1

\* The overflow entries are in the order of the blocks that have one.
OverflowOf(w, i) == w.overflow[Cardinality({k \in w.bitmap : k <= i})]

\* decode_block_records
Records(w) == [i \in DOMAIN w.prefixes |->
                 w.prefixes[i] \o IF i \in w.bitmap THEN OverflowOf(w, i) ELSE <<>>]

HeightOf(w, record) == w.min_height + record[3]

\* Whether the reader expects a PoS view in the record.
HasView(w, record, enable) == HeightOf(w, record) >= enable

\* decode_block_record
BlockOf(w, record, enable) ==
    [hash   |-> record[1],
     flags  |-> record[2],
     height |-> HeightOf(w, record),
     width  |-> record[5],
     view   |-> IF HasView(w, record, enable) THEN w.min_pos_height + record[6 + record[5]] ELSE None]

\* decode_tx_payload: the items of some kinds, if there is a payload.
Items(record, kinds) ==
    IF "has_tx" \notin record[2] THEN <<>>
    ELSE Picked(record[4], {j \in DOMAIN record[4] : record[4][j].kind \in kinds})

\* Mutation: offsets are taken from the block's own height.
EpochOfBlock(blocks, i) == blocks[i].height

\* assign_epoch_from_pivots
EpochOf(blocks, i) == blocks[PivotOf(blocks, i)].height

\* decode_packet_ext fails: a field is missing, the last blocks have no pivot,
\* or a reference is not to an earlier block.
Decodable(w, enable) ==
    LET records == Records(w)
        blocks == [i \in DOMAIN records |-> [flags |-> records[i][2]]]
    IN  \A i \in DOMAIN records :
          /\ HasView(w, records[i], enable) => Len(records[i]) >= 6 + records[i][5]
          /\ PivotOf(blocks, i) # 0
          /\ \A x \in ToSet(Items(records[i], {"tx", "ref"})) : x.kind = "ref" =>
                /\ x.of[1] < i
                /\ x.of[2] \in DOMAIN Items(records[x.of[1]], {"tx", "ref"})

\* decode_packet_ext of a packet that is decodable.  Epochs are assigned before
\* the transactions are read, whose epoch_height is relative to them.
Decode(w, enable) ==
    LET records == Records(w)
        blocks == [i \in DOMAIN records |-> BlockOf(w, records[i], enable)]
        items(i) == Items(records[i], {"tx", "ref"})
        txs[i \in DOMAIN records] ==
          [j \in DOMAIN items(i) |->
             LET x == items(i)[j]
             IN  IF x.kind = "ref" THEN txs[x.of[1]][x.of[2]]
                 ELSE [tx |-> x.of, epoch_height |-> EpochOf(blocks, i) + x.delta]]
        carried(i, kind) == LET got == Items(records[i], {kind}) IN [k \in DOMAIN got |-> got[k].of]
        block(i) ==
          [epoch   |-> EpochOf(blocks, i),
           hash    |-> blocks[i].hash,
           height  |-> blocks[i].height,
           flags   |-> blocks[i].flags,
           view    |-> blocks[i].view,
           txs     |-> txs[i],
           refs    |-> [j \in DOMAIN items(i) |->
                          IF items(i)[j].kind = "ref" THEN items(i)[j].of ELSE None],
           rewards |-> carried(i, "reward"),
           unlocks |-> carried(i, "unlock"),
           width   |-> blocks[i].width]
    IN  [prev           |-> w.prev,
         min_height     |-> w.min_height,
         min_pos_height |-> w.min_pos_height,
         blocks         |-> [i \in DOMAIN records |-> block(i)]]

-----------------------------------------------------------------------------
(* The tools *)

\* extract: the next count epochs become a packet, if the encoder takes them.
Extract(count) ==
    LET raw == Raw(next, count)
    IN  /\ ~failed
        /\ next + count - 1 <= LastEpoch
        /\ IF ValidInput(raw)
           THEN archive' = Append(archive, Encode(raw)) /\ UNCHANGED failed
           ELSE failed' = TRUE /\ UNCHANGED archive
        /\ next' = next + count
        /\ UNCHANGED <<db, injected>>

\* Mutation: the tool decodes without the height PoS starts from.
WithRewardBlind(w, e, k) ==
    LET p == Decode(w, Never)
    IN  Encode([p EXCEPT !.blocks =
          [i \in DOMAIN p.blocks |->
             IF p.blocks[i].epoch = e /\ IsPivot(p.blocks[i])
             THEN [p.blocks[i] EXCEPT !.rewards = Append(@, RewardEntry(k, p.blocks[i].hash))]
             ELSE p.blocks[i]]])

\* The packet again, with reward k added to the pivot of epoch e if it has it.
WithReward(w, e, k) ==
    LET p == Decode(w, ToolPosEnable)
    IN  Encode([p EXCEPT !.blocks =
          [i \in DOMAIN p.blocks |->
             IF p.blocks[i].epoch = e /\ IsPivot(p.blocks[i])
             THEN [p.blocks[i] EXCEPT !.rewards = Append(@, RewardEntry(k, p.blocks[i].hash))]
             ELSE p.blocks[i]]])

\* inject: every packet of the container is written again, whatever rewards the
\* pivot has already.  The model bounds how often the operator runs it.
Inject(e, k) ==
    /\ FoldFunction(+, 0, [f \in Epoch |-> Len(injected[f])]) < MaxInjections
    /\ e < next
    /\ \A g \in DOMAIN archive : Decodable(archive[g], ToolPosEnable)
    /\ archive' = [g \in DOMAIN archive |-> WithReward(archive[g], e, k)]
    /\ injected' = [injected EXCEPT ![e] = Append(@, k)]
    /\ UNCHANGED <<db, next, failed>>

PacketInit == /\ db \in Databases
              /\ next = FirstEpoch
              /\ archive = <<>>
              /\ injected = [e \in Epoch |-> <<>>]
              /\ failed = FALSE

PacketNext == \/ \E count \in GroupEpochs : Extract(count)
              \/ \E e \in Epoch, k \in JsonRewards : Inject(e, k)

PacketSpec == PacketInit /\ [][PacketNext]_evars
-----------------------------------------------------------------------------
(* Properties *)

Extracted == FirstEpoch..(next - 1)

\* What the replayer is given, group after group.
Replayed == FlattenSeq([g \in DOMAIN archive |-> Decode(archive[g], PosEnable).blocks])

\* However the epochs are cut into groups, no group is refused by the encoder
\* or the decoder, and the blocks of every epoch come back with the epoch's
\* number although the wire carries none: the executed ones in their order with
\* the pivot last, the skipped ones marked.  (DESIGN.md, 8.2, has the skipped
\* blocks behind the executed ones and so behind the pivot, where they would be
\* given to the next epoch.)
EpochsRecovered ==
    /\ ~failed
    /\ \A g \in DOMAIN archive : Decodable(archive[g], PosEnable)
    /\ \A i \in 1..(Len(Replayed) - 1) : Replayed[i].epoch <= Replayed[i + 1].epoch
    /\ \A e \in Extracted :
          LET blocks == Picked(Replayed, {i \in DOMAIN Replayed : Replayed[i].epoch = e})
              skipped == {i \in DOMAIN blocks : "skipped" \in blocks[i].flags}
              hashes == [i \in DOMAIN blocks |-> blocks[i].hash]
          IN  /\ IsPivot(Last(blocks))
              /\ Picked(hashes, DOMAIN hashes \ skipped) = db.executed[e]
              /\ Picked(hashes, skipped) = db.skipped[e]

\* Every block comes back with its transactions, each with the epoch_height it
\* was signed for: references resolve to the same transaction although they
\* are relative to a packet, and offsets to the epoch they were taken from.
TransactionsRecovered ==
    \A b \in ToSet(Replayed) :
        b.txs = [i \in DOMAIN db.body[b.hash] |-> Transaction(db.body[b.hash][i])]

\* A block has a PoS view exactly if its own height calls for one, and it is
\* the one of its header, also in an epoch and a packet that have blocks of
\* both sorts and after the packet was encoded again.
ViewsRecovered ==
    \A g \in DOMAIN archive :
        /\ Decodable(archive[g], PosEnable)
        /\ \A b \in ToSet(Decode(archive[g], PosEnable).blocks) : b.view = EffectivePos(b.hash)

\* Unlock events are given to the replayer once each and in order, those
\* between the first PoS reference seen and the latest, wherever the groups
\* are cut; each at the first pivot whose reference is past it.
UnlocksOnce ==
    LET blocks == Replayed
        refs == {EffectivePos(Pivot(e)) : e \in (FirstEpoch - 1)..(next - 1)} \ {None}
        versions == {db.version[r] : r \in refs}
    IN  /\ FlattenSeq([i \in DOMAIN blocks |-> blocks[i].unlocks])
             = IF refs = {} THEN <<>> ELSE UnlockEvents(Min(versions), Max(versions))
        /\ \A b \in ToSet(blocks) : \A v \in ToSet(b.unlocks) :
              /\ IsPivot(b)
              /\ v < db.version[EffectivePos(b.hash)]
              /\ v >= db.version[EffectivePos(Pivot(b.epoch - 1))]

\* What the databases record as distributed at pivot h and the extractor reads:
\* the last PoS epoch only (EveryRewardReplayed is what its comment says).
Distributed(h) ==
    LET epochs == {k \in DOMAIN db.rewards : db.rewards[k] = h}
    IN  IF epochs = {} THEN <<>> ELSE <<RewardEntry(Max(epochs), h)>>

\* A pivot comes back with the reward the extractor read for it, followed by
\* those injected at its epoch, in order and as often as they were injected; no
\* other block has any, not one whose hash a PoS epoch is recorded with either.
\* An injection into one packet leaves the rewards of all others as they were,
\* although it encodes every packet again.
RewardsRecovered ==
    \A b \in ToSet(Replayed) :
        b.rewards = IF IsPivot(b)
                    THEN Distributed(b.hash)
                         \o [j \in DOMAIN injected[b.epoch] |-> RewardEntry(injected[b.epoch][j], b.hash)]
                    ELSE <<>>

\* The comment of read_pos_rewards: every distribution whose hash is a pivot's is
\* returned.  (Those of one hash overwrite each other in the map.)
EveryRewardReplayed ==
    \A k \in DOMAIN db.rewards :
        db.rewards[k] \in {Pivot(e) : e \in Extracted} =>
            \E b \in ToSet(Replayed) : Contains(b.rewards, RewardEntry(k, db.rewards[k]))

\* The roundtrip command: decode_packet and encode_packet give the same packet.
\* (A PoS view is dropped, which the padding of its record hides only if its
\* offset is 0 and the record fits the prefix.)
RoundtripStable ==
    \A g \in DOMAIN archive :
        Decodable(archive[g], Never) /\ Encode(Decode(archive[g], Never)) = archive[g]

\* verify_packet's transaction_items.
TransactionItems(w) == LET records == Records(w)
                       IN  FoldLeft(+, 0, [i \in DOMAIN records |-> Len(records[i][4])])

\* validate_replay_packet, for a packet that verify_packet and the decoder take.
ReplayValid(w) ==
    LET blocks == Decode(w, Never).blocks
    IN  /\ \A i \in DOMAIN blocks :
              /\ "zero" \notin blocks[i].flags
              /\ blocks[i].txs # <<>> => "has_tx" \in blocks[i].flags
        /\ FoldLeft(+, 0, [i \in DOMAIN blocks |-> Len(blocks[i].txs)]) = TransactionItems(w)

\* Every packet that is extracted passes the replay check.
ReplayAccepts == \A g \in DOMAIN archive : ReplayValid(archive[g])
=============================================================================
