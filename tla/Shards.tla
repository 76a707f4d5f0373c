------------------------------- MODULE Shards -------------------------------
(***************************************************************************)
(* extract-shards: crates/replay-data-extractor/src/extract/shards.rs and  *)
(* extract_shards_to_dir in extract/mod.rs.                                *)
(*                                                                         *)
(* Worker threads claim groups, extract them and write each to a file of   *)
(* its own, in place.  A worker stops at its first error, the others go    *)
(* on.  What starts, ends and fails is sent to a thread that keeps the     *)
(* progress counters and logs them, the last time when every worker has    *)
(* gone.  The directory may hold what earlier runs left.                   *)
(***************************************************************************)
EXTENDS EpochGroups, FiniteSets

ASSUME ThreadsAssumption == IsFiniteSet(Worker)

VARIABLES
    shard_file,             \* "left" as found, "torn" or "whole", by group
    reports,                \* the groups each worker reports
    progress_rx,            \* progress events not yet applied
    progress,               \* ProgressState
    logger,                 \* "running" or "ended"
    shards_outcome          \* what run_shards returned, or "running"

svars == <<tasks, shard_file, reports, progress_rx, progress, logger, shards_outcome>>

Event(type, w, g) == [type |-> type, worker |-> w, group |-> g]

Sends(type, w, g) == progress_rx' = Append(progress_rx, Event(type, w, g))

-----------------------------------------------------------------------------
(* Workers *)

\* A task is taken and announced.
StartShard(w) ==
    /\ Takes(w)
    /\ Sends("Start", w, nextTask)
    /\ UNCHANGED <<shard_file, reports, progress, logger, shards_outcome>>

NoShardLeft(w) ==
    /\ ~TasksLeft
    /\ Turns(w, "ready", "ok")
    /\ UNCHANGED <<shard_file, reports, progress_rx, progress, logger, shards_outcome>>

\* The packet is there and fs::write has emptied its file.
OpenShard(w) ==
    /\ Turns(w, "extracting", "writing")
    /\ shard_file' = [shard_file EXCEPT ![task[w]] = "torn"]
    /\ UNCHANGED <<reports, progress_rx, progress, logger, shards_outcome>>

ShardDone(w) ==
    /\ Turns(w, "writing", "ready")
    /\ shard_file' = [shard_file EXCEPT ![task[w]] = "whole"]
    /\ reports' = [reports EXCEPT ![w] = @ \cup {task[w]}]
    /\ Sends("Done", w, task[w])
    /\ UNCHANGED <<progress, logger, shards_outcome>>

\* Mutation: the failing worker takes the rest of the queue with it.
ShardFailsForAll(w) ==
    /\ worker[w] \in {"extracting", "writing"}
    /\ worker' = [worker EXCEPT ![w] = "err"]
    /\ nextTask' = GroupCount
    /\ Sends("Failed", w, task[w])
    /\ UNCHANGED <<task, shard_file, reports, progress, logger, shards_outcome>>

\* The extraction fails, or the write at any point: the file stays as it is,
\* and the reports of this worker are lost with it.
ShardFails(w) ==
    /\ Turns(w, "extracting", "err") \/ Turns(w, "writing", "err")
    /\ Sends("Failed", w, task[w])
    /\ UNCHANGED <<shard_file, reports, progress, logger, shards_outcome>>

-----------------------------------------------------------------------------
(* The progress logger *)

Applied(e) ==
    CASE e.type = "Start"  -> [progress EXCEPT !.active[e.worker] = {e.group}]
      [] e.type = "Done"   -> [progress EXCEPT !.completed = @ + 1,
                                               !.active[e.worker] = {}]
      [] e.type = "Failed" -> [progress EXCEPT !.failed = @ + 1,
                                               !.active[e.worker] = {}]

ApplyEvent ==
    /\ logger = "running"
    /\ progress_rx # <<>>
    /\ progress' = Applied(Head(progress_rx))
    /\ progress_rx' = Tail(progress_rx)
    /\ UNCHANGED <<tasks, shard_file, reports, logger, shards_outcome>>

\* Mutation: the senders being gone ends the logger, whatever is still queued.
LoggerEndsEarly ==
    /\ logger = "running"
    /\ WorkersEnded
    /\ logger' = "ended"
    /\ UNCHANGED <<tasks, shard_file, reports, progress_rx, progress, shards_outcome>>

\* Disconnected: nothing is queued and every sender is gone.
LoggerEnds ==
    /\ logger = "running"
    /\ progress_rx = <<>>
    /\ WorkersEnded
    /\ logger' = "ended"
    /\ UNCHANGED <<tasks, shard_file, reports, progress_rx, progress, shards_outcome>>

-----------------------------------------------------------------------------
\* Mutation: an error only counts if nothing was extracted.
CollectedLeniently == IF SomeFailed /\ \A w \in Worker : reports[w] = {} THEN "err" ELSE "ok"

\* collect_worker_reports: the first error, or all the reports.
Collected == IF SomeFailed THEN "err" ELSE "ok"

JoinShards ==
    /\ shards_outcome = "running"
    /\ WorkersEnded
    /\ logger = "ended"
    /\ shards_outcome' = Collected
    /\ UNCHANGED <<tasks, shard_file, reports, progress_rx, progress, logger>>

\* The reports that extract_shards_to_dir sorts and returns.
Reported == UNION {reports[w] : w \in Worker}

ShardsInit ==
    /\ TasksInit
    /\ shard_file = [g \in Group |-> "left"]
    /\ reports = [w \in Worker |-> {}]
    /\ progress_rx = <<>>
    /\ progress = [completed |-> 0, failed |-> 0, active |-> [w \in Worker |-> {}]]
    /\ logger = "running"
    /\ shards_outcome = "running"

ShardWorker(w) == \/ StartShard(w) \/ NoShardLeft(w) \/ OpenShard(w)
                  \/ ShardDone(w) \/ ShardFails(w)
ShardLogger    == ApplyEvent \/ LoggerEnds

ShardsNext == (\E w \in Worker : ShardWorker(w)) \/ ShardLogger \/ JoinShards

ShardsSpec == ShardsInit /\ [][ShardsNext]_svars
-----------------------------------------------------------------------------
(* Properties *)

\* run_shards returns Ok only if each epoch asked for lies in exactly one
\* file that this run wrote to the end and reports, and no epoch that was not
\* asked for does.
ShardsComplete ==
    shards_outcome = "ok" =>
        \A e \in 0..(FirstEpoch + EpochCount + ShardEpochs) :
            LET holding == {g \in Group : /\ shard_file[g] = "whole"
                                          /\ g \in Reported
                                          /\ e \in StartOf(g)..EndOf(g)}
            IN  Cardinality(holding) =
                    IF e \in FirstEpoch..(FirstEpoch + EpochCount - 1) THEN 1 ELSE 0

\* An error costs the one shard it hit: when run_shards returns, the file of
\* any other group is whole, unless no worker was left to take it.
ShardsSalvaged ==
    shards_outcome # "running" =>
        \A g \in Group :
            \/ shard_file[g] = "whole"
            \/ \E w \in Worker : worker[w] = "err" /\ task[w] = g
            \/ g >= nextTask /\ \A w \in Worker : worker[w] = "err"

\* The last line the logger prints accounts for every task that was taken,
\* and leaves no worker busy.
ProgressAccounts ==
    logger = "ended" =>
        /\ progress.completed + progress.failed = nextTask
        /\ progress.failed = Cardinality({w \in Worker : worker[w] = "err"})
        /\ \A w \in Worker : progress.active[w] = {}
=============================================================================
