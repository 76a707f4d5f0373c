---------------------------- MODULE MCExtractor ----------------------------
(***************************************************************************)
(* The commands of the extractor that run threads: extract-packed,         *)
(* extract-shards and add-total-reward-flag.  A behaviour is a run of one  *)
(* of them; the others stay where they start.                              *)
(***************************************************************************)
EXTENDS PackPipeline, Shards, FlagPatch

VARIABLE command

PackOnly   == <<length, results, writing, outcome>>
ShardsOnly == <<shard_file, reports, progress_rx, progress, logger, shards_outcome>>
mcvars     == <<tasks, PackOnly, ShardsOnly, fvars, command>>

Packing  == command = "extract-packed"
Sharding == command = "extract-shards"
Patching == command = "add-total-reward-flag"

Init ==
    /\ command \in {"extract-packed", "extract-shards", "add-total-reward-flag"}
    /\ PackInit /\ ShardsInit /\ FlagInit
    /\ ~Packing => length \in [Group -> {1}]
    /\ ~Patching => /\ dry_run
                    /\ zero = [f \in File |-> {}]

Next ==
    \/ Packing  /\ PackNext   /\ UNCHANGED <<ShardsOnly, fvars, command>>
    \/ Sharding /\ ShardsNext /\ UNCHANGED <<PackOnly, fvars, command>>
    \/ Patching /\ FlagNext   /\ UNCHANGED <<tasks, PackOnly, ShardsOnly, command>>

\* Every thread of the command is scheduled; an extraction, a lookup and a
\* file operation end, one way or the other.
Fairness ==
    /\ \A w \in Worker : /\ WF_pvars(Packing /\ PackWorker(w))
                         /\ WF_svars(Sharding /\ ShardWorker(w))
    /\ WF_pvars(Packing /\ PackWriter)
    /\ WF_pvars(Packing /\ Join)
    /\ WF_svars(Sharding /\ ShardLogger)
    /\ WF_svars(Sharding /\ JoinShards)
    /\ \A t \in Thread : WF_fvars(Patching /\ ThreadStep(t))
    /\ WF_fvars(Patching /\ MainStep)
    /\ WF_fvars(Patching /\ MonitorStops)

Spec == Init /\ [][Next]_mcvars /\ Fairness
-----------------------------------------------------------------------------
\* Every command returns: run_packed and run_shards whoever fails, since no
\* thread waits for a group that will never come, the writer not for a worker
\* that stopped and the logger not for a sender that is still held;
\* add-total-reward-flag if nothing fails.
CommandsReturn == /\ Packing ~> outcome # "running"
                  /\ Sharding ~> shards_outcome # "running"
                  /\ Patching /\ [](pc # "err") => <>Returned
=============================================================================
