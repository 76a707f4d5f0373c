------------------------------ MODULE FlagPatch ------------------------------
(***************************************************************************)
(* add-total-reward-flag: crates/replay-data-extractor/src/extract/        *)
(* flagpatch.rs.                                                           *)
(*                                                                         *)
(* The container files are patched one after the other.  For each of them  *)
(* threads claim blocks with an atomic cursor and look their rewards up;   *)
(* when all have ended the flag is set on the blocks they found, and the   *)
(* file is replaced by way of a temporary one.  A monitor thread reports   *)
(* until it is told that the run has finished.  Lookups and file           *)
(* operations may fail; the process may stop and be started again.         *)
(***************************************************************************)
EXTENDS Naturals, Sequences, FiniteSets

CONSTANTS FileCount,        \* container files, in ascending epoch order
          BlockCount,       \* blocks in each of them
          Thread,           \* jobs
          MaxCrashes        \* bound on the number of crashes

ASSUME FlagAssumption == /\ FileCount \in Nat \ {0}
                         /\ BlockCount \in Nat
                         /\ MaxCrashes \in Nat
                         /\ Thread # {}

File  == 1..FileCount
Block == 1..BlockCount

VARIABLES
    dry_run,                \* only look, write nothing
    zero,                   \* the blocks of a file whose total reward is zero
    original,               \* the blocks that carried the flag from the start
    disk,                   \* the blocks that carry it in the file
    data,                   \* the blocks that carry it in memory
    current,                \* the file being patched
    pc,                     \* where add_total_reward_flag stands
    cursor,                 \* blocks claimed by the threads
    thread,                 \* "off", "claim" or "read"
    claimed,                \* the block a thread reads
    local,                  \* the offsets a thread collected
    flips,                  \* the offsets of the threads that ended
    err,                    \* some lookup failed
    flagged,                \* summary.blocks_flagged
    finished, monitor,
    crashes

onDisk  == <<dry_run, zero, original, disk>>
threads == <<cursor, thread, claimed, local, flips, err>>
watch   == <<finished, monitor>>
fvars   == <<onDisk, data, current, pc, threads, flagged, watch, crashes>>

-----------------------------------------------------------------------------
(* The lookup threads of one file *)

MoreBlocks == cursor < BlockCount

\* Mutation: the cursor is read and written in two steps, so that another
\* thread may see it as it was.
AdvanceTorn == cursor' \in {cursor, cursor + 1}

\* cursor.fetch_add
AdvanceCursor == cursor' = cursor + 1

\* A thread that finds no more blocks hands in what it has.
ClaimBlock(t) ==
    /\ thread[t] = "claim"
    /\ IF MoreBlocks
       THEN /\ claimed' = [claimed EXCEPT ![t] = cursor + 1]
            /\ AdvanceCursor
            /\ thread' = [thread EXCEPT ![t] = "read"]
            /\ UNCHANGED flips
       ELSE /\ thread' = [thread EXCEPT ![t] = "off"]
            /\ flips' = flips \o local[t]
            /\ UNCHANGED <<claimed, cursor>>
    /\ UNCHANGED <<onDisk, data, current, pc, local, err, flagged, watch, crashes>>

\* A block without a reward record counts as one with a zero reward.
Lookup(t) ==
    /\ thread[t] = "read"
    /\ thread' = [thread EXCEPT ![t] = "claim"]
    /\ local' = [local EXCEPT ![t] = IF claimed[t] \in zero[current]
                                     THEN Append(@, claimed[t]) ELSE @]
    /\ UNCHANGED <<onDisk, data, current, pc, cursor, claimed, flips, err, flagged,
                   watch, crashes>>

\* Mutation: a failed lookup is skipped, its thread ends quietly.
LookupFailsQuietly(t) ==
    /\ thread[t] = "read"
    /\ thread' = [thread EXCEPT ![t] = "off"]
    /\ flips' = flips \o local[t]
    /\ UNCHANGED <<onDisk, data, current, pc, cursor, claimed, local, err, flagged,
                   watch, crashes>>

LookupFails(t) ==
    /\ thread[t] = "read"
    /\ thread' = [thread EXCEPT ![t] = "off"]
    /\ flips' = flips \o local[t]
    /\ err' = TRUE
    /\ UNCHANGED <<onDisk, data, current, pc, cursor, claimed, local, flagged,
                   watch, crashes>>

ThreadsEnded == \A t \in Thread : thread[t] = "off"

-----------------------------------------------------------------------------
(* add_total_reward_flag *)

\* fs::read, parse_container and block_flag_sites, then the threads start.
StartFile ==
    /\ pc = "start"
    /\ data' = disk[current]
    /\ cursor' = 0
    /\ thread' = [t \in Thread |-> "claim"]
    /\ claimed' = [t \in Thread |-> 0]
    /\ local' = [t \in Thread |-> <<>>]
    /\ flips' = <<>>
    /\ err' = FALSE
    /\ pc' = "lookup"
    /\ UNCHANGED <<onDisk, current, flagged, watch, crashes>>

\* Files are left as they are from here on: the closure returns Err.
Fails == /\ pc \in {"start", "write", "rename"}
         /\ pc' = "err"
         /\ UNCHANGED <<onDisk, data, current, threads, flagged, watch, crashes>>

Flips == {flips[i] : i \in DOMAIN flips}

\* Mutation: the error slot is not looked at.
JoinBlind ==
    /\ pc = "lookup"
    /\ ThreadsEnded
    /\ data' = data \cup Flips
    /\ flagged' = flagged + Len(flips)
    /\ pc' = IF data' # data /\ ~dry_run THEN "write" ELSE "next"
    /\ UNCHANGED <<onDisk, current, threads, watch, crashes>>

\* The threads are joined: an error of any of them ends the run, otherwise the
\* flags are set, and the file is rewritten if that changed it.
JoinThreads ==
    /\ pc = "lookup"
    /\ ThreadsEnded
    /\ IF err THEN pc' = "err" /\ UNCHANGED <<data, flagged>>
       ELSE /\ data' = data \cup Flips
            /\ flagged' = flagged + Len(flips)
            /\ pc' = IF data' # data /\ ~dry_run THEN "write" ELSE "next"
    /\ UNCHANGED <<onDisk, current, threads, watch, crashes>>

\* write_patched_file: the temporary file is written and synced.  No later run
\* reads one that is left over.
WriteTmp ==
    /\ pc = "write"
    /\ pc' = "rename"
    /\ UNCHANGED <<onDisk, data, current, threads, flagged, watch, crashes>>

Rename ==
    /\ pc = "rename"
    /\ disk' = [disk EXCEPT ![current] = data]
    /\ pc' = "next"
    /\ UNCHANGED <<dry_run, zero, original, data, current, threads, flagged, watch, crashes>>

NextFile ==
    /\ pc = "next"
    /\ IF current < FileCount
       THEN current' = current + 1 /\ pc' = "start" /\ UNCHANGED finished
       ELSE pc' = "ok" /\ finished' = TRUE /\ UNCHANGED current
    /\ UNCHANGED <<onDisk, data, threads, flagged, monitor, crashes>>

\* The monitor's loop condition, looked at again and again.
MonitorStops ==
    /\ monitor = "on"
    /\ finished
    /\ monitor' = "off"
    /\ UNCHANGED <<onDisk, data, current, pc, threads, flagged, finished, crashes>>

\* thread::scope returns when its closure has and the monitor has been joined.
ReturnPatch ==
    /\ pc \in {"ok", "err"}
    /\ monitor = "off"
    /\ pc' = IF pc = "ok" THEN "returned_ok" ELSE "returned_err"
    /\ UNCHANGED <<onDisk, data, current, threads, flagged, watch, crashes>>

\* The process is killed and the command run again over what is on disk.
Rerun ==
    /\ crashes < MaxCrashes
    /\ crashes' = crashes + 1
    /\ current' = 1
    /\ pc' = "start"
    /\ flagged' = 0
    /\ thread' = [t \in Thread |-> "off"]
    /\ finished' = FALSE
    /\ monitor' = "on"
    /\ UNCHANGED <<onDisk, data, cursor, claimed, local, flips, err>>

FlagInit ==
    /\ dry_run \in BOOLEAN
    /\ zero \in [File -> SUBSET Block]
    /\ \E flags \in [File -> SUBSET Block] :
          /\ \A f \in File : flags[f] \subseteq zero[f]
          /\ original = flags
    /\ disk = original
    /\ data = {}
    /\ current = 1
    /\ pc = "start"
    /\ cursor = 0
    /\ thread = [t \in Thread |-> "off"]
    /\ claimed = [t \in Thread |-> 0]
    /\ local = [t \in Thread |-> <<>>]
    /\ flips = <<>>
    /\ err = FALSE
    /\ flagged = 0
    /\ finished = FALSE
    /\ monitor = "on"
    /\ crashes = 0

ThreadStep(t) == ClaimBlock(t) \/ Lookup(t) \/ LookupFails(t)
MainStep      == \/ StartFile \/ Fails \/ JoinThreads \/ WriteTmp \/ Rename
                 \/ NextFile \/ ReturnPatch

FlagNext == (\E t \in Thread : ThreadStep(t)) \/ MainStep \/ MonitorStops \/ Rerun

\* Every thread is scheduled, a lookup and a file operation end.
FlagFairness == /\ \A t \in Thread : WF_fvars(ThreadStep(t))
                /\ WF_fvars(MainStep)
                /\ WF_fvars(MonitorStops)

FlagSpec == FlagInit /\ [][FlagNext]_fvars /\ FlagFairness
-----------------------------------------------------------------------------
(* Properties *)

Patched(f) == original[f] \cup zero[f]

\* Whatever fails, and wherever the process stops, a file holds either the
\* flags it came with or those of a complete patch: no torn file, no partial
\* set of flags, no flag on a block that has a reward.
AllOrNothing == \A f \in File : disk[f] \in {original[f], Patched(f)}

\* Files are completed in ascending epoch order: a file that has been patched
\* has none before it that still needs to be.
AscendingOrder ==
    \A f, g \in File :
        f < g /\ disk[g] # original[g] => disk[f] = Patched(f)

\* A run that succeeds has patched every file, and one that only looks has
\* patched none; either way it reports each flagged block once, also when it
\* continues what a run before it left half done.
OkMeansPatched ==
    pc = "returned_ok" =>
        /\ dry_run => disk = original
        /\ ~dry_run => \A f \in File : disk[f] = Patched(f)
        /\ flagged = Cardinality(UNION {{f} \X zero[f] : f \in File})

Returned == pc \in {"returned_ok", "returned_err"}

\* A run returns, with its summary or with the error of the file that failed.
AlwaysReturns == <>Returned
=============================================================================
