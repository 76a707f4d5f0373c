---------------------------- MODULE PackPipeline ----------------------------
(***************************************************************************)
(* extract-packed: crates/replay-data-extractor/src/extract/pack.rs.       *)
(*                                                                         *)
(* The epoch range is cut into groups.  Worker threads claim groups from a *)
(* queue and extract them, each in its own time; one writer thread takes   *)
(* the packets as they come, puts them back in order and closes a          *)
(* container file whenever enough bytes have gathered.  Any extraction and *)
(* any file write may fail.  What a packet holds is left out: it has a     *)
(* group index and a length.                                               *)
(***************************************************************************)
EXTENDS EpochGroups

CONSTANTS Length,           \* the lengths a packet may have
          TargetBytes

ASSUME PackAssumption == /\ TargetBytes \in Nat \ {0}
                         /\ Length \subseteq Nat \ {0}

VARIABLES
    length,                 \* packet length of every group
    results,                \* packets sent and not yet received
    pending,                \* groups received out of order
    next_group,
    builder,                \* groups of the container being built
    files,                  \* containers written, in order
    torn,                   \* the container whose flush failed, if it left a file
    writer,                 \* "running", "ok" or "err"
    outcome                 \* what run_packed returned, or "running"

written == <<builder, files, torn>>
writing == <<pending, next_group, written, writer>>
pvars   == <<tasks, length, results, writing, outcome>>

-----------------------------------------------------------------------------
(* Workers *)

Claim(w) == /\ Takes(w)
            /\ UNCHANGED <<length, results, writing, outcome>>

\* The task channel is empty and its sender gone.
Drained(w) == /\ ~TasksLeft
              /\ Turns(w, "ready", "ok")
              /\ UNCHANGED <<length, results, writing, outcome>>

\* The packet is extracted and sent; if the writer is gone the worker stops,
\* without an error of its own.
Deliver(w) == /\ IF writer = "running"
                 THEN /\ Turns(w, "extracting", "ready")
                      /\ results' = Append(results, task[w])
                 ELSE /\ Turns(w, "extracting", "ok")
                      /\ UNCHANGED results
              /\ UNCHANGED <<length, writing, outcome>>

ExtractFails(w) == /\ Turns(w, "extracting", "err")
                   /\ UNCHANGED <<length, results, writing, outcome>>

-----------------------------------------------------------------------------
(* The writer *)

\* payload_bytes of a container.
Payload(groups) ==
    LET sum[i \in 0..Len(groups)] == IF i = 0 THEN 0 ELSE sum[i - 1] + length[groups[i]]
    IN  sum[Len(groups)]

\* flush_container names the file by its first and last epoch.
Container(groups) ==
    [start   |-> StartOf(groups[1]),
     end     |-> EndOf(groups[Len(groups)]),
     entries |-> groups]

\* flush_container succeeds.
Flushes(groups) == /\ files' = Append(files, Container(groups))
                   /\ builder' = <<>>
                   /\ UNCHANGED torn

\* The file is not created, or it is and stays behind under its final name,
\* cut short unless the very last write was what failed.
FlushFails(groups) == /\ torn' \in {<<>>, <<Container(groups)>>}
                      /\ UNCHANGED <<builder, files>>

\* The group that is written next has arrived.
Ready == next_group \in pending

Full(groups) == Payload(groups) >= TargetBytes

Receive == /\ writer = "running"
           /\ ~Ready
           /\ results # <<>>
           /\ pending' = pending \cup {Head(results)}
           /\ results' = Tail(results)
           /\ UNCHANGED <<tasks, length, next_group, written, writer, outcome>>

\* Adding a group to the container closes it, or may fail to, when it is full.
AddToContainer(g) ==
    LET grown == Append(builder, g)
    IN  \/ ~Full(grown) /\ builder' = grown /\ UNCHANGED <<files, torn, writer>>
        \/ Full(grown) /\ Flushes(grown) /\ UNCHANGED writer
        \/ Full(grown) /\ FlushFails(grown) /\ writer' = "err"

\* Mutation: the lowest group that has arrived is written next.
EmitLowest ==
    LET lowest == CHOOSE g \in pending : \A h \in pending : g <= h
    IN  /\ writer = "running"
        /\ pending # {}
        /\ pending' = pending \ {lowest}
        /\ next_group' = next_group + 1
        /\ AddToContainer(lowest)
        /\ UNCHANGED <<tasks, length, results, outcome>>

Emit == /\ writer = "running"
        /\ Ready
        /\ pending' = pending \ {next_group}
        /\ next_group' = next_group + 1
        /\ AddToContainer(next_group)
        /\ UNCHANGED <<tasks, length, results, outcome>>

\* Mutation: the writer waits until no group is missing.
ClosePatient ==
    /\ writer = "running" /\ results = <<>> /\ WorkersEnded
    /\ pending = {}
    /\ next_group = GroupCount
    /\ IF builder # <<>> THEN Flushes(builder) ELSE UNCHANGED written
    /\ writer' = "ok"
    /\ UNCHANGED <<tasks, length, results, pending, next_group, outcome>>

\* Mutation: packets still in the channel when the workers end are dropped.
CloseHasty ==
    /\ writer = "running" /\ ~Ready /\ WorkersEnded
    /\ IF builder # <<>> THEN Flushes(builder) ELSE UNCHANGED written
    /\ writer' = "ok"
    /\ UNCHANGED <<tasks, length, results, pending, next_group, outcome>>

\* The result channel is empty and every sender gone: the rest is flushed,
\* packets pending beyond a gap are dropped.
Close == /\ writer = "running"
         /\ ~Ready
         /\ results = <<>>
         /\ WorkersEnded
         /\ \/ /\ IF builder # <<>> THEN Flushes(builder) ELSE UNCHANGED written
               /\ writer' = "ok"
            \/ /\ builder # <<>>
               /\ FlushFails(builder)
               /\ writer' = "err"
         /\ UNCHANGED <<tasks, length, results, pending, next_group, outcome>>

\* Mutation: only the writer is asked.
VerdictOfWriter == writer

\* A worker's error goes before the writer's result.
Verdict == IF SomeFailed THEN "err" ELSE writer

Join == /\ outcome = "running"
        /\ WorkersEnded
        /\ writer # "running"
        /\ outcome' = Verdict
        /\ UNCHANGED <<tasks, length, results, writing>>

-----------------------------------------------------------------------------
PackInit == /\ TasksInit
            /\ length \in [Group -> Length]
            /\ results = <<>>
            /\ pending = {}
            /\ next_group = 0
            /\ builder = <<>>
            /\ files = <<>>
            /\ torn = <<>>
            /\ writer = "running"
            /\ outcome = "running"

PackWorker(w) == Claim(w) \/ Drained(w) \/ Deliver(w) \/ ExtractFails(w)
PackWriter    == Receive \/ Emit \/ Close

PackNext == (\E w \in Worker : PackWorker(w)) \/ PackWriter \/ Join

PackSpec == PackInit /\ [][PackNext]_pvars
-----------------------------------------------------------------------------
(* Properties *)

PackTypeOK ==
    /\ length \in [Group -> Length]
    /\ nextTask \in 0..GroupCount
    /\ worker \in [Worker -> {"ready", "extracting", "ok", "err"}]
    /\ task \in [Worker -> Group]
    /\ results \in Seq(Group)
    /\ pending \subseteq Group
    /\ next_group \in 0..GroupCount
    /\ builder \in Seq(Group)
    /\ writer \in {"running", "ok", "err"}
    /\ outcome \in {"running", "ok", "err"}

Consecutive(groups) ==
    \A i \in 1..(Len(groups) - 1) : groups[i + 1] = groups[i] + 1

\* The containers written so far hold the groups from the first one on, each
\* once and in order, in whatever order the workers delivered them; the names
\* of consecutive files join without a gap or an overlap of epochs, which is
\* what a reader of the directory goes by.  A file that a failed flush left
\* behind joins them too, so that it hides nothing that was written.
FilesJoin ==
    LET there == files \o torn
    IN  /\ there # <<>> => there[1].start = FirstEpoch
        /\ \A i \in 1..(Len(there) - 1) : there[i + 1].start = there[i].end + 1
        /\ \A i \in DOMAIN there :
              /\ Consecutive(there[i].entries)
              /\ there[i].end < FirstEpoch + EpochCount

\* run_packed returns Ok only if every epoch asked for is in a file that was
\* written to the end, and no extraction or write that failed is behind it,
\* also when the workers stop early because the writer is gone.
OkMeansComplete ==
    outcome = "ok" =>
        /\ files # <<>>
        /\ files[Len(files)].end = FirstEpoch + EpochCount - 1
        /\ torn = <<>>
        /\ ~SomeFailed

\* A failed extraction costs nothing that was extracted before it: when the
\* writer ends well, the files reach up to the first group that a worker
\* failed on or nobody was left to claim.
PrefixSalvaged ==
    writer = "ok" =>
        /\ \A g \in Group : g < next_group <=>
              \E i \in DOMAIN files : \E j \in DOMAIN files[i].entries :
                 files[i].entries[j] = g
        /\ next_group < GroupCount =>
              \/ nextTask = next_group
              \/ \E w \in Worker : worker[w] = "err" /\ task[w] = next_group
=============================================================================
