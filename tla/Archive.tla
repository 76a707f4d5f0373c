------------------------------ MODULE Archive ------------------------------
(***************************************************************************)
(* The life of an archive directory: runs of extract-packed write          *)
(* containers to it, one behind the other and each in place; some are      *)
(* compressed by hand; a replay lists them, reads them group by group and  *)
(* goes on from its checkpoint when it is started again.  Any of the       *)
(* processes may stop at any time, and they run side by side.              *)
(*                                                                         *)
(* The files are those PackPipeline writes; the executor is not part of    *)
(* the repository, it is what container.rs is written for.                 *)
(***************************************************************************)
EXTENDS Container, FiniteSets

CONSTANTS LastEpoch,        \* epochs are 1..LastEpoch
          GroupEpochs,      \* epochs per group
          MaxPacks,         \* bound on the runs of extract-packed
          MaxFiles,         \* bound on the files of the directory
          MaxReplays        \* bound on the starts of the executor

ASSUME ArchiveAssumption ==
    /\ LastEpoch \in Nat \ {0}
    /\ GroupEpochs \in Nat \ {0}
    /\ {MaxPacks, MaxFiles, MaxReplays} \subseteq Nat

VARIABLES
    archive,                \* the files, by path
    pack,                   \* the range left to pack, and the path being written
    packs,
    pc,                     \* "idle", "reading", "refused" or "done"
    queue,                  \* paths the replay has not opened yet
    entries,                \* groups of the open file not yet looked at
    opened,                 \* the open file, as it was read
    next_expected,
    resume_height,
    executed,               \* the epochs the executor's state has been through
    checkpoint,             \* and those of the state on disk
    replays,
    disturbed               \* the archive has changed under the replay

writing == <<archive, pack, packs>>
reading == <<pc, queue, entries, opened, next_expected, resume_height,
             executed, checkpoint, replays>>
avars   == <<writing, reading, disturbed>>

Epoch == 1..LastEpoch

-----------------------------------------------------------------------------
(* Writing *)

\* The directory with a file at path, new or in place of the one that was there.
Put(path, file) ==
    [p \in DOMAIN archive \cup {path} |-> IF p = path THEN file ELSE archive[p]]

NoPack == [at |-> 1, until |-> 0, open |-> {}]

Idle == pack.at > pack.until

Lower(m, n) == IF m < n THEN m ELSE n

\* The first n groups that are left.
Groups(n) ==
    [i \in 1..n |-> LET start == pack.at + (i - 1) * GroupEpochs
                    IN  [start |-> start,
                         count |-> Lower(GroupEpochs, pack.until - start + 1)]]

Named(groups) == [start |-> groups[1].start, end |-> EndOf(groups[Len(groups)]),
                  ext |-> "cfxpack"]

StartPack ==
    /\ Idle
    /\ packs < MaxPacks
    /\ \E first, last \in Epoch : pack' = [at |-> first, until |-> last, open |-> {}]
    /\ ~Idle'
    /\ packs' = packs + 1
    /\ UNCHANGED <<archive, reading, disturbed>>

\* File::create, and as much of the container as has reached the file.
CreateContainer ==
    /\ ~Idle /\ pack.open = {}
    /\ \E n \in 1..LastEpoch :
          LET groups == Groups(n)
              path   == Named(groups)
          IN  /\ groups[n].count > 0
              /\ Cardinality(DOMAIN archive \cup {path}) <= MaxFiles
              /\ \E size \in 0..(FullSize(groups) - 1) :
                    archive' = Put(path, [entries |-> groups, size |-> size])
              /\ pack' = [pack EXCEPT !.open = {path}]
    /\ disturbed' = TRUE
    /\ UNCHANGED <<packs, reading>>

FinishContainer ==
    /\ ~Idle
    /\ \E path \in pack.open :
          /\ archive' = [archive EXCEPT ![path].size = FullSize(archive[path].entries)]
          /\ pack' = [pack EXCEPT !.at = path.end + 1, !.open = {}]
    /\ disturbed' = TRUE
    /\ UNCHANGED <<packs, reading>>

\* The run fails, or is killed.
StopPack ==
    /\ ~Idle
    /\ pack' = NoPack
    /\ UNCHANGED <<archive, packs, reading, disturbed>>

\* A finished container is compressed, and its original removed or not.
Compress ==
    /\ \E path \in DOMAIN archive \ pack.open :
          LET zst  == [path EXCEPT !.ext = "cfxpack.zst"]
              both == Put(zst, archive[path])
          IN  /\ path.ext = "cfxpack"
              /\ \/ Cardinality(DOMAIN both) <= MaxFiles /\ archive' = both
                 \/ archive' = [p \in DOMAIN both \ {path} |-> both[p]]
    /\ disturbed' = TRUE
    /\ UNCHANGED <<pack, packs, reading>>

\* add-total-reward-flag is killed before it renames a temporary file.
LeaveTmp ==
    /\ \E path \in DOMAIN archive \ pack.open :
          LET tmp == [path EXCEPT !.ext = "cfxpack.tmp"]
          IN  /\ path.ext = "cfxpack" /\ Parses(archive[path])
              /\ Cardinality(DOMAIN archive \cup {tmp}) <= MaxFiles
              /\ archive' = Put(tmp, [archive[path] EXCEPT !.size = 0])
    /\ disturbed' = TRUE
    /\ UNCHANGED <<pack, packs, reading>>

-----------------------------------------------------------------------------
(* Reading *)

HeightOf(epochs) == IF epochs = <<>> THEN 0 ELSE Last(epochs)

\* Some order of the directory is listed and the checkpoint loaded.
StartReplay ==
    /\ pc = "idle"
    /\ replays < MaxReplays
    /\ replays' = replays + 1
    /\ \E listing \in SetToSeqs(DOMAIN archive) : queue' = CollectFiles(listing)
    /\ pc' = IF queue' = <<>> THEN "refused" ELSE "reading"
    /\ executed' = checkpoint
    /\ resume_height' = HeightOf(checkpoint)
    /\ next_expected' = {}
    /\ entries' = <<>>
    /\ opened' = {}
    /\ disturbed' = ~Idle
    /\ UNCHANGED <<writing, checkpoint>>

\* Files whose name ends at or below the resume height are passed over; a file
\* that has gone, or does not parse, ends the run.
OpenFile ==
    /\ pc = "reading" /\ entries = <<>> /\ queue # <<>>
    /\ LET path == Head(queue)
       IN  IF path.end <= resume_height THEN UNCHANGED <<pc, entries, opened>>
           ELSE IF path \in DOMAIN archive /\ Parses(archive[path])
           THEN /\ entries' = archive[path].entries
                /\ opened' = {archive[path]}
                /\ UNCHANGED pc
           ELSE pc' = "refused" /\ UNCHANGED <<entries, opened>>
    /\ queue' = Tail(queue)
    /\ UNCHANGED <<writing, next_expected, resume_height, executed, checkpoint,
                   replays, disturbed>>

\* A group the checkpoint has behind it is passed over; one that does not
\* follow ends the run; any other is executed, epoch by epoch.
ReadGroup ==
    /\ pc = "reading" /\ entries # <<>>
    /\ LET group == Head(entries)
       IN  IF EndOf(group) <= resume_height
           THEN UNCHANGED <<pc, next_expected, executed>>
           ELSE IF Contiguous(group.start, next_expected, resume_height)
           THEN /\ executed' = executed \o [i \in 1..group.count |-> group.start + i - 1]
                /\ next_expected' = {EndOf(group) + 1}
                /\ UNCHANGED pc
           ELSE pc' = "refused" /\ UNCHANGED <<next_expected, executed>>
    /\ entries' = Tail(entries)
    /\ UNCHANGED <<writing, queue, opened, resume_height, checkpoint, replays, disturbed>>

\* Between two groups.
WriteCheckpoint ==
    /\ pc = "reading"
    /\ checkpoint # executed
    /\ checkpoint' = executed
    /\ UNCHANGED <<writing, pc, queue, entries, opened, next_expected, resume_height,
                   executed, replays, disturbed>>

EndReplay ==
    /\ pc = "reading" /\ entries = <<>> /\ queue = <<>>
    /\ pc' = "done"
    /\ UNCHANGED <<writing, queue, entries, opened, next_expected, resume_height,
                   executed, checkpoint, replays, disturbed>>

\* The executor stops, or is killed; all but the checkpoint is gone.
StopReplay ==
    /\ pc # "idle"
    /\ pc' = "idle"
    /\ executed' = checkpoint
    /\ queue' = <<>> /\ entries' = <<>> /\ opened' = {}
    /\ next_expected' = {} /\ resume_height' = 0
    /\ UNCHANGED <<writing, checkpoint, replays, disturbed>>

-----------------------------------------------------------------------------
Init ==
    /\ archive = <<>> /\ pack = NoPack /\ packs = 0
    /\ pc = "idle" /\ queue = <<>> /\ entries = <<>> /\ opened = {}
    /\ next_expected = {} /\ resume_height = 0
    /\ executed = <<>> /\ checkpoint = <<>>
    /\ replays = 0 /\ disturbed = FALSE

WriteStep == \/ StartPack \/ CreateContainer \/ FinishContainer \/ StopPack
             \/ Compress \/ LeaveTmp
ReadStep  == \/ StartReplay \/ OpenFile \/ ReadGroup \/ WriteCheckpoint
             \/ EndReplay \/ StopReplay

Next == WriteStep \/ ReadStep

Spec == Init /\ [][Next]_avars
-----------------------------------------------------------------------------
(* Properties *)

\* The state of the executor has been through consecutive epochs, each once:
\* across files and groups, from whichever listing, and across checkpoints,
\* also when the archive was packed again with other cuts in between.
ExecutesConsecutively ==
    \A i \in 1..(Len(executed) - 1) : executed[i + 1] = executed[i] + 1

\* Nothing is read from a container that was cut short, or is still being
\* written, at whatever byte it ends.
OpensWholeFilesOnly ==
    \A file \in opened : file.size = FullSize(file.entries)

Listed == {path \in DOMAIN archive : IsCfxpack(path)}

Span(path) == path.start..path.end

\* Whole containers, one behind the other without a gap, each plain or
\* compressed or both.
Clean ==
    /\ Listed # {}
    /\ \A path \in Listed : Parses(archive[path])
    /\ \A p, q \in Listed : Span(p) = Span(q) \/ Span(p) \cap Span(q) = {}
    /\ \A e \in Epoch : (/\ \E p \in Listed : p.start <= e
                         /\ \E p \in Listed : p.end >= e)
                        => \E p \in Listed : e \in Span(p)

\* A checkpoint at the end of a group, or outside what the archive holds.
ResumeFits ==
    \/ resume_height = 0
    \/ \A p \in Listed : p.end <= resume_height
    \/ \E p \in Listed : \E i \in DOMAIN archive[p].entries :
          archive[p].entries[i].start = resume_height + 1

\* A clean archive that nobody touches is never refused, wherever the replay
\* was stopped before and whatever else lies in the directory.
CleanArchiveReplays == pc = "refused" /\ ~disturbed => ~Clean \/ ~ResumeFits
=============================================================================
