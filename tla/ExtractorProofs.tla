--------------------------- MODULE ExtractorProofs ---------------------------
(***************************************************************************)
(* The two extraction commands that share a queue of groups: extract-packed *)
(* and extract-shards keep what they promise for every range of epochs,    *)
(* every size of group, any number of workers and every schedule.          *)
(***************************************************************************)
EXTENDS PackPipeline, Shards, FlagPatch, SequenceTheorems, FiniteSetTheorems, FunctionTheorems, TLAPS

(* The groups of a range. *)

\* The groups cover the range: all but the last are full, the last is not empty.
LEMMA GroupCountBounds ==
    /\ GroupCount \in Nat \ {0}
    /\ EpochCount <= GroupCount * ShardEpochs
    /\ (GroupCount - 1) * ShardEpochs < EpochCount
<1> DEFINE n == EpochCount + ShardEpochs - 1
<1>1. n \in Nat /\ n >= ShardEpochs /\ ShardEpochs \in Nat \ {0} /\ EpochCount \in Nat \ {0}
  BY GroupsAssumption
<1>2. /\ n \div ShardEpochs \in Int /\ n % ShardEpochs \in 0..(ShardEpochs - 1)
      /\ n = ShardEpochs * (n \div ShardEpochs) + (n % ShardEpochs)
  BY <1>1
<1>. QED  BY <1>1, <1>2 DEF GroupCount

LEMMA GroupEpochs ==
    ASSUME NEW g \in Group
    PROVE  /\ StartOf(g) \in Nat /\ EndOf(g) \in Nat /\ CountOf(g) \in 1..ShardEpochs
           /\ EndOf(g) < FirstEpoch + EpochCount
           /\ g + 1 < GroupCount => StartOf(g + 1) = EndOf(g) + 1
           /\ g + 1 = GroupCount => EndOf(g) = FirstEpoch + EpochCount - 1
<1>1. /\ g \in Nat /\ g <= GroupCount - 1 /\ g * ShardEpochs \in Nat
      /\ FirstEpoch \in Nat /\ ShardEpochs \in Nat \ {0} /\ EpochCount \in Nat \ {0}
  BY GroupsAssumption, GroupCountBounds DEF Group
<1>2. g * ShardEpochs < EpochCount
  BY <1>1, GroupCountBounds
<1>3. (g + 1) * ShardEpochs = g * ShardEpochs + ShardEpochs
  BY <1>1
<1>4. g + 1 < GroupCount => (g + 1) * ShardEpochs < EpochCount
  BY <1>1, GroupCountBounds
<1>5. g + 1 = GroupCount => EpochCount <= (g + 1) * ShardEpochs
  BY GroupCountBounds
<1>. QED  BY <1>1, <1>2, <1>3, <1>4, <1>5 DEF StartOf, EndOf, CountOf
-----------------------------------------------------------------------------
(* Runs of groups and chains of containers. *)

LastOf(groups) == groups[Len(groups)]

Holds(seq, g) == \E j \in DOMAIN seq : seq[j] = g

\* A container as flush_container builds it, of groups that follow each other.
WholeContainer(c) == /\ c.entries \in Seq(Group) /\ c.entries # <<>>
                     /\ c = Container(c.entries)
                     /\ Consecutive(c.entries)

\* The group behind the last one the containers hold.
Upto(fs) == IF fs = <<>> THEN 0 ELSE LastOf(fs[Len(fs)].entries) + 1

\* The containers hold the groups from the first one on without a gap.
Chain(fs) == /\ \A i \in DOMAIN fs : WholeContainer(fs[i])
             /\ fs # <<>> => fs[1].entries[1] = 0
             /\ \A i \in 1..(Len(fs) - 1) :
                   fs[i + 1].entries[1] = LastOf(fs[i].entries) + 1

InFiles(fs, g) == \E i \in DOMAIN fs : Holds(fs[i].entries, g)

ContainerRecord == [start : Nat, end : Nat, entries : Seq(Group)]

LEMMA HoldsAppend ==
    ASSUME NEW S, NEW seq \in Seq(S), NEW x \in S, NEW g
    PROVE  Holds(Append(seq, x), g) <=> Holds(seq, g) \/ g = x
<1>1. Len(seq) \in Nat /\ Len(Append(seq, x)) = Len(seq) + 1
  OBVIOUS
<1>2. \A j \in 1..Len(seq) : Append(seq, x)[j] = seq[j]
  OBVIOUS
<1>3. Append(seq, x)[Len(seq) + 1] = x
  OBVIOUS
<1>4. DOMAIN seq = 1..Len(seq) /\ DOMAIN Append(seq, x) = 1..(Len(seq) + 1)
  OBVIOUS
<1>. QED  BY <1>1, <1>2, <1>3, <1>4 DEF Holds

LEMMA InFilesAppend ==
    ASSUME NEW S, NEW fs \in Seq(S), NEW c \in S, NEW g
    PROVE  InFiles(Append(fs, c), g) <=> InFiles(fs, g) \/ Holds(c.entries, g)
<1>1. Len(fs) \in Nat /\ \A j \in 1..Len(fs) : Append(fs, c)[j] = fs[j]
  OBVIOUS
<1>2. Append(fs, c)[Len(fs) + 1] = c
  OBVIOUS
<1>3. DOMAIN fs = 1..Len(fs) /\ DOMAIN Append(fs, c) = 1..(Len(fs) + 1)
  OBVIOUS
<1>. QED  BY <1>1, <1>2, <1>3 DEF InFiles

LEMMA ConsecutiveAppend ==
    ASSUME NEW groups \in Seq(Group), Consecutive(groups), NEW g \in Group,
           groups # <<>> => g = LastOf(groups) + 1
    PROVE  /\ Append(groups, g) \in Seq(Group) /\ Append(groups, g) # <<>>
           /\ Consecutive(Append(groups, g)) /\ LastOf(Append(groups, g)) = g
           /\ Append(groups, g)[1] = IF groups = <<>> THEN g ELSE groups[1]
<1> DEFINE grown == Append(groups, g)
<1>1. /\ Len(groups) \in Nat /\ Len(grown) = Len(groups) + 1
      /\ groups # <<>> => Len(groups) >= 1
      /\ groups = <<>> => Len(groups) = 0
  OBVIOUS
<1>2. (\A i \in 1..Len(groups) : grown[i] = groups[i]) /\ grown[Len(groups) + 1] = g
  OBVIOUS
<1>3. Consecutive(grown)
  <2> SUFFICES ASSUME NEW i \in 1..(Len(grown) - 1)
               PROVE  grown[i + 1] = grown[i] + 1
    BY DEF Consecutive
  <2>1. CASE i < Len(groups)
    BY <1>1, <1>2, <2>1 DEF Consecutive
  <2>2. CASE i = Len(groups)
    BY <1>1, <1>2, <2>2 DEF LastOf
  <2>. QED  BY <1>1, <2>1, <2>2
<1>4. grown \in Seq(Group) /\ grown # <<>>
  OBVIOUS
<1>5. LastOf(grown) = g
  BY <1>1, <1>2 DEF LastOf
<1>6. grown[1] = IF groups = <<>> THEN g ELSE groups[1]
  BY <1>1, <1>2
<1>. QED  BY <1>3, <1>4, <1>5, <1>6

LEMMA ContainerOfRun ==
    ASSUME NEW groups \in Seq(Group), groups # <<>>, Consecutive(groups)
    PROVE  /\ WholeContainer(Container(groups)) /\ Container(groups).entries = groups
           /\ Container(groups) \in ContainerRecord
<1>1. Len(groups) \in Nat \ {0} /\ groups[1] \in Group /\ groups[Len(groups)] \in Group
  OBVIOUS
<1>2. StartOf(groups[1]) \in Nat /\ EndOf(groups[Len(groups)]) \in Nat
  BY <1>1, GroupEpochs
<1>. QED  BY <1>2 DEF WholeContainer, Container, ContainerRecord

LEMMA ChainAppend ==
    ASSUME NEW fs \in Seq(ContainerRecord), Chain(fs),
           NEW c \in ContainerRecord, WholeContainer(c), c.entries[1] = Upto(fs)
    PROVE  Chain(Append(fs, c)) /\ Upto(Append(fs, c)) = LastOf(c.entries) + 1
<1> DEFINE more == Append(fs, c)
<1>1. /\ Len(fs) \in Nat /\ Len(more) = Len(fs) + 1
      /\ DOMAIN fs = 1..Len(fs) /\ DOMAIN more = 1..(Len(fs) + 1)
      /\ fs = <<>> <=> Len(fs) = 0
      /\ more # <<>>
  BY EmptySeq, AppendProperties
<1>2. (\A i \in 1..Len(fs) : more[i] = fs[i]) /\ more[Len(fs) + 1] = c
  OBVIOUS
<1>3. \A i \in DOMAIN more : WholeContainer(more[i])
  BY <1>1, <1>2 DEF Chain
<1>4. more[1].entries[1] = 0
  BY <1>1, <1>2 DEF Chain, Upto
<1>5. ASSUME NEW i \in 1..(Len(more) - 1)
      PROVE  more[i + 1].entries[1] = LastOf(more[i].entries) + 1
  <2>1. CASE i < Len(fs)
    BY <1>1, <1>2, <2>1 DEF Chain
  <2>2. CASE i = Len(fs)
    BY <1>1, <1>2, <2>2 DEF Upto
  <2>. QED  BY <1>1, <2>1, <2>2
<1>. QED  BY <1>1, <1>2, <1>3, <1>4, <1>5 DEF Chain, Upto
-----------------------------------------------------------------------------
(* extract-packed: the inductive invariant. *)

\* What the queue and the workers have to do with what has arrived: a group
\* that was claimed is written, on its way, in some worker's hands or failed.
QueueInv ==
    /\ next_group <= nextTask
    /\ \A g \in pending : g < nextTask
    /\ \A i \in DOMAIN results : results[i] < nextTask
    /\ \A w \in Worker : worker[w] \in {"extracting", "err"} => task[w] < nextTask
    /\ writer # "err" =>
          /\ \A g \in Group : g < nextTask =>
                \/ g < next_group \/ g \in pending \/ Holds(results, g)
                \/ \E w \in Worker : worker[w] \in {"extracting", "err"} /\ task[w] = g
          /\ \A w \in Worker : worker[w] = "ok" => nextTask = GroupCount

\* What is written and what is gathered is a run of groups from the first one.
WriterInv ==
    /\ files \in Seq(ContainerRecord)
    /\ Chain(files)
    /\ Consecutive(builder)
    /\ writer # "err" =>
          /\ torn = <<>>
          /\ builder = <<>> => next_group = Upto(files)
          /\ builder # <<>> => /\ builder[1] = Upto(files)
                               /\ next_group = LastOf(builder) + 1
          /\ \A g \in Group : g < next_group <=> InFiles(files, g) \/ Holds(builder, g)
    /\ torn # <<>> =>
          \E c \in ContainerRecord : /\ torn = <<c>> /\ WholeContainer(c)
                                     /\ c.entries[1] = Upto(files)

EndInv ==
    /\ writer = "ok" => WorkersEnded /\ results = <<>> /\ ~Ready /\ builder = <<>>
    /\ outcome = "ok" => WorkersEnded /\ ~SomeFailed /\ writer = "ok"

PackInv == PackTypeOK /\ QueueInv /\ WriterInv /\ EndInv

LEMMA InitPackInv == PackInit => PackInv
<1> SUFFICES ASSUME PackInit
             PROVE  PackInv
  OBVIOUS
<1>1. 0 \in Group /\ GroupCount \in Nat
  BY GroupCountBounds DEF Group
<1>2. PackTypeOK
  BY <1>1 DEF PackInit, TasksInit, PackTypeOK
<1>3. QueueInv
  BY <1>1 DEF PackInit, TasksInit, QueueInv, Group
<1>4. WriterInv
  BY <1>1 DEF PackInit, WriterInv, Chain, Consecutive, Upto, InFiles, Holds, Group
<1>5. EndInv
  BY DEF PackInit, EndInv
<1>. QED  BY <1>2, <1>3, <1>4, <1>5 DEF PackInv

\* Worker steps leave the writer's part alone.
LEMMA WriterUntouched ==
    ASSUME WriterInv, UNCHANGED writing
    PROVE  WriterInv'
BY DEF WriterInv, writing, written

LEMMA ClaimPackInv ==
    ASSUME PackInv, NEW w \in Worker, Claim(w)
    PROVE  PackInv'
<1>1. /\ worker[w] = "ready" /\ nextTask < GroupCount /\ nextTask' = nextTask + 1
      /\ worker' = [worker EXCEPT ![w] = "extracting"]
      /\ task' = [task EXCEPT ![w] = nextTask]
      /\ UNCHANGED <<length, results, writing, outcome>>
  BY DEF Claim, Takes, TasksLeft
<1>2. nextTask \in Group /\ nextTask \in Nat /\ GroupCount \in Nat
  BY <1>1, GroupCountBounds DEF PackInv, PackTypeOK, Group
<1>3. PackTypeOK'
  BY <1>1, <1>2 DEF PackInv, PackTypeOK, writing, written
<1>4. \A g \in Group : g \in Nat
  BY DEF Group
<1>5. /\ next_group \in Nat /\ pending \subseteq Group
      /\ \A i \in DOMAIN results : results[i] \in Group
      /\ \A x \in Worker : task[x] \in Group
  BY GroupCountBounds DEF PackInv, PackTypeOK
<1>6. QueueInv'
  <2>1. /\ UNCHANGED <<next_group, pending, results, writer>>
        /\ \A x \in Worker : x # w => worker'[x] = worker[x] /\ task'[x] = task[x]
        /\ worker'[w] = "extracting" /\ task'[w] = nextTask
    BY <1>1 DEF PackInv, PackTypeOK, writing
  <2>2. (next_group <= nextTask)' /\ (\A g \in pending : g < nextTask)'
    BY <1>1, <1>2, <1>4, <1>5, <2>1 DEF PackInv, QueueInv
  <2>3. ASSUME NEW i \in DOMAIN results
        PROVE  results[i] < nextTask'
    <3>1. results[i] \in Nat /\ results[i] < nextTask
      BY <1>4, <1>5 DEF PackInv, QueueInv
    <3>. QED  BY <1>1, <1>2, <3>1
  <2>4. ASSUME NEW x \in Worker, worker'[x] \in {"extracting", "err"}
        PROVE  task'[x] < nextTask'
    <3>1. CASE x = w
      BY <1>1, <1>2, <2>1, <3>1
    <3>2. CASE x # w
      <4>1. task'[x] \in Nat /\ task'[x] < nextTask
        BY <1>4, <1>5, <2>1, <2>4, <3>2 DEF PackInv, QueueInv
      <4>. QED  BY <1>1, <1>2, <4>1
    <3>. QED  BY <3>1, <3>2
  <2>5. ASSUME writer # "err", NEW g \in Group, g < nextTask'
        PROVE  \/ g < next_group \/ g \in pending \/ Holds(results, g)
               \/ \E x \in Worker : worker'[x] \in {"extracting", "err"} /\ task'[x] = g
    <3>1. CASE g = nextTask
      BY <2>1, <3>1
    <3>2. CASE g < nextTask
      BY <1>1, <2>1, <2>5, <3>2 DEF PackInv, QueueInv
    <3>. QED  BY <1>1, <1>2, <1>4, <2>5, <3>1, <3>2
  <2>6. writer # "err" => \A x \in Worker : worker'[x] # "ok"
    BY <1>1, <1>2, <2>1 DEF PackInv, QueueInv
  <2>. QED  BY <2>1, <2>2, <2>3, <2>4, <2>5, <2>6 DEF QueueInv, Holds
<1>7. EndInv'
  <2>1. writer # "ok" /\ outcome # "ok"
    BY <1>1 DEF PackInv, EndInv, WorkersEnded
  <2>. QED  BY <1>1, <2>1 DEF EndInv, writing
<1>. QED  BY <1>1, <1>3, <1>6, <1>7, WriterUntouched DEF PackInv

LEMMA DrainedPackInv ==
    ASSUME PackInv, NEW w \in Worker, Drained(w)
    PROVE  PackInv'
<1>1. /\ worker[w] = "ready" /\ ~(nextTask < GroupCount)
      /\ worker' = [worker EXCEPT ![w] = "ok"]
      /\ UNCHANGED <<nextTask, task, length, results, writing, outcome>>
  BY DEF Drained, Turns, TasksLeft
<1>2. nextTask = GroupCount
  BY <1>1, GroupCountBounds DEF PackInv, PackTypeOK
<1>3. PackTypeOK'
  BY <1>1 DEF PackInv, PackTypeOK, writing, written
<1>4. /\ UNCHANGED <<next_group, pending, results, writer>>
      /\ \A x \in Worker : x # w => worker'[x] = worker[x]
      /\ worker'[w] = "ok"
  BY <1>1 DEF PackInv, PackTypeOK, writing
<1>5. QueueInv'
  BY <1>1, <1>2, <1>4 DEF PackInv, QueueInv, Holds
<1>6. EndInv'
  <2>1. writer # "ok" /\ outcome # "ok"
    BY <1>1 DEF PackInv, EndInv, WorkersEnded
  <2>. QED  BY <1>1, <2>1 DEF EndInv, writing
<1>. QED  BY <1>1, <1>3, <1>5, <1>6, WriterUntouched DEF PackInv

LEMMA DeliverPackInv ==
    ASSUME PackInv, NEW w \in Worker, Deliver(w)
    PROVE  PackInv'
<1>1. /\ worker[w] = "extracting" /\ task[w] \in Group /\ results \in Seq(Group)
      /\ UNCHANGED <<nextTask, task, length, writing, outcome>>
  BY DEF Deliver, Turns, PackInv, PackTypeOK
<1>2. writer # "ok" /\ outcome # "ok"
  BY <1>1 DEF PackInv, EndInv, WorkersEnded
<1>3. EndInv'
  BY <1>1, <1>2 DEF EndInv, writing
<1>4. UNCHANGED <<next_group, pending, writer>>
  BY <1>1 DEF writing
<1>5. CASE writer = "running"
  <2>1. worker' = [worker EXCEPT ![w] = "ready"] /\ results' = Append(results, task[w])
    BY <1>5 DEF Deliver, Turns
  <2>2. PackTypeOK'
    BY <1>1, <2>1 DEF PackInv, PackTypeOK, writing, written
  <2>3. /\ \A x \in Worker : x # w => worker'[x] = worker[x]
        /\ worker'[w] = "ready"
    BY <2>1 DEF PackInv, PackTypeOK
  <2>4. \A g : Holds(results', g) <=> Holds(results, g) \/ g = task[w]
    BY <1>1, <2>1, HoldsAppend
  <2>5. \A i \in DOMAIN results' : results'[i] < nextTask
    <3>1. \A i \in DOMAIN results' : Holds(results', results'[i])
      BY DEF Holds
    <3>2. \A g : Holds(results, g) => g < nextTask
      BY DEF PackInv, QueueInv, Holds
    <3>3. task[w] < nextTask
      BY <1>1 DEF PackInv, QueueInv
    <3>. QED  BY <2>4, <3>1, <3>2, <3>3
  <2>6. ASSUME NEW g \in Group, g < nextTask
        PROVE  \/ g < next_group \/ g \in pending \/ Holds(results', g)
               \/ \E x \in Worker : worker'[x] \in {"extracting", "err"} /\ task[x] = g
    BY <1>5, <2>3, <2>4, <2>6 DEF PackInv, QueueInv
  <2>7. \A x \in Worker : worker'[x] = "ok" => nextTask = GroupCount
    BY <1>5, <2>3 DEF PackInv, QueueInv
  <2>8. \A x \in Worker : worker'[x] \in {"extracting", "err"} => task[x] < nextTask
    BY <2>3 DEF PackInv, QueueInv
  <2>9. \A g : Holds(results, g)' <=> Holds(results', g)
    BY DEF Holds
  <2>10. QueueInv'
    BY <1>1, <1>4, <2>5, <2>6, <2>7, <2>8, <2>9 DEF PackInv, QueueInv
  <2>. QED  BY <1>1, <1>3, <2>2, <2>10, WriterUntouched DEF PackInv
<1>6. CASE writer # "running"
  <2>1. worker' = [worker EXCEPT ![w] = "ok"] /\ results' = results /\ writer = "err"
    BY <1>2, <1>6 DEF Deliver, Turns, PackInv, PackTypeOK
  <2>2. PackTypeOK'
    BY <1>1, <2>1 DEF PackInv, PackTypeOK, writing, written
  <2>3. QueueInv'
    BY <1>1, <1>4, <2>1 DEF PackInv, PackTypeOK, QueueInv
  <2>. QED  BY <1>1, <1>3, <2>2, <2>3, WriterUntouched DEF PackInv
<1>. QED  BY <1>5, <1>6

LEMMA ExtractFailsPackInv ==
    ASSUME PackInv, NEW w \in Worker, ExtractFails(w)
    PROVE  PackInv'
<1>1. /\ worker[w] = "extracting"
      /\ worker' = [worker EXCEPT ![w] = "err"]
      /\ UNCHANGED <<nextTask, task, length, results, writing, outcome>>
  BY DEF ExtractFails, Turns
<1>2. PackTypeOK'
  BY <1>1 DEF PackInv, PackTypeOK, writing, written
<1>3. /\ UNCHANGED <<next_group, pending, results, writer>>
      /\ \A x \in Worker : x # w => worker'[x] = worker[x]
      /\ worker'[w] = "err"
  BY <1>1 DEF PackInv, PackTypeOK, writing
<1>4. QueueInv'
  BY <1>1, <1>3 DEF PackInv, QueueInv, Holds
<1>5. EndInv'
  <2>1. writer # "ok" /\ outcome # "ok"
    BY <1>1 DEF PackInv, EndInv, WorkersEnded
  <2>. QED  BY <1>1, <2>1 DEF EndInv, writing
<1>. QED  BY <1>1, <1>2, <1>4, <1>5, WriterUntouched DEF PackInv

LEMMA ReceivePackInv ==
    ASSUME PackInv, Receive
    PROVE  PackInv'
<1>1. /\ writer = "running" /\ results # <<>>
      /\ pending' = pending \cup {Head(results)} /\ results' = Tail(results)
      /\ UNCHANGED <<tasks, length, next_group, written, writer, outcome>>
  BY DEF Receive
<1>2. UNCHANGED <<nextTask, worker, task, builder, files, torn>>
  BY <1>1 DEF tasks, written
<1>3. results \in Seq(Group) /\ Head(results) \in Group /\ Tail(results) \in Seq(Group)
  BY <1>1, HeadTailProperties DEF PackInv, PackTypeOK
<1>4. PackTypeOK'
  BY <1>1, <1>2, <1>3 DEF PackInv, PackTypeOK
<1>5. /\ \A i \in DOMAIN results' : \E j \in DOMAIN results : results'[i] = results[j]
      /\ \A j \in DOMAIN results : \/ results[j] = Head(results)
                                   \/ \E i \in DOMAIN results' : results'[i] = results[j]
      /\ 1 \in DOMAIN results /\ Head(results) = results[1]
  <2>1. /\ Len(results) \in Nat \ {0} /\ DOMAIN results = 1..Len(results)
        /\ Head(results) = results[1]
    BY <1>1, <1>3
  <2>2. /\ Len(results') = Len(results) - 1 /\ DOMAIN results' = 1..(Len(results) - 1)
        /\ \A i \in 1..(Len(results) - 1) : results'[i] = results[i + 1]
    BY <1>1, <1>3, <2>1, HeadTailProperties
  <2>3. \A i \in DOMAIN results' : i + 1 \in DOMAIN results
    BY <2>1, <2>2
  <2>4. ASSUME NEW j \in DOMAIN results, j # 1
        PROVE  j - 1 \in DOMAIN results' /\ results'[j - 1] = results[j]
    BY <2>1, <2>2, <2>4
  <2>. QED  BY <2>1, <2>2, <2>3, <2>4
<1>6. \A g : Holds(results, g) => Holds(results', g) \/ g \in pending'
  BY <1>1, <1>5 DEF Holds
<1>7. QueueInv'
  <2>1. \A g \in pending' : g < nextTask
    BY <1>1, <1>5 DEF PackInv, QueueInv
  <2>2. \A i \in DOMAIN results' : results'[i] < nextTask
    BY <1>5 DEF PackInv, QueueInv
  <2>3. \A g \in Group : g < nextTask =>
           \/ g < next_group \/ g \in pending' \/ Holds(results', g)
           \/ \E w \in Worker : worker[w] \in {"extracting", "err"} /\ task[w] = g
    BY <1>1, <1>6 DEF PackInv, QueueInv
  <2>4. \A g : Holds(results, g)' <=> Holds(results', g)
    BY DEF Holds
  <2>. QED  BY <1>1, <1>2, <2>1, <2>2, <2>3, <2>4 DEF PackInv, QueueInv
<1>8. WriterInv'
  BY <1>1, <1>2 DEF PackInv, WriterInv
<1>9. EndInv'
  BY <1>1 DEF PackInv, EndInv
<1>. QED  BY <1>4, <1>7, <1>8, <1>9 DEF PackInv

\* A run of groups behind the files becomes the last of them, or is left behind
\* by a flush that failed.
LEMMA FlushedChain ==
    ASSUME files \in Seq(ContainerRecord), Chain(files),
           NEW run \in Seq(Group), run # <<>>, Consecutive(run), run[1] = Upto(files)
    PROVE  /\ Flushes(run) => /\ files' \in Seq(ContainerRecord) /\ Chain(files')
                              /\ Upto(files') = LastOf(run) + 1 /\ files' # <<>>
                              /\ \A g : InFiles(files', g) <=>
                                    InFiles(files, g) \/ Holds(run, g)
           /\ FlushFails(run) /\ torn' # <<>> =>
                 \E c \in ContainerRecord : /\ torn' = <<c>> /\ WholeContainer(c)
                                            /\ c.entries[1] = Upto(files')
<1> DEFINE c == Container(run)
<1>1. WholeContainer(c) /\ c.entries = run /\ c \in ContainerRecord
  BY ContainerOfRun
<1>2. CASE Flushes(run)
  <2>1. files' = Append(files, c)
    BY <1>2 DEF Flushes
  <2>2. files' \in Seq(ContainerRecord) /\ files' # <<>>
    BY <1>1, <2>1, AppendProperties
  <2>3. Chain(files') /\ Upto(files') = LastOf(run) + 1
    BY <1>1, <2>1, ChainAppend
  <2>4. \A g : InFiles(files', g) <=> InFiles(files, g) \/ Holds(run, g)
    BY <1>1, <2>1, InFilesAppend
  <2>5. torn' = torn
    BY <1>2 DEF Flushes
  <2>6. ~FlushFails(run)
    <3>1. files' # files
      <4>1. Len(Append(files, c)) # Len(files)
        BY <1>1, AppendProperties
      <4>. QED  BY <2>1, <4>1
    <3>. QED  BY <3>1 DEF FlushFails
  <2>. QED  BY <2>2, <2>3, <2>4, <2>6
<1>3. CASE FlushFails(run) /\ ~Flushes(run)
  <2>1. files' = files /\ torn' \in {<<>>, <<c>>}
    BY <1>3 DEF FlushFails
  <2>. QED  BY <1>1, <1>3, <2>1
<1>. QED  BY <1>2, <1>3

LEMMA EmitPackInv ==
    ASSUME PackInv, Emit
    PROVE  PackInv'
<1> DEFINE g == next_group
           grown == Append(builder, g)
<1>1. /\ writer = "running" /\ g \in pending
      /\ pending' = pending \ {g} /\ next_group' = g + 1
      /\ AddToContainer(g)
      /\ UNCHANGED <<tasks, length, results, outcome>>
  BY DEF Emit, Ready
<1>2. UNCHANGED <<nextTask, worker, task>>
  BY <1>1 DEF tasks
<1>3. /\ g \in Group /\ g \in Nat /\ g < GroupCount /\ GroupCount \in Nat
      /\ g < nextTask /\ nextTask \in Nat
      /\ \A h \in Group : h \in Nat
  BY <1>1, GroupCountBounds DEF PackInv, PackTypeOK, QueueInv, Group
<1>4. builder \in Seq(Group) /\ Consecutive(builder) /\ (builder # <<>> => g = LastOf(builder) + 1)
  BY <1>1 DEF PackInv, PackTypeOK, WriterInv
<1>5. /\ grown \in Seq(Group) /\ grown # <<>> /\ Consecutive(grown)
      /\ LastOf(grown) = g
      /\ grown[1] = IF builder = <<>> THEN g ELSE builder[1]
  BY <1>3, <1>4, ConsecutiveAppend
<1>6. grown[1] = Upto(files)
  BY <1>1, <1>5 DEF PackInv, WriterInv
<1>7. \A h : Holds(grown, h) <=> Holds(builder, h) \/ h = g
  BY <1>3, <1>4, HoldsAppend
<1>8. \A h \in Group : h < g + 1 <=> InFiles(files, h) \/ Holds(grown, h)
  BY <1>1, <1>3, <1>7 DEF PackInv, WriterInv
<1>9. \/ builder' = grown /\ UNCHANGED <<files, torn, writer>>
      \/ Flushes(grown) /\ writer' = writer
      \/ FlushFails(grown) /\ writer' = "err"
  BY <1>1 DEF AddToContainer
<1> HIDE DEF grown
<1>10. files \in Seq(ContainerRecord) /\ Chain(files)
  BY DEF PackInv, WriterInv
<1>11. \A h : (InFiles(files, h)' <=> InFiles(files', h)) /\ (Holds(builder, h)' <=> Holds(builder', h))
  BY DEF InFiles, Holds
<1>12. torn = <<>>
  BY <1>1 DEF PackInv, WriterInv
<1>13. WriterInv' /\ builder' \in Seq(Group) /\ writer' \in {"running", "err"}
  <2>1. CASE builder' = grown /\ UNCHANGED <<files, torn, writer>>
    BY <1>1, <1>3, <1>5, <1>6, <1>8, <1>10, <1>11, <1>12, <2>1 DEF WriterInv
  <2>2. CASE Flushes(grown) /\ writer' = writer
    <3>1. /\ files' \in Seq(ContainerRecord) /\ Chain(files') /\ Upto(files') = g + 1
          /\ \A h : InFiles(files', h) <=> InFiles(files, h) \/ Holds(grown, h)
      BY <1>5, <1>6, <1>10, <2>2, FlushedChain
    <3>2. builder' = <<>> /\ torn' = torn
      BY <2>2 DEF Flushes
    <3>3. Consecutive(builder') /\ \A h : ~Holds(builder', h)
      BY <3>2 DEF Consecutive, Holds
    <3>. QED  BY <1>1, <1>8, <1>11, <1>12, <2>2, <3>1, <3>2, <3>3 DEF WriterInv
  <2>3. CASE FlushFails(grown) /\ writer' = "err"
    <3>1. files' = files /\ builder' = builder
      BY <2>3 DEF FlushFails
    <3>2. torn' # <<>> =>
             \E c \in ContainerRecord : /\ torn' = <<c>> /\ WholeContainer(c)
                                        /\ c.entries[1] = Upto(files')
      BY <1>5, <1>6, <1>10, <2>3, FlushedChain
    <3>. QED  BY <1>4, <1>10, <2>3, <3>1, <3>2 DEF WriterInv
  <2>. QED  BY <1>9, <2>1, <2>2, <2>3
<1>14. PackTypeOK'
  BY <1>1, <1>2, <1>3, <1>13 DEF PackInv, PackTypeOK
<1>15. QueueInv'
  <2>1. \A h \in Group : h < nextTask =>
           \/ h < g + 1 \/ h \in pending' \/ Holds(results, h)
           \/ \E w \in Worker : worker[w] \in {"extracting", "err"} /\ task[w] = h
    <3> DEFINE InHands(h) == \E w \in Worker : worker[w] \in {"extracting", "err"} /\ task[w] = h
    <3> SUFFICES ASSUME NEW h \in Group, h < nextTask
                 PROVE  h < g + 1 \/ h \in pending' \/ Holds(results, h) \/ InHands(h)
      OBVIOUS
    <3>1. h < g \/ h \in pending \/ Holds(results, h) \/ InHands(h)
      BY <1>1 DEF PackInv, QueueInv
    <3> HIDE DEF InHands
    <3>2. h < g => h < g + 1
      BY <1>3
    <3>3. h = g => h < g + 1
      BY <1>3
    <3>4. h \in pending => h = g \/ h \in pending'
      BY <1>1
    <3>. QED  BY <3>1, <3>2, <3>3, <3>4
  <2>2. \A h : Holds(results, h)' <=> Holds(results, h)
    BY <1>1 DEF Holds
  <2>3. g + 1 <= nextTask
    BY <1>3
  <2>. QED  BY <1>1, <1>2, <2>1, <2>2, <2>3 DEF PackInv, QueueInv
<1>16. EndInv'
  BY <1>1, <1>13 DEF PackInv, EndInv
<1>. QED  BY <1>13, <1>14, <1>15, <1>16 DEF PackInv

LEMMA ClosePackInv ==
    ASSUME PackInv, Close
    PROVE  PackInv'
<1>1. /\ writer = "running" /\ ~Ready /\ results = <<>> /\ WorkersEnded
      /\ UNCHANGED <<tasks, length, results, pending, next_group, outcome>>
  BY DEF Close
<1>2. UNCHANGED <<nextTask, worker, task>>
  BY <1>1 DEF tasks
<1>3. files \in Seq(ContainerRecord) /\ Chain(files) /\ torn = <<>>
  BY <1>1 DEF PackInv, WriterInv
<1>4. builder \in Seq(Group) /\ Consecutive(builder)
  BY DEF PackInv, PackTypeOK, WriterInv
<1>5. builder # <<>> => builder[1] = Upto(files) /\ next_group = LastOf(builder) + 1
  BY <1>1 DEF PackInv, WriterInv
<1>6. \/ builder # <<>> /\ Flushes(builder) /\ writer' = "ok"
      \/ builder = <<>> /\ UNCHANGED written /\ writer' = "ok"
      \/ builder # <<>> /\ FlushFails(builder) /\ writer' = "err"
  BY DEF Close
<1>7. \A h : (InFiles(files, h)' <=> InFiles(files', h)) /\ (Holds(builder, h)' <=> Holds(builder', h))
  BY DEF InFiles, Holds
<1>8. WriterInv' /\ builder' \in Seq(Group) /\ (writer' = "ok" => builder' = <<>>)
  <2>1. CASE builder # <<>> /\ Flushes(builder) /\ writer' = "ok"
    <3>1. /\ files' \in Seq(ContainerRecord) /\ Chain(files') /\ Upto(files') = next_group
          /\ \A h : InFiles(files', h) <=> InFiles(files, h) \/ Holds(builder, h)
      BY <1>3, <1>4, <1>5, <2>1, FlushedChain
    <3>2. builder' = <<>> /\ torn' = torn
      BY <2>1 DEF Flushes
    <3>3. Consecutive(builder') /\ \A h : ~Holds(builder', h)
      BY <3>2 DEF Consecutive, Holds
    <3>4. \A h \in Group : h < next_group <=> InFiles(files', h) \/ Holds(builder', h)
      BY <1>1, <3>1, <3>3 DEF PackInv, WriterInv
    <3>. QED  BY <1>1, <1>3, <1>7, <2>1, <3>1, <3>2, <3>3, <3>4 DEF WriterInv
  <2>2. CASE builder = <<>> /\ UNCHANGED written /\ writer' = "ok"
    BY <1>1, <1>4, <2>2 DEF PackInv, WriterInv, written, InFiles, Holds
  <2>3. CASE builder # <<>> /\ FlushFails(builder) /\ writer' = "err"
    <3>1. files' = files /\ builder' = builder
      BY <2>3 DEF FlushFails
    <3>2. torn' # <<>> =>
             \E c \in ContainerRecord : /\ torn' = <<c>> /\ WholeContainer(c)
                                        /\ c.entries[1] = Upto(files')
      BY <1>3, <1>4, <1>5, <2>3, FlushedChain
    <3>. QED  BY <1>3, <1>4, <2>3, <3>1, <3>2 DEF WriterInv
  <2>. QED  BY <1>6, <2>1, <2>2, <2>3
<1>9. PackTypeOK'
  BY <1>1, <1>2, <1>6, <1>8 DEF PackInv, PackTypeOK
<1>10. QueueInv'
  BY <1>1, <1>2 DEF PackInv, QueueInv, Holds
<1>11. EndInv'
  BY <1>1, <1>2, <1>8 DEF PackInv, EndInv, WorkersEnded, Ready
<1>. QED  BY <1>8, <1>9, <1>10, <1>11 DEF PackInv

LEMMA JoinPackInv ==
    ASSUME PackInv, Join
    PROVE  PackInv'
<1>1. /\ WorkersEnded /\ writer # "running" /\ outcome' = Verdict
      /\ UNCHANGED <<tasks, length, results, writing>>
  BY DEF Join
<1>2. PackTypeOK'
  BY <1>1 DEF PackInv, PackTypeOK, tasks, writing, written, Verdict
<1>3. QueueInv'
  BY <1>1 DEF PackInv, QueueInv, Holds, tasks, writing
<1>4. EndInv'
  BY <1>1 DEF PackInv, EndInv, WorkersEnded, Ready, SomeFailed, Verdict, tasks, writing, written
<1>. QED  BY <1>1, <1>2, <1>3, <1>4, WriterUntouched DEF PackInv

LEMMA PackInvariance == PackSpec => []PackInv
<1>1. PackInv /\ [PackNext]_pvars => PackInv'
  <2> SUFFICES ASSUME PackInv, [PackNext]_pvars
               PROVE  PackInv'
    OBVIOUS
  <2>1. CASE UNCHANGED pvars
    <3>1. UNCHANGED <<nextTask, worker, task, length, results, pending, next_group,
                      builder, files, torn, writer, outcome>>
      BY <2>1 DEF pvars, tasks, writing, written
    <3>2. UNCHANGED writing
      BY <2>1 DEF pvars
    <3>. QED  BY <3>1, <3>2, WriterUntouched
              DEF PackInv, PackTypeOK, QueueInv, EndInv, Holds, WorkersEnded, SomeFailed, Ready
  <2>. QED
    BY <2>1, ClaimPackInv, DrainedPackInv, DeliverPackInv, ExtractFailsPackInv,
       ReceivePackInv, EmitPackInv, ClosePackInv, JoinPackInv
       DEF PackNext, PackWorker, PackWriter
<1>. QED  BY <1>1, InitPackInv, PTL DEF PackSpec

-----------------------------------------------------------------------------
(* extract-packed: what follows. *)

LEMMA ChainJoins ==
    ASSUME NEW fs \in Seq(ContainerRecord), Chain(fs)
    PROVE  /\ fs # <<>> => fs[1].start = FirstEpoch
           /\ \A i \in 1..(Len(fs) - 1) : fs[i + 1].start = fs[i].end + 1
           /\ \A i \in DOMAIN fs : /\ Consecutive(fs[i].entries)
                                   /\ fs[i].end < FirstEpoch + EpochCount
<1>1. ASSUME NEW i \in DOMAIN fs
      PROVE  /\ fs[i].entries[1] \in Group /\ LastOf(fs[i].entries) \in Group
             /\ fs[i].start = StartOf(fs[i].entries[1])
             /\ fs[i].end = EndOf(LastOf(fs[i].entries))
             /\ Consecutive(fs[i].entries)
  <2>1. WholeContainer(fs[i])
    BY DEF Chain
  <2>2. Len(fs[i].entries) \in Nat \ {0}
    BY <2>1, EmptySeq DEF WholeContainer
  <2>. QED  BY <2>1, <2>2 DEF WholeContainer, Container, LastOf
<1>2. Len(fs) \in Nat /\ DOMAIN fs = 1..Len(fs) /\ (fs # <<>> => Len(fs) \in Nat \ {0})
  BY EmptySeq
<1>3. fs # <<>> => fs[1].start = FirstEpoch
  <2>1. SUFFICES ASSUME fs # <<>>
                 PROVE  fs[1].start = FirstEpoch
    OBVIOUS
  <2>2. 1 \in DOMAIN fs /\ fs[1].entries[1] = 0
    BY <1>2, <2>1 DEF Chain
  <2>. QED  BY <1>1, <2>2, GroupsAssumption DEF StartOf
<1>4. ASSUME NEW i \in 1..(Len(fs) - 1)
      PROVE  fs[i + 1].start = fs[i].end + 1
  <2>1. i \in DOMAIN fs /\ i + 1 \in DOMAIN fs
    BY <1>2
  <2>2. fs[i + 1].entries[1] = LastOf(fs[i].entries) + 1
    BY DEF Chain
  <2>3. LastOf(fs[i].entries) + 1 < GroupCount
    BY <1>1, <2>1, <2>2, GroupCountBounds DEF Group
  <2>. QED  BY <1>1, <2>1, <2>2, <2>3, GroupEpochs
<1>5. \A i \in DOMAIN fs : fs[i].end < FirstEpoch + EpochCount
  BY <1>1, GroupEpochs
<1>. QED  BY <1>1, <1>3, <1>4, <1>5

\* What is there, a container that a failed flush left behind included, joins.
LEMMA ThereChains ==
    ASSUME WriterInv
    PROVE  files \o torn \in Seq(ContainerRecord) /\ Chain(files \o torn)
<1>1. files \in Seq(ContainerRecord) /\ Chain(files)
  BY DEF WriterInv
<1>2. CASE torn = <<>>
  <2>1. files \o torn = files
    BY <1>1, <1>2
  <2>. QED  BY <1>1, <2>1
<1>3. CASE torn # <<>>
  <2>1. PICK c \in ContainerRecord : /\ torn = <<c>> /\ WholeContainer(c)
                                     /\ c.entries[1] = Upto(files)
    BY <1>3 DEF WriterInv
  <2>2. files \o torn = Append(files, c)
    BY <1>1, <2>1, AppendIsConcat
  <2>3. Append(files, c) \in Seq(ContainerRecord)
    BY <1>1
  <2>4. Chain(Append(files, c))
    BY <1>1, <2>1, ChainAppend
  <2>. QED  BY <2>2, <2>3, <2>4
<1>. QED  BY <1>2, <1>3

\* The containers join without a gap or an overlap, in whatever order the
\* workers delivered and whichever flush failed.
THEOREM FilesJoinAlways == PackSpec => []FilesJoin
<1>1. PackInv => FilesJoin
  <2> SUFFICES ASSUME PackInv
               PROVE  FilesJoin
    OBVIOUS
  <2>1. files \o torn \in Seq(ContainerRecord) /\ Chain(files \o torn)
    BY ThereChains DEF PackInv
  <2>. QED  BY <2>1, ChainJoins DEF FilesJoin
<1>. QED  BY <1>1, PackInvariance, PTL

\* When the writer ends well the first group that is missing failed, or nobody
\* was left to claim it.
LEMMA FirstMissing ==
    ASSUME PackInv, writer = "ok", next_group < GroupCount
    PROVE  \/ nextTask = next_group
           \/ \E w \in Worker : worker[w] = "err" /\ task[w] = next_group
<1>1. /\ next_group \in Group /\ next_group \in Nat /\ nextTask \in Nat
      /\ next_group <= nextTask
  BY GroupCountBounds DEF PackInv, PackTypeOK, QueueInv, Group
<1>2. results = <<>> /\ next_group \notin pending /\ WorkersEnded
  BY DEF PackInv, EndInv, Ready
<1>3. ~Holds(results, next_group)
  BY <1>2 DEF Holds
<1>4. next_group < nextTask =>
         \E w \in Worker : worker[w] \in {"extracting", "err"} /\ task[w] = next_group
  BY <1>1, <1>2, <1>3 DEF PackInv, QueueInv
<1>. QED  BY <1>1, <1>2, <1>4 DEF WorkersEnded

\* What was extracted before the first failure is in the files, and nothing else.
THEOREM PrefixSalvagedAlways == PackSpec => []PrefixSalvaged
<1>1. PackInv => PrefixSalvaged
  <2> SUFFICES ASSUME PackInv, writer = "ok"
               PROVE  /\ \A g \in Group : g < next_group <=>
                            \E i \in DOMAIN files : \E j \in DOMAIN files[i].entries :
                               files[i].entries[j] = g
                      /\ next_group < GroupCount =>
                            \/ nextTask = next_group
                            \/ \E w \in Worker : worker[w] = "err" /\ task[w] = next_group
    BY DEF PrefixSalvaged
  <2>1. \A g : ~Holds(builder, g)
    BY DEF PackInv, EndInv, Holds
  <2>2. \A g \in Group : g < next_group <=> InFiles(files, g)
    BY <2>1 DEF PackInv, WriterInv
  <2>. QED  BY <2>2, FirstMissing DEF InFiles, Holds
<1>. QED  BY <1>1, PackInvariance, PTL

\* Ok is never returned for an archive that lacks an epoch.
THEOREM OkMeansCompleteAlways == PackSpec => []OkMeansComplete
<1>1. PackInv => OkMeansComplete
  <2> SUFFICES ASSUME PackInv, outcome = "ok"
               PROVE  /\ files # <<>>
                      /\ files[Len(files)].end = FirstEpoch + EpochCount - 1
                      /\ torn = <<>> /\ ~SomeFailed
    BY DEF OkMeansComplete
  <2>1. WorkersEnded /\ ~SomeFailed /\ writer = "ok" /\ builder = <<>>
    BY DEF PackInv, EndInv
  <2>2. torn = <<>> /\ next_group = Upto(files) /\ files \in Seq(ContainerRecord) /\ Chain(files)
    BY <2>1 DEF PackInv, WriterInv
  <2>3. nextTask = GroupCount
    <3>1. PICK w \in Worker : TRUE
      BY GroupsAssumption
    <3>2. worker[w] = "ok"
      BY <2>1 DEF WorkersEnded, SomeFailed
    <3>. QED  BY <2>1, <3>2 DEF PackInv, QueueInv
  <2>4. next_group = GroupCount
    <3>1. next_group \in Nat /\ next_group <= GroupCount
      BY GroupCountBounds DEF PackInv, PackTypeOK
    <3>2. CASE next_group < GroupCount
      BY <2>1, <2>3, <3>2, FirstMissing DEF SomeFailed
    <3>. QED  BY <3>1, <3>2, GroupCountBounds
  <2>5. files # <<>> /\ Len(files) \in DOMAIN files
    <3>1. files # <<>>
      BY <2>2, <2>4, GroupCountBounds DEF Upto
    <3>. QED  BY <2>2, <3>1, EmptySeq
  <2> DEFINE last == files[Len(files)]
  <2>6. WholeContainer(last)
    BY <2>2, <2>5 DEF Chain
  <2>7. last.end = EndOf(LastOf(last.entries)) /\ LastOf(last.entries) \in Group
    <3>1. Len(last.entries) \in Nat \ {0} /\ last.entries \in Seq(Group)
      BY <2>6, EmptySeq DEF WholeContainer
    <3>. QED  BY <2>6, <3>1 DEF WholeContainer, Container, LastOf
  <2>8. LastOf(last.entries) + 1 = GroupCount
    BY <2>2, <2>4, <2>5 DEF Upto
  <2>. QED  BY <2>1, <2>2, <2>5, <2>7, <2>8, GroupEpochs
<1>. QED  BY <1>1, PackInvariance, PTL

-----------------------------------------------------------------------------
(* extract-shards: the inductive invariant. *)

Busy(w) == worker[w] \in {"extracting", "writing"}

ShardsTypeOK ==
    /\ nextTask \in 0..GroupCount
    /\ worker \in [Worker -> {"ready", "extracting", "writing", "ok", "err"}]
    /\ task \in [Worker -> Group]
    /\ shard_file \in [Group -> {"left", "torn", "whole"}]
    /\ reports \in [Worker -> SUBSET Group]
    /\ shards_outcome \in {"running", "ok", "err"}

\* No two workers hold the same group, and none holds one that is reported; a
\* reported group has a whole file; a group that was claimed is reported, in
\* the hands of a worker, or what a worker failed on.
ShardQueueInv ==
    /\ \A w \in Worker : Busy(w) => task[w] < nextTask
    /\ \A w, x \in Worker : Busy(w) /\ Busy(x) /\ w # x => task[w] # task[x]
    /\ \A x \in Worker : \A g \in reports[x] :
          /\ g < nextTask /\ shard_file[g] = "whole"
          /\ \A w \in Worker : Busy(w) => task[w] # g
    /\ \A g \in Group : g < nextTask =>
          \/ \E x \in Worker : g \in reports[x]
          \/ \E w \in Worker : (Busy(w) \/ worker[w] = "err") /\ task[w] = g
    /\ \A w \in Worker : worker[w] = "ok" => nextTask = GroupCount

ShardsInv == /\ ShardsTypeOK /\ ShardQueueInv
             /\ shards_outcome # "running" => WorkersEnded
             /\ shards_outcome = "ok" => ~SomeFailed

LEMMA InitShardsInv == ShardsInit => ShardsInv
<1> SUFFICES ASSUME ShardsInit
             PROVE  ShardsInv
  OBVIOUS
<1>1. 0 \in Group /\ GroupCount \in Nat /\ \A g \in Group : g \in Nat
  BY GroupCountBounds DEF Group
<1>2. ShardsTypeOK
  BY <1>1 DEF ShardsInit, TasksInit, ShardsTypeOK
<1>3. ShardQueueInv
  BY <1>1 DEF ShardsInit, TasksInit, ShardQueueInv, Busy
<1>. QED  BY <1>2, <1>3 DEF ShardsInit, ShardsInv

LEMMA StartShardInv ==
    ASSUME ShardsInv, NEW w \in Worker, StartShard(w)
    PROVE  ShardsInv'
<1>1. /\ worker[w] = "ready" /\ nextTask < GroupCount /\ nextTask' = nextTask + 1
      /\ worker' = [worker EXCEPT ![w] = "extracting"]
      /\ task' = [task EXCEPT ![w] = nextTask]
      /\ UNCHANGED <<shard_file, reports, shards_outcome>>
  BY DEF StartShard, Takes, TasksLeft
<1>2. /\ nextTask \in Group /\ nextTask \in Nat /\ GroupCount \in Nat
      /\ \A g \in Group : g \in Nat
  BY <1>1, GroupCountBounds DEF ShardsInv, ShardsTypeOK, Group
<1>3. ShardsTypeOK'
  BY <1>1, <1>2 DEF ShardsInv, ShardsTypeOK
<1>4. /\ \A x \in Worker : x # w => /\ worker'[x] = worker[x] /\ task'[x] = task[x]
                                    /\ Busy(x)' = Busy(x)
      /\ worker'[w] = "extracting" /\ task'[w] = nextTask /\ Busy(w)' /\ ~Busy(w)
      /\ \A x \in Worker : task[x] \in Nat /\ reports[x] \subseteq Group
  BY <1>1, <1>2 DEF ShardsInv, ShardsTypeOK, Busy
<1>5. ASSUME NEW x \in Worker, Busy(x)'
      PROVE  task'[x] < nextTask'
  BY <1>1, <1>2, <1>4, <1>5 DEF ShardsInv, ShardQueueInv
<1>6. ASSUME NEW x \in Worker, NEW y \in Worker, Busy(x)', Busy(y)', x # y
      PROVE  task'[x] # task'[y]
  BY <1>2, <1>4, <1>6 DEF ShardsInv, ShardQueueInv
<1>7. ASSUME NEW x \in Worker, NEW g \in reports'[x]
      PROVE  /\ g < nextTask' /\ shard_file'[g] = "whole"
             /\ \A y \in Worker : Busy(y)' => task'[y] # g
  <2>1. g \in reports[x] /\ g \in Nat
    BY <1>1, <1>2, <1>4, <1>7
  <2>2. g < nextTask /\ shard_file[g] = "whole" /\ \A y \in Worker : Busy(y) => task[y] # g
    BY <2>1 DEF ShardsInv, ShardQueueInv
  <2>3. \A y \in Worker : Busy(y)' => task'[y] # g
    BY <1>2, <1>4, <2>1, <2>2
  <2>. QED  BY <1>1, <1>2, <2>1, <2>2, <2>3
<1>8. ASSUME NEW g \in Group, g < nextTask'
      PROVE  \/ \E x \in Worker : g \in reports'[x]
             \/ \E x \in Worker : (Busy(x)' \/ worker'[x] = "err") /\ task'[x] = g
  <2>1. CASE g = nextTask
    BY <1>4, <2>1
  <2>2. CASE g < nextTask
    <3>1. CASE \E x \in Worker : g \in reports[x]
      BY <1>1, <3>1
    <3>2. CASE \E x \in Worker : (Busy(x) \/ worker[x] = "err") /\ task[x] = g
      <4>1. PICK x \in Worker : (Busy(x) \/ worker[x] = "err") /\ task[x] = g
        BY <3>2
      <4>2. x # w
        BY <1>1, <1>4, <4>1
      <4>. QED  BY <1>4, <4>1, <4>2
    <3>. QED  BY <2>2, <3>1, <3>2 DEF ShardsInv, ShardQueueInv
  <2>3. g \in Nat /\ g < nextTask + 1
    BY <1>1, <1>2, <1>8
  <2>4. g = nextTask \/ g < nextTask
    BY <1>2, <2>3
  <2>. QED  BY <2>1, <2>2, <2>4
<1>9. \A x \in Worker : worker'[x] # "ok"
  BY <1>1, <1>2, <1>4 DEF ShardsInv, ShardQueueInv
<1>10. ShardQueueInv'
  BY <1>5, <1>6, <1>7, <1>8, <1>9 DEF ShardQueueInv
<1>11. shards_outcome = "running"
  BY <1>1 DEF ShardsInv, WorkersEnded
<1>. QED  BY <1>1, <1>3, <1>10, <1>11 DEF ShardsInv

\* A worker ends when the queue is empty.
LEMMA NoShardLeftInv ==
    ASSUME ShardsInv, NEW w \in Worker, NoShardLeft(w)
    PROVE  ShardsInv'
<1>1. /\ worker[w] = "ready" /\ ~(nextTask < GroupCount)
      /\ worker' = [worker EXCEPT ![w] = "ok"]
      /\ UNCHANGED <<nextTask, task, shard_file, reports, shards_outcome>>
  BY DEF NoShardLeft, Turns, TasksLeft
<1>2. nextTask = GroupCount
  BY <1>1, GroupCountBounds DEF ShardsInv, ShardsTypeOK
<1>3. ShardsTypeOK'
  BY <1>1 DEF ShardsInv, ShardsTypeOK
<1>4. /\ \A x \in Worker : x # w => worker'[x] = worker[x]
      /\ worker'[w] = "ok"
      /\ \A x \in Worker : Busy(x)' <=> Busy(x)
  BY <1>1 DEF ShardsInv, ShardsTypeOK, Busy
<1>5. ShardQueueInv'
  BY <1>1, <1>2, <1>4 DEF ShardsInv, ShardQueueInv
<1>6. shards_outcome = "running"
  BY <1>1 DEF ShardsInv, WorkersEnded
<1>. QED  BY <1>1, <1>3, <1>5, <1>6 DEF ShardsInv

LEMMA OpenShardInv ==
    ASSUME ShardsInv, NEW w \in Worker, OpenShard(w)
    PROVE  ShardsInv'
<1>1. /\ worker[w] = "extracting"
      /\ worker' = [worker EXCEPT ![w] = "writing"]
      /\ shard_file' = [shard_file EXCEPT ![task[w]] = "torn"]
      /\ UNCHANGED <<nextTask, task, reports, shards_outcome>>
  BY DEF OpenShard, Turns
<1>2. ShardsTypeOK'
  BY <1>1 DEF ShardsInv, ShardsTypeOK
<1>3. /\ \A x \in Worker : x # w => worker'[x] = worker[x]
      /\ worker'[w] = "writing" /\ Busy(w)
      /\ \A x \in Worker : Busy(x)' <=> Busy(x)
  BY <1>1 DEF ShardsInv, ShardsTypeOK, Busy
<1>4. \A g \in Group : g # task[w] => shard_file'[g] = shard_file[g]
  BY <1>1 DEF ShardsInv, ShardsTypeOK
<1>5. ASSUME NEW x \in Worker, NEW g \in reports[x]
      PROVE  g < nextTask /\ shard_file'[g] = "whole" /\ \A y \in Worker : Busy(y)' => task[y] # g
  <2>1. g \in Group /\ g # task[w]
    BY <1>3 DEF ShardsInv, ShardsTypeOK, ShardQueueInv
  <2>. QED  BY <1>3, <1>4, <2>1 DEF ShardsInv, ShardQueueInv
<1>6. ShardQueueInv'
  BY <1>1, <1>3, <1>5 DEF ShardsInv, ShardQueueInv
<1>7. shards_outcome = "running"
  BY <1>1 DEF ShardsInv, WorkersEnded
<1>. QED  BY <1>1, <1>2, <1>6, <1>7 DEF ShardsInv

LEMMA ShardDoneInv ==
    ASSUME ShardsInv, NEW w \in Worker, ShardDone(w)
    PROVE  ShardsInv'
<1>1. /\ worker[w] = "writing"
      /\ worker' = [worker EXCEPT ![w] = "ready"]
      /\ shard_file' = [shard_file EXCEPT ![task[w]] = "whole"]
      /\ reports' = [reports EXCEPT ![w] = @ \cup {task[w]}]
      /\ UNCHANGED <<nextTask, task, shards_outcome>>
  BY DEF ShardDone, Turns
<1>2. task[w] \in Group
  BY DEF ShardsInv, ShardsTypeOK
<1>3. ShardsTypeOK'
  BY <1>1, <1>2 DEF ShardsInv, ShardsTypeOK
<1>4. /\ \A x \in Worker : x # w => /\ worker'[x] = worker[x] /\ reports'[x] = reports[x]
                                    /\ Busy(x)' = Busy(x)
      /\ worker'[w] = "ready" /\ reports'[w] = reports[w] \cup {task[w]} /\ Busy(w) /\ ~Busy(w)'
  BY <1>1 DEF ShardsInv, ShardsTypeOK, Busy
<1>5. /\ \A g \in Group : g # task[w] => shard_file'[g] = shard_file[g]
      /\ shard_file'[task[w]] = "whole"
  BY <1>1, <1>2 DEF ShardsInv, ShardsTypeOK
<1>6. ASSUME NEW x \in Worker, NEW g \in reports'[x]
      PROVE  g < nextTask /\ shard_file'[g] = "whole" /\ \A y \in Worker : Busy(y)' => task[y] # g
  <2>1. CASE g = task[w]
    BY <1>4, <1>5, <2>1 DEF ShardsInv, ShardQueueInv
  <2>2. CASE g # task[w]
    <3>1. g \in reports[x] /\ g \in Group
      BY <1>3, <1>4, <1>6, <2>2 DEF ShardsTypeOK
    <3>. QED  BY <1>4, <1>5, <2>2, <3>1 DEF ShardsInv, ShardQueueInv
  <2>. QED  BY <2>1, <2>2
<1>7. ASSUME NEW g \in Group, g < nextTask
      PROVE  \/ \E x \in Worker : g \in reports'[x]
             \/ \E x \in Worker : (Busy(x)' \/ worker'[x] = "err") /\ task[x] = g
  <2>1. CASE g = task[w]
    BY <1>4, <2>1
  <2>2. CASE \E x \in Worker : g \in reports[x]
    BY <1>4, <2>2
  <2>3. CASE \E x \in Worker : (Busy(x) \/ worker[x] = "err") /\ task[x] = g /\ x # w
    BY <1>4, <2>3
  <2>. QED  BY <1>7, <2>1, <2>2, <2>3 DEF ShardsInv, ShardQueueInv
<1>8. ShardQueueInv'
  BY <1>1, <1>4, <1>6, <1>7 DEF ShardsInv, ShardQueueInv
<1>9. shards_outcome = "running"
  BY <1>1 DEF ShardsInv, WorkersEnded
<1>. QED  BY <1>1, <1>3, <1>8, <1>9 DEF ShardsInv

LEMMA ShardFailsInv ==
    ASSUME ShardsInv, NEW w \in Worker, ShardFails(w)
    PROVE  ShardsInv'
<1>1. /\ worker[w] \in {"extracting", "writing"}
      /\ worker' = [worker EXCEPT ![w] = "err"]
      /\ UNCHANGED <<nextTask, task, shard_file, reports, shards_outcome>>
  BY DEF ShardFails, Turns
<1>2. ShardsTypeOK'
  BY <1>1 DEF ShardsInv, ShardsTypeOK
<1>3. /\ \A x \in Worker : x # w => worker'[x] = worker[x] /\ Busy(x)' = Busy(x)
      /\ worker'[w] = "err" /\ ~Busy(w)'
  BY <1>1 DEF ShardsInv, ShardsTypeOK, Busy
<1>4. ShardQueueInv'
  BY <1>1, <1>3 DEF ShardsInv, ShardQueueInv
<1>5. shards_outcome = "running"
  BY <1>1 DEF ShardsInv, WorkersEnded
<1>. QED  BY <1>1, <1>2, <1>4, <1>5 DEF ShardsInv

\* Steps of the logger and the join change none of this.
LEMMA QuietShardsInv ==
    ASSUME ShardsInv, UNCHANGED <<tasks, shard_file, reports>>,
           \/ shards_outcome' = shards_outcome
           \/ WorkersEnded /\ shards_outcome' = Collected
    PROVE  ShardsInv'
<1>1. UNCHANGED <<nextTask, worker, task, shard_file, reports>>
  BY DEF tasks
<1>2. ShardsTypeOK' /\ ShardQueueInv'
  BY <1>1 DEF ShardsInv, ShardsTypeOK, ShardQueueInv, Busy, Collected
<1>. QED  BY <1>1, <1>2 DEF ShardsInv, Collected, WorkersEnded, SomeFailed

LEMMA ShardsInvariance == ShardsSpec => []ShardsInv
<1>1. ShardsInv /\ [ShardsNext]_svars => ShardsInv'
  <2> SUFFICES ASSUME ShardsInv, [ShardsNext]_svars
               PROVE  ShardsInv'
    OBVIOUS
  <2>1. CASE UNCHANGED svars
    BY <2>1, QuietShardsInv DEF svars
  <2>2. CASE ShardLogger \/ JoinShards
    BY <2>2, QuietShardsInv DEF ShardLogger, ApplyEvent, LoggerEnds, JoinShards
  <2>. QED
    BY <2>1, <2>2, StartShardInv, NoShardLeftInv, OpenShardInv, ShardDoneInv, ShardFailsInv
       DEF ShardsNext, ShardWorker
<1>. QED  BY <1>1, InitShardsInv, PTL DEF ShardsSpec

-----------------------------------------------------------------------------
(* extract-shards: what follows. *)

\* A failing worker costs the shard it fails on, and what nobody is left to take.
THEOREM ShardsSalvagedAlways == ShardsSpec => []ShardsSalvaged
<1>1. ShardsInv => ShardsSalvaged
  <2> SUFFICES ASSUME ShardsInv, shards_outcome # "running", NEW g \in Group
               PROVE  \/ shard_file[g] = "whole"
                      \/ \E w \in Worker : worker[w] = "err" /\ task[w] = g
                      \/ g >= nextTask /\ \A w \in Worker : worker[w] = "err"
    BY DEF ShardsSalvaged
  <2>1. WorkersEnded
    BY DEF ShardsInv
  <2>2. g \in Nat /\ g < GroupCount /\ nextTask \in Nat /\ GroupCount \in Nat
    BY GroupCountBounds DEF Group, ShardsInv, ShardsTypeOK
  <2>3. CASE g < nextTask
    BY <2>1, <2>3 DEF ShardsInv, ShardQueueInv, WorkersEnded, Busy
  <2>4. CASE nextTask <= g
    BY <2>1, <2>2, <2>4 DEF ShardsInv, ShardQueueInv, WorkersEnded
  <2>. QED  BY <2>2, <2>3, <2>4
<1>. QED  BY <1>1, ShardsInvariance, PTL

\* Each epoch of the range lies in exactly one group, and no other does.
LEMMA GroupOfEpoch ==
    ASSUME NEW e \in FirstEpoch..(FirstEpoch + EpochCount - 1)
    PROVE  \E g \in Group : {h \in Group : e \in StartOf(h)..EndOf(h)} = {g}
<1> DEFINE n == e - FirstEpoch
           g == n \div ShardEpochs
<1>1. /\ n \in Nat /\ n < EpochCount /\ e = FirstEpoch + n
      /\ FirstEpoch \in Nat /\ ShardEpochs \in Nat \ {0} /\ EpochCount \in Nat \ {0}
  BY GroupsAssumption
<1> HIDE DEF n
<1>2. /\ g \in Nat /\ n % ShardEpochs \in 0..(ShardEpochs - 1)
      /\ n = ShardEpochs * g + (n % ShardEpochs)
  BY <1>1
<1> HIDE DEF g
<1>3. g * ShardEpochs \in Nat /\ g * ShardEpochs <= n /\ n < g * ShardEpochs + ShardEpochs
  BY <1>1, <1>2
<1>4. g \in Group
  <2>1. g * ShardEpochs < GroupCount * ShardEpochs
    BY <1>1, <1>3, GroupCountBounds
  <2>2. g < GroupCount
    BY <1>1, <1>2, <2>1, GroupCountBounds
  <2>. QED  BY <1>2, <2>2, GroupCountBounds DEF Group
<1>5. e \in StartOf(g)..EndOf(g)
  BY <1>1, <1>3 DEF StartOf, EndOf, CountOf
<1>6. ASSUME NEW h \in Group, e \in StartOf(h)..EndOf(h)
      PROVE  h = g
  <2>1. h \in Nat /\ h * ShardEpochs \in Nat
    BY <1>1 DEF Group
  <2>2. h * ShardEpochs <= n /\ n < h * ShardEpochs + ShardEpochs
    BY <1>1, <1>6, <2>1 DEF StartOf, EndOf, CountOf
  <2>3. (h + 1) * ShardEpochs = h * ShardEpochs + ShardEpochs
    BY <1>1, <2>1
  <2>4. (g + 1) * ShardEpochs = g * ShardEpochs + ShardEpochs
    BY <1>1, <1>2
  <2>5. g * ShardEpochs < (h + 1) * ShardEpochs /\ h * ShardEpochs < (g + 1) * ShardEpochs
    BY <1>1, <1>3, <2>1, <2>2, <2>3, <2>4
  <2>6. g < h + 1 /\ h < g + 1
    BY <1>1, <1>2, <2>1, <2>5
  <2>. QED  BY <1>2, <2>1, <2>6
<1>. QED  BY <1>4, <1>5, <1>6

LEMMA NoGroupOfEpoch ==
    ASSUME NEW e \in Nat, e \notin FirstEpoch..(FirstEpoch + EpochCount - 1)
    PROVE  {h \in Group : e \in StartOf(h)..EndOf(h)} = {}
<1> SUFFICES ASSUME NEW h \in Group, e \in StartOf(h)..EndOf(h)
             PROVE  FALSE
  OBVIOUS
<1>1. EndOf(h) \in Nat /\ EndOf(h) < FirstEpoch + EpochCount /\ StartOf(h) \in Nat
  BY GroupEpochs
<1>2. /\ FirstEpoch \in Nat /\ EpochCount \in Nat \ {0}
      /\ h * ShardEpochs \in Nat
  BY GroupsAssumption DEF Group
<1>3. StartOf(h) >= FirstEpoch
  BY <1>2 DEF StartOf
<1>. QED  BY <1>1, <1>2, <1>3

\* Ok is returned only for a directory in which every epoch asked for has its
\* one file.
THEOREM ShardsCompleteAlways == ShardsSpec => []ShardsComplete
<1>1. ShardsInv => ShardsComplete
  <2> SUFFICES ASSUME ShardsInv, shards_outcome = "ok",
                      NEW e \in 0..(FirstEpoch + EpochCount + ShardEpochs)
               PROVE  Cardinality({g \in Group : /\ shard_file[g] = "whole"
                                                 /\ g \in Reported
                                                 /\ e \in StartOf(g)..EndOf(g)})
                         = IF e \in FirstEpoch..(FirstEpoch + EpochCount - 1) THEN 1 ELSE 0
    BY DEF ShardsComplete
  <2>1. WorkersEnded /\ ~SomeFailed
    BY DEF ShardsInv
  <2>2. \A w \in Worker : worker[w] = "ok"
    BY <2>1 DEF WorkersEnded, SomeFailed
  <2>3. nextTask = GroupCount
    BY <2>2, GroupsAssumption DEF ShardsInv, ShardQueueInv
  <2>4. ASSUME NEW g \in Group
        PROVE  shard_file[g] = "whole" /\ g \in Reported
    <3>1. g < nextTask
      BY <2>3, GroupCountBounds DEF Group
    <3>2. PICK x \in Worker : g \in reports[x]
      BY <2>2, <3>1 DEF ShardsInv, ShardQueueInv, Busy
    <3>. QED  BY <3>2 DEF ShardsInv, ShardQueueInv, Reported
  <2>5. {g \in Group : /\ shard_file[g] = "whole" /\ g \in Reported
                       /\ e \in StartOf(g)..EndOf(g)}
           = {g \in Group : e \in StartOf(g)..EndOf(g)}
    BY <2>4
  <2>6. CASE e \in FirstEpoch..(FirstEpoch + EpochCount - 1)
    <3>1. PICK g \in Group : {h \in Group : e \in StartOf(h)..EndOf(h)} = {g}
      BY <2>6, GroupOfEpoch
    <3>. QED  BY <2>5, <2>6, <3>1, FS_Singleton
  <2>7. CASE e \notin FirstEpoch..(FirstEpoch + EpochCount - 1)
    <3>1. e \in Nat
      BY GroupsAssumption
    <3>. QED  BY <2>5, <2>7, <3>1, NoGroupOfEpoch, FS_EmptySet
  <2>. QED  BY <2>6, <2>7
<1>. QED  BY <1>1, ShardsInvariance, PTL

-----------------------------------------------------------------------------
(* extract-shards: the progress counters and the events on their way. *)

ProgressEvent == [type : {"Start", "Done", "Failed"}, worker : Worker, group : Group]

\* Where the events of a type stand in the queue.
Queued(events, type) == {i \in DOMAIN events : events[i].type = type}

\* Event i is the last one its worker has sent.
Latest(events, i) == \A j \in DOMAIN events : j > i => events[j].worker # events[i].worker

BusyWorkers   == {w \in Worker : Busy(w)}
FailedWorkers == {w \in Worker : worker[w] = "err"}

ProgressTypeOK ==
    /\ progress_rx \in Seq(ProgressEvent)
    /\ progress \in [completed : Nat, failed : Nat, active : [Worker -> SUBSET Group]]
    /\ logger \in {"running", "ended"}

\* A claimed task is counted, reported in an event that is on its way, or in
\* the hands of a worker.
ProgressCounts ==
    /\ progress.completed + Cardinality(Queued(progress_rx, "Done"))
          + progress.failed + Cardinality(Queued(progress_rx, "Failed"))
          + Cardinality(BusyWorkers) = nextTask
    /\ progress.failed + Cardinality(Queued(progress_rx, "Failed")) = Cardinality(FailedWorkers)

\* The last event of a worker says whether it is busy, and if none is on its
\* way the logger knows.
EventsTell ==
    /\ \A i \in DOMAIN progress_rx : Latest(progress_rx, i) =>
          (progress_rx[i].type = "Start" <=> Busy(progress_rx[i].worker))
    /\ \A w \in Worker : (\A i \in DOMAIN progress_rx : progress_rx[i].worker # w) =>
          (progress.active[w] # {} <=> Busy(w))

ProgressInv == /\ ProgressTypeOK /\ ProgressCounts /\ EventsTell
               /\ logger = "ended" => progress_rx = <<>> /\ WorkersEnded

LEMMA QueuedFinite ==
    ASSUME NEW events \in Seq(ProgressEvent), NEW type
    PROVE  IsFiniteSet(Queued(events, type)) /\ Cardinality(Queued(events, type)) \in Nat
<1>1. DOMAIN events = 1..Len(events) /\ Len(events) \in Nat
  OBVIOUS
<1>2. IsFiniteSet(DOMAIN events)
  BY <1>1, FS_Interval
<1>3. Queued(events, type) \in SUBSET DOMAIN events
  BY DEF Queued
<1>. QED  BY <1>2, <1>3, FS_Subset, FS_CardinalityType

LEMMA QueuedAppend ==
    ASSUME NEW events \in Seq(ProgressEvent), NEW e \in ProgressEvent, NEW type
    PROVE  Cardinality(Queued(Append(events, e), type)) =
              Cardinality(Queued(events, type)) + (IF e.type = type THEN 1 ELSE 0)
<1> DEFINE new == Len(events) + 1
<1>1. /\ Len(events) \in Nat /\ DOMAIN events = 1..Len(events)
      /\ DOMAIN Append(events, e) = 1..new /\ Append(events, e)[new] = e
      /\ \A i \in 1..Len(events) : Append(events, e)[i] = events[i]
  OBVIOUS
<1>2. new \notin Queued(events, type)
  BY <1>1 DEF Queued
<1>3. CASE e.type = type
  <2>1. Queued(Append(events, e), type) = Queued(events, type) \cup {new}
    BY <1>1, <1>3 DEF Queued
  <2>. QED  BY <1>2, <1>3, <2>1, QueuedFinite, FS_AddElement
<1>4. CASE e.type # type
  <2>1. Queued(Append(events, e), type) = Queued(events, type)
    BY <1>1, <1>4 DEF Queued
  <2>. QED  BY <1>4, <2>1, QueuedFinite
<1>. QED  BY <1>3, <1>4

LEMMA QueuedTail ==
    ASSUME NEW events \in Seq(ProgressEvent), events # <<>>, NEW type
    PROVE  /\ Tail(events) \in Seq(ProgressEvent) /\ Head(events) \in ProgressEvent
           /\ Cardinality(Queued(events, type)) =
                 Cardinality(Queued(Tail(events), type)) + (IF Head(events).type = type THEN 1 ELSE 0)
<1> DEFINE rest == Tail(events)
           Q == Queued(events, type)
           f == [i \in Queued(rest, type) |-> i + 1]
<1>1. /\ rest \in Seq(ProgressEvent) /\ Head(events) = events[1] /\ events[1] \in ProgressEvent
      /\ Len(events) \in Nat \ {0} /\ DOMAIN events = 1..Len(events)
      /\ DOMAIN rest = 1..(Len(events) - 1)
      /\ \A i \in 1..(Len(events) - 1) : rest[i] = events[i + 1]
  OBVIOUS
<1>2. \A i \in Queued(rest, type) : i \in 1..(Len(events) - 1) /\ i + 1 \in Q \ {1}
  BY <1>1 DEF Queued
<1>3. \A j \in Q \ {1} : j \in 2..Len(events) /\ j - 1 \in Queued(rest, type) /\ (j - 1) + 1 = j
  <2> SUFFICES ASSUME NEW j \in Q \ {1}
               PROVE  j \in 2..Len(events) /\ j - 1 \in Queued(rest, type) /\ (j - 1) + 1 = j
    OBVIOUS
  <2>1. j \in 2..Len(events) /\ events[j].type = type
    BY <1>1 DEF Queued
  <2>2. j - 1 \in 1..(Len(events) - 1) /\ (j - 1) + 1 = j
    BY <1>1, <2>1
  <2>. QED  BY <1>1, <2>1, <2>2 DEF Queued
<1>4. f \in Bijection(Queued(rest, type), Q \ {1})
  <2>1. f \in [Queued(rest, type) -> Q \ {1}]
    BY <1>2
  <2>2. \A i, k \in Queued(rest, type) : f[i] = f[k] => i = k
    BY <1>2
  <2>3. \A j \in Q \ {1} : \E i \in Queued(rest, type) : f[i] = j
    BY <1>3
  <2>. QED  BY <2>1, <2>2, <2>3, Fun_IsBij
<1>5. Cardinality(Q \ {1}) = Cardinality(Queued(rest, type))
  <2>1. IsFiniteSet(Queued(rest, type))
    BY <1>1, QueuedFinite
  <2>2. ExistsBijection(Queued(rest, type), Q \ {1})
    BY <1>4 DEF ExistsBijection
  <2> HIDE DEF rest, Q
  <2>. QED  BY <2>1, <2>2, FS_Bijection
<1>6. 1 \in Q <=> Head(events).type = type
  BY <1>1 DEF Queued
<1>7. Cardinality(Q \ {1}) = IF 1 \in Q THEN Cardinality(Q) - 1 ELSE Cardinality(Q)
  BY QueuedFinite, FS_RemoveElement
<1>. QED  BY <1>1, <1>5, <1>6, <1>7, QueuedFinite

LEMMA WorkersCounted ==
    ASSUME NEW S \in SUBSET Worker
    PROVE  IsFiniteSet(S) /\ Cardinality(S) \in Nat
BY ThreadsAssumption, FS_Subset, FS_CardinalityType

LEMMA Counted ==
    ASSUME ProgressInv
    PROVE  /\ \A t : Cardinality(Queued(progress_rx, t)) \in Nat
           /\ Cardinality(BusyWorkers) \in Nat /\ Cardinality(FailedWorkers) \in Nat
           /\ progress.completed \in Nat /\ progress.failed \in Nat
<1>1. progress_rx \in Seq(ProgressEvent) /\ progress.completed \in Nat /\ progress.failed \in Nat
  BY DEF ProgressInv, ProgressTypeOK
<1>2. BusyWorkers \in SUBSET Worker /\ FailedWorkers \in SUBSET Worker
  BY DEF BusyWorkers, FailedWorkers
<1>. QED  BY <1>1, <1>2, QueuedFinite, WorkersCounted

LEMMA OneMoreWorker ==
    ASSUME NEW S \in SUBSET Worker, NEW w \in Worker, w \notin S
    PROVE  Cardinality(S \cup {w}) = Cardinality(S) + 1
BY WorkersCounted, FS_AddElement

LEMMA OneWorkerLess ==
    ASSUME NEW S \in SUBSET Worker, NEW w \in S
    PROVE  Cardinality(S) = Cardinality(S \ {w}) + 1
BY WorkersCounted, FS_RemoveElement

\* A worker that sends an event tells whether it is busy now.
LEMMA SentTells ==
    ASSUME ProgressInv, NEW w \in Worker, NEW type \in {"Start", "Done", "Failed"},
           NEW g \in Group, Sends(type, w, g), UNCHANGED progress,
           \A x \in Worker : x # w => (Busy(x)' <=> Busy(x)),
           type = "Start" <=> Busy(w)'
    PROVE  /\ EventsTell'
           /\ progress_rx' \in Seq(ProgressEvent)
           /\ \A t : Cardinality(Queued(progress_rx, t)') =
                        Cardinality(Queued(progress_rx, t)) + (IF type = t THEN 1 ELSE 0)
<1> DEFINE e == Event(type, w, g)
           new == Len(progress_rx) + 1
           BusyNext(x) == worker'[x] \in {"extracting", "writing"}
<1>0. /\ \A x \in Worker : x # w => (BusyNext(x) <=> Busy(x))
      /\ type = "Start" <=> BusyNext(w)
  BY DEF Busy
<1>1. e \in ProgressEvent /\ e.type = type /\ e.worker = w
  BY DEF Event, ProgressEvent
<1>2. progress_rx \in Seq(ProgressEvent) /\ progress_rx' = Append(progress_rx, e)
  BY DEF ProgressInv, ProgressTypeOK, Sends
<1> HIDE DEF e
<1>2a. /\ \A i \in 1..Len(progress_rx) : progress_rx[i] \in ProgressEvent
       /\ Len(progress_rx) \in Nat
  BY <1>2
<1>3. /\ Len(progress_rx) \in Nat /\ DOMAIN progress_rx = 1..Len(progress_rx)
      /\ DOMAIN progress_rx' = 1..new /\ progress_rx'[new] = e
      /\ \A i \in 1..Len(progress_rx) : progress_rx'[i] = progress_rx[i]
                                        /\ progress_rx[i].worker \in Worker
      /\ progress_rx' \in Seq(ProgressEvent)
  BY <1>1, <1>2, <1>2a DEF ProgressEvent
<1>4. ASSUME NEW i \in DOMAIN progress_rx', Latest(progress_rx', i)
      PROVE  progress_rx'[i].type = "Start" <=> BusyNext(progress_rx'[i].worker)
  <2>1. CASE i = new
    BY <1>0, <1>1, <1>3, <2>1
  <2>2. CASE i # new
    <3>1. i \in DOMAIN progress_rx /\ i < new /\ progress_rx'[i] = progress_rx[i]
      BY <1>3, <2>2
    <3>2. progress_rx[i].worker # w
      BY <1>1, <1>3, <1>4, <3>1 DEF Latest
    <3>3. Latest(progress_rx, i)
      BY <1>3, <1>4, <3>1 DEF Latest
    <3>4. progress_rx[i].worker \in Worker
      BY <1>3, <3>1
    <3>5. BusyNext(progress_rx[i].worker) <=> Busy(progress_rx[i].worker)
      BY <1>0, <3>2, <3>4
    <3>6. progress_rx[i].type = "Start" <=> Busy(progress_rx[i].worker)
      BY <3>1, <3>3 DEF ProgressInv, EventsTell
    <3>. QED  BY <3>1, <3>5, <3>6
  <2>. QED  BY <2>1, <2>2
<1>5. ASSUME NEW x \in Worker, \A i \in DOMAIN progress_rx' : progress_rx'[i].worker # x
      PROVE  progress'.active[x] # {} <=> Busy(x)'
  <2>1. x # w
    BY <1>1, <1>3, <1>5
  <2>2. \A i \in DOMAIN progress_rx : progress_rx[i].worker # x
    BY <1>3, <1>5
  <2>. QED  BY <2>1, <2>2 DEF ProgressInv, EventsTell
<1>6. \A t : Cardinality(Queued(progress_rx', t)) =
                Cardinality(Queued(progress_rx, t)) + (IF type = t THEN 1 ELSE 0)
  BY <1>1, <1>2, QueuedAppend
<1>7. \A t : Queued(progress_rx, t)' = Queued(progress_rx', t)
  BY DEF Queued
<1>. QED  BY <1>3, <1>4, <1>5, <1>6, <1>7 DEF EventsTell, Busy, Latest

LEMMA InitProgressInv == ShardsInit => ProgressInv
<1> SUFFICES ASSUME ShardsInit
             PROVE  ProgressInv
  OBVIOUS
<1>1. ProgressTypeOK
  BY DEF ShardsInit, ProgressTypeOK
<1>2. /\ BusyWorkers = {} /\ FailedWorkers = {}
      /\ \A t : Queued(progress_rx, t) = {}
  BY DEF ShardsInit, TasksInit, BusyWorkers, FailedWorkers, Busy, Queued
<1>3. /\ \A t : Cardinality(Queued(progress_rx, t)) = 0
      /\ Cardinality(BusyWorkers) = 0 /\ Cardinality(FailedWorkers) = 0
  BY <1>2, FS_EmptySet, Zenon
<1>4. ProgressCounts
  <2>1. progress.completed = 0 /\ progress.failed = 0 /\ nextTask = 0
    BY DEF ShardsInit, TasksInit
  <2>. QED  BY <1>3, <2>1 DEF ProgressCounts
<1>5. EventsTell
  BY DEF EventsTell, ShardsInit, TasksInit, Busy
<1>. QED  BY <1>1, <1>4, <1>5 DEF ProgressInv, ShardsInit

LEMMA StartShardProgress ==
    ASSUME ShardsInv, ProgressInv, NEW w \in Worker, StartShard(w)
    PROVE  ProgressInv'
<1>1. /\ worker[w] = "ready" /\ nextTask < GroupCount /\ nextTask' = nextTask + 1
      /\ worker' = [worker EXCEPT ![w] = "extracting"]
      /\ Sends("Start", w, nextTask)
      /\ UNCHANGED <<progress, logger>>
  BY DEF StartShard, Takes, TasksLeft
<1>2. nextTask \in Group /\ nextTask \in Nat
  BY <1>1, GroupCountBounds DEF ShardsInv, ShardsTypeOK, Group
<1>3. /\ \A x \in Worker : x # w => (Busy(x)' <=> Busy(x)) /\ worker'[x] = worker[x]
      /\ Busy(w)' /\ ~Busy(w) /\ worker'[w] = "extracting"
  BY <1>1 DEF ShardsInv, ShardsTypeOK, Busy
<1>4. /\ EventsTell' /\ progress_rx' \in Seq(ProgressEvent)
      /\ \A t : Cardinality(Queued(progress_rx, t)') =
                   Cardinality(Queued(progress_rx, t)) + (IF "Start" = t THEN 1 ELSE 0)
  BY <1>1, <1>2, <1>3, SentTells
<1>5. BusyWorkers' = BusyWorkers \cup {w} /\ w \notin BusyWorkers /\ FailedWorkers' = FailedWorkers
  BY <1>1, <1>3 DEF BusyWorkers, FailedWorkers
<1>6. Cardinality(BusyWorkers') = Cardinality(BusyWorkers) + 1
  BY <1>5, OneMoreWorker DEF BusyWorkers
<1>7. ProgressCounts'
  <2>1. /\ Cardinality(Queued(progress_rx, "Done")') = Cardinality(Queued(progress_rx, "Done"))
        /\ Cardinality(Queued(progress_rx, "Failed")') = Cardinality(Queued(progress_rx, "Failed"))
    BY <1>4, Counted
  <2>2. Cardinality(BusyWorkers) \in Nat /\ ProgressCounts
    BY Counted DEF ProgressInv
  <2>. QED  BY <1>1, <1>2, <1>5, <1>6, <2>1, <2>2, Counted, SMTT(30) DEF ProgressCounts
<1>8. logger # "ended"
  BY <1>1 DEF ProgressInv, WorkersEnded
<1>. QED  BY <1>1, <1>4, <1>7, <1>8 DEF ProgressInv, ProgressTypeOK

\* A worker that finds the queue empty, or opens its file, sends nothing.
LEMMA SilentProgress ==
    ASSUME ShardsInv, ProgressInv, NEW w \in Worker, NoShardLeft(w) \/ OpenShard(w)
    PROVE  ProgressInv'
<1>1. /\ UNCHANGED <<nextTask, progress_rx, progress, logger>>
      /\ \/ worker[w] = "ready" /\ worker' = [worker EXCEPT ![w] = "ok"]
         \/ worker[w] = "extracting" /\ worker' = [worker EXCEPT ![w] = "writing"]
  BY DEF NoShardLeft, OpenShard, Turns
<1>2. \A x \in Worker : (Busy(x)' <=> Busy(x)) /\ (worker'[x] = "err" <=> worker[x] = "err")
  BY <1>1 DEF ShardsInv, ShardsTypeOK, Busy
<1>3. BusyWorkers' = BusyWorkers /\ FailedWorkers' = FailedWorkers
  BY <1>2 DEF BusyWorkers, FailedWorkers
<1>4. ProgressCounts'
  BY <1>1, <1>3 DEF ProgressInv, ProgressCounts, Queued
<1>5. EventsTell'
  <2>1. \A i \in DOMAIN progress_rx : progress_rx[i].worker \in Worker
    <3>1. \A i \in DOMAIN progress_rx : progress_rx[i] \in ProgressEvent
      BY DEF ProgressInv, ProgressTypeOK
    <3>. QED  BY <3>1 DEF ProgressEvent
  <2>2. \A i \in DOMAIN progress_rx : Latest(progress_rx, i)' <=> Latest(progress_rx, i)
    BY <1>1 DEF Latest
  <2>3. \A x \in Worker : worker'[x] \in {"extracting", "writing"} <=> Busy(x)
    BY <1>2 DEF Busy
  <2>. QED  BY <1>1, <2>1, <2>2, <2>3 DEF ProgressInv, EventsTell, Busy
<1>6. logger # "ended"
  BY <1>1 DEF ProgressInv, WorkersEnded
<1>. QED  BY <1>1, <1>4, <1>5, <1>6 DEF ProgressInv, ProgressTypeOK

LEMMA ShardDoneProgress ==
    ASSUME ShardsInv, ProgressInv, NEW w \in Worker, ShardDone(w)
    PROVE  ProgressInv'
<1>1. /\ worker[w] = "writing" /\ worker' = [worker EXCEPT ![w] = "ready"]
      /\ Sends("Done", w, task[w])
      /\ UNCHANGED <<nextTask, progress, logger>>
  BY DEF ShardDone, Turns
<1>2. task[w] \in Group
  BY DEF ShardsInv, ShardsTypeOK
<1>3. /\ \A x \in Worker : x # w => (Busy(x)' <=> Busy(x)) /\ worker'[x] = worker[x]
      /\ ~Busy(w)' /\ Busy(w) /\ worker'[w] = "ready"
  BY <1>1 DEF ShardsInv, ShardsTypeOK, Busy
<1>4. /\ EventsTell' /\ progress_rx' \in Seq(ProgressEvent)
      /\ \A t : Cardinality(Queued(progress_rx, t)') =
                   Cardinality(Queued(progress_rx, t)) + (IF "Done" = t THEN 1 ELSE 0)
  BY <1>1, <1>2, <1>3, SentTells
<1>5. BusyWorkers' = BusyWorkers \ {w} /\ w \in BusyWorkers /\ FailedWorkers' = FailedWorkers
  BY <1>1, <1>3 DEF BusyWorkers, FailedWorkers
<1>6. Cardinality(BusyWorkers) = Cardinality(BusyWorkers') + 1 /\ Cardinality(BusyWorkers') \in Nat
  BY <1>5, OneWorkerLess, WorkersCounted DEF BusyWorkers
<1>7. ProgressCounts'
  <2>1. /\ Cardinality(Queued(progress_rx, "Done")') = Cardinality(Queued(progress_rx, "Done")) + 1
        /\ Cardinality(Queued(progress_rx, "Failed")') = Cardinality(Queued(progress_rx, "Failed"))
    BY <1>4, Counted
  <2>2. Cardinality(BusyWorkers) \in Nat /\ ProgressCounts
    BY Counted DEF ProgressInv
  <2>. QED  BY <1>1, <1>5, <1>6, <2>1, <2>2, Counted DEF ProgressCounts
<1>8. logger # "ended"
  BY <1>1 DEF ProgressInv, WorkersEnded
<1>. QED  BY <1>1, <1>4, <1>7, <1>8 DEF ProgressInv, ProgressTypeOK

LEMMA ShardFailsProgress ==
    ASSUME ShardsInv, ProgressInv, NEW w \in Worker, ShardFails(w)
    PROVE  ProgressInv'
<1>1. /\ worker[w] \in {"extracting", "writing"} /\ worker' = [worker EXCEPT ![w] = "err"]
      /\ Sends("Failed", w, task[w])
      /\ UNCHANGED <<nextTask, progress, logger>>
  BY DEF ShardFails, Turns
<1>2. task[w] \in Group
  BY DEF ShardsInv, ShardsTypeOK
<1>3. /\ \A x \in Worker : x # w => (Busy(x)' <=> Busy(x)) /\ worker'[x] = worker[x]
      /\ ~Busy(w)' /\ Busy(w) /\ worker'[w] = "err"
  BY <1>1 DEF ShardsInv, ShardsTypeOK, Busy
<1>4. /\ EventsTell' /\ progress_rx' \in Seq(ProgressEvent)
      /\ \A t : Cardinality(Queued(progress_rx, t)') =
                   Cardinality(Queued(progress_rx, t)) + (IF "Failed" = t THEN 1 ELSE 0)
  BY <1>1, <1>2, <1>3, SentTells
<1>5. /\ BusyWorkers' = BusyWorkers \ {w} /\ w \in BusyWorkers
      /\ FailedWorkers' = FailedWorkers \cup {w} /\ w \notin FailedWorkers
  BY <1>1, <1>3 DEF BusyWorkers, FailedWorkers
<1>6. /\ Cardinality(BusyWorkers) = Cardinality(BusyWorkers') + 1 /\ Cardinality(BusyWorkers') \in Nat
      /\ Cardinality(FailedWorkers') = Cardinality(FailedWorkers) + 1
  BY <1>5, OneWorkerLess, OneMoreWorker, WorkersCounted DEF BusyWorkers, FailedWorkers
<1>7. ProgressCounts'
  <2>1. /\ Cardinality(Queued(progress_rx, "Done")') = Cardinality(Queued(progress_rx, "Done"))
        /\ Cardinality(Queued(progress_rx, "Failed")') = Cardinality(Queued(progress_rx, "Failed")) + 1
    BY <1>4, Counted
  <2>2. Cardinality(BusyWorkers) \in Nat /\ ProgressCounts
    BY Counted DEF ProgressInv
  <2>. QED  BY <1>1, <1>6, <2>1, <2>2, Counted DEF ProgressCounts
<1>8. logger # "ended"
  BY <1>1 DEF ProgressInv, WorkersEnded
<1>. QED  BY <1>1, <1>4, <1>7, <1>8 DEF ProgressInv, ProgressTypeOK

\* The logger counts the event it takes from the queue.
LEMMA ApplyProgress ==
    ASSUME ShardsInv, ProgressInv, ApplyEvent
    PROVE  ProgressInv'
<1> DEFINE e == Head(progress_rx)
           rest == Tail(progress_rx)
<1>1. /\ logger = "running" /\ progress_rx # <<>> /\ progress' = Applied(e) /\ progress_rx' = rest
      /\ UNCHANGED <<nextTask, worker, logger>>
  BY DEF ApplyEvent, tasks
<1>2. /\ rest \in Seq(ProgressEvent) /\ e \in ProgressEvent
      /\ \A t : Cardinality(Queued(progress_rx, t)) =
                   Cardinality(Queued(rest, t)) + (IF e.type = t THEN 1 ELSE 0)
      /\ \A t : Cardinality(Queued(rest, t)) \in Nat
  BY <1>1, QueuedTail, QueuedFinite DEF ProgressInv, ProgressTypeOK
<1>3. /\ Len(progress_rx) \in Nat \ {0} /\ DOMAIN progress_rx = 1..Len(progress_rx)
      /\ progress_rx[1] = e /\ DOMAIN rest = 1..(Len(progress_rx) - 1)
      /\ \A i \in DOMAIN rest : rest[i] = progress_rx[i + 1]
  BY <1>1 DEF ProgressInv, ProgressTypeOK
<1>4. /\ progress \in [completed : Nat, failed : Nat, active : [Worker -> SUBSET Group]]
      /\ e.worker \in Worker /\ e.group \in Group /\ e.type \in {"Start", "Done", "Failed"}
  BY <1>2 DEF ProgressInv, ProgressTypeOK, ProgressEvent
<1> HIDE DEF e, rest
<1>5. /\ progress' \in [completed : Nat, failed : Nat, active : [Worker -> SUBSET Group]]
      /\ progress'.completed = progress.completed + (IF e.type = "Done" THEN 1 ELSE 0)
      /\ progress'.failed = progress.failed + (IF e.type = "Failed" THEN 1 ELSE 0)
      /\ \A x \in Worker : x # e.worker => progress'.active[x] = progress.active[x]
      /\ progress'.active[e.worker] # {} <=> e.type = "Start"
  <2>1. CASE e.type = "Start"
    <3>1. progress' = [progress EXCEPT !.active[e.worker] = {e.group}]
      BY <1>1, <2>1 DEF Applied
    <3>. QED  BY <1>4, <2>1, <3>1
  <2>2. CASE e.type = "Done"
    <3> DEFINE counted == [progress EXCEPT !.completed = @ + 1]
    <3>1. progress' = [counted EXCEPT !.active = [counted.active EXCEPT ![e.worker] = {}]]
      BY <1>1, <2>2 DEF Applied
    <3>2. /\ counted \in [completed : Nat, failed : Nat, active : [Worker -> SUBSET Group]]
          /\ counted.completed = progress.completed + 1 /\ counted.failed = progress.failed
          /\ counted.active = progress.active
      BY <1>4
    <3> HIDE DEF counted
    <3>. QED  BY <1>4, <2>2, <3>1, <3>2
  <2>3. CASE e.type = "Failed"
    <3> DEFINE counted == [progress EXCEPT !.failed = @ + 1]
    <3>1. progress' = [counted EXCEPT !.active = [counted.active EXCEPT ![e.worker] = {}]]
      BY <1>1, <2>3 DEF Applied
    <3>2. /\ counted \in [completed : Nat, failed : Nat, active : [Worker -> SUBSET Group]]
          /\ counted.failed = progress.failed + 1 /\ counted.completed = progress.completed
          /\ counted.active = progress.active
      BY <1>4
    <3> HIDE DEF counted
    <3>. QED  BY <1>4, <2>3, <3>1, <3>2
  <2>. QED  BY <1>4, <2>1, <2>2, <2>3
<1>6. ProgressCounts'
  <2>1. BusyWorkers' = BusyWorkers /\ FailedWorkers' = FailedWorkers
    BY <1>1 DEF BusyWorkers, FailedWorkers, Busy
  <2>2. \A t : Queued(progress_rx, t)' = Queued(rest, t)
    BY <1>1 DEF Queued
  <2>3. /\ Cardinality(Queued(progress_rx, "Done")) =
              Cardinality(Queued(progress_rx, "Done")') + (IF e.type = "Done" THEN 1 ELSE 0)
        /\ Cardinality(Queued(progress_rx, "Failed")) =
              Cardinality(Queued(progress_rx, "Failed")') + (IF e.type = "Failed" THEN 1 ELSE 0)
        /\ Cardinality(Queued(progress_rx, "Done")') \in Nat
        /\ Cardinality(Queued(progress_rx, "Failed")') \in Nat
    BY <1>2, <2>2
  <2>4. Cardinality(BusyWorkers) \in Nat /\ ProgressCounts
    BY Counted DEF ProgressInv
  <2>5. progress.completed \in Nat /\ progress.failed \in Nat
    BY <1>4
  <2>6. e.type \in {"Start", "Done", "Failed"} /\ nextTask' = nextTask
    BY <1>1, <1>4
  <2>. QED  BY <1>5, <2>1, <2>3, <2>4, <2>5, <2>6 DEF ProgressCounts
<1>7. EventsTell'
  <2> DEFINE BusyNext(x) == worker'[x] \in {"extracting", "writing"}
  <2>0. \A x : BusyNext(x) <=> Busy(x)
    BY <1>1 DEF Busy
  <2>1. ASSUME NEW i \in DOMAIN rest, Latest(rest, i)
        PROVE  rest[i].type = "Start" <=> BusyNext(rest[i].worker)
    <3>1. i + 1 \in DOMAIN progress_rx /\ rest[i] = progress_rx[i + 1]
      BY <1>3
    <3>2. ASSUME NEW j \in DOMAIN progress_rx, j > i + 1
          PROVE  progress_rx[j].worker # progress_rx[i + 1].worker
      <4>1. j - 1 \in DOMAIN rest /\ j - 1 > i /\ (j - 1) + 1 = j
        BY <1>3, <3>2
      <4>. QED  BY <1>3, <2>1, <3>1, <4>1 DEF Latest
    <3>3. Latest(progress_rx, i + 1)
      BY <3>2 DEF Latest
    <3>. QED  BY <2>0, <3>1, <3>3 DEF ProgressInv, EventsTell
  <2>2. ASSUME NEW x \in Worker, \A i \in DOMAIN rest : rest[i].worker # x
        PROVE  progress'.active[x] # {} <=> BusyNext(x)
    <3>1. \A j \in DOMAIN progress_rx : j # 1 => j - 1 \in DOMAIN rest /\ (j - 1) + 1 = j
      BY <1>3
    <3>2. \A j \in DOMAIN progress_rx : j # 1 => progress_rx[j].worker # x
      BY <1>3, <2>2, <3>1
    <3>3. CASE x = e.worker
      <4>1. 1 \in DOMAIN progress_rx /\ progress_rx[1] = e
        BY <1>3
      <4>2. Latest(progress_rx, 1)
        BY <3>2, <3>3, <4>1 DEF Latest
      <4>3. e.type = "Start" <=> Busy(x)
        BY <3>3, <4>1, <4>2 DEF ProgressInv, EventsTell
      <4>. QED  BY <1>5, <2>0, <3>3, <4>3
    <3>4. CASE x # e.worker
      <4>1. \A j \in DOMAIN progress_rx : progress_rx[j].worker # x
        BY <1>3, <3>2, <3>4
      <4>2. progress.active[x] # {} <=> Busy(x)
        BY <4>1 DEF ProgressInv, EventsTell
      <4>. QED  BY <1>5, <2>0, <3>4, <4>2
    <3>. QED  BY <3>3, <3>4
  <2>. QED  BY <1>1, <2>1, <2>2 DEF EventsTell, Busy, Latest
<1>. QED  BY <1>1, <1>2, <1>5, <1>6, <1>7 DEF ProgressInv, ProgressTypeOK

\* The logger ends, the threads are joined, or nothing happens.
LEMMA QuietProgress ==
    ASSUME ProgressInv, UNCHANGED <<nextTask, worker, progress_rx, progress>>,
           \/ logger' = logger
           \/ logger' = "ended" /\ progress_rx = <<>> /\ WorkersEnded
    PROVE  ProgressInv'
<1>1. BusyWorkers' = BusyWorkers /\ FailedWorkers' = FailedWorkers
  BY DEF BusyWorkers, FailedWorkers, Busy
<1>2. ProgressCounts'
  BY <1>1 DEF ProgressInv, ProgressCounts, Queued
<1>3. EventsTell'
  BY DEF ProgressInv, EventsTell, Latest, Busy
<1>. QED  BY <1>2, <1>3 DEF ProgressInv, ProgressTypeOK, WorkersEnded

LEMMA ProgressInvariance == ShardsSpec => []ProgressInv
<1>1. ShardsInv /\ ProgressInv /\ [ShardsNext]_svars => ProgressInv'
  <2> SUFFICES ASSUME ShardsInv, ProgressInv, [ShardsNext]_svars
               PROVE  ProgressInv'
    OBVIOUS
  <2>1. CASE UNCHANGED svars
    BY <2>1, QuietProgress DEF svars, tasks
  <2>2. CASE LoggerEnds \/ JoinShards
    BY <2>2, QuietProgress DEF LoggerEnds, JoinShards, tasks
  <2>3. CASE ApplyEvent
    BY <2>3, ApplyProgress
  <2>4. CASE \E w \in Worker : ShardWorker(w)
    BY <2>4, StartShardProgress, SilentProgress, ShardDoneProgress, ShardFailsProgress DEF ShardWorker
  <2>. QED  BY <2>1, <2>2, <2>3, <2>4 DEF ShardsNext, ShardLogger
<1>. QED  BY <1>1, InitProgressInv, ShardsInvariance, PTL DEF ShardsSpec

\* The last line of the logger accounts for every task that was taken and
\* shows no worker busy: an event is never lost between a worker that ends and
\* the thread that counts (run_shards, progress_logger).
THEOREM ProgressAccountsAlways == ShardsSpec => []ProgressAccounts
<1>1. ProgressInv => ProgressAccounts
  <2> SUFFICES ASSUME ProgressInv, logger = "ended"
               PROVE  /\ progress.completed + progress.failed = nextTask
                      /\ progress.failed = Cardinality(FailedWorkers)
                      /\ \A w \in Worker : progress.active[w] = {}
    BY DEF ProgressAccounts, FailedWorkers
  <2>1. progress_rx = <<>> /\ WorkersEnded
    BY DEF ProgressInv
  <2>2. \A w \in Worker : ~Busy(w)
    BY <2>1 DEF WorkersEnded, Busy
  <2>3. BusyWorkers = {} /\ \A t : Queued(progress_rx, t) = {}
    BY <2>1, <2>2 DEF BusyWorkers, Queued
  <2>4. Cardinality(BusyWorkers) = 0 /\ \A t : Cardinality(Queued(progress_rx, t)) = 0
    BY <2>3, FS_EmptySet, Zenon
  <2>5. progress.completed + progress.failed = nextTask /\ progress.failed = Cardinality(FailedWorkers)
    BY <2>4, Counted DEF ProgressInv, ProgressCounts
  <2>6. \A w \in Worker : progress.active[w] = {}
    BY <2>1, <2>2 DEF ProgressInv, EventsTell
  <2>. QED  BY <2>5, <2>6
<1>. QED  BY <1>1, ProgressInvariance, PTL

-----------------------------------------------------------------------------
(* The flag patch. *)

FlagTypeOK ==
    /\ zero \in [File -> SUBSET Block]
    /\ original \in [File -> SUBSET Block]
    /\ disk \in [File -> SUBSET Block]
    /\ current \in File
    /\ pc \in {"start", "lookup", "write", "rename", "next", "ok", "err",
               "returned_ok", "returned_err"}
    /\ cursor \in 0..BlockCount
    /\ thread \in [Thread -> {"off", "claim", "read"}]
    /\ claimed \in [Thread -> 0..BlockCount]
    /\ local \in [Thread -> Seq(Block)]
    /\ flips \in Seq(Block)

Has(seq, b) == \E i \in DOMAIN seq : seq[i] = b

\* While the threads look blocks up, every block that was claimed and has a
\* zero reward is in the hands of a thread or handed in, unless a lookup failed.
LookupInv ==
    pc = "lookup" =>
        /\ data = disk[current]
        /\ \A b : Has(flips, b) => b \in zero[current]
        /\ \A t \in Thread : \A b : Has(local[t], b) => b \in zero[current]
        /\ ~err => /\ \A t \in Thread : thread[t] = "off" => cursor = BlockCount
                   /\ \A b \in zero[current] : b <= cursor =>
                         \/ Has(flips, b)
                         \/ \E t \in Thread : /\ thread[t] # "off"
                                              /\ Has(local[t], b)
                         \/ \E t \in Thread : thread[t] = "read" /\ claimed[t] = b

\* The files before the current one are patched, and what is about to be
\* written is the complete patch of the current one.
FileInv ==
    /\ pc # "lookup" => ThreadsEnded
    /\ ~dry_run => \A f \in File : f < current => disk[f] = Patched(f)
    /\ ~dry_run /\ pc = "next" => disk[current] = Patched(current)
    /\ pc \in {"write", "rename"} => data = Patched(current) /\ ~dry_run

FlagInv == FlagTypeOK /\ LookupInv /\ FileInv /\ AllOrNothing /\ AscendingOrder

LEMMA HasAppend ==
    ASSUME NEW seq \in Seq(Block), NEW x \in Block
    PROVE  \A b : Has(Append(seq, x), b) <=> Has(seq, b) \/ b = x
<1>1. /\ Len(seq) \in Nat /\ DOMAIN seq = 1..Len(seq)
      /\ DOMAIN Append(seq, x) = 1..(Len(seq) + 1)
  OBVIOUS
<1>2. (\A i \in 1..Len(seq) : Append(seq, x)[i] = seq[i]) /\ Append(seq, x)[Len(seq) + 1] = x
  OBVIOUS
<1>. QED  BY <1>1, <1>2 DEF Has

LEMMA HasConcat ==
    ASSUME NEW s \in Seq(Block), NEW u \in Seq(Block)
    PROVE  s \o u \in Seq(Block) /\ \A b : Has(s \o u, b) <=> Has(s, b) \/ Has(u, b)
<1>1. /\ Len(s) \in Nat /\ DOMAIN s = 1..Len(s)
      /\ Len(u) \in Nat /\ DOMAIN u = 1..Len(u)
      /\ DOMAIN (s \o u) = 1..(Len(s) + Len(u)) /\ s \o u \in Seq(Block)
  OBVIOUS
<1>2. /\ \A i \in 1..Len(s) : (s \o u)[i] = s[i]
      /\ \A i \in 1..Len(u) : (s \o u)[Len(s) + i] = u[i]
  OBVIOUS
<1>3. \A i \in 1..(Len(s) + Len(u)) :
         i \in 1..Len(s) \/ (i - Len(s) \in 1..Len(u) /\ i = Len(s) + (i - Len(s)))
  BY <1>1
<1>4. \A i \in 1..Len(u) : Len(s) + i \in 1..(Len(s) + Len(u))
  BY <1>1
<1>5. \A i \in 1..Len(s) : i \in 1..(Len(s) + Len(u))
  BY <1>1
<1>6. \A b : Has(s \o u, b) => Has(s, b) \/ Has(u, b)
  BY <1>1, <1>2, <1>3 DEF Has
<1>7. \A b : Has(s, b) \/ Has(u, b) => Has(s \o u, b)
  BY <1>1, <1>2, <1>4, <1>5 DEF Has
<1>. QED  BY <1>1, <1>6, <1>7

LEMMA InitFlagInv == FlagInit => FlagInv
<1> SUFFICES ASSUME FlagInit
             PROVE  FlagInv
  OBVIOUS
<1>1. original \in [File -> SUBSET Block] /\ disk = original /\ pc = "start" /\ current = 1
  BY DEF FlagInit
<1>2. 1 \in File /\ 0 \in 0..BlockCount /\ \A f \in File : ~(f < 1)
  BY FlagAssumption DEF File
<1>3. FlagTypeOK
  BY <1>1, <1>2 DEF FlagInit, FlagTypeOK
<1>4. FileInv
  BY <1>1, <1>2 DEF FlagInit, FileInv, ThreadsEnded
<1>. QED  BY <1>1, <1>3, <1>4 DEF FlagInv, LookupInv, AllOrNothing, AscendingOrder

\* Steps that leave the disk and the place in the run alone keep what is said of files.
LEMMA DiskUntouched ==
    ASSUME AllOrNothing, AscendingOrder, UNCHANGED <<zero, original, disk>>
    PROVE  AllOrNothing' /\ AscendingOrder'
BY DEF AllOrNothing, AscendingOrder, Patched

LEMMA ClaimFlagInv ==
    ASSUME FlagInv, NEW t \in Thread, ClaimBlock(t)
    PROVE  FlagInv'
<1>1. /\ thread[t] = "claim"
      /\ UNCHANGED <<onDisk, data, current, pc, local, err>>
  BY DEF ClaimBlock
<1>2. UNCHANGED <<dry_run, zero, original, disk>> /\ pc = "lookup"
  BY <1>1 DEF onDisk, FlagInv, FileInv, ThreadsEnded
<1>3. FileInv'
  BY <1>1, <1>2 DEF FlagInv, FileInv, Patched
<1>4. /\ cursor \in Nat /\ BlockCount \in Nat /\ cursor <= BlockCount
      /\ \A f \in File : \A b \in zero[f] : b \in Nat /\ b <= BlockCount
  BY FlagAssumption DEF FlagInv, FlagTypeOK, Block
<1>5. CASE cursor < BlockCount
  <2>1. /\ claimed' = [claimed EXCEPT ![t] = cursor + 1] /\ cursor' = cursor + 1
        /\ thread' = [thread EXCEPT ![t] = "read"] /\ flips' = flips
    BY <1>5 DEF ClaimBlock, MoreBlocks, AdvanceCursor
  <2>2. FlagTypeOK'
    BY <1>1, <1>2, <1>4, <1>5, <2>1 DEF FlagInv, FlagTypeOK
  <2>3. /\ \A u \in Thread : u # t => thread'[u] = thread[u] /\ claimed'[u] = claimed[u]
        /\ thread'[t] = "read" /\ claimed'[t] = cursor + 1
    BY <2>1 DEF FlagInv, FlagTypeOK
  <2>4. ASSUME ~err, NEW u \in Thread, thread'[u] = "off"
        PROVE  FALSE
    BY <1>2, <1>4, <1>5, <2>3, <2>4 DEF FlagInv, LookupInv
  <2>5. ASSUME ~err, NEW b \in zero[current], b <= cursor'
        PROVE  \/ Has(flips, b)
               \/ \E u \in Thread : thread'[u] # "off" /\ Has(local[u], b)
               \/ \E u \in Thread : thread'[u] = "read" /\ claimed'[u] = b
    <3>1. CASE b = cursor + 1
      BY <2>3, <3>1
    <3>2. CASE b <= cursor
      BY <1>1, <1>2, <2>3, <2>5, <3>2 DEF FlagInv, LookupInv
    <3>3. b \in Nat
      BY <1>4 DEF FlagInv, FlagTypeOK
    <3>. QED  BY <1>4, <2>1, <2>5, <3>1, <3>2, <3>3
  <2>6. LookupInv'
    <3>1. \A b : (Has(flips, b)' <=> Has(flips, b)) /\ \A u \in Thread : Has(local[u], b)' <=> Has(local[u], b)
      BY <1>1, <2>1 DEF Has
    <3>. QED  BY <1>1, <1>2, <2>1, <2>4, <2>5, <3>1 DEF FlagInv, LookupInv
  <2>. QED  BY <1>2, <1>3, <2>2, <2>6, DiskUntouched DEF FlagInv
<1>6. CASE ~(cursor < BlockCount)
  <2>1. /\ thread' = [thread EXCEPT ![t] = "off"] /\ flips' = flips \o local[t]
        /\ claimed' = claimed /\ cursor' = cursor
    BY <1>6 DEF ClaimBlock, MoreBlocks
  <2>2. /\ local[t] \in Seq(Block) /\ flips' \in Seq(Block)
        /\ \A b : Has(flips', b) <=> Has(flips, b) \/ Has(local[t], b)
    BY <2>1, HasConcat DEF FlagInv, FlagTypeOK
  <2>3. FlagTypeOK'
    BY <1>1, <1>2, <2>1, <2>2 DEF FlagInv, FlagTypeOK
  <2>4. (\A u \in Thread : u # t => thread'[u] = thread[u]) /\ thread'[t] = "off"
    BY <2>1 DEF FlagInv, FlagTypeOK
  <2>5. \A b : (Has(flips, b)' <=> Has(flips', b)) /\ \A u \in Thread : Has(local[u], b)' <=> Has(local[u], b)
    BY <1>1 DEF Has
  <2>6. cursor = BlockCount
    BY <1>4, <1>6
  <2>7. ASSUME ~err, NEW b \in zero[current], b <= cursor
        PROVE  \/ Has(flips', b)
               \/ \E u \in Thread : thread'[u] # "off" /\ Has(local[u], b)
               \/ \E u \in Thread : thread'[u] = "read" /\ claimed[u] = b
    <3>1. CASE \E u \in Thread : thread[u] = "read" /\ claimed[u] = b
      BY <1>1, <2>4, <3>1
    <3>2. CASE \E u \in Thread : thread[u] # "off" /\ Has(local[u], b)
      BY <2>2, <2>4, <3>2
    <3>3. CASE Has(flips, b)
      BY <2>2, <3>3
    <3>. QED  BY <1>2, <2>7, <3>1, <3>2, <3>3 DEF FlagInv, LookupInv
  <2>8. LookupInv'
    BY <1>1, <1>2, <2>1, <2>2, <2>4, <2>5, <2>6, <2>7 DEF FlagInv, LookupInv
  <2>. QED  BY <1>2, <1>3, <2>3, <2>8, DiskUntouched DEF FlagInv
<1>. QED  BY <1>5, <1>6

LEMMA LookupFlagInv ==
    ASSUME FlagInv, NEW t \in Thread, Lookup(t)
    PROVE  FlagInv'
<1>1. /\ thread[t] = "read" /\ thread' = [thread EXCEPT ![t] = "claim"]
      /\ local' = [local EXCEPT ![t] = IF claimed[t] \in zero[current]
                                       THEN Append(@, claimed[t]) ELSE @]
      /\ UNCHANGED <<onDisk, data, current, pc, cursor, claimed, flips, err>>
  BY DEF Lookup
<1>2. UNCHANGED <<dry_run, zero, original, disk>> /\ pc = "lookup"
  BY <1>1 DEF onDisk, FlagInv, FileInv, ThreadsEnded
<1>3. FileInv'
  BY <1>1, <1>2 DEF FlagInv, FileInv, Patched
<1>4. local[t] \in Seq(Block) /\ zero[current] \subseteq Block
  BY DEF FlagInv, FlagTypeOK
<1>5. /\ \A u \in Thread : u # t => thread'[u] = thread[u] /\ local'[u] = local[u]
      /\ thread'[t] = "claim"
      /\ local'[t] = IF claimed[t] \in zero[current] THEN Append(local[t], claimed[t]) ELSE local[t]
  BY <1>1 DEF FlagInv, FlagTypeOK
<1>6. /\ local'[t] \in Seq(Block)
      /\ \A b : Has(local'[t], b) <=> \/ Has(local[t], b)
                                      \/ b = claimed[t] /\ claimed[t] \in zero[current]
  BY <1>4, <1>5, HasAppend
<1>7. FlagTypeOK'
  BY <1>1, <1>2, <1>5, <1>6 DEF FlagInv, FlagTypeOK
<1>8. \A b : (Has(flips, b)' <=> Has(flips, b)) /\ \A u \in Thread : Has(local[u], b)' <=> Has(local'[u], b)
  BY <1>1 DEF Has
<1>9. ASSUME ~err, NEW b \in zero[current], b <= cursor
      PROVE  \/ Has(flips, b)
             \/ \E u \in Thread : thread'[u] # "off" /\ Has(local'[u], b)
             \/ \E u \in Thread : thread'[u] = "read" /\ claimed[u] = b
  <2>1. CASE \E u \in Thread : thread[u] = "read" /\ claimed[u] = b
    BY <1>5, <1>6, <2>1
  <2>2. CASE \E u \in Thread : thread[u] # "off" /\ Has(local[u], b)
    BY <1>5, <1>6, <2>2
  <2>. QED  BY <1>2, <1>9, <2>1, <2>2 DEF FlagInv, LookupInv
<1>10. ASSUME NEW u \in Thread, NEW b, Has(local'[u], b)
       PROVE  b \in zero[current]
  BY <1>2, <1>5, <1>6, <1>10 DEF FlagInv, LookupInv
<1>11. \A u \in Thread : thread'[u] = "off" => thread[u] = "off"
  BY <1>5
<1>12. LookupInv'
  BY <1>1, <1>2, <1>8, <1>9, <1>10, <1>11 DEF FlagInv, LookupInv
<1>. QED  BY <1>2, <1>3, <1>7, <1>12, DiskUntouched DEF FlagInv

LEMMA LookupFailsFlagInv ==
    ASSUME FlagInv, NEW t \in Thread, LookupFails(t)
    PROVE  FlagInv'
<1>1. /\ thread[t] = "read" /\ thread' = [thread EXCEPT ![t] = "off"]
      /\ flips' = flips \o local[t] /\ err' = TRUE
      /\ UNCHANGED <<onDisk, data, current, pc, cursor, claimed, local>>
  BY DEF LookupFails
<1>2. UNCHANGED <<dry_run, zero, original, disk>> /\ pc = "lookup"
  BY <1>1 DEF onDisk, FlagInv, FileInv, ThreadsEnded
<1>3. FileInv'
  BY <1>1, <1>2 DEF FlagInv, FileInv, Patched
<1>4. /\ flips' \in Seq(Block)
      /\ \A b : Has(flips', b) <=> Has(flips, b) \/ Has(local[t], b)
  BY <1>1, HasConcat DEF FlagInv, FlagTypeOK
<1>5. FlagTypeOK'
  BY <1>1, <1>2, <1>4 DEF FlagInv, FlagTypeOK
<1>6. \A b : (Has(flips, b)' <=> Has(flips', b)) /\ \A u \in Thread : Has(local[u], b)' <=> Has(local[u], b)
  BY <1>1 DEF Has
<1>7. LookupInv'
  BY <1>1, <1>2, <1>4, <1>6 DEF FlagInv, LookupInv
<1>. QED  BY <1>2, <1>3, <1>5, <1>7, DiskUntouched DEF FlagInv

LEMMA StartFileFlagInv ==
    ASSUME FlagInv, StartFile
    PROVE  FlagInv'
<1>1. /\ data' = disk[current] /\ cursor' = 0 /\ thread' = [t \in Thread |-> "claim"]
      /\ claimed' = [t \in Thread |-> 0] /\ local' = [t \in Thread |-> <<>>]
      /\ flips' = <<>> /\ err' = FALSE /\ pc' = "lookup"
      /\ UNCHANGED <<dry_run, zero, original, disk, current>>
  BY DEF StartFile, onDisk
<1>2. BlockCount \in Nat /\ \A f \in File : \A b \in zero[f] : b \in Nat /\ ~(b <= 0)
  BY FlagAssumption DEF FlagInv, FlagTypeOK, Block
<1>3. FlagTypeOK'
  BY <1>1, <1>2 DEF FlagInv, FlagTypeOK
<1>4. FileInv'
  BY <1>1 DEF FlagInv, FileInv, Patched
<1>5. LookupInv'
  BY <1>1, <1>2 DEF FlagInv, FlagTypeOK, LookupInv, Has
<1>. QED  BY <1>1, <1>3, <1>4, <1>5, DiskUntouched DEF FlagInv

\* If no lookup failed the flags that were collected are all there are to set.
LEMMA FlipsComplete ==
    ASSUME FlagInv, pc = "lookup", ThreadsEnded, ~err
    PROVE  Flips = zero[current] /\ data \cup Flips = Patched(current)
<1>1. PICK t \in Thread : thread[t] = "off"
  BY FlagAssumption DEF ThreadsEnded
<1>2. cursor = BlockCount
  BY <1>1 DEF FlagInv, LookupInv
<1>3. \A b \in zero[current] : b <= cursor
  BY <1>2, FlagAssumption DEF FlagInv, FlagTypeOK, Block
<1>4. \A b : Has(flips, b) <=> b \in zero[current]
  BY <1>3 DEF FlagInv, LookupInv, ThreadsEnded
<1>5. \A b : Has(flips, b) <=> b \in Flips
  BY DEF Has, Flips
<1>6. Flips = zero[current]
  BY <1>4, <1>5
<1>7. data \in {original[current], Patched(current)}
  BY DEF FlagInv, LookupInv, FlagTypeOK, AllOrNothing
<1>. QED  BY <1>6, <1>7 DEF Patched

LEMMA JoinFlagInv ==
    ASSUME FlagInv, JoinThreads
    PROVE  FlagInv'
<1>1. /\ pc = "lookup" /\ ThreadsEnded
      /\ UNCHANGED <<dry_run, zero, original, disk, current, threads>>
  BY DEF JoinThreads, onDisk
<1>2. UNCHANGED <<cursor, thread, claimed, local, flips, err>>
  BY <1>1 DEF threads
<1>3. pc' \in {"err", "write", "next"}
  BY DEF JoinThreads
<1>4. FlagTypeOK'
  BY <1>1, <1>2, <1>3 DEF FlagInv, FlagTypeOK
<1>5. FileInv'
  <2>1. CASE err
    BY <1>1, <1>2, <2>1 DEF JoinThreads, FlagInv, FileInv, ThreadsEnded, Patched
  <2>2. CASE ~err
    <3>1. /\ data' = Patched(current)
          /\ pc' = IF data' # data /\ ~dry_run THEN "write" ELSE "next"
      BY <1>1, <2>2, FlipsComplete DEF JoinThreads
    <3>2. data = disk[current]
      BY <1>1 DEF FlagInv, LookupInv
    <3>3. (\A f \in File : Patched(f)' = Patched(f)) /\ current \in File
      BY <1>1 DEF Patched, FlagInv, FlagTypeOK
    <3>. QED  BY <1>1, <1>2, <3>1, <3>2, <3>3 DEF FlagInv, FileInv, ThreadsEnded
  <2>. QED  BY <2>1, <2>2
<1>6. LookupInv'
  BY <1>3 DEF LookupInv
<1>. QED  BY <1>1, <1>4, <1>5, <1>6, DiskUntouched DEF FlagInv

LEMMA RenameFlagInv ==
    ASSUME FlagInv, Rename
    PROVE  FlagInv'
<1>1. /\ pc = "rename" /\ pc' = "next" /\ disk' = [disk EXCEPT ![current] = data]
      /\ UNCHANGED <<dry_run, zero, original, data, current, threads>>
  BY DEF Rename
<1>2. UNCHANGED <<cursor, thread, claimed, local, flips, err>>
  BY <1>1 DEF threads
<1>3. data = Patched(current) /\ ~dry_run /\ current \in File
  BY <1>1 DEF FlagInv, FileInv, FlagTypeOK
<1>4. /\ disk'[current] = Patched(current)
      /\ \A f \in File : f # current => disk'[f] = disk[f]
      /\ \A f \in File : Patched(f)' = Patched(f) /\ Patched(f) \subseteq Block
      /\ disk' \in [File -> SUBSET Block]
  BY <1>1, <1>3 DEF FlagInv, FlagTypeOK, Patched
<1>5. FlagTypeOK'
  BY <1>1, <1>2, <1>4 DEF FlagInv, FlagTypeOK
<1>6. \A f, g \in File : f \in Int /\ (f < g => f # g)
  BY DEF File
<1>7. FileInv'
  BY <1>1, <1>2, <1>3, <1>4, <1>6 DEF FlagInv, FileInv, ThreadsEnded
<1>8. AllOrNothing'
  BY <1>1, <1>3, <1>4 DEF FlagInv, AllOrNothing
<1>9. AscendingOrder'
  <2> SUFFICES ASSUME NEW f \in File, NEW g \in File, f < g, disk'[g] # original[g]
               PROVE  disk'[f] = Patched(f)
    BY <1>1, <1>4 DEF AscendingOrder
  <2>1. CASE f = current
    BY <1>4, <2>1
  <2>2. CASE g = current /\ f # current
    BY <1>3, <1>4, <2>2 DEF FlagInv, FileInv
  <2>3. CASE g # current /\ f # current
    BY <1>4, <2>3 DEF FlagInv, AscendingOrder
  <2>. QED  BY <2>1, <2>2, <2>3
<1>10. LookupInv'
  BY <1>1 DEF LookupInv
<1>. QED  BY <1>5, <1>7, <1>8, <1>9, <1>10 DEF FlagInv

LEMMA NextFileFlagInv ==
    ASSUME FlagInv, NextFile
    PROVE  FlagInv'
<1>1. /\ pc = "next"
      /\ UNCHANGED <<dry_run, zero, original, disk, data, threads>>
      /\ \/ current < FileCount /\ current' = current + 1 /\ pc' = "start"
         \/ pc' = "ok" /\ current' = current
  BY DEF NextFile, onDisk
<1>2. UNCHANGED <<cursor, thread, claimed, local, flips, err>>
  BY <1>1 DEF threads
<1>3. /\ current \in Nat /\ current' \in File
      /\ \A f \in File : f \in Nat /\ (f < current + 1 => f < current \/ f = current)
  BY <1>1, FlagAssumption DEF FlagInv, FlagTypeOK, File
<1>4. FlagTypeOK'
  BY <1>1, <1>2, <1>3 DEF FlagInv, FlagTypeOK
<1>5. FileInv'
  BY <1>1, <1>2, <1>3 DEF FlagInv, FileInv, ThreadsEnded, Patched
<1>6. LookupInv'
  BY <1>1 DEF LookupInv
<1>. QED  BY <1>1, <1>4, <1>5, <1>6, DiskUntouched DEF FlagInv

LEMMA RerunFlagInv ==
    ASSUME FlagInv, Rerun
    PROVE  FlagInv'
<1>1. /\ current' = 1 /\ pc' = "start" /\ thread' = [t \in Thread |-> "off"]
      /\ UNCHANGED <<dry_run, zero, original, disk, cursor, claimed, local, flips, err>>
  BY DEF Rerun, onDisk
<1>2. 1 \in File /\ \A f \in File : ~(f < 1)
  BY FlagAssumption DEF File
<1>3. FlagTypeOK'
  BY <1>1, <1>2 DEF FlagInv, FlagTypeOK
<1>4. FileInv' /\ LookupInv'
  BY <1>1, <1>2 DEF FileInv, LookupInv, ThreadsEnded
<1>. QED  BY <1>1, <1>3, <1>4, DiskUntouched DEF FlagInv

\* The other steps only move along: nothing of the files or the threads changes.
LEMMA QuietFlagInv ==
    ASSUME FlagInv, UNCHANGED <<onDisk, data, current, threads>>,
           \/ pc' = pc
           \/ pc # "lookup" /\ pc' \in {"err", "returned_ok", "returned_err"}
           \/ pc = "write" /\ pc' = "rename"
    PROVE  FlagInv'
<1>1. UNCHANGED <<dry_run, zero, original, disk, cursor, thread, claimed, local, flips, err>>
  BY DEF onDisk, threads
<1>2. FlagTypeOK'
  BY <1>1 DEF FlagInv, FlagTypeOK
<1>3. FileInv'
  BY <1>1 DEF FlagInv, FileInv, ThreadsEnded, Patched
<1>4. LookupInv'
  BY <1>1 DEF FlagInv, LookupInv, Has
<1>. QED  BY <1>1, <1>2, <1>3, <1>4, DiskUntouched DEF FlagInv

LEMMA NextFlagInv ==
    ASSUME FlagInv, [FlagNext]_fvars
    PROVE  FlagInv'
<1>1. CASE UNCHANGED fvars
  BY <1>1, QuietFlagInv DEF fvars
<1>2. CASE Fails \/ WriteTmp \/ ReturnPatch \/ MonitorStops
  BY <1>2, QuietFlagInv DEF Fails, WriteTmp, ReturnPatch, MonitorStops
<1>. QED
  BY <1>1, <1>2, ClaimFlagInv, LookupFlagInv, LookupFailsFlagInv, StartFileFlagInv,
     JoinFlagInv, RenameFlagInv, NextFileFlagInv, RerunFlagInv
     DEF FlagNext, ThreadStep, MainStep

LEMMA FlagInvariance == FlagSpec => []FlagInv
<1>1. FlagInv /\ [FlagNext]_fvars => FlagInv'
  BY NextFlagInv
<1>. QED  BY <1>1, InitFlagInv, PTL DEF FlagSpec

\* Wherever a run stops, a file is as it came or completely patched.
THEOREM AllOrNothingAlways == FlagSpec => []AllOrNothing
BY FlagInvariance, PTL DEF FlagInv

\* Wherever a run stops, the files that are patched are the first ones.
THEOREM AscendingOrderAlways == FlagSpec => []AscendingOrder
BY FlagInvariance, PTL DEF FlagInv

-----------------------------------------------------------------------------
(* Every flagged block is counted once. *)

NoTwice(seq) == \A i, j \in DOMAIN seq : seq[i] = seq[j] => i = j

\* Thread t will hand in block b.
Keeps(t, b) == /\ thread[t] # "off"
               /\ Has(local[t], b) \/ (thread[t] = "read" /\ claimed[t] = b)

\* A block that was claimed is in one place only.
OnceInv ==
    pc = "lookup" =>
        /\ NoTwice(flips)
        /\ \A t \in Thread : thread[t] # "off" => NoTwice(local[t])
        /\ \A t \in Thread : thread[t] = "read" => ~Has(local[t], claimed[t])
        /\ \A b : Has(flips, b) => b \in 1..cursor
        /\ \A t \in Thread : \A b : Keeps(t, b) => b \in 1..cursor /\ ~Has(flips, b)
        /\ \A t, u \in Thread : t # u => \A b : ~(Keeps(t, b) /\ Keeps(u, b))

LEMMA NoTwiceAppend ==
    ASSUME NEW seq \in Seq(Block), NEW x \in Block, NoTwice(seq), ~Has(seq, x)
    PROVE  NoTwice(Append(seq, x))
<1>1. /\ Len(seq) \in Nat /\ DOMAIN seq = 1..Len(seq)
      /\ DOMAIN Append(seq, x) = 1..(Len(seq) + 1)
  OBVIOUS
<1>2. (\A i \in 1..Len(seq) : Append(seq, x)[i] = seq[i]) /\ Append(seq, x)[Len(seq) + 1] = x
  OBVIOUS
<1>3. \A i \in 1..(Len(seq) + 1) : i \in 1..Len(seq) \/ i = Len(seq) + 1
  BY <1>1
<1>. QED  BY <1>1, <1>2, <1>3 DEF NoTwice, Has

LEMMA NoTwiceConcat ==
    ASSUME NEW s \in Seq(Block), NEW u \in Seq(Block), NoTwice(s), NoTwice(u),
           \A b : ~(Has(s, b) /\ Has(u, b))
    PROVE  NoTwice(s \o u)
<1>1. /\ Len(s) \in Nat /\ DOMAIN s = 1..Len(s)
      /\ Len(u) \in Nat /\ DOMAIN u = 1..Len(u)
      /\ DOMAIN (s \o u) = 1..(Len(s) + Len(u))
  OBVIOUS
<1>2. /\ \A i \in 1..Len(s) : (s \o u)[i] = s[i]
      /\ \A i \in 1..Len(u) : (s \o u)[Len(s) + i] = u[i]
  OBVIOUS
<1>3. \A i \in 1..(Len(s) + Len(u)) :
         i \in 1..Len(s) \/ (i - Len(s) \in 1..Len(u) /\ i = Len(s) + (i - Len(s)))
  BY <1>1
<1>4. ASSUME NEW i \in 1..(Len(s) + Len(u)), NEW j \in 1..(Len(s) + Len(u)),
             (s \o u)[i] = (s \o u)[j]
      PROVE  i = j
  <2>1. CASE i \in 1..Len(s) /\ j \in 1..Len(s)
    BY <1>1, <1>2, <1>4, <2>1 DEF NoTwice
  <2>2. CASE i - Len(s) \in 1..Len(u) /\ j - Len(s) \in 1..Len(u)
    <3>1. (s \o u)[i] = u[i - Len(s)] /\ (s \o u)[j] = u[j - Len(s)]
      BY <1>1, <1>2, <1>3, <2>2
    <3>2. i - Len(s) = j - Len(s)
      BY <1>1, <1>4, <2>2, <3>1 DEF NoTwice
    <3>. QED  BY <1>1, <3>2
  <2>3. CASE i \in 1..Len(s) /\ j - Len(s) \in 1..Len(u)
    <3>1. (s \o u)[i] = s[i] /\ (s \o u)[j] = u[j - Len(s)]
      BY <1>1, <1>2, <2>3
    <3>. QED  BY <1>1, <1>4, <2>3, <3>1 DEF Has
  <2>4. CASE j \in 1..Len(s) /\ i - Len(s) \in 1..Len(u)
    <3>1. (s \o u)[j] = s[j] /\ (s \o u)[i] = u[i - Len(s)]
      BY <1>1, <1>2, <2>4
    <3>. QED  BY <1>1, <1>4, <2>4, <3>1 DEF Has
  <2>. QED  BY <1>3, <2>1, <2>2, <2>3, <2>4
<1>. QED  BY <1>1, <1>4 DEF NoTwice

\* A thread that ends, in either way, hands in what it keeps.
LEMMA EndsOnce ==
    ASSUME FlagInv, OnceInv, NEW t \in Thread, thread[t] # "off",
           thread' = [thread EXCEPT ![t] = "off"], flips' = flips \o local[t],
           UNCHANGED <<pc, cursor, claimed, local>>
    PROVE  OnceInv'
<1> SUFFICES ASSUME pc = "lookup"
             PROVE  OnceInv'
  BY DEF OnceInv
<1>1. /\ \A u \in Thread : u # t => thread'[u] = thread[u]
      /\ thread'[t] = "off"
      /\ flips \in Seq(Block) /\ local[t] \in Seq(Block)
  BY DEF FlagInv, FlagTypeOK
<1>2. \A b : Has(local[t], b) => Keeps(t, b)
  BY DEF Keeps
<1>3. \A b : Has(flips', b) <=> Has(flips, b) \/ Has(local[t], b)
  BY <1>1, HasConcat
<1>4. NoTwice(flips')
  BY <1>1, <1>2, NoTwiceConcat DEF OnceInv
<1>5. \A u \in Thread : \A b : Keeps(u, b)' <=> Keeps(u, b) /\ u # t
  BY <1>1 DEF Keeps, Has
<1>6. \A b : Has(flips', b) => b \in 1..cursor
  BY <1>2, <1>3 DEF OnceInv
<1>7. \A u \in Thread : \A b : Keeps(u, b)' => b \in 1..cursor /\ ~Has(flips', b)
  BY <1>2, <1>3, <1>5 DEF OnceInv
<1>8. \A u \in Thread : thread'[u] # "off" => thread'[u] = thread[u]
  BY <1>1
<1>9. \A b : Has(flips, b)' <=> Has(flips', b)
  BY DEF Has
<1>. QED  BY <1>4, <1>5, <1>6, <1>7, <1>8, <1>9 DEF OnceInv, NoTwice, Has

LEMMA ClaimOnce ==
    ASSUME FlagInv, OnceInv, NEW t \in Thread, ClaimBlock(t)
    PROVE  OnceInv'
<1>1. thread[t] = "claim" /\ UNCHANGED <<pc, local>>
  BY DEF ClaimBlock
<1>2. CASE ~MoreBlocks
  BY <1>1, <1>2, EndsOnce DEF ClaimBlock
<1>3. CASE MoreBlocks
  <2> SUFFICES ASSUME pc = "lookup"
               PROVE  OnceInv'
    BY <1>1 DEF OnceInv
  <2>1. /\ claimed' = [claimed EXCEPT ![t] = cursor + 1] /\ cursor' = cursor + 1
        /\ thread' = [thread EXCEPT ![t] = "read"] /\ flips' = flips
    BY <1>3 DEF ClaimBlock, AdvanceCursor
  <2>2. /\ \A u \in Thread : u # t => thread'[u] = thread[u] /\ claimed'[u] = claimed[u]
        /\ thread'[t] = "read" /\ claimed'[t] = cursor + 1
    BY <2>1 DEF FlagInv, FlagTypeOK
  <2>3. cursor \in Nat /\ cursor + 1 \notin 1..cursor /\ cursor + 1 \in 1..(cursor + 1)
    BY FlagAssumption DEF FlagInv, FlagTypeOK
  <2>4. \A b : b \in 1..cursor => b \in 1..(cursor + 1)
    BY <2>3
  <2>5. \A u \in Thread : \A b : Keeps(u, b)' <=> Keeps(u, b) \/ (u = t /\ b = cursor + 1)
    BY <1>1, <2>2 DEF Keeps, Has
  <2>6. ~Has(local[t], cursor + 1) /\ ~Has(flips, cursor + 1)
        /\ \A u \in Thread : ~Keeps(u, cursor + 1)
    BY <1>1, <2>3 DEF OnceInv, Keeps
  <2>7. \A b : (Has(flips, b)' <=> Has(flips, b)) /\ \A u \in Thread : Has(local[u], b)' <=> Has(local[u], b)
    BY <1>1, <2>1 DEF Has
  <2>8. NoTwice(flips)' /\ \A u \in Thread : thread'[u] # "off" => NoTwice(local[u])'
    BY <1>1, <2>1, <2>2 DEF OnceInv, NoTwice
  <2>9. \A u \in Thread : thread'[u] = "read" => ~Has(local[u], claimed'[u])
    BY <2>2, <2>6 DEF OnceInv
  <2>10. \A u \in Thread : \A b : Keeps(u, b)' => b \in 1..(cursor + 1) /\ ~Has(flips, b)
    BY <2>3, <2>4, <2>5, <2>6 DEF OnceInv
  <2>11. \A u, v \in Thread : u # v => \A b : ~(Keeps(u, b)' /\ Keeps(v, b)')
    BY <2>5, <2>6 DEF OnceInv
  <2>12. \A b : Has(flips, b) => b \in 1..(cursor + 1)
    BY <2>4 DEF OnceInv
  <2>13. \A u \in Thread : Has(local[u], claimed[u])' <=> Has(local[u], claimed'[u])
    BY <1>1 DEF Has
  <2>. QED  BY <2>1, <2>7, <2>8, <2>9, <2>10, <2>11, <2>12, <2>13 DEF OnceInv
<1>. QED  BY <1>2, <1>3

LEMMA LookupOnce ==
    ASSUME FlagInv, OnceInv, NEW t \in Thread, Lookup(t)
    PROVE  OnceInv'
<1> SUFFICES ASSUME pc = "lookup"
             PROVE  OnceInv'
  BY DEF OnceInv, Lookup
<1>1. /\ thread[t] = "read" /\ thread' = [thread EXCEPT ![t] = "claim"]
      /\ local' = [local EXCEPT ![t] = IF claimed[t] \in zero[current]
                                       THEN Append(@, claimed[t]) ELSE @]
      /\ UNCHANGED <<pc, cursor, claimed, flips>>
  BY DEF Lookup
<1>2. local[t] \in Seq(Block) /\ zero[current] \subseteq Block
  BY DEF FlagInv, FlagTypeOK
<1>3. /\ \A u \in Thread : u # t => thread'[u] = thread[u] /\ local'[u] = local[u]
      /\ thread'[t] = "claim"
      /\ local'[t] = IF claimed[t] \in zero[current] THEN Append(local[t], claimed[t]) ELSE local[t]
  BY <1>1 DEF FlagInv, FlagTypeOK
<1>4. \A b : Has(local'[t], b) => Has(local[t], b) \/ b = claimed[t]
  BY <1>2, <1>3, HasAppend
<1>5. NoTwice(local[t]) /\ ~Has(local[t], claimed[t])
  BY <1>1 DEF OnceInv
<1>6. NoTwice(local'[t])
  BY <1>2, <1>3, <1>5, NoTwiceAppend
<1>7. \A u \in Thread : \A b : Has(local[u], b)' <=> Has(local'[u], b)
  BY DEF Has
<1>8. \A u \in Thread : \A b : Keeps(u, b)' => Keeps(u, b)
  BY <1>1, <1>3, <1>4, <1>7 DEF Keeps
<1>9. \A b : Has(flips, b)' <=> Has(flips, b)
  BY <1>1 DEF Has
<1>10. NoTwice(flips)' /\ \A u \in Thread : thread'[u] # "off" => NoTwice(local'[u])
  BY <1>1, <1>3, <1>6 DEF OnceInv, NoTwice
<1>11. \A u \in Thread : NoTwice(local[u])' <=> NoTwice(local'[u])
  BY DEF NoTwice
<1>12. \A u \in Thread : thread'[u] = "read" => ~Has(local[u], claimed[u])'
  BY <1>1, <1>3 DEF OnceInv, Has
<1>. QED  BY <1>1, <1>8, <1>9, <1>10, <1>11, <1>12 DEF OnceInv

LEMMA StartFileOnce ==
    ASSUME StartFile
    PROVE  OnceInv'
<1>1. /\ thread' = [t \in Thread |-> "claim"] /\ local' = [t \in Thread |-> <<>>]
      /\ flips' = <<>>
  BY DEF StartFile
<1>2. \A b : ~Has(flips, b)' /\ \A t \in Thread : ~Has(local[t], b)' /\ ~Keeps(t, b)'
  BY <1>1 DEF Has, Keeps
<1>3. NoTwice(flips)' /\ \A t \in Thread : NoTwice(local[t])' /\ thread'[t] = "claim"
  BY <1>1 DEF NoTwice
<1>. QED  BY <1>2, <1>3 DEF OnceInv

\* The other steps do not touch the threads, or leave the lookup.
LEMMA QuietOnce ==
    ASSUME OnceInv, UNCHANGED <<pc, thread, cursor, claimed, local, flips>> \/ pc' # "lookup"
    PROVE  OnceInv'
BY DEF OnceInv, NoTwice, Keeps, Has

-----------------------------------------------------------------------------
\* The blocks to flag in the first n files.
Zeros(n) == UNION {{f} \X zero[f] : f \in 1..n}

\* What the summary has counted, at each point of the run, and what it is
\* entitled to say when it is through.
CountInv ==
    /\ dry_run => disk = original
    /\ pc \in {"start", "lookup"} => flagged = Cardinality(Zeros(current - 1))
    /\ pc \in {"write", "rename", "next", "ok", "returned_ok"} =>
          flagged = Cardinality(Zeros(current))
    /\ pc \in {"ok", "returned_ok"} =>
          /\ current = FileCount
          /\ ~dry_run => disk[current] = Patched(current)

CountedInv == FlagInv /\ OnceInv /\ CountInv

LEMMA ZerosGrow ==
    ASSUME zero \in [File -> SUBSET Block], NEW f \in File
    PROVE  Cardinality(Zeros(f)) = Cardinality(Zeros(f - 1)) + Cardinality(zero[f])
<1>1. f \in Nat \ {0} /\ 1..(f - 1) \subseteq File /\ 1..f = 1..(f - 1) \cup {f}
  BY FlagAssumption DEF File
<1>2. zero[f] \subseteq Block /\ \A g \in 1..(f - 1) : zero[g] \subseteq Block
  BY <1>1
<1>3. IsFiniteSet(File) /\ IsFiniteSet(Block)
  BY FlagAssumption, FS_Interval DEF File, Block
<1>4. Zeros(f) = Zeros(f - 1) \cup ({f} \X zero[f])
  BY <1>1 DEF Zeros
<1>5. Zeros(f - 1) \cap ({f} \X zero[f]) = {}
  <2>1. \A p \in Zeros(f - 1) : p[1] \in 1..(f - 1)
    BY DEF Zeros
  <2>2. \A p \in {f} \X zero[f] : p[1] = f
    OBVIOUS
  <2>3. f \notin 1..(f - 1)
    BY <1>1
  <2>. QED  BY <2>1, <2>2, <2>3
<1>6. IsFiniteSet(Zeros(f - 1))
  <2>1. Zeros(f - 1) \subseteq File \X Block
    BY <1>1, <1>2 DEF Zeros
  <2>2. IsFiniteSet(File \X Block)
    BY <1>3, FS_Product
  <2>. QED  BY <2>1, <2>2, FS_Subset
<1>7. IsFiniteSet(zero[f]) /\ Cardinality(zero[f]) \in Nat
  BY <1>2, <1>3, FS_Subset, FS_CardinalityType
<1>8. IsFiniteSet({f} \X zero[f]) /\ Cardinality({f} \X zero[f]) = Cardinality(zero[f])
  <2>1. IsFiniteSet({f}) /\ Cardinality({f}) = 1
    BY FS_Singleton
  <2>2. /\ IsFiniteSet({f} \X zero[f])
        /\ Cardinality({f} \X zero[f]) = Cardinality({f}) * Cardinality(zero[f])
    BY <1>7, <2>1, FS_Product
  <2>. QED  BY <1>7, <2>1, <2>2
<1>9. Cardinality(Zeros(f)) = Cardinality(Zeros(f - 1)) + Cardinality({f} \X zero[f])
                              - Cardinality(Zeros(f - 1) \cap ({f} \X zero[f]))
  BY <1>4, <1>6, <1>8, FS_Union
<1>10. Cardinality(Zeros(f - 1) \cap ({f} \X zero[f])) = 0
  BY <1>5, FS_EmptySet
<1>11. Cardinality(Zeros(f - 1)) \in Nat
  BY <1>6, FS_CardinalityType
<1>. QED  BY <1>7, <1>8, <1>9, <1>10, <1>11

LEMMA ZerosNone == Cardinality(Zeros(0)) = 0
<1>1. Zeros(0) = {}
  BY DEF Zeros
<1>. QED  BY <1>1, FS_EmptySet

LEMMA FlipsCounted ==
    ASSUME FlagInv, OnceInv, pc = "lookup", ThreadsEnded, ~err
    PROVE  Len(flips) = Cardinality(zero[current])
<1>1. Flips = zero[current] /\ flips \in Seq(Block) /\ NoTwice(flips)
  BY FlipsComplete DEF FlagInv, FlagTypeOK, OnceInv
<1>2. Len(flips) \in Nat /\ DOMAIN flips = 1..Len(flips)
  BY <1>1
<1>3. flips \in [1..Len(flips) -> Flips] /\ \A b \in Flips : \E i \in 1..Len(flips) : flips[i] = b
  BY <1>1, <1>2 DEF Flips
<1>4. ExistsBijection(1..Len(flips), Flips)
  BY <1>1, <1>2, <1>3
     DEF NoTwice, ExistsBijection, Bijection, Injection, Surjection, IsInjective
<1>5. IsFiniteSet(1..Len(flips)) /\ Cardinality(1..Len(flips)) = Len(flips)
  <2>1. /\ IsFiniteSet(1..Len(flips))
        /\ Cardinality(1..Len(flips)) = IF 1 > Len(flips) THEN 0 ELSE Len(flips) - 1 + 1
    BY <1>2, FS_Interval
  <2>. QED  BY <1>2, <2>1
<1>. QED  BY <1>1, <1>4, <1>5, FS_Bijection

LEMMA InitCountedInv == FlagInit => CountedInv
<1> SUFFICES ASSUME FlagInit
             PROVE  CountedInv
  OBVIOUS
<1>1. disk = original /\ pc = "start" /\ current - 1 = 0 /\ flagged = 0
  BY DEF FlagInit
<1>. QED  BY <1>1, InitFlagInv, ZerosNone DEF CountedInv, OnceInv, CountInv

LEMMA JoinCount ==
    ASSUME CountedInv, JoinThreads
    PROVE  CountInv'
<1>1. /\ pc = "lookup" /\ ThreadsEnded
      /\ UNCHANGED <<dry_run, zero, original, disk, current>>
  BY DEF JoinThreads, onDisk
<1>2. CASE err
  BY <1>1, <1>2 DEF JoinThreads, CountedInv, CountInv
<1>3. CASE ~err
  <2>1. flagged' = flagged + Len(flips) /\ pc' \in {"write", "next"}
    BY <1>3 DEF JoinThreads
  <2>2. Len(flips) = Cardinality(zero[current])
    BY <1>1, <1>3, FlipsCounted DEF CountedInv
  <2>3. Cardinality(Zeros(current)) = Cardinality(Zeros(current - 1)) + Cardinality(zero[current])
    BY ZerosGrow DEF CountedInv, FlagInv, FlagTypeOK
  <2>4. flagged' = Cardinality(Zeros(current))
    BY <1>1, <2>1, <2>2, <2>3 DEF CountedInv, CountInv
  <2>5. Zeros(current)' = Zeros(current)
    BY <1>1 DEF Zeros
  <2>. QED  BY <1>1, <2>1, <2>4, <2>5 DEF CountedInv, CountInv
<1>. QED  BY <1>2, <1>3

LEMMA NextFileCount ==
    ASSUME CountedInv, NextFile
    PROVE  CountInv'
<1>1. pc = "next" /\ UNCHANGED <<dry_run, zero, original, disk, flagged>>
  BY DEF NextFile, onDisk
<1>2. flagged = Cardinality(Zeros(current)) /\ (dry_run => disk = original)
  BY <1>1 DEF CountedInv, CountInv
<1>4. current \in Nat /\ current <= FileCount /\ FileCount \in Nat
  BY FlagAssumption DEF CountedInv, FlagInv, FlagTypeOK, File
<1>5. CASE current < FileCount
  <2>1. current' = current + 1 /\ pc' = "start"
    BY <1>5 DEF NextFile
  <2>2. current' - 1 = current
    BY <1>4, <2>1
  <2>3. Zeros(current - 1)' = Zeros(current)
    BY <1>1, <2>2 DEF Zeros
  <2>. QED  BY <1>1, <1>2, <2>1, <2>3 DEF CountInv
<1>6. CASE ~(current < FileCount)
  <2>1. current' = current /\ pc' = "ok" /\ current = FileCount
    BY <1>4, <1>6 DEF NextFile
  <2>2. Zeros(current)' = Zeros(current)
    BY <1>1, <2>1 DEF Zeros
  <2>3. ~dry_run => disk'[current'] = Patched(current)'
    BY <1>1, <2>1 DEF CountedInv, FlagInv, FileInv, Patched
  <2>. QED  BY <1>1, <1>2, <2>1, <2>2, <2>3 DEF CountInv
<1>. QED  BY <1>5, <1>6

LEMMA RenameCount ==
    ASSUME CountedInv, Rename
    PROVE  CountInv'
<1>1. /\ pc = "rename" /\ pc' = "next"
      /\ UNCHANGED <<dry_run, zero, original, current, flagged>>
  BY DEF Rename
<1>2. ~dry_run
  BY <1>1 DEF CountedInv, FlagInv, FileInv
<1>3. Zeros(current)' = Zeros(current)
  BY <1>1 DEF Zeros
<1>. QED  BY <1>1, <1>2, <1>3 DEF CountedInv, CountInv

LEMMA RerunCount ==
    ASSUME CountedInv, Rerun
    PROVE  CountInv'
<1>1. /\ current' = 1 /\ pc' = "start" /\ flagged' = 0
      /\ UNCHANGED <<dry_run, disk, original>>
  BY DEF Rerun, onDisk
<1>2. Zeros(current - 1)' = {}
  BY <1>1 DEF Zeros
<1>. QED  BY <1>1, <1>2, FS_EmptySet DEF CountedInv, CountInv

\* Steps that count nothing and finish nothing.
LEMMA QuietCount ==
    ASSUME CountedInv, UNCHANGED <<onDisk, current, flagged>>,
           \/ pc' = pc
           \/ pc' \in {"err", "returned_err"}
           \/ pc = "start" /\ pc' = "lookup"
           \/ pc = "write" /\ pc' = "rename"
           \/ pc = "ok" /\ pc' = "returned_ok"
    PROVE  CountInv'
<1>1. UNCHANGED <<dry_run, zero, original, disk>>
  BY DEF onDisk
<1>2. Zeros(current)' = Zeros(current) /\ Zeros(current - 1)' = Zeros(current - 1)
  BY <1>1 DEF Zeros
<1>3. Patched(current)' = Patched(current)
  BY <1>1 DEF Patched
<1>. QED  BY <1>1, <1>2, <1>3 DEF CountedInv, CountInv

LEMMA CountedInvariance == FlagSpec => []CountedInv
<1>1. CountedInv /\ [FlagNext]_fvars => CountedInv'
  <2> SUFFICES ASSUME CountedInv, [FlagNext]_fvars
               PROVE  CountedInv'
    OBVIOUS
  <2>1. FlagInv'
    BY NextFlagInv DEF CountedInv
  <2>2. CASE UNCHANGED fvars
    BY <2>1, <2>2, QuietOnce, QuietCount DEF fvars, threads, CountedInv
  <2>3. ASSUME NEW t \in Thread, ThreadStep(t)
        PROVE  CountedInv'
    <3>1. UNCHANGED <<onDisk, pc, current, flagged>>
      BY <2>3 DEF ThreadStep, ClaimBlock, Lookup, LookupFails
    <3>2. ASSUME LookupFails(t)
          PROVE  OnceInv'
      BY <3>2, EndsOnce DEF LookupFails, CountedInv
    <3>3. OnceInv'
      BY <2>3, <3>2, ClaimOnce, LookupOnce DEF ThreadStep, CountedInv
    <3>. QED  BY <2>1, <3>1, <3>3, QuietCount DEF CountedInv
  <2>4. CASE StartFile
    BY <2>1, <2>4, StartFileOnce, QuietCount DEF StartFile, CountedInv
  <2>5. CASE Fails \/ WriteTmp \/ ReturnPatch \/ MonitorStops
    <3>1. OnceInv'
      BY <2>5, QuietOnce DEF Fails, WriteTmp, ReturnPatch, MonitorStops, threads, CountedInv
    <3>2. CountInv'
      BY <2>5, QuietCount DEF Fails, WriteTmp, ReturnPatch, MonitorStops
    <3>. QED  BY <2>1, <3>1, <3>2 DEF CountedInv
  <2>6. CASE JoinThreads \/ Rename \/ NextFile \/ Rerun
    <3>1. pc' # "lookup"
      BY <2>6 DEF JoinThreads, Rename, NextFile, Rerun
    <3>. QED  BY <2>1, <2>6, <3>1, QuietOnce, JoinCount, RenameCount, NextFileCount, RerunCount
              DEF CountedInv
  <2>. QED  BY <2>2, <2>3, <2>4, <2>5, <2>6 DEF FlagNext, MainStep
<1>. QED  BY <1>1, InitCountedInv, PTL DEF FlagSpec

\* A run that returns Ok has patched every file and counted each block once,
\* however the threads shared the blocks and whatever runs before it left.
THEOREM OkMeansPatchedAlways == FlagSpec => []OkMeansPatched
<1>1. CountedInv => OkMeansPatched
  <2> SUFFICES ASSUME CountedInv, pc = "returned_ok"
               PROVE  /\ dry_run => disk = original
                      /\ ~dry_run => \A f \in File : disk[f] = Patched(f)
                      /\ flagged = Cardinality(UNION {{f} \X zero[f] : f \in File})
    BY DEF OkMeansPatched
  <2>1. current = FileCount /\ flagged = Cardinality(Zeros(FileCount))
    BY DEF CountedInv, CountInv
  <2>2. \A f \in File : f < FileCount \/ f = FileCount
    BY FlagAssumption DEF File
  <2>. QED  BY <2>1, <2>2 DEF CountedInv, CountInv, FlagInv, FileInv, Zeros, File
<1>. QED  BY <1>1, CountedInvariance, PTL
=============================================================================
