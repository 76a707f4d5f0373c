---------------------------- MODULE EpochGroups ----------------------------
(***************************************************************************)
(* What extract-packed and extract-shards have in common: the range of     *)
(* epochs is cut into groups, and worker threads claim the groups from a   *)
(* queue that is filled before they start.                                 *)
(***************************************************************************)
EXTENDS Naturals, Sequences

CONSTANTS FirstEpoch,       \* config.start_epoch
          EpochCount,       \* config.epoch_count
          ShardEpochs,      \* epochs per group
          Worker            \* worker threads

ASSUME GroupsAssumption ==
    /\ FirstEpoch \in Nat
    /\ EpochCount \in Nat \ {0}
    /\ ShardEpochs \in Nat \ {0}
    /\ Worker # {}

VARIABLES
    nextTask,               \* head of the task queue
    worker,                 \* "ready", "extracting", "writing", "ok" or "err"
    task                    \* the group each worker claimed last

tasks == <<nextTask, worker, task>>

-----------------------------------------------------------------------------
\* div_ceil
GroupCount == (EpochCount + ShardEpochs - 1) \div ShardEpochs

Group == 0..(GroupCount - 1)

StartOf(g) == FirstEpoch + g * ShardEpochs

CountOf(g) == LET remaining == EpochCount - g * ShardEpochs
              IN  IF remaining < ShardEpochs THEN remaining ELSE ShardEpochs

EndOf(g) == StartOf(g) + CountOf(g) - 1

-----------------------------------------------------------------------------
\* Mutation: one task too many is handed out.
TasksLeftOverrun == nextTask <= GroupCount

TasksLeft == nextTask < GroupCount

\* Worker w takes the next task.
Takes(w) == /\ worker[w] = "ready"
            /\ TasksLeft
            /\ worker' = [worker EXCEPT ![w] = "extracting"]
            /\ task' = [task EXCEPT ![w] = nextTask]
            /\ nextTask' = nextTask + 1

\* Worker w moves from one state to another, its task stays.
Turns(w, from, to) == /\ worker[w] = from
                      /\ worker' = [worker EXCEPT ![w] = to]
                      /\ UNCHANGED <<nextTask, task>>

WorkersEnded == \A w \in Worker : worker[w] \in {"ok", "err"}

SomeFailed == \E w \in Worker : worker[w] = "err"

TasksInit == /\ nextTask = 0
             /\ worker = [w \in Worker |-> "ready"]
             /\ task = [w \in Worker |-> 0]
=============================================================================
