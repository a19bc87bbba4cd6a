----------------------------- MODULE QueueQuota -----------------------------
(***************************************************************************)
(* Which class of jobs the worker takes its next job from.                 *)
(*                                                                         *)
(* The runtime (worker/src/runtime.rs) starts a task at every tick of its  *)
(* poll while fewer than max_concurrency run, and gives it the next class  *)
(* of a rotation in which each class stands as often as its weight says    *)
(* (application/src/jobs.rs).  The task first runs the schedulers, any of  *)
(* which may fail, and then claims one job: of its class, or of the first  *)
(* class in a fixed order that has one ready.  Tasks overtake each other.  *)
(*                                                                         *)
(* The weights are read when the worker starts.  One class is watched: the *)
(* model counts the jobs of other classes claimed while it had one ready.  *)
(***************************************************************************)
EXTENDS Naturals, Sequences, FiniteSets

CONSTANTS
  Task,       \* as many as max_concurrency
  Weights,    \* the weights the settings may give the classes
  MaxReady,   \* how many ready jobs of a class are told apart
  MaxLosses   \* how often the worker ends and is started again

(* The classes, in the order of the rotation and of the fallback. *)
ClassOrder == <<"manual_import", "immediate", "scheduled_collection",
                "background_maintenance">>
Class == {ClassOrder[i] : i \in 1 .. 4}

(* run_until_shutdown wants a task, NonZeroU16 and QueueQuotaWeights::new every
   class its turns. *)
ASSUME QuotaAssumption ==
  /\ IsFiniteSet(Task) /\ Task # {}
  /\ Weights \subseteq [Class -> Nat \ {0}]
  /\ MaxReady \in Nat /\ MaxLosses \in Nat

VARIABLES
  weight,   \* how often each class stands in the rotation
  rotation, \* the place in the rotation, from 0
  ready,    \* how many jobs of each class can be claimed
  task,     \* each task: idle, its class before its claim, at work or failed
  watched,  \* the class whose wait is counted
  passed,   \* how many other jobs were claimed since it waits
  losses    \* how often the worker was started again

quotaVars == <<weight, rotation, ready, task, watched, passed, losses>>

Repeat(class) == [i \in 1 .. weight[class] |-> class]
(* Wrong: the class of maintenance is left out of the rotation. *)
RotationCut ==
  Repeat("manual_import") \o Repeat("immediate")
  \o Repeat("scheduled_collection")
Rotation ==
  Repeat("manual_import") \o Repeat("immediate")
  \o Repeat("scheduled_collection") \o Repeat("background_maintenance")
WithFallback(class) ==
  <<class>> \o SelectSeq(ClassOrder, LAMBDA other : other # class)

Started(w) ==
  /\ weight' = w
  /\ rotation' = 0
  /\ task' = [t \in Task |-> "idle"]
  /\ passed' = 0

QuotaInit ==
  /\ weight \in Weights
  /\ rotation = 0
  /\ ready \in [Class -> 0 .. MaxReady]
  /\ task = [t \in Task |-> "idle"]
  /\ watched \in Class
  /\ passed = 0
  /\ losses = 0

Arrive(class) ==
  /\ ready[class] < MaxReady
  /\ ready' = [ready EXCEPT ![class] = @ + 1]
  /\ UNCHANGED <<weight, rotation, task, watched, passed, losses>>

Tick(t) ==
  /\ task[t] = "idle"
  /\ task' = [task EXCEPT ![t] = Rotation[rotation + 1]]
  /\ rotation' = (rotation + 1) % Len(Rotation)
  /\ UNCHANGED <<weight, ready, watched, passed, losses>>

(* A scheduler fails: its task keeps its place until the runtime reads the
   result, with which the worker ends (handle_task_result). *)
FailTask(t) ==
  /\ task[t] \in Class
  /\ losses < MaxLosses
  /\ task' = [task EXCEPT ![t] = "failed"]
  /\ UNCHANGED <<weight, rotation, ready, watched, passed, losses>>

Chosen(t, class) ==
  \E i \in 1 .. 4 :
    /\ WithFallback(task[t])[i] = class
    /\ ready[class] > 0
    /\ \A j \in 1 .. i - 1 : ready[WithFallback(task[t])[j]] = 0

ClaimOne(t) ==
  /\ task[t] \in Class
  /\ \E class \in Class :
       /\ Chosen(t, class)
       /\ ready' = [ready EXCEPT ![class] = @ - 1]
       /\ passed' = IF class = watched \/ ready[watched] = 0 THEN 0
                    ELSE passed + 1
  /\ task' = [task EXCEPT ![t] = "at work"]
  /\ UNCHANGED <<weight, rotation, watched, losses>>

FindNone(t) ==
  /\ task[t] \in Class
  /\ \A class \in Class : ready[class] = 0
  /\ task' = [task EXCEPT ![t] = "idle"]
  /\ UNCHANGED <<weight, rotation, ready, watched, passed, losses>>

EndTask(t) ==
  /\ task[t] = "at work"
  /\ task' = [task EXCEPT ![t] = "idle"]
  /\ UNCHANGED <<weight, rotation, ready, watched, passed, losses>>

RestartWorker ==
  /\ losses < MaxLosses
  /\ losses' = losses + 1
  /\ \E w \in Weights : Started(w)
  /\ UNCHANGED <<ready, watched>>

TaskStep(t) == Tick(t) \/ ClaimOne(t) \/ FindNone(t) \/ EndTask(t)
QuotaNext ==
  \/ \E class \in Class : Arrive(class)
  \/ \E t \in Task : TaskStep(t) \/ FailTask(t)
  \/ RestartWorker
QuotaSpec == QuotaInit /\ [][QuotaNext]_quotaVars

(* How many jobs of other classes a waiting class lets pass at most: those
   of the tasks that had their turn before it began to wait, and the other
   classes' turns of one rotation for every turn of its own that can be under
   way and not yet claim. *)
Tasks == Cardinality(Task)
Bound == Tasks - 1 + Tasks * (Len(Rotation) - weight[watched])

(* No class starves while a worker runs, whatever the others bring: a class
   with a ready job sees at most Bound jobs of other classes claimed before
   one of its own, though tasks overtake each other between their turn and
   their claim (worker/src/runtime.rs, process_tick).  A worker that is started
   again begins its rotation anew, and so does the count. *)
WaitIsBounded == passed <= Bound
=============================================================================
