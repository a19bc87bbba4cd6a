----------------------------- MODULE TrashPurge -----------------------------
(***************************************************************************)
(* One archived work, its entry in the trash, the purge jobs for it, and   *)
(* the worker tasks that execute them.  A task reads its plan in one       *)
(* transaction, starts the purge in a second, removes files outside any    *)
(* transaction and finishes in a third; the operator, the downloads of the *)
(* same work, other tasks and crashes act in between.  The queue's own     *)
(* rules are module JobQueue: here a job has a state and the number of its *)
(* latest claim, and a lease may run out whenever heartbeats are late.     *)
(* Dates are left open: the retention may be over at any time, so a       *)
(* change of the date alone is no step.                                    *)
(***************************************************************************)
EXTENDS Naturals, FiniteSets

CONSTANTS
  Job,         \* purge jobs that may be created for the work
  Slot,        \* worker tasks
  File,        \* media files the work may have
  NoJob,
  MaxTrouble,  \* bound: crashes, lost leases, failing removals
  MaxOperator  \* bound: moves to the trash, cancellations and retries

ASSUME TrashPurgeAssumption ==
  /\ NoJob \notin Job
  /\ IsFiniteSet(File)
  /\ MaxTrouble \in Nat /\ MaxOperator \in Nat

VARIABLES
  work,      \* work.collection_state, "gone" once the row is deleted
  entry,     \* the trash_entry row
  recorded,  \* files named by media_revision and derivative rows
  disk,      \* files of the work that exist
  job,       \* the purge jobs
  slot,      \* what each task is doing
  trouble, requests

vars == <<work, entry, recorded, disk, job, slot, trouble, requests>>

Kept == {"metadata_only", "collected"}
EntryState == {"none", "pending", "running", "failed"}
JobState == {"none", "queued", "running", "retryable", "failed", "cancelled", "completed"}
Phase == {"idle", "load", "begin", "removing", "report"}
Trouble == {"none", "server", "permanent"}

Entry == [state : EntryState, attempts : Nat, previous : Kept]
JobRow == [state : JobState, claim : Nat]
Task == [phase : Phase, job : Job \cup {NoJob}, claim : Nat, todo : SUBSET File, error : Trouble]

Idle == [phase |-> "idle", job |-> NoJob, claim |-> 0, todo |-> {}, error |-> "none"]
NoEntry == [state |-> "none", attempts |-> 0, previous |-> "collected"]

Troubled == trouble < MaxTrouble /\ trouble' = trouble + 1
Requested == requests < MaxOperator /\ requests' = requests + 1

-----------------------------------------------------------------------------
(* The operator and the scheduler *)

\* active_purge_work_ids_in_tx
PurgeActive == \E j \in Job : job[j].state \in {"queued", "running", "retryable"}

\* Wrong: only an executing purge blocks the actions.
LaxRestorable == entry.state \in {"pending", "failed"} /\ ~PurgeActive

\* trash_action_capabilities: a started or queued purge blocks the actions.
Restorable == entry.state \in {"pending", "failed"} /\ entry.attempts = 0 /\ ~PurgeActive

MoveToTrash ==
  /\ work # "gone"
  /\ Requested
  /\ work' = "trash"
  /\ entry' = IF entry.state = "none"
                THEN [state |-> "pending", attempts |-> 0, previous |-> work]
                ELSE [state |-> "pending", attempts |-> entry.attempts,
                      previous |-> entry.previous]
  /\ UNCHANGED <<recorded, disk, job, slot, trouble>>

Restore ==
  /\ Restorable
  /\ work' = entry.previous
  /\ entry' = NoEntry
  /\ UNCHANGED <<recorded, disk, job, slot, trouble, requests>>

\* A manual purge, or the scheduler finding the retention over: a job is
\* created unless one is active.
EnqueuePurge(j) ==
  /\ entry.state \in {"pending", "failed"}
  /\ ~PurgeActive
  /\ job[j].state = "none"
  /\ job' = [job EXCEPT ![j] = [state |-> "queued", claim |-> 0]]
  /\ UNCHANGED <<work, entry, recorded, disk, slot, trouble, requests>>

Cancel(j) ==
  /\ job[j].state \in {"queued", "running", "retryable", "failed"}
  /\ entry.attempts = 0
  /\ Requested
  /\ job' = [job EXCEPT ![j] = [state |-> "cancelled", claim |-> @.claim]]
  /\ UNCHANGED <<work, entry, recorded, disk, slot, trouble>>

Retry(j) ==
  /\ job[j].state \in {"retryable", "failed"}
  /\ Requested
  /\ job' = [job EXCEPT ![j] = [state |-> "queued", claim |-> @.claim]]
  /\ UNCHANGED <<work, entry, recorded, disk, slot, trouble>>

\* A download or derivative job of the same work publishes a file and commits
\* its row, which it may also do while the work is in the trash.
SaveMedia(f) ==
  /\ work # "gone"
  /\ recorded' = recorded \cup {f}
  /\ disk' = disk \cup {f}
  /\ work' = IF work # "trash" /\ recorded' = File THEN "collected" ELSE work
  /\ UNCHANGED <<entry, job, slot, trouble, requests>>

-----------------------------------------------------------------------------
(* The executor, TrashCleanupExecutor *)

HoldsLease(s) ==
  /\ slot[s].job # NoJob
  /\ job[slot[s].job] = [state |-> "running", claim |-> slot[s].claim]

Enter(s, phase, todo, error) ==
  slot' = [slot EXCEPT ![s] =
    [phase |-> phase, job |-> @.job, claim |-> @.claim, todo |-> todo, error |-> error]]

Fails(s, error) == Enter(s, "report", {}, error)

Leaves(s) == slot' = [slot EXCEPT ![s] = Idle]

\* Wrong: a job whose task is gone is never claimed again.
ClaimQueuedOnly(s, j) ==
  /\ slot[s].phase = "idle"
  /\ job[j].state \in {"queued", "retryable"}
  /\ job' = [job EXCEPT ![j] = [state |-> "running", claim |-> @.claim + 1]]
  /\ slot' = [slot EXCEPT ![s] =
       [phase |-> "load", job |-> j, claim |-> job[j].claim + 1, todo |-> {}, error |-> "none"]]
  /\ UNCHANGED <<work, entry, recorded, disk, trouble, requests>>

\* A running job is claimed again once its lease has run out.
Claim(s, j) ==
  /\ slot[s].phase = "idle"
  /\ \/ job[j].state \in {"queued", "retryable"} /\ UNCHANGED trouble
     \/ job[j].state = "running" /\ (\A t \in Slot : slot[t].job = j => ~HoldsLease(t))
          /\ UNCHANGED trouble
     \/ job[j].state = "running" /\ (\E t \in Slot : slot[t].job = j /\ HoldsLease(t)) /\ Troubled
  /\ job' = [job EXCEPT ![j] = [state |-> "running", claim |-> @.claim + 1]]
  /\ slot' = [slot EXCEPT ![s] =
       [phase |-> "load", job |-> j, claim |-> job[j].claim + 1, todo |-> {}, error |-> "none"]]
  /\ UNCHANGED <<work, entry, recorded, disk, requests>>

\* complete_purge_job of a work that is gone already.
FinishReplay(s) ==
  /\ work = "gone"
  /\ HoldsLease(s)
  /\ job' = [job EXCEPT ![slot[s].job] = [state |-> "completed", claim |-> @.claim]]
  /\ Leaves(s)
  /\ UNCHANGED <<work, entry, recorded, disk, trouble, requests>>

LoadPlan(s) ==
  /\ slot[s].phase = "load"
  /\ \/ work = "trash" /\ Enter(s, "begin", recorded, "none") /\ UNCHANGED job
     \/ work \in Kept /\ Fails(s, "permanent") /\ UNCHANGED job
  /\ UNCHANGED <<work, entry, recorded, disk, trouble, requests>>

ReplayPurge(s) == slot[s].phase = "load" /\ FinishReplay(s)

\* Wrong: starting the purge does not count the attempt.
BeginUncounted(s) ==
  /\ slot[s].phase = "begin" /\ HoldsLease(s)
  /\ entry.state # "none"
  /\ entry' = [entry EXCEPT !.state = "running"]
  /\ Enter(s, "removing", slot[s].todo, "none")
  /\ UNCHANGED <<work, recorded, disk, job, trouble, requests>>

BeginPurge(s) ==
  /\ slot[s].phase = "begin" /\ HoldsLease(s)
  /\ \/ /\ entry.state \in {"pending", "failed"}
        /\ entry' = [state |-> "running", attempts |-> entry.attempts + 1,
                     previous |-> entry.previous]
        /\ Enter(s, "removing", slot[s].todo, "none")
     \/ /\ entry.state = "running"
        /\ Enter(s, "removing", slot[s].todo, "none")
        /\ UNCHANGED entry
     \/ /\ entry.state = "none"
        /\ Fails(s, "server")
        /\ UNCHANGED entry
  /\ UNCHANGED <<work, recorded, disk, job, trouble, requests>>

RemoveFile(s, f) ==
  /\ slot[s].phase = "removing" /\ f \in slot[s].todo
  /\ disk' = disk \ {f}
  /\ Enter(s, "removing", slot[s].todo \ {f}, slot[s].error)
  /\ UNCHANGED <<work, entry, recorded, job, trouble, requests>>

RemoveFails(s, f, error) ==
  /\ slot[s].phase = "removing" /\ f \in slot[s].todo
  /\ Troubled
  /\ Enter(s, "removing", slot[s].todo \ {f},
           IF slot[s].error = "permanent" THEN "permanent" ELSE error)
  /\ UNCHANGED <<work, entry, recorded, disk, job, requests>>

\* record_failure_job; another task may have changed the entry meanwhile.
RecordFailure(s) ==
  /\ slot[s].phase = "removing" /\ slot[s].todo = {} /\ slot[s].error # "none"
  /\ HoldsLease(s)
  /\ \/ /\ entry.state = "running"
        /\ entry' = [state |-> "failed", attempts |-> entry.attempts,
                     previous |-> entry.previous]
        /\ Fails(s, slot[s].error)
     \/ /\ entry.state # "running"
        /\ Fails(s, "server")
        /\ UNCHANGED entry
  /\ UNCHANGED <<work, recorded, disk, job, trouble, requests>>

\* complete_purge_job: the job, the work, its rows and its marker in one
\* transaction.
CompletePurge(s) ==
  /\ slot[s].phase = "removing" /\ slot[s].todo = {} /\ slot[s].error = "none"
  /\ work = "trash" /\ entry.state = "running"
  /\ HoldsLease(s)
  /\ job' = [job EXCEPT ![slot[s].job] = [state |-> "completed", claim |-> @.claim]]
  /\ work' = "gone"
  /\ entry' = NoEntry
  /\ recorded' = {}
  /\ Leaves(s)
  /\ UNCHANGED <<disk, trouble, requests>>

\* Another task completed the purge, or its failure or the operator changed
\* the entry.
CompleteConflicts(s) ==
  /\ slot[s].phase = "removing" /\ slot[s].todo = {} /\ slot[s].error = "none"
  /\ \/ FinishReplay(s)
     \/ /\ work # "gone" /\ entry.state # "running" /\ HoldsLease(s)
        /\ Fails(s, "server")
        /\ UNCHANGED <<work, entry, recorded, disk, job, trouble, requests>>

\* apply_failure: a permanent error, or the last of the configured retries,
\* ends the job.
Report(s) ==
  /\ slot[s].phase = "report" /\ HoldsLease(s)
  /\ \/ job' = [job EXCEPT ![slot[s].job] = [state |-> "failed", claim |-> @.claim]]
     \/ /\ slot[s].error = "server"
        /\ job' = [job EXCEPT ![slot[s].job] = [state |-> "retryable", claim |-> @.claim]]
  /\ Leaves(s)
  /\ UNCHANGED <<work, entry, recorded, disk, trouble, requests>>

\* A task whose lease is lost is dropped by the runtime.
DropStale(s) ==
  /\ slot[s].phase # "idle" /\ ~HoldsLease(s)
  /\ Leaves(s)
  /\ UNCHANGED <<work, entry, recorded, disk, job, trouble, requests>>

Crash(s) ==
  /\ slot[s].phase # "idle"
  /\ Troubled
  /\ Leaves(s)
  /\ UNCHANGED <<work, entry, recorded, disk, job, requests>>

-----------------------------------------------------------------------------
Init ==
  /\ work \in Kept
  /\ entry = NoEntry
  /\ recorded = IF work = "collected" THEN File ELSE {}
  /\ disk = recorded
  /\ job = [j \in Job |-> [state |-> "none", claim |-> 0]]
  /\ slot = [s \in Slot |-> Idle]
  /\ trouble = 0 /\ requests = 0

Execute(s) ==
  \/ LoadPlan(s) \/ ReplayPurge(s) \/ BeginPurge(s)
  \/ \E f \in File : RemoveFile(s, f)
  \/ RecordFailure(s) \/ CompletePurge(s) \/ CompleteConflicts(s)
  \/ Report(s) \/ DropStale(s)

SlotStep(s) ==
  \/ Execute(s)
  \/ \E j \in Job : Claim(s, j)
  \/ \E f \in File, error \in {"server", "permanent"} : RemoveFails(s, f, error)
  \/ Crash(s)

OperatorStep ==
  \/ MoveToTrash
  \/ Restore
  \/ \E j \in Job : EnqueuePurge(j) \/ Cancel(j) \/ Retry(j)

Next ==
  \/ OperatorStep
  \/ \E f \in File : SaveMedia(f)
  \/ \E s \in Slot : SlotStep(s)

Spec == Init /\ [][Next]_vars

\* The worker polls the queue and every task that is not killed goes on; the
\* process is restarted after a crash.
Fairness ==
  /\ \A s \in Slot : WF_vars(Execute(s))
  /\ WF_vars(\E s \in Slot, j \in Job : Claim(s, j))

FairSpec == Spec /\ Fairness

-----------------------------------------------------------------------------
(* Properties *)

\* Shape of the rows, and the trash entry exists exactly for a work in the
\* trash.
TypeOK ==
  /\ work \in Kept \cup {"trash", "gone"}
  /\ entry \in Entry
  /\ entry.state # "none" <=> work = "trash"
  /\ recorded \subseteq File /\ disk \subseteq File
  /\ job \in [Job -> JobRow]
  /\ slot \in [Slot -> Task]
  /\ trouble \in Nat /\ requests \in Nat

\* A work that can still be restored, now or later, has every recorded file:
\* no executor, however late, removes a file before the purge has started for
\* good.
RestorableIsComplete ==
  recorded \subseteq disk \/ (work = "trash" /\ entry.attempts > 0)

\* A purge that has started can be carried on: while the entry says running,
\* some job will go on by itself or waits for the operator's retry.
PurgeCanContinue ==
  entry.state = "running" =>
    PurgeActive \/ \E j \in Job : job[j].state = "failed"

\* The stage of the work's life.
Stage ==
  CASE work = "gone" -> "gone"
    [] work = "trash" /\ entry.attempts = 0 -> "trashed"
    [] work = "trash" /\ entry.attempts > 0 -> "purging"
    [] OTHER -> "kept"

\* The work's life is the one the trash promises.
Lifecycle == INSTANCE WorkLifecycle WITH stage <- Stage, intact <- recorded \subseteq disk

\* A restore is possible until the purge starts, and a started purge only
\* ends with the work gone ("irreversible_purge_started", transitions.rs).
ImplementsLifecycle == Lifecycle!Spec

\* A started purge ends: the work is gone, or the job waits for the
\* operator.
PurgeEnds ==
  entry.state = "running" ~>
    (work = "gone" \/ \E j \in Job : job[j].state = "failed")

\* A purge "removes every recorded file then leaves a deletion marker"
\* (the test of that name in trash_executor.rs).
PurgeRemovesEveryRecordedFile ==
  [][work # "gone" /\ work' = "gone" => recorded \cap disk' = {}]_vars
=============================================================================
