---------------------------- MODULE Subscriptions ----------------------------
(***************************************************************************)
(* One subscription, the runs that collect for it, the units of each run   *)
(* (one per source) and the job of each unit.  Schedulers, the operator,   *)
(* the workers and the state of the Pixiv account change them, each in a   *)
(* transaction of its own; a request that comes while a run is active is   *)
(* kept as a pending run and started by whoever ends the active one.       *)
(* Leases and attempts are module JobQueue's: here a running job may be    *)
(* taken over at any time, which changes nothing a run can see.            *)
(***************************************************************************)
EXTENDS Naturals

CONSTANTS
  MaxRuns,      \* bound: rows of subscription_run that may be created
  Source,       \* source keys: the units every run has
  SavesCursor,  \* FALSE for following, whose completed units clear the cursor
  MaxAsks,      \* bound: due times, manual starts, backfills, recoveries
  MaxFailures,  \* bound: failed attempts
  MaxOperator   \* bound: stops, cancellations, retries, changes, deletions

ASSUME SubscriptionsAssumption ==
  /\ MaxRuns \in Nat
  /\ Source # {}
  /\ SavesCursor \in BOOLEAN
  /\ MaxAsks \in Nat /\ MaxFailures \in Nat /\ MaxOperator \in Nat

VARIABLES
  sub,       \* the subscription row
  listed,    \* some scheduler listed it due at its present revision
  account,   \* whether the account's state lets subscriptions run
  asked,     \* manual starts that passed the account check
  run, unit, job,
  cursor,    \* sources with a stored cursor, by kind
  asks, failures, operations

budget == <<asks, failures, operations>>
vars == <<sub, listed, account, asked, run, unit, job, cursor, budget>>

Run == 1..MaxRuns  \* in the order of created_at
CursorKind == {"normal", "backfill"}
Status == {"queued", "running", "succeeded", "failed", "cancelled"}
Active == {"queued", "running"}
RecentState == {"never_run", "running", "succeeded", "failed", "paused"}
\* "retryable" is a failed job that has a retry time.
JobState == {"none", "queued", "running", "waiting_account", "retryable",
             "failed", "cancelled", "completed"}

Subscription == [exists : BOOLEAN, enabled : BOOLEAN, due : BOOLEAN,
                 pending : BOOLEAN, pendingCursor : CursorKind, recent : RecentState]
RunRow == [state : Status \cup {"none"}, cursor : CursorKind]
NoRun == [state |-> "none", cursor |-> "normal"]

TypeOK ==
  /\ sub \in Subscription
  /\ listed \in BOOLEAN
  /\ account \in {"usable", "blocked"}
  /\ asked \subseteq CursorKind
  /\ run \in [Run -> RunRow]
  /\ unit \in [Run -> [Source -> Status \cup {"none"}]]
  /\ job \in [Run -> [Source -> JobState]]
  /\ cursor \in [CursorKind -> SUBSET Source]
  /\ asks \in Nat /\ failures \in Nat /\ operations \in Nat

Init ==
  /\ sub = [exists |-> TRUE, enabled |-> TRUE, due |-> FALSE, pending |-> FALSE,
            pendingCursor |-> "normal", recent |-> "never_run"]
  /\ listed = FALSE /\ account = "usable" /\ asked = {}
  /\ run = [r \in Run |-> NoRun]
  /\ unit = [r \in Run |-> [s \in Source |-> "none"]]
  /\ job = [r \in Run |-> [s \in Source |-> "none"]]
  /\ cursor = [k \in CursorKind |-> {}]
  /\ asks = 0 /\ failures = 0 /\ operations = 0

Asks == asks < MaxAsks /\ asks' = asks + 1
Fails == failures < MaxFailures /\ failures' = failures + 1
Operates == operations < MaxOperator /\ operations' = operations + 1

-----------------------------------------------------------------------------
(* Runs and their units *)

ActiveRun(r) == run[r].state \in Active
Busy == \E r \in Run : ActiveRun(r)

\* enqueue_in_tx: a job made for a blocked account waits for it.
NewJob == IF account = "blocked" THEN "waiting_account" ELSE "queued"

\* create_run_job_in_tx: the run, its units and their jobs in one transaction.
CreateRun(q, kind, new, runs, units, jobs) ==
  /\ runs[q].state = "none" /\ \A p \in 1..(q - 1) : runs[p].state # "none"
  /\ run' = [runs EXCEPT ![q] = [state |-> "queued", cursor |-> kind]]
  /\ unit' = [units EXCEPT ![q] = [s \in Source |-> "queued"]]
  /\ job' = [jobs EXCEPT ![q] = [s \in Source |-> new]]

\* Every write of the subscription row raises its revision.
Subscribes(new) == sub' = new /\ listed' = FALSE

PendingServed ==
  Subscribes([sub EXCEPT !.pending = FALSE, !.pendingCursor = "normal", !.recent = "running"])

ParentState(units) ==
  IF \E s \in Source : units[s] = "failed" THEN "failed"
  ELSE IF \E s \in Source : units[s] = "cancelled" THEN "cancelled"
  ELSE "succeeded"

RecentOf(state) == IF state = "cancelled" THEN "paused" ELSE state

Ended(units) == \A s \in Source : units[s] \notin Active

\* Wrong: the first unit that ends takes the whole run with it.
FinishParentEarly(r, s, state, jobState) ==
  /\ run' = [run EXCEPT ![r].state = ParentState([unit[r] EXCEPT ![s] = state])]
  /\ unit' = [unit EXCEPT ![r] = [@ EXCEPT ![s] = state]]
  /\ job' = [job EXCEPT ![r] = [@ EXCEPT ![s] = jobState]]
  /\ Subscribes([sub EXCEPT !.recent = RecentOf(ParentState([unit[r] EXCEPT ![s] = state]))])

\* Wrong: the run ends without a look at the pending request.
FinishParentAlone(r, s, state, jobState) ==
  LET units == [unit EXCEPT ![r] = [@ EXCEPT ![s] = state]]
  IN  /\ unit' = units
      /\ job' = [job EXCEPT ![r] = [@ EXCEPT ![s] = jobState]]
      /\ IF Ended(units[r])
           THEN /\ run' = [run EXCEPT ![r].state = ParentState(units[r])]
                /\ Subscribes([sub EXCEPT !.recent = RecentOf(ParentState(units[r]))])
           ELSE UNCHANGED <<run, sub, listed>>

\* A unit and its job end in one transaction; with the last unit the run ends,
\* and a pending request becomes the next run.
FinishParent(r, s, state, jobState) ==
  LET units == [unit EXCEPT ![r] = [@ EXCEPT ![s] = state]]
      jobs == [job EXCEPT ![r] = [@ EXCEPT ![s] = jobState]]
      runs == [run EXCEPT ![r].state = ParentState(units[r])]
  IN  \/ /\ ~Ended(units[r])
         /\ unit' = units /\ job' = jobs
         /\ UNCHANGED <<run, sub, listed>>
      \/ /\ Ended(units[r]) /\ sub.pending
         /\ \E q \in Run : CreateRun(q, sub.pendingCursor, NewJob, runs, units, jobs)
         /\ PendingServed
      \/ /\ Ended(units[r]) /\ ~sub.pending
         /\ unit' = units /\ job' = jobs /\ run' = runs
         /\ Subscribes([sub EXCEPT !.recent = RecentOf(ParentState(units[r]))])

\* The three ends of a unit that its job brings about.
CompleteLinkedUnit(r, s) == FinishParent(r, s, "succeeded", "completed")
CancelLinkedUnit(r, s) == FinishParent(r, s, "cancelled", "cancelled")
FailLinkedUnit(r, s) == FinishParent(r, s, "failed", "failed")

\* reset_linked_subscription_unit_for_retry: the unit and its run are active again.
ResetLinkedUnit(r, s) ==
  /\ unit[r][s] \in {"queued", "failed"}
  /\ unit' = [unit EXCEPT ![r] = [@ EXCEPT ![s] = "queued"]]
  /\ run' = [run EXCEPT ![r].state =
       IF \E t \in Source : unit'[r][t] = "running" THEN "running" ELSE "queued"]
  /\ Subscribes([sub EXCEPT !.recent = "running"])

-----------------------------------------------------------------------------
(* Schedulers *)

\* Time passes next_run_at.
FallsDue ==
  /\ sub.exists /\ ~sub.due
  /\ Asks
  /\ sub' = [sub EXCEPT !.due = TRUE]
  /\ UNCHANGED <<listed, account, asked, run, unit, job, cursor, failures, operations>>

Schedulable == sub.exists /\ sub.enabled /\ sub.due /\ account = "usable"

ListDue ==
  /\ Schedulable
  /\ listed' = TRUE
  /\ UNCHANGED <<sub, account, asked, run, unit, job, cursor, budget>>

\* Wrong: a due time forgets that a backfill is pending.
ScheduleForgets ==
  /\ listed /\ Schedulable
  /\ \/ /\ Busy
        /\ Subscribes([sub EXCEPT !.pending = TRUE, !.pendingCursor = "normal", !.due = FALSE])
        /\ UNCHANGED <<run, unit, job>>
     \/ /\ ~Busy
        /\ \E q \in Run : CreateRun(q, "normal", NewJob, run, unit, job)
        /\ Subscribes([sub EXCEPT !.pending = FALSE, !.pendingCursor = "normal",
                                  !.due = FALSE, !.recent = "running"])
  /\ UNCHANGED <<account, asked, cursor, budget>>

\* A scheduler whose listing is stale writes nothing.
ScheduleDue ==
  /\ listed /\ Schedulable
  /\ \/ /\ Busy
        /\ Subscribes([sub EXCEPT !.pending = TRUE, !.due = FALSE,
                         !.pendingCursor = IF sub.pending THEN @ ELSE "normal"])
        /\ UNCHANGED <<run, unit, job>>
     \/ /\ ~Busy
        /\ \E q \in Run : CreateRun(q, "normal", NewJob, run, unit, job)
        /\ Subscribes([sub EXCEPT !.pending = FALSE, !.pendingCursor = "normal",
                                  !.due = FALSE, !.recent = "running"])
  /\ UNCHANGED <<account, asked, cursor, budget>>

-----------------------------------------------------------------------------
(* The operator *)

\* SubscriptionService::start_manual_run reads the account's state before the
\* transaction that starts the run.
AskRun(kind) ==
  /\ sub.exists /\ account = "usable"
  /\ kind \notin asked
  /\ Asks
  /\ asked' = asked \cup {kind}
  /\ UNCHANGED <<sub, listed, account, run, unit, job, cursor, failures, operations>>

\* start_manual_run_in_tx on a row already locked and read as "row".
Starts(row, kind) ==
  \/ /\ Busy
     /\ sub' = IF ~row.pending \/ (kind = "backfill" /\ row.pendingCursor = "normal")
                 THEN [row EXCEPT !.pending = TRUE,
                         !.pendingCursor = IF kind = "backfill" THEN kind ELSE @]
                 ELSE row
     /\ UNCHANGED <<run, unit, job>>
  \/ /\ ~Busy
     /\ \E q \in Run : CreateRun(q, kind, NewJob, run, unit, job)
     /\ sub' = [row EXCEPT !.recent = "running"]

StartRun(kind) ==
  /\ kind \in asked
  /\ asked' = asked \ {kind}
  /\ IF sub.exists THEN Starts(sub, kind) ELSE UNCHANGED <<sub, run, unit, job>>
  /\ listed' = (listed /\ sub' = sub)
  /\ UNCHANGED <<account, cursor, budget>>

\* update_subscription, set_subscription_enabled and the configuration of the
\* fixed subscriptions: next_run_at moves to the future or stays.
Configure(enabled) ==
  /\ sub.exists
  /\ Operates
  /\ \E due \in {sub.due, FALSE} : Subscribes([sub EXCEPT !.enabled = enabled, !.due = due])
  /\ UNCHANGED <<account, asked, run, unit, job, cursor, asks, failures>>

\* Bookmarks switched on with an initial backfill in the same transaction.
ConfigureWithBackfill ==
  /\ sub.exists
  /\ Asks
  /\ Starts([sub EXCEPT !.enabled = TRUE, !.due = FALSE], "backfill")
  /\ listed' = FALSE
  /\ UNCHANGED <<account, asked, cursor, failures, operations>>

\* stop_active_run cancels the jobs, the units and the run, and forgets what
\* was pending.
StopRun ==
  \E r \in Run :
    /\ ActiveRun(r)
    /\ Operates
    /\ job' = [job EXCEPT ![r] = [s \in Source |->
         IF @[s] \in {"none", "completed", "cancelled"} THEN @[s] ELSE "cancelled"]]
    /\ unit' = [unit EXCEPT ![r] = [s \in Source |->
         IF @[s] \in Active THEN "cancelled" ELSE @[s]]]
    /\ run' = [run EXCEPT ![r].state = "cancelled"]
    /\ Subscribes([sub EXCEPT !.pending = FALSE, !.pendingCursor = "normal", !.recent = "paused"])
    /\ UNCHANGED <<account, asked, cursor, asks, failures>>

\* The rows of the runs go with the subscription, their jobs stay.
Delete ==
  /\ sub.exists /\ ~Busy
  /\ Operates
  /\ Subscribes([sub EXCEPT !.exists = FALSE])
  /\ run' = [r \in Run |-> NoRun]
  /\ unit' = [r \in Run |-> [s \in Source |-> "none"]]
  /\ cursor' = [k \in CursorKind |-> {}]
  /\ UNCHANGED <<account, asked, job, asks, failures>>

\* cancel_requested; a unit that already failed keeps its state.
CancelJob(r, s) ==
  /\ job[r][s] \notin {"none", "completed", "cancelled"}
  /\ Operates
  /\ IF unit[r][s] \in Active
       THEN CancelLinkedUnit(r, s)
       ELSE /\ job' = [job EXCEPT ![r] = [@ EXCEPT ![s] = "cancelled"]]
            /\ UNCHANGED <<sub, listed, run, unit>>
  /\ UNCHANGED <<account, asked, cursor, asks, failures>>

\* retry_requested, unless another run is active, which the unique index of
\* active runs refuses.
RetryJob(r, s) ==
  /\ job[r][s] \in {"retryable", "failed"}
  /\ \A q \in Run \ {r} : ~ActiveRun(q)
  /\ Operates
  /\ job' = [job EXCEPT ![r] = [@ EXCEPT ![s] = "queued"]]
  /\ ResetLinkedUnit(r, s)
  /\ UNCHANGED <<account, asked, cursor, asks, failures>>

\* The job of a deleted subscription has no unit to bring back.  Such a retry
\* needs no budget: nothing else depends on it.
RetryOrphan(r, s) ==
  /\ job[r][s] \in {"retryable", "failed"}
  /\ unit[r][s] = "none"
  /\ job' = [job EXCEPT ![r] = [@ EXCEPT ![s] = "queued"]]
  /\ UNCHANGED <<sub, listed, account, asked, run, unit, cursor, budget>>

-----------------------------------------------------------------------------
(* The worker that executes the job of a unit *)

Claim(r, s) ==
  /\ job[r][s] \in {"queued", "retryable"}
  /\ job' = [job EXCEPT ![r] = [@ EXCEPT ![s] = "running"]]
  /\ UNCHANGED <<sub, listed, account, asked, run, unit, cursor, budget>>

\* mark_unit_running_job; a unit left running by a lost lease stays as it is.
MarkUnitRunning(r, s) ==
  /\ job[r][s] = "running"
  /\ unit[r][s] = "queued" \/ (unit[r][s] = "running" /\ run[r].state = "queued")
  /\ unit' = [unit EXCEPT ![r] = [@ EXCEPT ![s] = "running"]]
  /\ run' = [run EXCEPT ![r].state = "running"]
  /\ UNCHANGED <<sub, listed, account, asked, job, cursor, budget>>

\* The cursor of the unit's kind and source, written with the unit's success.
SaveCursor(r, s, saves) ==
  cursor' = [cursor EXCEPT ![run[r].cursor] =
    IF ~saves THEN @ ELSE IF SavesCursor THEN @ \cup {s} ELSE @ \ {s}]

\* complete with the unit's result, and the unit's end in the same transaction.
Complete(r, s) ==
  /\ job[r][s] = "running" /\ unit[r][s] = "running"
  /\ CompleteLinkedUnit(r, s)
  /\ SaveCursor(r, s, TRUE)
  /\ UNCHANGED <<account, asked, budget>>

\* record_unit_attempt_failure_job, before the queue hears of the failure.
RecordAttemptFailure(r, s) ==
  /\ job[r][s] = "running" /\ unit[r][s] = "running"
  /\ Fails
  /\ unit' = [unit EXCEPT ![r] = [@ EXCEPT ![s] = "queued"]]
  /\ UNCHANGED <<sub, listed, account, asked, run, job, cursor, asks, operations>>

\* fail with a retry time leaves the unit alone.
FailRetryable(r, s) ==
  /\ job[r][s] = "running"
  /\ Fails
  /\ job' = [job EXCEPT ![r] = [@ EXCEPT ![s] = "retryable"]]
  /\ UNCHANGED <<sub, listed, account, asked, run, unit, cursor, asks, operations>>

\* Wrong: the queue gives the job up and the unit is not told.
FailJobOnly(r, s) ==
  /\ job[r][s] = "running"
  /\ job' = [job EXCEPT ![r] = [@ EXCEPT ![s] = "failed"]]
  /\ UNCHANGED <<sub, listed, account, asked, run, unit, cursor, budget>>

\* fail for good ends the linked unit, when there is one.
FailTerminal(r, s) ==
  /\ job[r][s] = "running"
  /\ IF unit[r][s] \in Active
       THEN FailLinkedUnit(r, s)
       ELSE /\ unit[r][s] \in {"failed", "none"}
            /\ job' = [job EXCEPT ![r] = [@ EXCEPT ![s] = "failed"]]
            /\ UNCHANGED <<sub, listed, run, unit>>
  /\ SaveCursor(r, s, FALSE)
  /\ UNCHANGED <<account, asked, budget>>

-----------------------------------------------------------------------------
(* The account *)

\* move_jobs_to_account_wait
Waits(jobs) == [r \in Run |-> [s \in Source |->
  IF jobs[r][s] \in {"queued", "retryable"} THEN "waiting_account" ELSE jobs[r][s]]]

\* block_account_for_job: Pixiv refused the cookie the job used.
BlockAccountForJob(r, s) ==
  /\ job[r][s] = "running"
  /\ Fails
  /\ account' = "blocked"
  /\ job' = Waits([job EXCEPT ![r] = [@ EXCEPT ![s] = "waiting_account"]])
  /\ UNCHANGED <<sub, listed, asked, run, unit, cursor, asks, operations>>

\* block_account and clear_account_credential
BlockAccount ==
  /\ account = "usable"
  /\ Operates
  /\ account' = "blocked"
  /\ job' = Waits(job)
  /\ UNCHANGED <<sub, listed, asked, run, unit, cursor, asks, failures>>

Resumed(jobs) == [r \in Run |-> [s \in Source |->
  IF jobs[r][s] = "waiting_account" THEN "queued" ELSE jobs[r][s]]]

\* recover_account with resume_account_in_tx: the waiting jobs are released
\* and an enabled subscription catches up, with a backfill after an active run.
RecoverAccount ==
  /\ account = "blocked"
  /\ Asks
  /\ account' = "usable"
  /\ \/ /\ ~sub.exists \/ ~sub.enabled \/ (Busy /\ sub.pending /\ sub.pendingCursor = "backfill")
        /\ job' = Resumed(job)
        /\ UNCHANGED <<sub, listed, run, unit>>
     \/ /\ sub.exists /\ sub.enabled /\ Busy
        /\ ~(sub.pending /\ sub.pendingCursor = "backfill")
        /\ job' = Resumed(job)
        /\ Subscribes([sub EXCEPT !.pending = TRUE, !.pendingCursor = "backfill"])
        /\ UNCHANGED <<run, unit>>
     \/ /\ sub.exists /\ sub.enabled /\ ~Busy
        /\ \E q \in Run : CreateRun(q, sub.pendingCursor, "queued", run, unit, Resumed(job))
        /\ PendingServed
  /\ UNCHANGED <<asked, cursor, failures, operations>>

-----------------------------------------------------------------------------

UnitStep(r, s) ==
  \/ Claim(r, s) \/ MarkUnitRunning(r, s) \/ Complete(r, s)
  \/ RecordAttemptFailure(r, s) \/ FailRetryable(r, s) \/ FailTerminal(r, s)
  \/ BlockAccountForJob(r, s)

OperatorStep ==
  \/ \E kind \in CursorKind : AskRun(kind) \/ StartRun(kind)
  \/ \E enabled \in BOOLEAN : Configure(enabled)
  \/ ConfigureWithBackfill \/ StopRun \/ Delete
  \/ \E r \in Run, s \in Source : CancelJob(r, s) \/ RetryJob(r, s) \/ RetryOrphan(r, s)

Next ==
  \/ FallsDue
  \/ ListDue \/ ScheduleDue
  \/ OperatorStep
  \/ \E r \in Run, s \in Source : UnitStep(r, s)
  \/ BlockAccount \/ RecoverAccount

Spec == Init /\ [][Next]_vars

\* Workers claim what is due and finish what they claimed (JobQueue's JobsSettle);
\* nobody has to recover an account or to answer a failure.
Fairness == \A r \in Run, s \in Source : WF_vars(UnitStep(r, s))

FairSpec == Spec /\ Fairness

-----------------------------------------------------------------------------
(* Properties *)

\* A subscription collects in one run at a time, whoever starts or retries it.
OneActiveRun == \A q, r \in Run : ActiveRun(q) /\ ActiveRun(r) => q = r

\* A run is active exactly while one of its units is, and a run that succeeded
\* collected from every source: finish_parent_if_idle, stop_active_run and the
\* reset for a retry agree on it.
RunFollowsUnits == \A r \in Run :
  /\ ActiveRun(r) <=> \E s \in Source : unit[r][s] \in Active
  /\ run[r].state = "succeeded" => \A s \in Source : unit[r][s] = "succeeded"

\* The queue and the run never disagree on a unit: one that is still to be done
\* has a job that can still run, and one that ended has a job that ended alike.
UnitFollowsJob == \A r \in Run, s \in Source :
  CASE unit[r][s] \in Active ->
         job[r][s] \in {"queued", "running", "waiting_account", "retryable"}
    [] unit[r][s] = "succeeded" -> job[r][s] = "completed"
    [] unit[r][s] = "failed" -> job[r][s] \in {"failed", "cancelled"}
    [] unit[r][s] = "cancelled" -> job[r][s] = "cancelled"
    [] OTHER -> TRUE

\* A pending request always has an active run whose end will start it, and a
\* request that is gone leaves no backfill behind for the next one.
PendingHasCarrier ==
  sub.exists => /\ sub.pending => Busy
                /\ sub.pendingCursor = "backfill" => sub.pending

\* What the console shows as running is running.
RecentTellsTheTruth == sub.exists => (sub.recent = "running" <=> Busy)

\* A backfill that was asked for while a run was active is not replaced by
\* ordinary runs: it starts, or the operator stops everything.
BackfillKept ==
  [][sub.pending /\ sub.pendingCursor = "backfill"
       /\ ~(sub'.pending /\ sub'.pendingCursor = "backfill")
     => \/ \E r \in Run : run[r].state = "none" /\ run'[r] = [state |-> "queued", cursor |-> "backfill"]
        \/ ~(\E r \in Run : run'[r].state \in Active)]_vars

\* Every active run ends unless its account is blocked.
RunsEnd == \A r \in Run : ActiveRun(r) ~> (~ActiveRun(r) \/ account = "blocked")

=============================================================================
