------------------------------ MODULE JobQueue ------------------------------
(***************************************************************************)
(* The background job queue: the rows of the tables job and job_attempt,   *)
(* the worker slots that hold claims on them, the Pixiv accounts the jobs  *)
(* depend on and the storage gate.  Each action is one database            *)
(* transaction of crates/db/src/jobs or one step of a worker task of       *)
(* apps/worker/src/runtime.rs; a transaction takes effect atomically       *)
(* because every statement it runs holds the lock of the job row.          *)
(*                                                                         *)
(* Time is abstract: a lease is fresh, aging (a heartbeat is due) or       *)
(* expired, and `due' says that available_at and next_retry_at have        *)
(* passed.  Interruptions the environment may cause are counted by         *)
(* `disturbances' and bounded by MaxDisturbances.                          *)
(***************************************************************************)
EXTENDS Naturals, FiniteSets

CONSTANTS
  Job,              \* identities a job row may get
  Slot,             \* tasks of the worker's JoinSet: max_concurrency of them
  Account,          \* Pixiv accounts
  AccountOf,        \* the account a job was enqueued for, or NoAccount
  MediaJob,         \* jobs of kind download_media or generate_derivative
  NoJob, NoAccount, \* SQL NULL
  BackoffLength,    \* number of entries of RetryPolicy.network_backoff
  MaxDisturbances   \* bound on interruptions

ASSUME JobQueueAssumption ==
  /\ NoJob \notin Job
  /\ NoAccount \notin Account
  /\ AccountOf \in [Job -> Account \cup {NoAccount}]
  /\ MediaJob \subseteq Job
  /\ BackoffLength \in Nat \ {0}
  /\ MaxDisturbances \in Nat

VARIABLES
  job,          \* the table job
  attempt,      \* the table job_attempt: job -> attempt_number -> state
  slot,         \* what each worker task holds
  account,      \* pixiv_account.state, as far as the queue depends on it
  written,      \* attempt whose business writes are in the database (0: none)
  disk,         \* "full" when available_bytes <= stop_threshold_bytes
  scan,         \* what the storage scheduler read before it writes
  disturbances

vars == <<job, attempt, slot, account, written, disk, scan, disturbances>>

JobState == {"absent", "queued", "running", "waiting_account",
             "waiting_storage", "completed", "failed", "cancelled"}
AttemptState == {"running", "waiting_storage", "completed", "failed", "cancelled"}
AccountState == {"usable", "unconfigured", "credential_invalid"}
ErrorClass == {"transient", "credential_invalid", "permanent"}
Decision == {"retry", "block", "stop"}
Phase == {"idle", "executing", "reported", "decided", "postcommit"}
Report == {"none", "completed", "waiting_storage"} \cup ErrorClass \cup Decision

JobRow == [state : JobState, revision : Nat, attempts : Nat, owner : Nat,
           lease : {"none", "fresh", "aging", "expired"},
           retryable : {"null", "yes", "no"}, due : {"now", "later"}, failures : Nat]
Claim == [phase : Phase, job : Job \cup {NoJob}, attempt : Nat,
          revision : Nat, report : Report, count : Nat]

NoRow == [state |-> "absent", revision |-> 0, attempts |-> 0, owner |-> 0,
          lease |-> "none", retryable |-> "null", due |-> "later", failures |-> 0]
NoClaim == [phase |-> "idle", job |-> NoJob, attempt |-> 0,
            revision |-> 0, report |-> "none", count |-> 0]

-----------------------------------------------------------------------------
(* Reading the rows *)

\* The owner of a claim is a fresh UUID; it is named by the attempt it was
\* made for, which no two claims of a job share.
OwnerOf(c) == c.attempt

\* Wrong: any running, unexpired job is taken for the claim's own.
UnfencedLease(w) ==
  /\ slot[w].phase # "idle"
  /\ job[slot[w].job].state = "running"
  /\ job[slot[w].job].lease # "expired"

HoldsLease(w) ==
  LET c == slot[w]
      r == job[c.job]
  IN /\ c.phase # "idle"
     /\ r.state = "running"
     /\ r.revision = c.revision
     /\ r.owner = OwnerOf(c)
     /\ r.lease # "expired"

LeaseStatus(w) ==
  LET c == slot[w]
      r == job[c.job]
  IN CASE r.state = "cancelled" -> "cancelled"
       [] /\ r.state = "completed"
          /\ r.attempts = c.attempt
          /\ r.revision = c.revision + 1 -> "completed"
       [] /\ r.state = "running"
          /\ r.attempts = c.attempt
          /\ r.revision = c.revision
          /\ r.owner = OwnerOf(c) -> IF r.lease = "expired" THEN "expired" ELSE "active"
       [] OTHER -> "superseded"

\* Wrong: retryable failures are never taken up again.
ClaimableWithoutRetry(j) ==
  /\ job[j].due = "now"
  /\ \/ job[j].state = "queued"
     \/ job[j].state = "running" /\ job[j].lease = "expired"

Claimable(j) ==
  /\ job[j].due = "now"
  /\ \/ job[j].state = "queued"
     \/ job[j].state = "running" /\ job[j].lease = "expired"
     \/ job[j].state = "failed" /\ job[j].retryable = "yes"

AccountBlocked(j) ==
  AccountOf[j] \in Account /\ account[AccountOf[j]] # "usable"

NextAttempt(class, failureCount) ==
  CASE class = "credential_invalid" -> "block"
    [] class = "permanent" -> "stop"
    [] OTHER -> IF failureCount > BackoffLength THEN "stop" ELSE "retry"

-----------------------------------------------------------------------------
(* Writing the rows *)

\* Every transition but a claim leaves a row without lease, and every one
\* increments resource_revision.
Moved(r, state) ==
  [state |-> state, revision |-> r.revision + 1, attempts |-> r.attempts,
   owner |-> 0, lease |-> "none", retryable |-> "null", due |-> "now",
   failures |-> r.failures]

Claimed(r) ==
  [state |-> "running", revision |-> r.revision + 1, attempts |-> r.attempts + 1,
   owner |-> r.attempts + 1, lease |-> "fresh", retryable |-> "null", due |-> "now",
   failures |-> r.failures]

\* A retryable failure has a retry time in the future and counts.
Failed(r, retryable) ==
  [state |-> "failed", revision |-> r.revision + 1, attempts |-> r.attempts,
   owner |-> 0, lease |-> "none",
   retryable |-> IF retryable THEN "yes" ELSE "no", due |-> IF retryable THEN "later" ELSE "now",
   failures |-> IF retryable THEN r.failures + 1 ELSE r.failures]

\* A claim as the worker task carries it, and what becomes of it.
NewClaim(j) ==
  [phase |-> "executing", job |-> j, attempt |-> job[j].attempts + 1,
   revision |-> job[j].revision + 1, report |-> "none", count |-> 0]

Advanced(c, phase, report, count) ==
  [phase |-> phase, job |-> c.job, attempt |-> c.attempt,
   revision |-> c.revision, report |-> report, count |-> count]

\* Wrong: the attempt is left open.
CloseNothing(j, state) == UNCHANGED attempt

\* close_running_attempt: the newest row must be the running one, or the
\* transaction aborts with LeaseConflict.
CloseRunningAttempt(j, state) ==
  \E n \in DOMAIN attempt[j] :
    /\ attempt[j][n] = "running"
    /\ \A m \in DOMAIN attempt[j] : m <= n
    /\ attempt' = [attempt EXCEPT ![j][n] = state]

WaitsForAccount(j, a) ==
  /\ AccountOf[j] = a
  /\ \/ job[j].state \in {"queued", "waiting_storage"}
     \/ job[j].state = "failed" /\ job[j].retryable = "yes"

Disturb ==
  /\ disturbances < MaxDisturbances
  /\ disturbances' = disturbances + 1

Release(w) == slot' = [slot EXCEPT ![w] = NoClaim]

-----------------------------------------------------------------------------
(* The producer of a job, the worker's claim and the life of its lease *)

Enqueue(j) ==
  /\ job[j].state = "absent"
  /\ job' = [job EXCEPT ![j] =
       Moved(@, IF AccountBlocked(j) THEN "waiting_account" ELSE "queued")]
  /\ UNCHANGED <<attempt, slot, account, written, disk, scan, disturbances>>

ClaimNext(w, j) ==
  LET n == job[j].attempts
      lapsed == job[j].state = "running"
  IN /\ slot[w].phase = "idle"
     /\ Claimable(j)
     /\ lapsed => /\ n \in DOMAIN attempt[j]
                  /\ attempt[j][n] = "running"
     /\ n + 1 \notin DOMAIN attempt[j]
     /\ job' = [job EXCEPT ![j] = Claimed(@)]
     /\ attempt' = [attempt EXCEPT ![j] =
          [m \in DOMAIN @ \cup {n + 1} |->
             IF m = n + 1 THEN "running"
             ELSE IF lapsed /\ m = n THEN "failed" ELSE @[m]]]
     /\ slot' = [slot EXCEPT ![w] = NewClaim(j)]
     /\ UNCHANGED <<account, written, disk, scan, disturbances>>

LeaseAges(j) ==
  /\ job[j].lease = "fresh"
  /\ job' = [job EXCEPT ![j].lease = "aging"]
  /\ UNCHANGED <<attempt, slot, account, written, disk, scan, disturbances>>

Heartbeat(w) ==
  /\ slot[w].phase = "executing"
  /\ HoldsLease(w)
  /\ job[slot[w].job].lease = "aging"
  /\ job' = [job EXCEPT ![slot[w].job].lease = "fresh"]
  /\ UNCHANGED <<attempt, slot, account, written, disk, scan, disturbances>>

LeaseExpires(j) ==
  /\ job[j].lease = "aging"
  /\ job' = [job EXCEPT ![j].lease = "expired"]
  /\ IF \E w \in Slot : slot[w].job = j /\ HoldsLease(w)
       THEN Disturb  \* the holder is paused or cut off from the database
       ELSE UNCHANGED disturbances
  /\ UNCHANGED <<attempt, slot, account, written, disk, scan>>

RetryTimePasses(j) ==
  /\ job[j].state = "failed" /\ job[j].retryable = "yes" /\ job[j].due = "later"
  /\ job' = [job EXCEPT ![j].due = "now"]
  /\ UNCHANGED <<attempt, slot, account, written, disk, scan, disturbances>>

-----------------------------------------------------------------------------
(* What an executor does under its lease *)

\* lock_active_lease_in_tx and the business writes of the same transaction.
WriteUnderLease(w) ==
  /\ slot[w].phase = "executing"
  /\ HoldsLease(w)
  /\ written' = [written EXCEPT ![slot[w].job] = slot[w].attempt]
  /\ UNCHANGED <<job, attempt, slot, account, disk, scan, disturbances>>

\* The executor commits the job together with its last business write and
\* goes on with work that needs no lease.
FinalizeInBusinessTx(w) ==
  /\ slot[w].phase = "executing"
  /\ HoldsLease(w)
  /\ job' = [job EXCEPT ![slot[w].job] = Moved(@, "completed")]
  /\ CloseRunningAttempt(slot[w].job, "completed")
  /\ written' = [written EXCEPT ![slot[w].job] = slot[w].attempt]
  /\ slot' = [slot EXCEPT ![w] = Advanced(@, "postcommit", "none", 0)]
  /\ UNCHANGED <<account, disk, scan, disturbances>>

ReturnFinalized(w) ==
  /\ slot[w].phase = "postcommit"
  /\ Release(w)
  /\ UNCHANGED <<job, attempt, account, written, disk, scan, disturbances>>

ReportOutcome(w, outcome) ==
  /\ slot[w].phase = "executing"
  /\ (outcome = "waiting_storage") => (slot[w].job \in MediaJob /\ disk = "full")
  /\ IF outcome = "credential_invalid"
       THEN AccountOf[slot[w].job] \in Account /\ Disturb
       ELSE UNCHANGED disturbances
  /\ slot' = [slot EXCEPT ![w] = Advanced(@, "reported", outcome, 0)]
  /\ UNCHANGED <<job, attempt, account, written, disk, scan>>

\* A failed heartbeat makes the runtime read the lease status; only the
\* completion of this very attempt keeps the executor alive.
DropStaleExecutor(w) ==
  /\ slot[w].phase \in {"executing", "postcommit"}
  /\ LeaseStatus(w) \notin {"active", "completed"}
  /\ Release(w)
  /\ UNCHANGED <<job, attempt, account, written, disk, scan, disturbances>>

-----------------------------------------------------------------------------
(* What the runtime does with an outcome *)

Complete(w) ==
  /\ slot[w].phase = "reported" /\ slot[w].report = "completed"
  /\ HoldsLease(w)
  /\ job' = [job EXCEPT ![slot[w].job] = Moved(@, "completed")]
  /\ CloseRunningAttempt(slot[w].job, "completed")
  /\ Release(w)
  /\ UNCHANGED <<account, written, disk, scan, disturbances>>

WaitForStorage(w) ==
  /\ slot[w].phase = "reported" /\ slot[w].report = "waiting_storage"
  /\ HoldsLease(w)
  /\ job' = [job EXCEPT ![slot[w].job] = Moved(@, "waiting_storage")]
  /\ CloseRunningAttempt(slot[w].job, "waiting_storage")
  /\ Release(w)
  /\ UNCHANGED <<account, written, disk, scan, disturbances>>

\* failure_decision reads retryable_failure_count in a transaction of its own.
DecideFailure(w) ==
  LET count == job[slot[w].job].failures + 1
  IN /\ slot[w].phase = "reported" /\ slot[w].report \in ErrorClass
     /\ slot' = [slot EXCEPT ![w] =
          Advanced(@, "decided", NextAttempt(@.report, count), count)]
     /\ UNCHANGED <<job, attempt, account, written, disk, scan, disturbances>>

Fail(w) ==
  /\ slot[w].phase = "decided" /\ slot[w].report \in {"retry", "stop"}
  /\ HoldsLease(w)
  /\ job' = [job EXCEPT ![slot[w].job] = Failed(@, slot[w].report = "retry")]
  /\ CloseRunningAttempt(slot[w].job, "failed")
  /\ Release(w)
  /\ UNCHANGED <<account, written, disk, scan, disturbances>>

\* block_account_for_job: the job, its account and every waiting job of the
\* account in one transaction.
BlockAccountForJob(w) ==
  LET j == slot[w].job
      a == AccountOf[j]
  IN /\ slot[w].phase = "decided" /\ slot[w].report = "block"
     /\ HoldsLease(w)
     /\ a \in Account
     /\ job' = [k \in Job |->
          IF k = j \/ WaitsForAccount(k, a) THEN Moved(job[k], "waiting_account")
          ELSE job[k]]
     /\ CloseRunningAttempt(j, "failed")
     /\ account' = [account EXCEPT ![a] =
          IF @ = "unconfigured" THEN @ ELSE "credential_invalid"]
     /\ Release(w)
     /\ UNCHANGED <<written, disk, scan, disturbances>>

\* The finishing transaction meets LeaseConflict and the status is not
\* Active: the outcome is dropped and the task ends.
OutcomeRejected(w) ==
  /\ \/ slot[w].phase = "decided"
     \/ slot[w].phase = "reported" /\ slot[w].report \notin ErrorClass
  /\ ~HoldsLease(w)
  /\ LeaseStatus(w) # "active"
  /\ Release(w)
  /\ UNCHANGED <<job, attempt, account, written, disk, scan, disturbances>>

\* A panic, an aborted task after the shutdown grace, or a process exit
\* (which is this step for every slot): the rows stay as they are.
Crash(w) ==
  /\ slot[w].phase # "idle"
  /\ Release(w)
  /\ Disturb
  /\ UNCHANGED <<job, attempt, account, written, disk, scan>>

-----------------------------------------------------------------------------
(* The operator, the account and the storage scheduler *)

\* Wrong: completed jobs can be cancelled.
CancelAnything(j) ==
  /\ job[j].state \notin {"absent", "cancelled"}
  /\ job' = [job EXCEPT ![j] = Moved(@, "cancelled")]
  /\ IF job[j].state = "running" THEN CloseRunningAttempt(j, "cancelled")
                                 ELSE UNCHANGED attempt
  /\ UNCHANGED <<slot, account, written, disk, scan, disturbances>>

\* The revision the caller read is the row's, or the call is refused and
\* changes nothing.
CancelRequested(j) ==
  /\ job[j].state \in {"queued", "running", "waiting_account", "waiting_storage", "failed"}
  /\ job' = [job EXCEPT ![j] = Moved(@, "cancelled")]
  /\ IF job[j].state = "running" THEN CloseRunningAttempt(j, "cancelled")
                                 ELSE UNCHANGED attempt
  /\ UNCHANGED <<slot, account, written, disk, scan, disturbances>>

RetryRequested(j) ==
  /\ job[j].state = "failed"
  /\ job' = [job EXCEPT ![j] = Moved(@, "queued")]
  /\ Disturb
  /\ UNCHANGED <<attempt, slot, account, written, disk, scan>>

\* block_account and clear_account_credential.
AccountLost(a, state) ==
  /\ account' = [account EXCEPT ![a] =
       IF state = "credential_invalid" /\ @ = "unconfigured" THEN @ ELSE state]
  /\ job' = [k \in Job |->
       IF WaitsForAccount(k, a) THEN Moved(job[k], "waiting_account") ELSE job[k]]
  /\ Disturb
  /\ UNCHANGED <<attempt, slot, written, disk, scan>>

\* activate_validated_account; `resume' is the flag the account service
\* computed from the account state it read earlier (module PixivAccount).
ActivateAccount(a, resume) ==
  /\ account' = [account EXCEPT ![a] = "usable"]
  /\ job' = [k \in Job |->
       IF resume /\ AccountOf[k] = a /\ job[k].state = "waiting_account"
         THEN Moved(job[k], "queued") ELSE job[k]]
  /\ UNCHANGED <<attempt, slot, written, disk, scan, disturbances>>

DiskChanges ==
  /\ disk' = IF disk = "full" THEN "free" ELSE "full"
  /\ Disturb
  /\ UNCHANGED <<job, attempt, slot, account, written, scan>>

StorageScanReads ==
  /\ scan = "idle"
  /\ scan' = IF disk = "full" THEN "stopped" ELSE "allowed"
  /\ UNCHANGED <<job, attempt, slot, account, written, disk, disturbances>>

SetStorageWriteAllowed ==
  /\ scan # "idle"
  /\ job' = [j \in Job |->
       IF scan = "allowed" /\ job[j].state = "waiting_storage"
         THEN Moved(job[j], "queued")
       ELSE IF scan = "stopped" /\ job[j].state = "queued" /\ j \in MediaJob
         THEN Moved(job[j], "waiting_storage")
       ELSE job[j]]
  /\ scan' = "idle"
  /\ UNCHANGED <<attempt, slot, account, written, disk, disturbances>>

-----------------------------------------------------------------------------
Init ==
  /\ job = [j \in Job |-> NoRow]
  /\ attempt = [j \in Job |-> [n \in {} |-> "running"]]
  /\ slot = [w \in Slot |-> NoClaim]
  /\ account \in [Account -> AccountState]
  /\ written = [j \in Job |-> 0]
  /\ disk = "free"
  /\ scan = "idle"
  /\ disturbances = 0

ExecutorStep(w) ==
  \/ WriteUnderLease(w)
  \/ FinalizeInBusinessTx(w)
  \/ ReturnFinalized(w)
  \/ \E outcome \in {"completed", "waiting_storage"} \cup ErrorClass : ReportOutcome(w, outcome)
  \/ DropStaleExecutor(w)

RuntimeStep(w) ==
  \/ Complete(w)
  \/ WaitForStorage(w)
  \/ DecideFailure(w)
  \/ Fail(w)
  \/ BlockAccountForJob(w)
  \/ OutcomeRejected(w)

JobStep(j) ==
  \/ Enqueue(j)
  \/ LeaseAges(j)
  \/ LeaseExpires(j)
  \/ RetryTimePasses(j)
  \/ CancelRequested(j)
  \/ RetryRequested(j)

AccountStep(a) ==
  \/ \E state \in {"unconfigured", "credential_invalid"} : AccountLost(a, state)
  \/ \E resume \in BOOLEAN : ActivateAccount(a, resume)

StorageStep == DiskChanges \/ StorageScanReads \/ SetStorageWriteAllowed

Next ==
  \/ \E w \in Slot, j \in Job : ClaimNext(w, j)
  \/ \E w \in Slot : Heartbeat(w) \/ ExecutorStep(w) \/ RuntimeStep(w) \/ Crash(w)
  \/ \E j \in Job : JobStep(j)
  \/ \E a \in Account : AccountStep(a)
  \/ StorageStep

Spec == Init /\ [][Next]_vars

\* The worker keeps polling and its tasks keep running; a lease nobody extends
\* runs out; retry times pass; the storage scan repeats.  Nothing is assumed
\* of operators, of the account or of the disk.
Fairness ==
  /\ WF_vars(\E w \in Slot, j \in Job : ClaimNext(w, j))
  /\ \A w \in Slot : WF_vars(ExecutorStep(w) \/ RuntimeStep(w))
  /\ \A w \in Slot :
       WF_vars(FinalizeInBusinessTx(w) \/ \E outcome \in Report : ReportOutcome(w, outcome))
  /\ \A j \in Job : /\ WF_vars(LeaseAges(j))
                     /\ WF_vars(LeaseExpires(j) /\ UNCHANGED disturbances)
                     /\ WF_vars(RetryTimePasses(j))
  /\ WF_vars(StorageScanReads) /\ WF_vars(SetStorageWriteAllowed)

FairSpec == Spec /\ Fairness

-----------------------------------------------------------------------------
(* Properties *)

\* Shape of the rows and of the claims worker tasks hold.
TypeOK ==
  /\ job \in [Job -> JobRow]
  /\ DOMAIN attempt = Job
  /\ \A j \in Job : attempt[j] \in [DOMAIN attempt[j] -> AttemptState]
  /\ slot \in [Slot -> Claim]
  /\ \A w \in Slot : slot[w].phase # "idle" => slot[w].job \in Job
  /\ account \in [Account -> AccountState]
  /\ written \in [Job -> Nat]
  /\ disk \in {"free", "full"}
  /\ scan \in {"idle", "allowed", "stopped"}
  /\ disturbances \in Nat

\* job_attempt is a gapless history: attempt n exists for every n up to
\* job.attempts, and a row is open exactly when the job is running and the row
\* is its newest.  claim_next and close_running_attempt abort when this is not
\* so (claiming.rs:107, transitions.rs:489), which would wedge the job.
AttemptLedger ==
  \A j \in Job :
    /\ DOMAIN attempt[j] = 1 .. job[j].attempts
    /\ job[j].state \in {"running", "completed"} => job[j].attempts > 0
    /\ \A n \in DOMAIN attempt[j] :
         attempt[j][n] = "running" <=> job[j].state = "running" /\ n = job[j].attempts

\* However claims, expiries, crashes and reclaims interleave, at most one task
\* holds a lease on a job that the guarded transactions accept.
ExclusiveLease ==
  \A v, w \in Slot :
    v # w /\ HoldsLease(v) /\ HoldsLease(w) => slot[v].job # slot[w].job

\* Fencing: a claim never carries a revision the row has not reached, two
\* claims of a job carry different revisions, and the claim whose revision is
\* the running row's is the one its newest attempt was made for.
ClaimsFenced ==
  \A w \in Slot : slot[w].phase # "idle" =>
    LET c == slot[w]
    IN /\ c.revision <= job[c.job].revision
       /\ job[c.job].state = "running" /\ job[c.job].revision = c.revision =>
            job[c.job].attempts = c.attempt
       /\ \A v \in Slot \ {w} :
            slot[v].phase # "idle" /\ slot[v].job = c.job => slot[v].revision # c.revision

\* A job completes at most once, by its newest attempt, and no attempt is
\* recorded as completed for a job that is not.
CompletedOnce ==
  \A j \in Job : \A n \in DOMAIN attempt[j] :
    attempt[j][n] = "completed" <=> job[j].state = "completed" /\ n = job[j].attempts

\* The failure count read by failure_decision is still the row's when
\* apply_failure commits the decision in a later transaction: it cannot change
\* while the row is at the revision the claim was made for.
DecisionStillCurrent ==
  \A w \in Slot :
    slot[w].phase = "decided" /\ job[slot[w].job].revision = slot[w].revision =>
      slot[w].count = job[slot[w].job].failures + 1

\* Automatic retries are bounded by the configured backoff list, through any
\* number of reclaims, waits and operator retries.
RetryBudget == \A j \in Job : job[j].failures <= BackoffLength

\* The executor that committed its job in a business transaction is never
\* dropped before its post-commit work: its lease status reads Completed.
PostCommitProtected ==
  \A w \in Slot : slot[w].phase = "postcommit" => LeaseStatus(w) = "completed"

\* A business write lands only while the attempt that made it is the open one:
\* no executor that lost its lease changes what a later attempt, a
\* cancellation or a completion decided.
NoStaleWrite ==
  [][\A j \in Job : written'[j] # written[j] =>
       /\ written'[j] \in DOMAIN attempt[j]
       /\ attempt[j][written'[j]] = "running"]_vars

\* Completed and cancelled rows and closed attempts never change again.
HistoryIsFinal ==
  [][\A j \in Job :
       /\ job[j].state \in {"completed", "cancelled"} =>
            job'[j].state = job[j].state /\ job'[j].revision = job[j].revision
       /\ \A n \in DOMAIN attempt[j] :
            attempt[j][n] # "running" =>
              n \in DOMAIN attempt'[j] /\ attempt'[j][n] = attempt[j][n]]_vars

\* The queue implements the ledger: waiting, queued and retryable jobs are
\* ready for their next round, a job that failed for good is stopped.
LedgerPhase(j) ==
  CASE job[j].state = "absent" -> "absent"
    [] job[j].state = "running" -> "active"
    [] job[j].state = "completed" -> "done"
    [] job[j].state = "cancelled" -> "cancelled"
    [] job[j].state = "failed" /\ job[j].retryable = "no" -> "stopped"
    [] OTHER -> "ready"

Ledger == INSTANCE JobLedger WITH
  phase <- [j \in Job |-> LedgerPhase(j)],
  round <- [j \in Job |-> job[j].attempts],
  effect <- written

\* Every transaction of the queue is one step of JobLedger or invisible to it.
ImplementsLedger == Ledger!Spec

Settled(j) == \/ job[j].state \in {"completed", "cancelled"}
              \/ job[j].state = "failed" /\ job[j].retryable = "no"

\* Crashed, paused, failed and parked jobs are picked up again: once the
\* environment stops interfering, an enqueued job settles, or waits for an
\* account only the operator can repair, or for a disk that stays full.
JobsSettle ==
  \A j \in Job :
    job[j].state # "absent" ~>
      \/ Settled(j)
      \/ job[j].state = "waiting_account"
      \/ job[j].state = "waiting_storage" /\ disk = "full"

=============================================================================
