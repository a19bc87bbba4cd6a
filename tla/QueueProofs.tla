---------------------------- MODULE QueueProofs -----------------------------
(***************************************************************************)
(* The job queue and the rotation of its quota: what is proved about       *)
(* JobQueue and about QueueQuota.                                          *)
(***************************************************************************)
EXTENDS JobQueue, QueueQuota, FiniteSetTheorems, TLAPS

-----------------------------------------------------------------------------
(***************************************************************************)
(* Proofs about the job queue, for any number of jobs, worker tasks and    *)
(* accounts, any backoff list and any number of disturbances.              *)
(***************************************************************************)

\* Extending or losing a lease leaves a well-typed row.
LEMMA LeaseType ==
  ASSUME NEW f \in [Job -> JobRow], NEW j \in Job,
         NEW lease \in {"none", "fresh", "aging", "expired"}
  PROVE  [f EXCEPT ![j].lease = lease] \in [Job -> JobRow]
BY DEF JobRow

\* So does a passed retry time.
LEMMA DueType ==
  ASSUME NEW f \in [Job -> JobRow], NEW j \in Job
  PROVE  [f EXCEPT ![j].due = "now"] \in [Job -> JobRow]
BY DEF JobRow

\* A step that changes well-typed rows only.
LEMMA RowsOnly ==
  ASSUME TypeOK, job' \in [Job -> JobRow], disturbances' \in Nat,
         UNCHANGED <<attempt, slot, account, written, disk, scan>>
  PROVE  TypeOK'
<1>1. slot' = slot /\ attempt' = attempt /\ account' = account /\ written' = written
      /\ disk' = disk /\ scan' = scan
  OBVIOUS
<1> QED BY <1>1 DEF TypeOK

\* The steps that are only about a row's lease or its retry time.
LEMMA ClockType ==
  /\ \A w \in Slot : TypeOK /\ Heartbeat(w) => TypeOK'
  /\ \A j \in Job : TypeOK /\ LeaseAges(j) => TypeOK'
  /\ \A j \in Job : TypeOK /\ LeaseExpires(j) => TypeOK'
  /\ \A j \in Job : TypeOK /\ RetryTimePasses(j) => TypeOK'
<1>1. ASSUME NEW w \in Slot, TypeOK, Heartbeat(w) PROVE TypeOK'
  <2>1. job \in [Job -> JobRow] /\ slot[w].job \in Job /\ disturbances \in Nat
    BY <1>1 DEF Heartbeat, TypeOK
  <2>2. job' \in [Job -> JobRow]
    BY <1>1, <2>1, LeaseType DEF Heartbeat
  <2>3. disturbances' \in Nat /\ UNCHANGED <<attempt, slot, account, written, disk, scan>>
    BY <1>1, <2>1 DEF Heartbeat
  <2> QED BY <1>1, <2>2, <2>3, RowsOnly
<1>2. ASSUME NEW j \in Job, TypeOK, LeaseAges(j) PROVE TypeOK'
  <2>1. job \in [Job -> JobRow] /\ disturbances \in Nat
    BY <1>2 DEF TypeOK
  <2>2. job' \in [Job -> JobRow]
    BY <1>2, <2>1, LeaseType DEF LeaseAges
  <2>3. disturbances' \in Nat /\ UNCHANGED <<attempt, slot, account, written, disk, scan>>
    BY <1>2, <2>1 DEF LeaseAges
  <2> QED BY <1>2, <2>2, <2>3, RowsOnly
<1>3. ASSUME NEW j \in Job, TypeOK, LeaseExpires(j) PROVE TypeOK'
  <2>1. job \in [Job -> JobRow] /\ disturbances \in Nat
    BY <1>3 DEF TypeOK
  <2>2. job' \in [Job -> JobRow]
    BY <1>3, <2>1, LeaseType DEF LeaseExpires
  <2>3. disturbances' \in Nat /\ UNCHANGED <<attempt, slot, account, written, disk, scan>>
    BY <1>3, <2>1, JobQueueAssumption DEF LeaseExpires, Disturb
  <2> QED BY <1>3, <2>2, <2>3, RowsOnly
<1>4. ASSUME NEW j \in Job, TypeOK, RetryTimePasses(j) PROVE TypeOK'
  <2>1. job \in [Job -> JobRow] /\ disturbances \in Nat
    BY <1>4 DEF TypeOK
  <2>2. job' \in [Job -> JobRow]
    BY <1>4, <2>1, DueType DEF RetryTimePasses
  <2>3. disturbances' \in Nat /\ UNCHANGED <<attempt, slot, account, written, disk, scan>>
    BY <1>4, <2>1 DEF RetryTimePasses
  <2> QED BY <1>4, <2>2, <2>3, RowsOnly
<1> QED BY <1>1, <1>2, <1>3, <1>4

\* The rows the transitions write are well typed.
LEMMA RowTypes ==
  ASSUME NEW r \in JobRow
  PROVE  /\ \A s \in JobState : Moved(r, s) \in JobRow
         /\ Claimed(r) \in JobRow
         /\ \A b \in BOOLEAN : Failed(r, b) \in JobRow
<1>1. /\ r.revision \in Nat /\ r.attempts \in Nat /\ r.failures \in Nat
      /\ r.revision + 1 \in Nat /\ r.attempts + 1 \in Nat /\ r.failures + 1 \in Nat
  BY DEF JobRow
<1>2. \A s \in JobState : Moved(r, s) \in JobRow
  BY <1>1 DEF Moved, JobRow
<1>3. Claimed(r) \in JobRow
  BY <1>1 DEF Claimed, JobRow, JobState
<1>4. \A b \in BOOLEAN : Failed(r, b) \in JobRow
  BY <1>1 DEF Failed, JobRow, JobState
<1> QED BY <1>2, <1>3, <1>4

\* Replacing one row by a well-typed one leaves well-typed rows.
LEMMA RowReplaced ==
  ASSUME NEW f \in [Job -> JobRow], NEW j \in Job, NEW r \in JobRow
  PROVE  [f EXCEPT ![j] = r] \in [Job -> JobRow]
OBVIOUS

\* The conjuncts of TypeOK about attempts and about claims.
AttemptsTyped ==
  /\ DOMAIN attempt = Job
  /\ \A j \in Job : attempt[j] \in [DOMAIN attempt[j] -> AttemptState]

SlotsTyped ==
  /\ slot \in [Slot -> Claim]
  /\ \A w \in Slot : slot[w].phase # "idle" => slot[w].job \in Job

\* Closing an attempt leaves well-typed attempts.
LEMMA CloseType ==
  ASSUME AttemptsTyped, NEW j \in Job, NEW s \in AttemptState, CloseRunningAttempt(j, s)
  PROVE  AttemptsTyped'
<1>1. PICK n \in DOMAIN attempt[j] : attempt' = [attempt EXCEPT ![j][n] = s]
  BY DEF CloseRunningAttempt
<1>2. DOMAIN attempt' = Job /\ attempt'[j] = [attempt[j] EXCEPT ![n] = s]
      /\ \A k \in Job \ {j} : attempt'[k] = attempt[k]
  BY <1>1 DEF AttemptsTyped
<1>3. attempt'[j] \in [DOMAIN attempt'[j] -> AttemptState]
  BY <1>2 DEF AttemptsTyped
<1>4. \A k \in Job \ {j} : attempt'[k] \in [DOMAIN attempt'[k] -> AttemptState]
  BY <1>2 DEF AttemptsTyped
<1> QED BY <1>2, <1>3, <1>4 DEF AttemptsTyped

\* Replacing one claim by a well-typed one leaves well-typed claims.
LEMMA SlotReplaced ==
  ASSUME SlotsTyped, NEW w \in Slot, NEW c \in Claim, slot' = [slot EXCEPT ![w] = c],
         c.phase # "idle" => c.job \in Job
  PROVE  SlotsTyped'
BY DEF SlotsTyped

\* So does releasing one.
LEMMA ReleaseType ==
  ASSUME SlotsTyped, NEW w \in Slot, Release(w)
  PROVE  SlotsTyped'
<1>1. NoClaim \in Claim /\ NoClaim.phase = "idle"
  BY DEF NoClaim, Claim, Phase, Report
<1>2. slot' = [slot EXCEPT ![w] = NoClaim]
  BY DEF Release
<1> HIDE DEF NoClaim
<1> QED BY <1>1, <1>2, SlotReplaced

\* And so does moving one to a later phase.
LEMMA AdvanceType ==
  ASSUME SlotsTyped, NEW w \in Slot, slot[w].phase # "idle",
         NEW phase \in Phase, NEW report \in Report, NEW count \in Nat,
         slot' = [slot EXCEPT ![w] = Advanced(slot[w], phase, report, count)]
  PROVE  SlotsTyped'
<1>1. slot[w] \in Claim /\ slot[w].job \in Job
  BY DEF SlotsTyped
<1>2. /\ Advanced(slot[w], phase, report, count) \in Claim
      /\ Advanced(slot[w], phase, report, count).job \in Job
  BY <1>1 DEF Advanced, Claim
<1> QED BY <1>2, SlotReplaced

\* TypeOK from its parts.
LEMMA TypeParts ==
  TypeOK <=> /\ job \in [Job -> JobRow]
             /\ AttemptsTyped
             /\ SlotsTyped
             /\ account \in [Account -> AccountState]
             /\ written \in [Job -> Nat]
             /\ disk \in {"free", "full"}
             /\ scan \in {"idle", "allowed", "stopped"}
             /\ disturbances \in Nat
BY DEF TypeOK, AttemptsTyped, SlotsTyped

\* The same in the next state.
LEMMA TypePartsAfter ==
  ASSUME job' \in [Job -> JobRow], AttemptsTyped', SlotsTyped',
         account' \in [Account -> AccountState], written' \in [Job -> Nat],
         disk' \in {"free", "full"}, scan' \in {"idle", "allowed", "stopped"},
         disturbances' \in Nat
  PROVE  TypeOK'
BY DEF TypeOK, AttemptsTyped, SlotsTyped

\* What the transactions that end a claim have in common.
LEMMA EndingType ==
  ASSUME TypeOK, NEW w \in Slot, slot[w].job \in Job, NEW r \in JobRow,
         NEW s \in AttemptState,
         job' = [job EXCEPT ![slot[w].job] = r],
         CloseRunningAttempt(slot[w].job, s), Release(w),
         UNCHANGED <<account, written, disk, scan, disturbances>>
  PROVE  TypeOK'
<1>1. job' \in [Job -> JobRow]
  BY RowReplaced, TypeParts
<1>2. AttemptsTyped' /\ SlotsTyped'
  BY CloseType, ReleaseType, TypeParts
<1>3. account' = account /\ written' = written /\ disk' = disk /\ scan' = scan
      /\ disturbances' = disturbances
  OBVIOUS
<1> QED BY <1>1, <1>2, <1>3, TypeParts, TypePartsAfter

\* Every step leaves well-typed rows and claims.
LEMMA TypeStep == TypeOK /\ [Next]_vars => TypeOK'
<1> SUFFICES ASSUME TypeOK, [Next]_vars PROVE TypeOK'
  OBVIOUS
<1>2. ASSUME NEW w \in Slot, Heartbeat(w) PROVE TypeOK'
  BY <1>2, ClockType
<1>c. ASSUME NEW j \in Job, LeaseAges(j) \/ LeaseExpires(j) \/ RetryTimePasses(j)
      PROVE  TypeOK'
  BY <1>c, ClockType
<1>p. /\ job \in [Job -> JobRow] /\ AttemptsTyped /\ SlotsTyped
      /\ account \in [Account -> AccountState] /\ written \in [Job -> Nat]
      /\ disk \in {"free", "full"} /\ scan \in {"idle", "allowed", "stopped"}
      /\ disturbances \in Nat
  BY TypeParts
<1>h. \A w \in Slot : /\ slot[w].phase # "idle" => slot[w].job \in Job
                      /\ slot[w].attempt \in Nat
                      /\ HoldsLease(w) => slot[w].phase # "idle"
  BY <1>p DEF SlotsTyped, Claim, HoldsLease
<1>q. \A j \in Job : job[j] \in JobRow /\ job[j].attempts \in Nat /\ job[j].revision \in Nat
                     /\ job[j].failures \in Nat
  BY <1>p DEF JobRow
<1>d. Disturb => disturbances' \in Nat
  BY <1>p, JobQueueAssumption DEF Disturb
<1>1. ASSUME NEW w \in Slot, NEW j \in Job, ClaimNext(w, j) PROVE TypeOK'
  <2>1. job' \in [Job -> JobRow]
    <3>1. job' = [job EXCEPT ![j] = Claimed(job[j])]
      BY <1>1 DEF ClaimNext
    <3>2. Claimed(job[j]) \in JobRow
      BY <1>q, RowTypes
    <3> QED BY <1>p, <3>1, <3>2, RowReplaced
  <2>2. AttemptsTyped'
    <3> DEFINE n == job[j].attempts
               opened == [m \in DOMAIN attempt[j] \cup {n + 1} |->
                            IF m = n + 1 THEN "running"
                            ELSE IF job[j].state = "running" /\ m = n THEN "failed"
                            ELSE attempt[j][m]]
    <3>1. attempt' = [attempt EXCEPT ![j] = opened]
      BY <1>1 DEF ClaimNext
    <3>2. opened \in [DOMAIN opened -> AttemptState]
      BY <1>p DEF AttemptsTyped, AttemptState
    <3> HIDE DEF opened
    <3>3. DOMAIN attempt' = Job /\ attempt'[j] = opened
          /\ \A k \in Job \ {j} : attempt'[k] = attempt[k]
      BY <1>p, <3>1 DEF AttemptsTyped
    <3> QED BY <1>p, <3>2, <3>3 DEF AttemptsTyped
  <2>3. SlotsTyped'
    <3>1. slot' = [slot EXCEPT ![w] = NewClaim(j)]
      BY <1>1 DEF ClaimNext
    <3>2. NewClaim(j) \in Claim /\ NewClaim(j).job \in Job
      BY <1>q DEF NewClaim, Claim, Phase, Report
    <3> HIDE DEF NewClaim
    <3> QED BY <1>p, <3>1, <3>2, SlotReplaced
  <2>4. UNCHANGED <<account, written, disk, scan, disturbances>>
    BY <1>1 DEF ClaimNext
  <2> QED BY <1>p, <2>1, <2>2, <2>3, <2>4, TypePartsAfter
<1>3. ASSUME NEW w \in Slot, ExecutorStep(w) PROVE TypeOK'
  <2>1. CASE WriteUnderLease(w)
    <3>1. written' \in [Job -> Nat]
      BY <1>p, <1>h, <2>1 DEF WriteUnderLease
    <3>2. UNCHANGED <<job, attempt, slot, account, disk, scan, disturbances>>
      BY <2>1 DEF WriteUnderLease
    <3>3. AttemptsTyped' /\ SlotsTyped'
      BY <1>p, <3>2 DEF AttemptsTyped, SlotsTyped
    <3> QED BY <1>p, <3>1, <3>2, <3>3, TypePartsAfter
  <2>2. CASE FinalizeInBusinessTx(w)
    <3>0. slot[w].job \in Job /\ slot[w].phase # "idle" /\ slot[w].attempt \in Nat
      BY <1>h, <2>2 DEF FinalizeInBusinessTx
    <3>1. job' \in [Job -> JobRow]
      <4>1. job' = [job EXCEPT ![slot[w].job] = Moved(job[slot[w].job], "completed")]
        BY <2>2 DEF FinalizeInBusinessTx
      <4>2. Moved(job[slot[w].job], "completed") \in JobRow
        BY <1>q, <3>0, RowTypes DEF JobState
      <4> QED BY <1>p, <3>0, <4>1, <4>2, RowReplaced
    <3>2. AttemptsTyped'
      BY <1>p, <2>2, <3>0, CloseType DEF FinalizeInBusinessTx, AttemptState
    <3>3. SlotsTyped'
      <4>1. slot' = [slot EXCEPT ![w] = Advanced(slot[w], "postcommit", "none", 0)]
        BY <2>2 DEF FinalizeInBusinessTx
      <4> QED BY <1>p, <3>0, <4>1, AdvanceType DEF Phase, Report
    <3>4. written' \in [Job -> Nat]
      BY <1>p, <2>2, <3>0 DEF FinalizeInBusinessTx
    <3>5. UNCHANGED <<account, disk, scan, disturbances>>
      BY <2>2 DEF FinalizeInBusinessTx
    <3> QED BY <1>p, <3>1, <3>2, <3>3, <3>4, <3>5, TypePartsAfter
  <2>3. CASE ReturnFinalized(w) \/ DropStaleExecutor(w)
    <3>1. Release(w) /\ UNCHANGED <<job, attempt, account, written, disk, scan, disturbances>>
      BY <2>3 DEF ReturnFinalized, DropStaleExecutor
    <3>2. SlotsTyped' /\ AttemptsTyped'
      BY <1>p, <3>1, ReleaseType DEF AttemptsTyped
    <3> QED BY <1>p, <3>1, <3>2, TypePartsAfter
  <2>4. ASSUME NEW outcome \in {"completed", "waiting_storage"} \cup ErrorClass,
               ReportOutcome(w, outcome) PROVE TypeOK'
    <3>1. slot' = [slot EXCEPT ![w] = Advanced(slot[w], "reported", outcome, 0)]
          /\ slot[w].phase # "idle"
      BY <2>4 DEF ReportOutcome
    <3>2. SlotsTyped'
      BY <1>p, <3>1, AdvanceType DEF Phase, Report, ErrorClass
    <3>3. UNCHANGED <<job, attempt, account, written, disk, scan>> /\ disturbances' \in Nat
      BY <1>p, <1>d, <2>4 DEF ReportOutcome
    <3>4. AttemptsTyped'
      BY <1>p, <3>3 DEF AttemptsTyped
    <3> QED BY <1>p, <3>2, <3>3, <3>4, TypePartsAfter
  <2> QED BY <1>3, <2>1, <2>2, <2>3, <2>4 DEF ExecutorStep
<1>4. ASSUME NEW w \in Slot, RuntimeStep(w) PROVE TypeOK'
  <2>1. CASE Complete(w)
    <3>1. slot[w].job \in Job
      BY <1>h, <2>1 DEF Complete
    <3>2. Moved(job[slot[w].job], "completed") \in JobRow
      BY <1>q, <3>1, RowTypes DEF JobState
    <3>3. "completed" \in AttemptState
      BY DEF AttemptState
    <3> QED BY <2>1, <3>1, <3>2, <3>3, EndingType DEF Complete
  <2>2. CASE WaitForStorage(w)
    <3>1. slot[w].job \in Job
      BY <1>h, <2>2 DEF WaitForStorage
    <3>2. Moved(job[slot[w].job], "waiting_storage") \in JobRow
      BY <1>q, <3>1, RowTypes DEF JobState
    <3>3. "waiting_storage" \in AttemptState
      BY DEF AttemptState
    <3> QED BY <2>2, <3>1, <3>2, <3>3, EndingType DEF WaitForStorage
  <2>3. CASE DecideFailure(w)
    <3> DEFINE count == job[slot[w].job].failures + 1
               report == NextAttempt(slot[w].report, count)
    <3>1. slot[w].phase # "idle" /\ slot[w].job \in Job
      BY <1>h, <2>3 DEF DecideFailure
    <3>2. count \in Nat
      BY <1>q, <3>1
    <3>3. slot' = [slot EXCEPT ![w] = Advanced(slot[w], "decided", report, count)]
      BY <2>3 DEF DecideFailure
    <3>4. report \in Report /\ "decided" \in Phase
      BY DEF NextAttempt, Report, Decision, Phase
    <3> HIDE DEF count, report
    <3>5. SlotsTyped'
      BY <1>p, <3>1, <3>2, <3>3, <3>4, AdvanceType
    <3>6. UNCHANGED <<job, attempt, account, written, disk, scan, disturbances>>
      BY <2>3 DEF DecideFailure
    <3>7. AttemptsTyped'
      BY <1>p, <3>6 DEF AttemptsTyped
    <3> QED BY <1>p, <3>5, <3>6, <3>7, TypePartsAfter
  <2>4. CASE Fail(w)
    <3>1. slot[w].job \in Job
      BY <1>h, <2>4 DEF Fail
    <3>2. Failed(job[slot[w].job], slot[w].report = "retry") \in JobRow
      BY <1>q, <3>1, RowTypes
    <3>3. "failed" \in AttemptState
      BY DEF AttemptState
    <3> QED BY <2>4, <3>1, <3>2, <3>3, EndingType DEF Fail
  <2>5. CASE BlockAccountForJob(w)
    <3>1. slot[w].job \in Job
      BY <1>h, <2>5 DEF BlockAccountForJob
    <3>2. \A k \in Job : Moved(job[k], "waiting_account") \in JobRow
      BY <1>q, RowTypes DEF JobState
    <3>3. job' \in [Job -> JobRow]
      BY <1>q, <2>5, <3>2 DEF BlockAccountForJob
    <3>4. AttemptsTyped'
      BY <1>p, <2>5, <3>1, CloseType DEF BlockAccountForJob, AttemptState
    <3>5. SlotsTyped'
      BY <1>p, <2>5, ReleaseType DEF BlockAccountForJob
    <3>6. account' \in [Account -> AccountState]
      BY <1>p, <2>5 DEF BlockAccountForJob, AccountState
    <3>7. UNCHANGED <<written, disk, scan, disturbances>>
      BY <2>5 DEF BlockAccountForJob
    <3> QED BY <1>p, <3>3, <3>4, <3>5, <3>6, <3>7, TypePartsAfter
  <2>6. CASE OutcomeRejected(w)
    <3>1. Release(w) /\ UNCHANGED <<job, attempt, account, written, disk, scan, disturbances>>
      BY <2>6 DEF OutcomeRejected
    <3>2. SlotsTyped' /\ AttemptsTyped'
      BY <1>p, <3>1, ReleaseType DEF AttemptsTyped
    <3> QED BY <1>p, <3>1, <3>2, TypePartsAfter
  <2> QED BY <1>4, <2>1, <2>2, <2>3, <2>4, <2>5, <2>6 DEF RuntimeStep
<1>5. ASSUME NEW w \in Slot, Crash(w) PROVE TypeOK'
  <2>1. Release(w) /\ UNCHANGED <<job, attempt, account, written, disk, scan>>
        /\ disturbances' \in Nat
    BY <1>5, <1>d DEF Crash
  <2>2. SlotsTyped' /\ AttemptsTyped'
    BY <1>p, <2>1, ReleaseType DEF AttemptsTyped
  <2> QED BY <1>p, <2>1, <2>2, TypePartsAfter
<1>6. ASSUME NEW j \in Job, JobStep(j) PROVE TypeOK'
  <2>0. ASSUME NEW s \in JobState, job' = [job EXCEPT ![j] = Moved(job[j], s)]
        PROVE  job' \in [Job -> JobRow]
    BY <1>p, <1>q, <2>0, RowTypes, RowReplaced
  <2>1. CASE Enqueue(j)
    <3> DEFINE s == IF AccountBlocked(j) THEN "waiting_account" ELSE "queued"
    <3>1. job' = [job EXCEPT ![j] = Moved(job[j], s)]
          /\ UNCHANGED <<attempt, slot, account, written, disk, scan, disturbances>>
      BY <2>1 DEF Enqueue
    <3>2. s \in JobState
      BY DEF JobState
    <3> HIDE DEF s
    <3>3. job' \in [Job -> JobRow]
      BY <2>0, <3>1, <3>2
    <3> QED BY <1>p, <3>1, <3>3, RowsOnly
  <2>2. CASE LeaseAges(j) \/ LeaseExpires(j) \/ RetryTimePasses(j)
    BY <2>2, <1>c
  <2>5. CASE CancelRequested(j)
    <3>1. job' = [job EXCEPT ![j] = Moved(job[j], "cancelled")]
          /\ UNCHANGED <<slot, account, written, disk, scan, disturbances>>
          /\ (CloseRunningAttempt(j, "cancelled") \/ UNCHANGED attempt)
      BY <2>5 DEF CancelRequested
    <3>2. job' \in [Job -> JobRow]
      BY <2>0, <3>1 DEF JobState
    <3>3. AttemptsTyped'
      <4>1. "cancelled" \in AttemptState
        BY DEF AttemptState
      <4>2. CASE CloseRunningAttempt(j, "cancelled")
        BY <1>p, <4>1, <4>2, CloseType
      <4>3. CASE UNCHANGED attempt
        BY <1>p, <4>3 DEF AttemptsTyped
      <4> QED BY <3>1, <4>2, <4>3
    <3>4. SlotsTyped'
      BY <1>p, <3>1 DEF SlotsTyped
    <3> QED BY <1>p, <3>1, <3>2, <3>3, <3>4, TypePartsAfter
  <2>6. CASE RetryRequested(j)
    <3>1. job' = [job EXCEPT ![j] = Moved(job[j], "queued")]
          /\ UNCHANGED <<attempt, slot, account, written, disk, scan>> /\ disturbances' \in Nat
      BY <1>d, <2>6 DEF RetryRequested
    <3>2. job' \in [Job -> JobRow]
      BY <2>0, <3>1 DEF JobState
    <3> QED BY <3>1, <3>2, RowsOnly
  <2> QED BY <1>6, <2>1, <2>2, <2>5, <2>6 DEF JobStep
<1>7. ASSUME NEW a \in Account, AccountStep(a) PROVE TypeOK'
  <2>0. \A k \in Job, s \in {"waiting_account", "queued"} : Moved(job[k], s) \in JobRow
    BY <1>q, RowTypes DEF JobState
  <2>1. ASSUME NEW state \in {"unconfigured", "credential_invalid"}, AccountLost(a, state)
        PROVE TypeOK'
    <3>1. job' \in [Job -> JobRow]
      BY <1>q, <2>0, <2>1 DEF AccountLost
    <3>2. account' \in [Account -> AccountState]
      BY <1>p, <2>1 DEF AccountLost, AccountState
    <3>3. UNCHANGED <<attempt, slot, written, disk, scan>> /\ disturbances' \in Nat
      BY <1>d, <2>1 DEF AccountLost
    <3>4. AttemptsTyped' /\ SlotsTyped'
      BY <1>p, <3>3 DEF AttemptsTyped, SlotsTyped
    <3> QED BY <1>p, <3>1, <3>2, <3>3, <3>4, TypePartsAfter
  <2>2. ASSUME NEW resume \in BOOLEAN, ActivateAccount(a, resume) PROVE TypeOK'
    <3>1. job' \in [Job -> JobRow]
      BY <1>q, <2>0, <2>2 DEF ActivateAccount
    <3>2. account' \in [Account -> AccountState]
      BY <1>p, <2>2 DEF ActivateAccount, AccountState
    <3>3. UNCHANGED <<attempt, slot, written, disk, scan, disturbances>>
      BY <2>2 DEF ActivateAccount
    <3>4. AttemptsTyped' /\ SlotsTyped'
      BY <1>p, <3>3 DEF AttemptsTyped, SlotsTyped
    <3> QED BY <1>p, <3>1, <3>2, <3>3, <3>4, TypePartsAfter
  <2> QED BY <1>7, <2>1, <2>2 DEF AccountStep
<1>8. CASE StorageStep
  <2>1. job' \in [Job -> JobRow]
    <3>1. \A k \in Job, s \in {"waiting_storage", "queued"} : Moved(job[k], s) \in JobRow
      BY <1>q, RowTypes DEF JobState
    <3> QED BY <1>p, <1>q, <1>8, <3>1
            DEF StorageStep, DiskChanges, StorageScanReads, SetStorageWriteAllowed
  <2>2. UNCHANGED <<attempt, slot, account, written>>
    BY <1>8 DEF StorageStep, DiskChanges, StorageScanReads, SetStorageWriteAllowed
  <2>3. disk' \in {"free", "full"} /\ scan' \in {"idle", "allowed", "stopped"}
        /\ disturbances' \in Nat
    BY <1>p, <1>d, <1>8 DEF StorageStep, DiskChanges, StorageScanReads, SetStorageWriteAllowed
  <2>4. AttemptsTyped' /\ SlotsTyped'
    BY <1>p, <2>2 DEF AttemptsTyped, SlotsTyped
  <2> QED BY <1>p, <2>1, <2>2, <2>3, <2>4, TypePartsAfter
<1>9. CASE UNCHANGED vars
  <2>1. AttemptsTyped' /\ SlotsTyped'
    BY <1>p, <1>9 DEF vars, AttemptsTyped, SlotsTyped
  <2> QED BY <1>p, <1>9, <2>1, TypePartsAfter DEF vars
<1> QED
  BY <1>1, <1>2, <1>3, <1>4, <1>5, <1>6, <1>7, <1>8, <1>9 DEF Next

\* The rows and claims are well typed in every reachable state.
THEOREM TypeCorrect == Spec => []TypeOK
<1>1. Init => TypeOK
  BY JobQueueAssumption DEF Init, TypeOK, JobRow, Claim, JobState, AttemptState,
     AccountState, ErrorClass, Decision, Phase, Report, NoRow, NoClaim
<1> QED BY <1>1, TypeStep, PTL DEF Spec
-----------------------------------------------------------------------------
(* How a step may change a row *)

\* What an operator or a claim can tell about a row is unchanged.
RowKept(j) ==
  /\ job'[j].state = job[j].state
  /\ job'[j].revision = job[j].revision
  /\ job'[j].attempts = job[j].attempts
  /\ job'[j].failures = job[j].failures
  /\ job'[j].retryable = job[j].retryable

\* A row that is not final moves to its next revision.
RowMoved(j) ==
  /\ job[j].state \notin {"completed", "cancelled"}
  /\ job'[j].revision = job[j].revision + 1

\* Every step keeps a row or, unless it is final, moves it to its next
\* revision.
LEMMA RowStep ==
  ASSUME TypeOK, [Next]_vars
  PROVE  \A j \in Job : RowKept(j) \/ RowMoved(j)
<1> USE JobQueueAssumption
<1> USE DEF TypeOK, JobRow, Claim, RowKept, RowMoved, Moved, Claimed, Failed
<1>1. ASSUME NEW w \in Slot, NEW j \in Job, ClaimNext(w, j)
      PROVE  \A k \in Job : RowKept(k) \/ RowMoved(k)
  BY <1>1 DEF ClaimNext, Claimable
<1>2. ASSUME NEW w \in Slot, Heartbeat(w)
      PROVE  \A k \in Job : RowKept(k) \/ RowMoved(k)
  BY <1>2 DEF Heartbeat
<1>3. ASSUME NEW w \in Slot, ExecutorStep(w)
      PROVE  \A k \in Job : RowKept(k) \/ RowMoved(k)
  <2>1. CASE FinalizeInBusinessTx(w)
    BY <2>1 DEF FinalizeInBusinessTx, HoldsLease
  <2> QED BY <1>3, <2>1 DEF ExecutorStep, WriteUnderLease, ReturnFinalized, ReportOutcome,
                            DropStaleExecutor
<1>4. ASSUME NEW w \in Slot, RuntimeStep(w)
      PROVE  \A k \in Job : RowKept(k) \/ RowMoved(k)
  <2>1. CASE Complete(w)
    BY <2>1 DEF Complete, HoldsLease
  <2>2. CASE WaitForStorage(w)
    BY <2>2 DEF WaitForStorage, HoldsLease
  <2>3. CASE Fail(w)
    BY <2>3 DEF Fail, HoldsLease
  <2>4. CASE BlockAccountForJob(w)
    BY <2>4 DEF BlockAccountForJob, HoldsLease, WaitsForAccount
  <2> QED BY <1>4, <2>1, <2>2, <2>3, <2>4 DEF RuntimeStep, DecideFailure, OutcomeRejected
<1>5. ASSUME NEW w \in Slot, Crash(w)
      PROVE  \A k \in Job : RowKept(k) \/ RowMoved(k)
  BY <1>5 DEF Crash
<1>6. ASSUME NEW j \in Job, JobStep(j)
      PROVE  \A k \in Job : RowKept(k) \/ RowMoved(k)
  <2>1. CASE Enqueue(j)
    BY <2>1 DEF Enqueue
  <2>2. CASE LeaseAges(j)
    BY <2>2 DEF LeaseAges
  <2>3. CASE LeaseExpires(j)
    BY <2>3 DEF LeaseExpires
  <2>4. CASE RetryTimePasses(j)
    BY <2>4 DEF RetryTimePasses
  <2>5. CASE CancelRequested(j)
    BY <2>5 DEF CancelRequested
  <2>6. CASE RetryRequested(j)
    BY <2>6 DEF RetryRequested
  <2> QED BY <1>6, <2>1, <2>2, <2>3, <2>4, <2>5, <2>6 DEF JobStep
<1>7. ASSUME NEW a \in Account, AccountStep(a)
      PROVE  \A k \in Job : RowKept(k) \/ RowMoved(k)
  BY <1>7 DEF AccountStep, AccountLost, ActivateAccount, WaitsForAccount
<1>8. CASE StorageStep
  BY <1>8 DEF StorageStep, DiskChanges, StorageScanReads, SetStorageWriteAllowed
<1>9. CASE UNCHANGED vars
  BY <1>9 DEF vars
<1> QED
  BY <1>1, <1>2, <1>3, <1>4, <1>5, <1>6, <1>7, <1>8, <1>9 DEF Next
-----------------------------------------------------------------------------
(* How a step may change a claim *)

\* The task still carries the claim it made.
SameClaim(w) ==
  /\ slot[w].phase # "idle"
  /\ slot'[w].job = slot[w].job
  /\ slot'[w].attempt = slot[w].attempt
  /\ slot'[w].revision = slot[w].revision

\* A task that holds a claim after a step held it before, or just made it.
LEMMA ClaimStep ==
  ASSUME TypeOK, [Next]_vars
  PROVE  \/ \E w \in Slot, j \in Job : ClaimNext(w, j)
         \/ \A w \in Slot : slot'[w].phase # "idle" => SameClaim(w)
<1> USE DEF TypeOK, Claim, SameClaim, Advanced, NoClaim, Release
<1>1. ASSUME NEW w \in Slot, ExecutorStep(w)
      PROVE  \A v \in Slot : slot'[v].phase # "idle" => SameClaim(v)
  BY <1>1 DEF ExecutorStep, WriteUnderLease, FinalizeInBusinessTx, ReturnFinalized,
     ReportOutcome, DropStaleExecutor
<1>2. ASSUME NEW w \in Slot, RuntimeStep(w)
      PROVE  \A v \in Slot : slot'[v].phase # "idle" => SameClaim(v)
  BY <1>2 DEF RuntimeStep, Complete, WaitForStorage, DecideFailure, Fail,
     BlockAccountForJob, OutcomeRejected
<1>3. ASSUME NEW w \in Slot, Heartbeat(w) \/ Crash(w)
      PROVE  \A v \in Slot : slot'[v].phase # "idle" => SameClaim(v)
  BY <1>3 DEF Heartbeat, Crash
<1>4. ASSUME slot' = slot
      PROVE  \A v \in Slot : slot'[v].phase # "idle" => SameClaim(v)
  BY <1>4
<1>5. ASSUME NEW j \in Job, JobStep(j) PROVE slot' = slot
  BY <1>5 DEF JobStep, Enqueue, LeaseAges, LeaseExpires, RetryTimePasses,
     CancelRequested, RetryRequested
<1>6. ASSUME NEW a \in Account, AccountStep(a) PROVE slot' = slot
  BY <1>6 DEF AccountStep, AccountLost, ActivateAccount
<1>7. ASSUME StorageStep PROVE slot' = slot
  BY <1>7 DEF StorageStep, DiskChanges, StorageScanReads, SetStorageWriteAllowed
<1>8. ASSUME UNCHANGED vars PROVE slot' = slot
  BY <1>8 DEF vars
<1> QED BY <1>1, <1>2, <1>3, <1>4, <1>5, <1>6, <1>7, <1>8 DEF Next

\* Claims stay fenced: a claim is made at a revision the row never had, and a
\* row moves past the revision of every claim made before.
LEMMA FenceStep == TypeOK /\ ClaimsFenced /\ [Next]_vars => ClaimsFenced'
<1> SUFFICES ASSUME TypeOK, ClaimsFenced, [Next]_vars PROVE ClaimsFenced'
  OBVIOUS
<1>1. TypeOK'
  BY TypeStep
<1>2. \A j \in Job : RowKept(j) \/ RowMoved(j)
  BY RowStep
<1>3. ASSUME NEW w \in Slot, NEW j \in Job, ClaimNext(w, j) PROVE ClaimsFenced'
  <2>1. /\ slot' = [slot EXCEPT ![w] = NewClaim(j)]
        /\ job' = [job EXCEPT ![j] = Claimed(@)]
    BY <1>3 DEF ClaimNext
  <2>2. job'[j].revision = job[j].revision + 1 /\ job'[j].attempts = job[j].attempts + 1
    BY <2>1 DEF TypeOK, JobRow, Claimed
  <2>3. /\ slot'[w].job = j /\ slot'[w].revision = job[j].revision + 1
        /\ slot'[w].attempt = job[j].attempts + 1
    BY <2>1 DEF TypeOK, Claim, NewClaim
  <2>4. \A v \in Slot \ {w} : slot'[v] = slot[v]
    BY <2>1 DEF TypeOK
  <2>5. \A k \in Job \ {j} : job'[k] = job[k]
    BY <2>1 DEF TypeOK
  <2>6. \A k \in Job : job[k].revision \in Nat /\ job[k].attempts \in Nat
    BY DEF TypeOK, JobRow
  <2>7. \A v \in Slot : /\ slot[v].revision \in Nat
                        /\ slot[v].phase # "idle" => slot[v].job \in Job
    BY DEF TypeOK, Claim
  <2>8. \A v \in Slot \ {w} : slot[v].phase # "idle" =>
          slot[v].revision <= job[slot[v].job].revision
    BY DEF ClaimsFenced
  <2> DEFINE Fenced(v) ==
        /\ slot'[v].revision <= job'[slot'[v].job].revision
        /\ job'[slot'[v].job].state = "running" /\ job'[slot'[v].job].revision = slot'[v].revision =>
             job'[slot'[v].job].attempts = slot'[v].attempt
        /\ \A u \in Slot \ {v} :
             slot'[u].phase # "idle" /\ slot'[u].job = slot'[v].job =>
               slot'[u].revision # slot'[v].revision
  <2>9. Fenced(w)
    BY <2>2, <2>3, <2>4, <2>6, <2>7, <2>8
  <2>10. ASSUME NEW v \in Slot \ {w}, slot'[v].phase # "idle" PROVE Fenced(v)
    <3>1. slot'[v] = slot[v] /\ slot[v].job \in Job
      BY <2>4, <2>7, <2>10
    <3>2. CASE slot[v].job = j
      <4>1. slot[v].revision < job'[j].revision
        BY <2>2, <2>6, <2>7, <2>8, <3>1, <3>2, <2>10
      <4>2. \A u \in Slot \ {v, w} :
             slot[u].phase # "idle" /\ slot[u].job = j => slot[u].revision # slot[v].revision
        BY <3>1, <3>2, <2>10 DEF ClaimsFenced
      <4> QED BY <2>2, <2>3, <2>4, <2>6, <2>7, <3>1, <3>2, <4>1, <4>2
    <3>3. CASE slot[v].job # j
      <4>1. job'[slot[v].job] = job[slot[v].job]
        BY <2>5, <3>1, <3>3
      <4> QED BY <2>3, <2>4, <3>1, <3>3, <4>1, <2>10 DEF ClaimsFenced
    <3> QED BY <3>2, <3>3
  <2> QED
    BY <2>9, <2>10 DEF ClaimsFenced
<1>4. ASSUME \A w \in Slot : slot'[w].phase # "idle" => SameClaim(w)
      PROVE  ClaimsFenced'
  <2>1. \A w \in Slot : slot[w].phase # "idle" =>
          /\ slot[w].job \in Job
          /\ slot[w].revision \in Nat /\ job[slot[w].job].revision \in Nat
    BY DEF TypeOK, JobRow, Claim
  <2> SUFFICES ASSUME NEW w \in Slot, slot'[w].phase # "idle"
               PROVE  LET c == slot'[w]
                      IN /\ c.revision <= job'[c.job].revision
                         /\ job'[c.job].state = "running" /\ job'[c.job].revision = c.revision =>
                              job'[c.job].attempts = c.attempt
                         /\ \A v \in Slot \ {w} :
                              slot'[v].phase # "idle" /\ slot'[v].job = c.job =>
                                slot'[v].revision # c.revision
    BY DEF ClaimsFenced
  <2>2. SameClaim(w)
    BY <1>4
  <2>3. \A v \in Slot \ {w} :
          slot'[v].phase # "idle" /\ slot'[v].job = slot'[w].job =>
            slot'[v].revision # slot'[w].revision
    BY <1>4, <2>2 DEF SameClaim, ClaimsFenced
  <2>4. CASE RowKept(slot[w].job)
    BY <2>2, <2>3, <2>4 DEF SameClaim, RowKept, ClaimsFenced
  <2>5. CASE RowMoved(slot[w].job)
    BY <2>1, <2>2, <2>3, <2>5 DEF SameClaim, RowMoved, ClaimsFenced
  <2> QED BY <1>2, <2>1, <2>2, <2>4, <2>5 DEF SameClaim
<1> QED BY <1>3, <1>4, ClaimStep
-----------------------------------------------------------------------------
(* How a step may change the history of a job *)

\* The attempts of j and everything its row says of them are unchanged.
HistoryKept(j) ==
  /\ attempt'[j] = attempt[j]
  /\ job'[j].attempts = job[j].attempts
  /\ (job'[j].state = "running") <=> (job[j].state = "running")
  /\ (job'[j].state = "completed") <=> (job[j].state = "completed")

\* The running job j leaves its running state together with its newest attempt.
HistoryClosed(j) ==
  /\ job[j].state = "running"
  /\ job'[j].attempts = job[j].attempts
  /\ job'[j].state # "running"
  /\ \E n \in DOMAIN attempt[j], state \in AttemptState \ {"running"} :
       /\ \A m \in DOMAIN attempt[j] : m <= n
       /\ attempt'[j] = [attempt[j] EXCEPT ![n] = state]
       /\ (job'[j].state = "completed") <=> (state = "completed")

\* Job j gets one more attempt, the running one; a running one before it failed.
HistoryGrown(j) ==
  /\ job[j].state # "completed"
  /\ job'[j].attempts = job[j].attempts + 1
  /\ job'[j].state = "running"
  /\ attempt'[j] = [m \in DOMAIN attempt[j] \cup {job[j].attempts + 1} |->
       IF m = job[j].attempts + 1 THEN "running"
       ELSE IF job[j].state = "running" /\ m = job[j].attempts THEN "failed"
       ELSE attempt[j][m]]

HistoryMove(j) == HistoryKept(j) \/ HistoryClosed(j) \/ HistoryGrown(j)

\* A transaction that finishes j as `state' and closes its attempt as `closed'
\* closes its history.
LEMMA CloseMove ==
  ASSUME TypeOK, NEW j \in Job, NEW closed \in AttemptState \ {"running"},
         job[j].state = "running", job'[j].attempts = job[j].attempts,
         job'[j].state # "running",
         (job'[j].state = "completed") <=> (closed = "completed"),
         CloseRunningAttempt(j, closed)
  PROVE  /\ HistoryClosed(j)
         /\ \A k \in Job \ {j} : attempt'[k] = attempt[k]
BY DEF TypeOK, CloseRunningAttempt, HistoryClosed

\* Every step keeps, closes or grows the history of each job.
LEMMA HistoryStep ==
  ASSUME TypeOK, [Next]_vars
  PROVE  \A j \in Job : HistoryMove(j)
<1> USE DEF TypeOK, JobRow, Claim, HistoryMove, HistoryKept, Moved, Claimed, Failed
<1>1. ASSUME NEW w \in Slot, NEW j \in Job, ClaimNext(w, j)
      PROVE  \A k \in Job : HistoryMove(k)
  <2>1. HistoryGrown(j)
    BY <1>1 DEF ClaimNext, Claimable, HistoryGrown
  <2>2. \A k \in Job \ {j} : HistoryKept(k)
    BY <1>1 DEF ClaimNext
  <2> QED BY <2>1, <2>2
<1>2. ASSUME NEW w \in Slot, Heartbeat(w)
      PROVE  \A k \in Job : HistoryMove(k)
  BY <1>2 DEF Heartbeat
<1>3. ASSUME NEW w \in Slot, ExecutorStep(w)
      PROVE  \A k \in Job : HistoryMove(k)
  <2>1. CASE FinalizeInBusinessTx(w)
    BY <2>1, CloseMove DEF FinalizeInBusinessTx, HoldsLease, AttemptState
  <2> QED BY <1>3, <2>1 DEF ExecutorStep, WriteUnderLease, ReturnFinalized, ReportOutcome,
                            DropStaleExecutor
<1>4. ASSUME NEW w \in Slot, RuntimeStep(w)
      PROVE  \A k \in Job : HistoryMove(k)
  <2>1. CASE Complete(w)
    BY <2>1, CloseMove DEF Complete, HoldsLease, AttemptState
  <2>2. CASE WaitForStorage(w)
    BY <2>2, CloseMove DEF WaitForStorage, HoldsLease, AttemptState
  <2>3. CASE Fail(w)
    BY <2>3, CloseMove DEF Fail, HoldsLease, AttemptState
  <2>4. CASE BlockAccountForJob(w)
    BY <2>4, CloseMove DEF BlockAccountForJob, HoldsLease, WaitsForAccount, AttemptState
  <2> QED BY <1>4, <2>1, <2>2, <2>3, <2>4 DEF RuntimeStep, DecideFailure, OutcomeRejected
<1>5. ASSUME NEW w \in Slot, Crash(w)
      PROVE  \A k \in Job : HistoryMove(k)
  BY <1>5 DEF Crash
<1>6. ASSUME NEW j \in Job, JobStep(j)
      PROVE  \A k \in Job : HistoryMove(k)
  <2>1. CASE CancelRequested(j)
    BY <2>1, CloseMove DEF CancelRequested, AttemptState
  <2>2. CASE Enqueue(j)
    BY <2>2 DEF Enqueue
  <2>3. CASE LeaseAges(j)
    BY <2>3 DEF LeaseAges
  <2>4. CASE LeaseExpires(j)
    BY <2>4 DEF LeaseExpires
  <2>5. CASE RetryTimePasses(j)
    BY <2>5 DEF RetryTimePasses
  <2>6. CASE RetryRequested(j)
    BY <2>6 DEF RetryRequested
  <2> QED BY <1>6, <2>1, <2>2, <2>3, <2>4, <2>5, <2>6 DEF JobStep
<1>7. ASSUME NEW a \in Account, AccountStep(a)
      PROVE  \A k \in Job : HistoryMove(k)
  BY <1>7 DEF AccountStep, AccountLost, ActivateAccount, WaitsForAccount
<1>8. CASE StorageStep
  BY <1>8 DEF StorageStep, DiskChanges, StorageScanReads, SetStorageWriteAllowed
<1>9. CASE UNCHANGED vars
  BY <1>9 DEF vars
<1> QED
  BY <1>1, <1>2, <1>3, <1>4, <1>5, <1>6, <1>7, <1>8, <1>9 DEF Next

\* The two invariants about attempts, for one job.
RowLedger(j) ==
  /\ DOMAIN attempt[j] = 1 .. job[j].attempts
  /\ job[j].state \in {"running", "completed"} => job[j].attempts > 0
  /\ \A n \in DOMAIN attempt[j] :
       /\ attempt[j][n] = "running" <=> job[j].state = "running" /\ n = job[j].attempts
       /\ attempt[j][n] = "completed" <=> job[j].state = "completed" /\ n = job[j].attempts

\* Attempts stay a gapless history with one open row, the running job's newest,
\* and one completed row, the completed job's newest.
LEMMA LedgerStep ==
  TypeOK /\ AttemptLedger /\ CompletedOnce /\ [Next]_vars
    => AttemptLedger' /\ CompletedOnce'
<1> SUFFICES ASSUME TypeOK, AttemptLedger, CompletedOnce, [Next]_vars,
                    NEW j \in Job
             PROVE  RowLedger(j)'
  BY DEF RowLedger, AttemptLedger, CompletedOnce
<1>1. RowLedger(j) /\ job[j].attempts \in Nat /\ job'[j].attempts \in Nat
  BY TypeStep DEF RowLedger, AttemptLedger, CompletedOnce, TypeOK, JobRow
<1>2. CASE HistoryKept(j)
  BY <1>1, <1>2 DEF RowLedger, HistoryKept
<1>3. CASE HistoryClosed(j)
  BY <1>1, <1>3 DEF RowLedger, HistoryClosed, TypeOK
<1>4. CASE HistoryGrown(j)
  BY <1>1, <1>4 DEF RowLedger, HistoryGrown, TypeOK
<1> QED BY <1>2, <1>3, <1>4, HistoryStep DEF HistoryMove
-----------------------------------------------------------------------------
(* Failures, budgets and post-commit work *)

\* A step counts a failure only when the runtime commits a retryable one.
LEMMA FailureStep ==
  ASSUME TypeOK, [Next]_vars
  PROVE  \A j \in Job :
           \/ job'[j].failures = job[j].failures
           \/ \E w \in Slot :
                /\ slot[w].phase = "decided" /\ slot[w].report = "retry"
                /\ HoldsLease(w) /\ slot[w].job = j
                /\ job'[j].failures = job[j].failures + 1
<1> USE JobQueueAssumption
<1> USE DEF TypeOK, JobRow, Claim, Moved, Claimed, Failed
<1>1. ASSUME NEW w \in Slot, Fail(w)
      PROVE  \A j \in Job :
               \/ job'[j].failures = job[j].failures
               \/ /\ slot[w].phase = "decided" /\ slot[w].report = "retry"
                  /\ HoldsLease(w) /\ slot[w].job = j
                  /\ job'[j].failures = job[j].failures + 1
  BY <1>1 DEF Fail
<1> DEFINE Same == \A j \in Job : job'[j].failures = job[j].failures
<1>2. ASSUME NEW w \in Slot, NEW j \in Job, ClaimNext(w, j) PROVE Same
  BY <1>2 DEF ClaimNext
<1>3. ASSUME NEW w \in Slot, Heartbeat(w) \/ Crash(w) PROVE Same
  BY <1>3 DEF Heartbeat, Crash
<1>4. ASSUME NEW w \in Slot, ExecutorStep(w) PROVE Same
  <2>1. CASE FinalizeInBusinessTx(w)
    BY <2>1 DEF FinalizeInBusinessTx
  <2>2. CASE ~FinalizeInBusinessTx(w)
    <3>1. job' = job
      BY <1>4, <2>2 DEF ExecutorStep, WriteUnderLease, ReturnFinalized, ReportOutcome,
         DropStaleExecutor
    <3> QED BY <3>1
  <2> QED BY <2>1, <2>2
<1>5. ASSUME NEW w \in Slot, RuntimeStep(w), ~Fail(w) PROVE Same
  BY <1>5 DEF RuntimeStep, Complete, WaitForStorage, DecideFailure, BlockAccountForJob,
     OutcomeRejected
<1>6. ASSUME NEW j \in Job, JobStep(j) PROVE Same
  <2>1. CASE LeaseAges(j) \/ LeaseExpires(j) \/ RetryTimePasses(j)
    BY <2>1 DEF LeaseAges, LeaseExpires, RetryTimePasses
  <2>2. CASE Enqueue(j) \/ CancelRequested(j) \/ RetryRequested(j)
    BY <2>2 DEF Enqueue, CancelRequested, RetryRequested
  <2> QED BY <1>6, <2>1, <2>2 DEF JobStep
<1>7. ASSUME NEW a \in Account, AccountStep(a) PROVE Same
  BY <1>7 DEF AccountStep, AccountLost, ActivateAccount
<1>8. CASE StorageStep
  BY <1>8 DEF StorageStep, DiskChanges, StorageScanReads, SetStorageWriteAllowed
<1>9. CASE UNCHANGED vars
  BY <1>9 DEF vars
<1> QED
  BY <1>1, <1>2, <1>3, <1>4, <1>5, <1>6, <1>7, <1>8, <1>9 DEF Next

\* A decision to retry was taken within the backoff list.
DecisionInBudget ==
  \A w \in Slot :
    slot[w].phase = "decided" /\ slot[w].report = "retry" => slot[w].count <= BackoffLength

\* A claim is decided by DecideFailure or was decided before.
LEMMA DecisionMade ==
  ASSUME TypeOK, [Next]_vars, NEW w \in Slot, slot'[w].phase = "decided"
  PROVE  slot'[w] = slot[w] \/ DecideFailure(w)
<1> USE DEF TypeOK, Claim, Advanced, NewClaim, NoClaim, Release
<1>1. ASSUME NEW v \in Slot, NEW j \in Job, ClaimNext(v, j) PROVE slot'[w] = slot[w]
  BY <1>1 DEF ClaimNext
<1>2. ASSUME NEW v \in Slot, Heartbeat(v) \/ Crash(v) PROVE slot'[w] = slot[w]
  BY <1>2 DEF Heartbeat, Crash
<1>3. ASSUME NEW v \in Slot, ExecutorStep(v) PROVE slot'[w] = slot[w]
  BY <1>3 DEF ExecutorStep, WriteUnderLease, FinalizeInBusinessTx, ReturnFinalized,
     ReportOutcome, DropStaleExecutor
<1>4. ASSUME NEW v \in Slot, RuntimeStep(v) PROVE slot'[w] = slot[w] \/ DecideFailure(w)
  <2>1. CASE DecideFailure(v)
    BY <2>1 DEF DecideFailure
  <2> QED BY <1>4, <2>1 DEF RuntimeStep, Complete, WaitForStorage, Fail,
             BlockAccountForJob, OutcomeRejected
<1>5. ASSUME NEW j \in Job, JobStep(j) PROVE slot'[w] = slot[w]
  BY <1>5 DEF JobStep, Enqueue, LeaseAges, LeaseExpires, RetryTimePasses,
     CancelRequested, RetryRequested
<1>6. ASSUME NEW a \in Account, AccountStep(a) PROVE slot'[w] = slot[w]
  BY <1>6 DEF AccountStep, AccountLost, ActivateAccount
<1>7. CASE StorageStep
  BY <1>7 DEF StorageStep, DiskChanges, StorageScanReads, SetStorageWriteAllowed
<1>8. CASE UNCHANGED vars
  BY <1>8 DEF vars
<1> QED BY <1>1, <1>2, <1>3, <1>4, <1>5, <1>6, <1>7, <1>8 DEF Next

\* The count a decision was taken on stays the row's while the lease is held,
\* because a row that counts a failure leaves the claim's revision behind.
LEMMA DecisionStep ==
  TypeOK /\ ClaimsFenced /\ DecisionStillCurrent /\ DecisionInBudget /\ [Next]_vars
    => DecisionStillCurrent' /\ DecisionInBudget'
<1> SUFFICES ASSUME TypeOK, ClaimsFenced, DecisionStillCurrent, DecisionInBudget, [Next]_vars,
                    NEW w \in Slot, slot'[w].phase = "decided"
             PROVE  /\ job'[slot'[w].job].revision = slot'[w].revision =>
                         slot'[w].count = job'[slot'[w].job].failures + 1
                    /\ slot'[w].report = "retry" => slot'[w].count <= BackoffLength
  BY DEF DecisionStillCurrent, DecisionInBudget
<1>1. /\ \A j \in Job : RowKept(j) \/ RowMoved(j)
      /\ \A v \in Slot : slot[v].phase # "idle" => slot[v].job \in Job
      /\ \A j \in Job : job[j].revision \in Nat
  BY RowStep DEF TypeOK, JobRow
<1>2. CASE slot'[w] = slot[w]
  <2>1. CASE RowKept(slot[w].job)
    BY <1>2, <2>1 DEF DecisionStillCurrent, DecisionInBudget, RowKept
  <2>2. CASE RowMoved(slot[w].job)
    BY <1>1, <1>2, <2>2 DEF ClaimsFenced, RowMoved, DecisionInBudget
  <2> QED BY <1>1, <1>2, <2>1, <2>2
<1>3. CASE DecideFailure(w)
  BY <1>3, JobQueueAssumption DEF DecideFailure, NextAttempt, Advanced, TypeOK, JobRow, Claim, ErrorClass
<1> QED BY <1>2, <1>3, DecisionMade

\* The claim a decision is committed under is at the row's revision, so the
\* count it was taken on is the row's.
LEMMA BudgetStep ==
  TypeOK /\ DecisionStillCurrent /\ DecisionInBudget /\ RetryBudget /\ [Next]_vars
    => RetryBudget'
<1> SUFFICES ASSUME TypeOK, DecisionStillCurrent, DecisionInBudget, RetryBudget, [Next]_vars,
                    NEW j \in Job
             PROVE  job'[j].failures <= BackoffLength
  BY DEF RetryBudget
<1>1. CASE job'[j].failures = job[j].failures
  BY <1>1 DEF RetryBudget
<1>2. ASSUME NEW w \in Slot,
             slot[w].phase = "decided", slot[w].report = "retry",
             HoldsLease(w), slot[w].job = j, job'[j].failures = job[j].failures + 1
      PROVE  job'[j].failures <= BackoffLength
  BY <1>2 DEF DecisionStillCurrent, DecisionInBudget, HoldsLease
<1> QED BY <1>1, <1>2, FailureStep

\* A task is in its post-commit phase because it just finalized its job, or
\* was before.
LEMMA PostCommitMade ==
  ASSUME TypeOK, [Next]_vars, NEW w \in Slot, slot'[w].phase = "postcommit"
  PROVE  slot'[w] = slot[w] \/ FinalizeInBusinessTx(w)
<1> USE DEF TypeOK, Claim, Advanced, NewClaim, NoClaim, Release
<1>1. ASSUME NEW v \in Slot, NEW j \in Job, ClaimNext(v, j) PROVE slot'[w] = slot[w]
  BY <1>1 DEF ClaimNext
<1>2. ASSUME NEW v \in Slot, Heartbeat(v) \/ Crash(v) PROVE slot'[w] = slot[w]
  BY <1>2 DEF Heartbeat, Crash
<1>3. ASSUME NEW v \in Slot, ExecutorStep(v)
      PROVE  slot'[w] = slot[w] \/ FinalizeInBusinessTx(w)
  <2>1. CASE FinalizeInBusinessTx(v)
    BY <2>1 DEF FinalizeInBusinessTx
  <2> QED BY <1>3, <2>1 DEF ExecutorStep, WriteUnderLease, ReturnFinalized,
             ReportOutcome, DropStaleExecutor
<1>4. ASSUME NEW v \in Slot, RuntimeStep(v) PROVE slot'[w] = slot[w]
  BY <1>4 DEF RuntimeStep, Complete, WaitForStorage, DecideFailure, Fail,
     BlockAccountForJob, OutcomeRejected
<1>5. ASSUME NEW j \in Job, JobStep(j) PROVE slot'[w] = slot[w]
  BY <1>5 DEF JobStep, Enqueue, LeaseAges, LeaseExpires, RetryTimePasses,
     CancelRequested, RetryRequested
<1>6. ASSUME NEW a \in Account, AccountStep(a) PROVE slot'[w] = slot[w]
  BY <1>6 DEF AccountStep, AccountLost, ActivateAccount
<1>7. CASE StorageStep
  BY <1>7 DEF StorageStep, DiskChanges, StorageScanReads, SetStorageWriteAllowed
<1>8. CASE UNCHANGED vars
  BY <1>8 DEF vars
<1> QED BY <1>1, <1>2, <1>3, <1>4, <1>5, <1>6, <1>7, <1>8 DEF Next

\* A finalized job stays at the revision its executor's lease status compares.
LEMMA PostCommitStep ==
  TypeOK /\ ClaimsFenced /\ PostCommitProtected /\ [Next]_vars => PostCommitProtected'
<1> DEFINE Finalized(w) ==
      /\ job[slot[w].job].state = "completed"
      /\ job[slot[w].job].attempts = slot[w].attempt
      /\ job[slot[w].job].revision = slot[w].revision + 1
<1>1. PostCommitProtected <=> \A w \in Slot : slot[w].phase = "postcommit" => Finalized(w)
  BY DEF PostCommitProtected, LeaseStatus
<1>2. PostCommitProtected' <=> \A w \in Slot : slot'[w].phase = "postcommit" => Finalized(w)'
  BY DEF PostCommitProtected, LeaseStatus
<1> SUFFICES ASSUME TypeOK, ClaimsFenced, PostCommitProtected, [Next]_vars,
                    NEW w \in Slot, slot'[w].phase = "postcommit"
             PROVE  Finalized(w)'
  BY <1>2
<1>3. slot[w].phase # "idle" => slot[w].job \in Job
  BY DEF TypeOK
<1>4. CASE slot'[w] = slot[w]
  BY <1>1, <1>3, <1>4, RowStep DEF RowKept, RowMoved
<1>5. CASE FinalizeInBusinessTx(w)
  BY <1>3, <1>5 DEF FinalizeInBusinessTx, HoldsLease, ClaimsFenced, Advanced, Moved,
     TypeOK, JobRow, Claim
<1> QED BY <1>4, <1>5, PostCommitMade
-----------------------------------------------------------------------------
(* The inductive invariant and what follows from it *)

IInv ==
  /\ TypeOK
  /\ AttemptLedger
  /\ CompletedOnce
  /\ ClaimsFenced
  /\ DecisionStillCurrent
  /\ DecisionInBudget
  /\ RetryBudget
  /\ PostCommitProtected

\* The conjunction of the queue's invariants is inductive.
THEOREM QueueInvariant == Spec => []IInv
<1>1. Init => IInv
  <2> SUFFICES ASSUME Init PROVE IInv
    OBVIOUS
  <2>1. TypeOK
    BY JobQueueAssumption DEF Init, TypeOK, JobRow, Claim, JobState, AttemptState,
       AccountState, ErrorClass, Decision, Phase, Report, NoRow, NoClaim
  <2> QED
    BY <2>1, JobQueueAssumption DEF Init, IInv, AttemptLedger, CompletedOnce, ClaimsFenced,
       DecisionStillCurrent, DecisionInBudget, RetryBudget, PostCommitProtected, NoRow, NoClaim
<1>2. IInv /\ [Next]_vars => IInv'
  BY TypeStep, LedgerStep, FenceStep, DecisionStep, BudgetStep, PostCommitStep DEF IInv
<1> QED BY <1>1, <1>2, PTL DEF Spec

\* At most one task holds a lease on a job that guarded transactions accept.
THEOREM LeaseIsExclusive == Spec => []ExclusiveLease
<1>1. IInv => ExclusiveLease
  BY DEF IInv, ClaimsFenced, ExclusiveLease, HoldsLease
<1> QED BY <1>1, QueueInvariant, PTL

\* Attempts are a gapless history whose open row is the running job's newest,
\* so neither claim_next nor close_running_attempt ever aborts on it.
THEOREM AttemptsAreLedger == Spec => [](AttemptLedger /\ CompletedOnce)
<1>1. IInv => AttemptLedger /\ CompletedOnce
  BY DEF IInv
<1> QED BY <1>1, QueueInvariant, PTL

\* No interleaving of failures, reclaims and operator retries spends more
\* automatic retries than the backoff list has entries.
THEOREM RetriesBounded == Spec => []RetryBudget
<1>1. IInv => RetryBudget
  BY DEF IInv
<1> QED BY <1>1, QueueInvariant, PTL

\* The executor that finalized its job is never told to stop by lease_status.
THEOREM PostCommitSafe == Spec => []PostCommitProtected
<1>1. IInv => PostCommitProtected
  BY DEF IInv
<1> QED BY <1>1, QueueInvariant, PTL

\* A step that changes what is written does it under a lease.
LEMMA WriteStep ==
  ASSUME TypeOK, [Next]_vars
  PROVE  \/ written' = written
         \/ \E w \in Slot :
              /\ HoldsLease(w) /\ slot[w].job \in Job
              /\ WriteUnderLease(w) \/ FinalizeInBusinessTx(w)
              /\ written' = [written EXCEPT ![slot[w].job] = slot[w].attempt]
<1> DEFINE Writes(w) ==
      /\ HoldsLease(w) /\ slot[w].job \in Job
      /\ WriteUnderLease(w) \/ FinalizeInBusinessTx(w)
      /\ written' = [written EXCEPT ![slot[w].job] = slot[w].attempt]
<1>1. ASSUME NEW w \in Slot, NEW j \in Job, ClaimNext(w, j) PROVE written' = written
  BY <1>1 DEF ClaimNext
<1>2. ASSUME NEW w \in Slot, Heartbeat(w) \/ Crash(w) PROVE written' = written
  BY <1>2 DEF Heartbeat, Crash
<1>3. ASSUME NEW w \in Slot, ExecutorStep(w) PROVE written' = written \/ Writes(w)
  <2>1. CASE WriteUnderLease(w)
    BY <2>1 DEF WriteUnderLease, HoldsLease, TypeOK
  <2>2. CASE FinalizeInBusinessTx(w)
    BY <2>2 DEF FinalizeInBusinessTx, HoldsLease, TypeOK
  <2> QED BY <1>3, <2>1, <2>2 DEF ExecutorStep, ReturnFinalized, ReportOutcome, DropStaleExecutor
<1>4. ASSUME NEW w \in Slot, RuntimeStep(w) PROVE written' = written
  BY <1>4 DEF RuntimeStep, Complete, WaitForStorage, DecideFailure, Fail,
     BlockAccountForJob, OutcomeRejected
<1>5. ASSUME NEW j \in Job, JobStep(j) PROVE written' = written
  BY <1>5 DEF JobStep, Enqueue, LeaseAges, LeaseExpires, RetryTimePasses,
     CancelRequested, RetryRequested
<1>6. ASSUME NEW a \in Account, AccountStep(a) PROVE written' = written
  BY <1>6 DEF AccountStep, AccountLost, ActivateAccount
<1>7. CASE StorageStep
  BY <1>7 DEF StorageStep, DiskChanges, StorageScanReads, SetStorageWriteAllowed
<1>8. CASE UNCHANGED vars
  BY <1>8 DEF vars
<1> QED BY <1>1, <1>2, <1>3, <1>4, <1>5, <1>6, <1>7, <1>8 DEF Next

\* The claim that holds the lease is the one the open attempt was made for.
LEMMA HolderIsNewest ==
  ASSUME IInv, NEW w \in Slot, HoldsLease(w)
  PROVE  LET j == slot[w].job
         IN /\ j \in Job
            /\ job[j].state = "running"
            /\ slot[w].attempt = job[j].attempts
            /\ slot[w].attempt \in DOMAIN attempt[j]
            /\ attempt[j][slot[w].attempt] = "running"
<1>1. slot[w].job \in Job /\ job[slot[w].job].state = "running"
      /\ slot[w].attempt = job[slot[w].job].attempts
  BY DEF IInv, TypeOK, HoldsLease, ClaimsFenced
<1>2. job[slot[w].job].attempts \in Nat
  BY <1>1 DEF IInv, TypeOK, JobRow
<1> QED BY <1>1, <1>2 DEF IInv, AttemptLedger

\* No executor that lost its lease writes: business data only ever comes from
\* the open attempt.
THEOREM WritesAreFenced == Spec => NoStaleWrite
<1>1. IInv /\ [Next]_vars =>
        [\A j \in Job : written'[j] # written[j] =>
           /\ written'[j] \in DOMAIN attempt[j]
           /\ attempt[j][written'[j]] = "running"]_vars
  <2> SUFFICES ASSUME IInv, [Next]_vars, NEW j \in Job, written'[j] # written[j]
               PROVE  written'[j] \in DOMAIN attempt[j] /\ attempt[j][written'[j]] = "running"
    OBVIOUS
  <2>1. TypeOK
    BY DEF IInv
  <2>2. PICK w \in Slot :
          /\ HoldsLease(w) /\ slot[w].job \in Job
          /\ written' = [written EXCEPT ![slot[w].job] = slot[w].attempt]
    BY <2>1, WriteStep
  <2>3. slot[w].job = j /\ written'[j] = slot[w].attempt
    BY <2>1, <2>2 DEF TypeOK
  <2> QED BY <2>2, <2>3, HolderIsNewest
<1> QED BY <1>1, QueueInvariant, PTL DEF Spec, NoStaleWrite

\* Completed and cancelled jobs and closed attempts are history.
THEOREM HistoryFinal == Spec => HistoryIsFinal
<1>1. IInv /\ [Next]_vars =>
        [\A j \in Job :
           /\ job[j].state \in {"completed", "cancelled"} =>
                job'[j].state = job[j].state /\ job'[j].revision = job[j].revision
           /\ \A n \in DOMAIN attempt[j] :
                attempt[j][n] # "running" =>
                  n \in DOMAIN attempt'[j] /\ attempt'[j][n] = attempt[j][n]]_vars
  <2> SUFFICES ASSUME IInv, [Next]_vars, NEW j \in Job
               PROVE  /\ job[j].state \in {"completed", "cancelled"} =>
                           job'[j].state = job[j].state /\ job'[j].revision = job[j].revision
                      /\ \A n \in DOMAIN attempt[j] :
                           attempt[j][n] # "running" =>
                             n \in DOMAIN attempt'[j] /\ attempt'[j][n] = attempt[j][n]
    OBVIOUS
  <2>1. /\ TypeOK
        /\ DOMAIN attempt[j] = 1 .. job[j].attempts
        /\ \A n \in DOMAIN attempt[j] :
             attempt[j][n] = "running" <=> job[j].state = "running" /\ n = job[j].attempts
        /\ job[j].attempts \in Nat
    BY DEF IInv, AttemptLedger, TypeOK, JobRow
  <2>2. job[j].state \in {"completed", "cancelled"} =>
          job'[j].state = job[j].state /\ job'[j].revision = job[j].revision
    BY <2>1, RowStep DEF RowKept, RowMoved
  <2>3. CASE HistoryKept(j)
    BY <2>2, <2>3 DEF HistoryKept
  <2>4. CASE HistoryClosed(j)
    BY <2>1, <2>2, <2>4 DEF HistoryClosed
  <2>5. CASE HistoryGrown(j)
    BY <2>1, <2>2, <2>5 DEF HistoryGrown
  <2> QED BY <2>1, <2>3, <2>4, <2>5, HistoryStep DEF HistoryMove
<1> QED BY <1>1, QueueInvariant, PTL DEF Spec, HistoryIsFinal
-----------------------------------------------------------------------------
(* The queue implements the ledger *)

\* The ledger sees a row through its phase and its number of attempts only.
SamePhase(j) ==
  LedgerPhase(j)' = LedgerPhase(j) /\ job'[j].attempts = job[j].attempts

\* A step the ledger does not see.
LEMMA Invisible ==
  ASSUME \A j \in Job : SamePhase(j), written' = written
  PROVE  UNCHANGED Ledger!ledger
BY DEF SamePhase, Ledger!ledger

\* A step the ledger sees at job j alone.
LEMMA Visible ==
  ASSUME NEW j \in Job, \A k \in Job \ {j} : SamePhase(k)
  PROVE  /\ [k \in Job |-> LedgerPhase(k)]' =
              [[k \in Job |-> LedgerPhase(k)] EXCEPT ![j] = LedgerPhase(j)']
         /\ [k \in Job |-> job[k].attempts]' =
              [[k \in Job |-> job[k].attempts] EXCEPT ![j] = job'[j].attempts]
BY DEF SamePhase

\* The claim of a ready job, or of a running one whose lease ran out, opens its
\* next round.
LEMMA ClaimOpens ==
  ASSUME TypeOK, NEW w \in Slot, NEW j \in Job, ClaimNext(w, j)
  PROVE  Ledger!Next
<1> USE DEF TypeOK, JobRow, LedgerPhase, SamePhase
<1>1. \A k \in Job \ {j} : SamePhase(k)
  BY DEF ClaimNext
<1>2. LedgerPhase(j) \in {"ready", "active"} /\ LedgerPhase(j)' = "active"
      /\ job'[j].attempts = job[j].attempts + 1 /\ written' = written
  BY DEF ClaimNext, Claimable, Claimed
<1> HIDE DEF LedgerPhase, SamePhase
<1>3. [k \in Job |-> job[k].attempts]' =
        [[k \in Job |-> job[k].attempts] EXCEPT ![j] = @ + 1]
  BY <1>1, <1>2, Visible
<1>4. [k \in Job |-> LedgerPhase(k)]' =
        [[k \in Job |-> LedgerPhase(k)] EXCEPT ![j] = "active"]
  BY <1>1, <1>2, Visible
<1>5. Ledger!Open(j)
  BY <1>2, <1>3, <1>4 DEF Ledger!Open, Ledger!Enters
<1> QED BY <1>5 DEF Ledger!Next

\* A finishing transaction closes the round its claim opened.
LEMMA FinishCloses ==
  ASSUME TypeOK, NEW j \in Job, \A k \in Job \ {j} : SamePhase(k),
         job[j].state = "running", job'[j].attempts = job[j].attempts,
         LedgerPhase(j)' \in {"ready", "done", "stopped"},
         \/ written' = written
         \/ written' = [written EXCEPT ![j] = job[j].attempts]
  PROVE  Ledger!Next
<1>1. LedgerPhase(j) = "active"
  BY DEF LedgerPhase
<1>2. [k \in Job |-> job[k].attempts]' = [k \in Job |-> job[k].attempts]
  BY DEF SamePhase
<1>3. Ledger!Close(j)
  BY <1>1, <1>2, Visible DEF Ledger!Close, Ledger!Enters
<1> QED BY <1>3 DEF Ledger!Next

\* A decision of the producer or the operator.
LEMMA OperatorDecides ==
  ASSUME TypeOK, NEW j \in Job, \A k \in Job \ {j} : SamePhase(k),
         job'[j].attempts = job[j].attempts, written' = written,
         \/ LedgerPhase(j) \in {"absent", "stopped"} /\ LedgerPhase(j)' = "ready"
         \/ LedgerPhase(j) \in {"ready", "active", "stopped"} /\ LedgerPhase(j)' = "cancelled"
  PROVE  Ledger!Next
<1>1. [k \in Job |-> job[k].attempts]' = [k \in Job |-> job[k].attempts]
  BY DEF SamePhase
<1>2. Ledger!Decide(j)
  BY <1>1, Visible DEF Ledger!Decide, Ledger!Enters
<1> QED BY <1>2 DEF Ledger!Next

\* A transaction that writes one row and keeps its attempts.
LEMMA OneRow ==
  ASSUME TypeOK, NEW j \in Job, NEW r, job' = [job EXCEPT ![j] = r],
         r.attempts = job[j].attempts
  PROVE  /\ \A k \in Job \ {j} : SamePhase(k)
         /\ job'[j] = r
         /\ job'[j].attempts = job[j].attempts
<1>1. job'[j] = r /\ \A k \in Job \ {j} : job'[k] = job[k]
  BY DEF TypeOK
<1> QED BY <1>1 DEF SamePhase, LedgerPhase

\* Every step of the queue is a step of the ledger or invisible to it.
LEMMA LedgerSimulation ==
  IInv /\ [Next]_vars => [Ledger!Next]_(Ledger!ledger)
<1> SUFFICES ASSUME IInv, [Next]_vars PROVE Ledger!Next \/ UNCHANGED Ledger!ledger
  OBVIOUS
<1>0. TypeOK
  BY DEF IInv
<1> DEFINE Quiet == (\A j \in Job : SamePhase(j)) /\ written' = written
<1> USE <1>0
<1>1. ASSUME NEW w \in Slot, NEW j \in Job, ClaimNext(w, j) PROVE Ledger!Next
  BY <1>1, ClaimOpens
<1>2. ASSUME NEW w \in Slot, Heartbeat(w) PROVE Quiet
  BY <1>2 DEF Heartbeat, TypeOK, JobRow, SamePhase, LedgerPhase
<1>3. ASSUME NEW w \in Slot, ExecutorStep(w) PROVE Ledger!Next \/ Quiet
  <2>1. CASE WriteUnderLease(w)
    <3>1. slot[w].job \in Job /\ slot[w].attempt = job[slot[w].job].attempts
          /\ LedgerPhase(slot[w].job) = "active"
      BY <2>1, HolderIsNewest DEF WriteUnderLease, LedgerPhase
    <3>2. Ledger!Commit(slot[w].job)
      BY <2>1, <3>1 DEF WriteUnderLease, Ledger!Commit, LedgerPhase
    <3> QED BY <3>1, <3>2 DEF Ledger!Next
  <2>2. CASE FinalizeInBusinessTx(w)
    <3> PICK j \in Job : j = slot[w].job
      BY <2>2, HolderIsNewest DEF FinalizeInBusinessTx
    <3>1. slot[w].attempt = job[j].attempts /\ job[j].state = "running"
      BY <2>2, HolderIsNewest DEF FinalizeInBusinessTx
    <3>2. /\ \A k \in Job \ {j} : SamePhase(k)
          /\ job'[j].attempts = job[j].attempts
          /\ LedgerPhase(j)' = "done"
      BY <2>2, <3>1 DEF FinalizeInBusinessTx, Moved, SamePhase, LedgerPhase, TypeOK, JobRow
    <3>3. written' = [written EXCEPT ![j] = job[j].attempts]
      BY <2>2, <3>1 DEF FinalizeInBusinessTx
    <3> QED BY <3>1, <3>2, <3>3, FinishCloses
  <2> QED BY <1>3, <2>1, <2>2 DEF ExecutorStep, ReturnFinalized, ReportOutcome,
             DropStaleExecutor, SamePhase, LedgerPhase
<1>4. ASSUME NEW w \in Slot, RuntimeStep(w) PROVE Ledger!Next \/ Quiet
  <2>0. HoldsLease(w) => slot[w].job \in Job /\ job[slot[w].job].state = "running"
    BY HolderIsNewest
  <2>1. ASSUME NEW j \in Job, j = slot[w].job, HoldsLease(w),
               \A k \in Job \ {j} : SamePhase(k),
               job'[j].attempts = job[j].attempts,
               LedgerPhase(j)' \in {"ready", "done", "stopped"},
               written' = written
        PROVE  Ledger!Next
    BY <2>0, <2>1, FinishCloses
  <2>3. CASE Complete(w)
    <3> PICK j \in Job : j = slot[w].job
      BY <2>0, <2>3 DEF Complete
    <3>1. job' = [job EXCEPT ![j] = Moved(job[j], "completed")]
      BY <2>3 DEF Complete
    <3>4. Moved(job[j], "completed").attempts = job[j].attempts
      BY DEF Moved
    <3>2. /\ \A k \in Job \ {j} : SamePhase(k)
          /\ job'[j] = Moved(job[j], "completed")
          /\ job'[j].attempts = job[j].attempts
      BY <3>1, <3>4, OneRow
    <3>3. LedgerPhase(j)' = "done"
      BY <3>2 DEF LedgerPhase, Moved
    <3> QED BY <2>1, <2>3, <3>2, <3>3 DEF Complete
  <2>4. CASE WaitForStorage(w)
    <3> PICK j \in Job : j = slot[w].job
      BY <2>0, <2>4 DEF WaitForStorage
    <3>1. job' = [job EXCEPT ![j] = Moved(job[j], "waiting_storage")]
      BY <2>4 DEF WaitForStorage
    <3>4. Moved(job[j], "waiting_storage").attempts = job[j].attempts
      BY DEF Moved
    <3>2. /\ \A k \in Job \ {j} : SamePhase(k)
          /\ job'[j] = Moved(job[j], "waiting_storage")
          /\ job'[j].attempts = job[j].attempts
      BY <3>1, <3>4, OneRow
    <3>3. LedgerPhase(j)' = "ready"
      BY <3>2 DEF LedgerPhase, Moved
    <3> QED BY <2>1, <2>4, <3>2, <3>3 DEF WaitForStorage
  <2>5. CASE Fail(w)
    <3> PICK j \in Job : j = slot[w].job
      BY <2>0, <2>5 DEF Fail
    <3>1. job' = [job EXCEPT ![j] = Failed(job[j], slot[w].report = "retry")]
      BY <2>5 DEF Fail
    <3>4. Failed(job[j], slot[w].report = "retry").attempts = job[j].attempts
      BY DEF Failed
    <3>2. /\ \A k \in Job \ {j} : SamePhase(k)
          /\ job'[j] = Failed(job[j], slot[w].report = "retry")
          /\ job'[j].attempts = job[j].attempts
      BY <3>1, <3>4, OneRow
    <3>3. LedgerPhase(j)' \in {"ready", "stopped"}
      BY <3>2 DEF LedgerPhase, Failed
    <3> QED BY <2>1, <2>5, <3>2, <3>3 DEF Fail
  <2> USE DEF SamePhase, LedgerPhase, TypeOK, JobRow, Moved
  <2>6. CASE BlockAccountForJob(w)
    <3> PICK j \in Job : j = slot[w].job
      BY <2>0, <2>6 DEF BlockAccountForJob
    <3>1. /\ \A k \in Job \ {j} : SamePhase(k)
          /\ job'[j].attempts = job[j].attempts /\ LedgerPhase(j)' = "ready"
      BY <2>6 DEF BlockAccountForJob, WaitsForAccount
    <3> QED BY <2>1, <2>6, <3>1 DEF BlockAccountForJob
  <2> QED BY <1>4, <2>3, <2>4, <2>5, <2>6 DEF RuntimeStep, DecideFailure, OutcomeRejected
<1>5. ASSUME NEW w \in Slot, Crash(w) PROVE Quiet
  BY <1>5 DEF Crash, SamePhase, LedgerPhase
<1>6. ASSUME NEW j \in Job, JobStep(j) PROVE Ledger!Next \/ Quiet
  <2> USE DEF SamePhase, LedgerPhase, TypeOK, JobRow, Moved
  <2>1. CASE Enqueue(j)
    <3>1. /\ \A k \in Job \ {j} : SamePhase(k)
          /\ job'[j].attempts = job[j].attempts
          /\ LedgerPhase(j) = "absent" /\ LedgerPhase(j)' = "ready"
      BY <2>1 DEF Enqueue
    <3> QED BY <2>1, <3>1, OperatorDecides DEF Enqueue
  <2>2. CASE LeaseAges(j) \/ LeaseExpires(j) \/ RetryTimePasses(j)
    BY <2>2 DEF LeaseAges, LeaseExpires, RetryTimePasses
  <2>3. CASE CancelRequested(j)
    <3>1. /\ \A k \in Job \ {j} : SamePhase(k)
          /\ job'[j].attempts = job[j].attempts
          /\ LedgerPhase(j) \in {"ready", "active", "stopped"} /\ LedgerPhase(j)' = "cancelled"
      BY <2>3 DEF CancelRequested
    <3> QED BY <2>3, <3>1, OperatorDecides DEF CancelRequested
  <2>4. CASE RetryRequested(j)
    <3>1. /\ \A k \in Job \ {j} : SamePhase(k)
          /\ job'[j].attempts = job[j].attempts
          /\ LedgerPhase(j) \in {"ready", "stopped"} /\ LedgerPhase(j)' = "ready"
      BY <2>4 DEF RetryRequested
    <3> QED BY <2>4, <3>1, OperatorDecides DEF RetryRequested
  <2> QED BY <1>6, <2>1, <2>2, <2>3, <2>4 DEF JobStep
<1>7. ASSUME NEW a \in Account, AccountStep(a) PROVE Quiet
  BY <1>7 DEF AccountStep, AccountLost, ActivateAccount, WaitsForAccount, SamePhase,
     LedgerPhase, TypeOK, JobRow, Moved
<1>8. ASSUME StorageStep PROVE Quiet
  BY <1>8 DEF StorageStep, DiskChanges, StorageScanReads, SetStorageWriteAllowed,
     SamePhase, LedgerPhase, TypeOK, JobRow, Moved
<1>9. ASSUME UNCHANGED vars PROVE Quiet
  BY <1>9 DEF vars, SamePhase, LedgerPhase
<1> QED
  BY <1>1, <1>2, <1>3, <1>4, <1>5, <1>6, <1>7, <1>8, <1>9, Invisible DEF Next

\* Seen from outside, the queue is the ledger, for any number of jobs, worker
\* tasks and accounts.
THEOREM QueueImplementsLedger == Spec => ImplementsLedger
<1>1. Init => Ledger!Init
  BY DEF Init, Ledger!Init, LedgerPhase, NoRow
<1> QED BY <1>1, LedgerSimulation, QueueInvariant, PTL DEF Spec, ImplementsLedger, Ledger!Spec

-----------------------------------------------------------------------------
(***************************************************************************)
(* Proofs about QueueQuota, for any number of tasks and any weights: the   *)
(* bound on how long a class waits.  The bound alone is not inductive.     *)
(* What passes by a waiting class are tasks that had another class's turn, *)
(* so the invariant counts them from the turn on, against the turns that   *)
(* the rotation can have given since.                                      *)
(***************************************************************************)

QuotaTypeOK ==
  /\ weight \in [Class -> Nat \ {0}]
  /\ rotation \in 0 .. Len(Rotation) - 1
  /\ ready \in [Class -> Nat]
  /\ task \in [Task -> Class \cup {"idle", "at work", "failed"}]
  /\ watched \in Class
  /\ passed \in Nat

\* Jobs pass by only while the watched class waits.
CountsWhileWaiting == passed > 0 => ready[watched] > 0

\* The tasks that have another class's turn and no job yet.
Overtaking == {t \in Task : task[t] \in Class \ {watched}}
\* Those that have the watched class's turn, or failed with it.
OwnTurns == {t \in Task : task[t] \in {watched, "failed"}}
Others == Len(Rotation) - weight[watched]

\* Where the watched class's turns begin in a rotation.
Before ==
  CASE watched = "manual_import" -> 0
    [] watched = "immediate" -> weight["manual_import"]
    [] watched = "scheduled_collection" -> weight["manual_import"] + weight["immediate"]
    [] watched = "background_maintenance" ->
         weight["manual_import"] + weight["immediate"] + weight["scheduled_collection"]

\* The other classes' turns since the watched class's last one.
SinceOwnTurn ==
  IF rotation <= Before THEN Others - Before + rotation
  ELSE IF rotation <= Before + weight[watched] THEN 0
  ELSE rotation - (Before + weight[watched])

\* What passed and what may still pass was given its turn before the wait, or
\* between two turns of the watched class.
TurnsAreCounted ==
  passed + Cardinality(Overtaking) <= Tasks - 1 + Cardinality(OwnTurns) * Others + SinceOwnTurn

QuotaInv == QuotaTypeOK /\ CountsWhileWaiting /\ TurnsAreCounted /\ WaitIsBounded

-----------------------------------------------------------------------------
(* The rotation *)

LEMMA Classes ==
  Class = {"manual_import", "immediate", "scheduled_collection", "background_maintenance"}
  BY DEF Class, ClassOrder

LEMMA RepeatIs ==
  ASSUME weight \in [Class -> Nat \ {0}], NEW c \in Class
  PROVE  /\ Repeat(c) \in Seq(Class) /\ Len(Repeat(c)) = weight[c]
         /\ \A i \in 1 .. weight[c] : Repeat(c)[i] = c
  BY DEF Repeat

LEMMA JoinIs ==
  ASSUME NEW s \in Seq(Class), NEW t \in Seq(Class)
  PROVE  /\ s \o t \in Seq(Class) /\ Len(s \o t) = Len(s) + Len(t)
         /\ \A i \in 1 .. Len(s) : (s \o t)[i] = s[i]
         /\ \A i \in 1 .. Len(t) : (s \o t)[Len(s) + i] = t[i]
<1>1. s \o t \in Seq(Class) /\ Len(s \o t) = Len(s) + Len(t)
  OBVIOUS
<1>2. ASSUME NEW i \in 1 .. Len(s) PROVE (s \o t)[i] = s[i]
  OBVIOUS
<1>3. ASSUME NEW i \in 1 .. Len(t) PROVE (s \o t)[Len(s) + i] = t[i]
  <2>1. Len(s) + i \in 1 .. Len(s) + Len(t) /\ ~(Len(s) + i <= Len(s)) /\ Len(s) + i - Len(s) = i
    OBVIOUS
  <2> QED BY <2>1
<1> QED BY <1>1, <1>2, <1>3

\* The watched class's turns are one block of the rotation.
LEMMA RotationIs ==
  ASSUME weight \in [Class -> Nat \ {0}], watched \in Class
  PROVE  /\ Rotation \in Seq(Class)
         /\ Len(Rotation) \in Nat /\ weight[watched] \in Nat \ {0} /\ Before \in Nat
         /\ Before + weight[watched] <= Len(Rotation)
         /\ \A i \in 1 .. Len(Rotation) :
              Rotation[i] = watched <=> Before < i /\ i <= Before + weight[watched]
<1> DEFINE a == weight["manual_import"]   b == weight["immediate"]
           c == weight["scheduled_collection"]   d == weight["background_maintenance"]
           A == Repeat("manual_import")   B == Repeat("immediate")
           C == Repeat("scheduled_collection")   D == Repeat("background_maintenance")
<1>1. a \in Nat \ {0} /\ b \in Nat \ {0} /\ c \in Nat \ {0} /\ d \in Nat \ {0}
  BY Classes
<1>2. /\ A \in Seq(Class) /\ Len(A) = a /\ \A i \in 1 .. a : A[i] = "manual_import"
      /\ B \in Seq(Class) /\ Len(B) = b /\ \A i \in 1 .. b : B[i] = "immediate"
      /\ C \in Seq(Class) /\ Len(C) = c /\ \A i \in 1 .. c : C[i] = "scheduled_collection"
      /\ D \in Seq(Class) /\ Len(D) = d /\ \A i \in 1 .. d : D[i] = "background_maintenance"
  BY RepeatIs, Classes
<1>3. Rotation = ((A \o B) \o C) \o D
  BY DEF Rotation
<1>4. watched \in {"manual_import", "immediate", "scheduled_collection", "background_maintenance"}
  BY Classes
<1> HIDE DEF A, B, C, D
<1> HIDE DEF a, b, c, d
<1>5. PICK S \in Seq(Class) : S = A \o B
  BY <1>2, JoinIs
<1>6. /\ Len(S) = a + b
      /\ \A i \in 1 .. a : S[i] = "manual_import"
      /\ \A i \in 1 .. b : S[a + i] = "immediate"
  <2>1. A \in Seq(Class) /\ B \in Seq(Class)
    BY <1>2
  <2>2. /\ Len(S) = Len(A) + Len(B)
        /\ \A i \in 1 .. Len(A) : S[i] = A[i]
        /\ \A i \in 1 .. Len(B) : S[Len(A) + i] = B[i]
    BY <1>5, <2>1, JoinIs
  <2>3. Len(A) = a /\ Len(B) = b
    BY <1>2
  <2>4. \A i \in 1 .. a : S[i] = A[i]
    BY <2>2, <2>3
  <2>5. \A i \in 1 .. b : S[a + i] = B[i]
    BY <2>2, <2>3
  <2>6. Len(S) = a + b
    BY <2>2, <2>3
  <2>7. \A i \in 1 .. a : S[i] = "manual_import"
    BY <1>2, <2>4
  <2>8. \A i \in 1 .. b : S[a + i] = "immediate"
    BY <1>2, <2>5
  <2> QED BY <2>6, <2>7, <2>8
<1>7. PICK T \in Seq(Class) : T = S \o C
  BY <1>2, JoinIs
<1>8. /\ Len(T) = a + b + c
      /\ \A i \in 1 .. a : T[i] = "manual_import"
      /\ \A i \in 1 .. b : T[a + i] = "immediate"
      /\ \A i \in 1 .. c : T[a + b + i] = "scheduled_collection"
  <2>0. C \in Seq(Class)
    BY <1>2
  <2>1. /\ Len(T) = Len(S) + Len(C)
        /\ \A i \in 1 .. Len(S) : T[i] = S[i]
        /\ \A i \in 1 .. Len(C) : T[Len(S) + i] = C[i]
    BY <1>7, <2>0, JoinIs
  <2>2. (\A i \in 1 .. a : i \in 1 .. a + b) /\ (\A i \in 1 .. b : a + i \in 1 .. a + b)
    BY <1>1
  <2>3. /\ Len(T) = a + b + c
        /\ \A i \in 1 .. a + b : T[i] = S[i]
        /\ \A i \in 1 .. c : T[a + b + i] = "scheduled_collection"
    <3>1. Len(S) = a + b /\ Len(C) = c
      BY <1>2, <1>6
    <3>2. \A i \in 1 .. a + b : T[i] = S[i]
      BY <2>1, <3>1
    <3>3. \A i \in 1 .. c : T[a + b + i] = C[i]
      BY <2>1, <3>1
    <3>4. Len(T) = a + b + c
      BY <2>1, <3>1
    <3>5. \A i \in 1 .. c : C[i] = "scheduled_collection"
      BY <1>2
    <3>6. \A i \in 1 .. c : T[a + b + i] = "scheduled_collection"
      BY <3>3, <3>5
    <3> QED BY <3>2, <3>4, <3>6
  <2>4. \A i \in 1 .. a : T[i] = "manual_import"
    BY <1>6, <2>2, <2>3
  <2>5. \A i \in 1 .. b : T[a + i] = "immediate"
    BY <1>6, <2>2, <2>3
  <2> QED BY <2>3, <2>4, <2>5
<1>9. PICK R \in Seq(Class) : R = T \o D
  BY <1>2, JoinIs
<1>10. /\ Len(R) = a + b + c + d
       /\ \A i \in 1 .. a : R[i] = "manual_import"
       /\ \A i \in 1 .. b : R[a + i] = "immediate"
       /\ \A i \in 1 .. c : R[a + b + i] = "scheduled_collection"
       /\ \A i \in 1 .. d : R[a + b + c + i] = "background_maintenance"
  <2>0. D \in Seq(Class)
    BY <1>2
  <2>1. /\ Len(R) = Len(T) + Len(D)
        /\ \A i \in 1 .. Len(T) : R[i] = T[i]
        /\ \A i \in 1 .. Len(D) : R[Len(T) + i] = D[i]
    BY <1>9, <2>0, JoinIs
  <2>2. /\ \A i \in 1 .. a : i \in 1 .. a + b + c
        /\ \A i \in 1 .. b : a + i \in 1 .. a + b + c
        /\ \A i \in 1 .. c : a + b + i \in 1 .. a + b + c
    BY <1>1
  <2>3. /\ Len(R) = a + b + c + d
        /\ \A i \in 1 .. a + b + c : R[i] = T[i]
        /\ \A i \in 1 .. d : R[a + b + c + i] = "background_maintenance"
    <3>1. Len(T) = a + b + c /\ Len(D) = d
      BY <1>2, <1>8
    <3>2. \A i \in 1 .. a + b + c : R[i] = T[i]
      BY <2>1, <3>1
    <3>3. \A i \in 1 .. d : R[a + b + c + i] = D[i]
      BY <2>1, <3>1
    <3>4. Len(R) = a + b + c + d
      BY <2>1, <3>1
    <3>5. \A i \in 1 .. d : D[i] = "background_maintenance"
      BY <1>2
    <3>6. \A i \in 1 .. d : R[a + b + c + i] = "background_maintenance"
      BY <3>3, <3>5
    <3> QED BY <3>2, <3>4, <3>6
  <2>4. \A i \in 1 .. a : R[i] = "manual_import"
    BY <1>8, <2>2, <2>3
  <2>5. \A i \in 1 .. b : R[a + i] = "immediate"
    BY <1>8, <2>2, <2>3
  <2>6. \A i \in 1 .. c : R[a + b + i] = "scheduled_collection"
    BY <1>8, <2>2, <2>3
  <2> QED BY <2>3, <2>4, <2>5, <2>6
<1>11. /\ Rotation = R
       /\ \A i \in 1 .. Len(R) :
            R[i] = IF i <= a THEN "manual_import"
                   ELSE IF i <= a + b THEN "immediate"
                   ELSE IF i <= a + b + c THEN "scheduled_collection"
                   ELSE "background_maintenance"
  <2>1. ASSUME NEW i \in 1 .. Len(R)
        PROVE  \/ i \in 1 .. a
               \/ ~(i <= a) /\ \E j \in 1 .. b : i = a + j
               \/ ~(i <= a + b) /\ ~(i <= a) /\ \E j \in 1 .. c : i = a + b + j
               \/ ~(i <= a + b + c) /\ ~(i <= a + b) /\ ~(i <= a) /\ \E j \in 1 .. d : i = a + b + c + j
    <3>1. CASE i <= a
      BY <1>1, <1>10, <3>1
    <3>2. CASE ~(i <= a) /\ i <= a + b
      <4>1. i - a \in 1 .. b /\ i = a + (i - a)
        BY <1>1, <1>10, <3>2
      <4> QED BY <3>2, <4>1
    <3>3. CASE ~(i <= a + b) /\ i <= a + b + c
      <4>1. i - (a + b) \in 1 .. c /\ i = a + b + (i - (a + b)) /\ ~(i <= a)
        BY <1>1, <1>10, <3>3
      <4> QED BY <3>3, <4>1
    <3>4. CASE ~(i <= a + b + c)
      <4>1. i - (a + b + c) \in 1 .. d /\ i = a + b + c + (i - (a + b + c))
            /\ ~(i <= a + b) /\ ~(i <= a)
        BY <1>1, <1>10, <3>4
      <4> QED BY <3>4, <4>1
    <3> QED BY <3>1, <3>2, <3>3, <3>4
  <2>2. ASSUME NEW i \in 1 .. Len(R)
        PROVE  R[i] = IF i <= a THEN "manual_import"
                      ELSE IF i <= a + b THEN "immediate"
                      ELSE IF i <= a + b + c THEN "scheduled_collection"
                      ELSE "background_maintenance"
    <3>1. \A j \in 1 .. a : j <= a
      BY <1>1
    <3>2. (\A j \in 1 .. b : a + j <= a + b) /\ (\A j \in 1 .. c : a + b + j <= a + b + c)
      BY <1>1
    <3> QED BY <1>10, <2>1, <3>1, <3>2
  <2> QED BY <1>3, <1>5, <1>7, <1>9, <2>2
<1>12. SUFFICES
         /\ weight[watched] \in Nat \ {0} /\ Before \in Nat
         /\ Before + weight[watched] <= Len(R)
         /\ \A i \in 1 .. Len(R) : R[i] = watched <=> Before < i /\ i <= Before + weight[watched]
  BY <1>11
<1>13. CASE watched = "manual_import"
  <2>1. Before = 0 /\ weight[watched] = a
    BY <1>13 DEF Before, a
  <2> QED BY <1>1, <1>10, <1>11, <1>13, <2>1
<1>14. CASE watched = "immediate"
  <2>1. Before = a /\ weight[watched] = b
    BY <1>14 DEF Before, a, b
  <2> QED BY <1>1, <1>10, <1>11, <1>14, <2>1
<1>15. CASE watched = "scheduled_collection"
  <2>1. Before = a + b /\ weight[watched] = c
    BY <1>15 DEF Before, a, b, c
  <2> QED BY <1>1, <1>10, <1>11, <1>15, <2>1
<1>16. CASE watched = "background_maintenance"
  <2>1. Before = a + b + c /\ weight[watched] = d
    BY <1>16 DEF Before, a, b, c, d
  <2> QED BY <1>1, <1>10, <1>11, <1>16, <2>1
<1> QED BY <1>4, <1>13, <1>14, <1>15, <1>16

\* Also in a rotation that a restart has just begun.
RotationHasTurns ==
  weight \in [Class -> Nat \ {0}] /\ watched \in Class =>
    Len(Rotation) \in Nat \ {0} /\ weight[watched] \in Nat \ {0} /\ Before \in Nat
    /\ Before + weight[watched] <= Len(Rotation)

LEMMA RotationTurns == RotationHasTurns
<1> SUFFICES ASSUME weight \in [Class -> Nat \ {0}], watched \in Class
             PROVE  /\ Len(Rotation) \in Nat \ {0} /\ weight[watched] \in Nat \ {0}
                    /\ Before \in Nat /\ Before + weight[watched] <= Len(Rotation)
  BY DEF RotationHasTurns
<1>1. /\ Len(Rotation) \in Nat /\ weight[watched] \in Nat \ {0} /\ Before \in Nat
      /\ Before + weight[watched] <= Len(Rotation)
  BY RotationIs
<1> QED BY <1>1

\* A turn in the rotation's order.
LEMMA TurnIs ==
  ASSUME NEW n \in Nat \ {0}, NEW r \in Nat, r < n
  PROVE  (r + 1) % n = IF r + 1 = n THEN 0 ELSE r + 1
<1>1. n % n = 0
  OBVIOUS
<1>2. \A q \in Nat : q < n => q % n = q
  OBVIOUS
<1> QED BY <1>1, <1>2

LEMMA SinceOwnTurnIs ==
  ASSUME QuotaTypeOK
  PROVE  /\ Others \in Nat
         /\ SinceOwnTurn \in Nat /\ SinceOwnTurn <= Others
         /\ rotation = 0 => SinceOwnTurn = Others - Before
<1>1. /\ Len(Rotation) \in Nat /\ weight[watched] \in Nat \ {0} /\ Before \in Nat
      /\ Before + weight[watched] <= Len(Rotation)
      /\ rotation \in Nat /\ rotation < Len(Rotation)
  <2>1. weight \in [Class -> Nat \ {0}] /\ watched \in Class /\ rotation \in 0 .. Len(Rotation) - 1
    BY DEF QuotaTypeOK
  <2>2. /\ Len(Rotation) \in Nat /\ weight[watched] \in Nat \ {0} /\ Before \in Nat
        /\ Before + weight[watched] <= Len(Rotation)
    BY <2>1, RotationIs
  <2> QED BY <2>1, <2>2
<1> QED BY <1>1 DEF SinceOwnTurn, Others

-----------------------------------------------------------------------------
(* Counting *)

LEMMA TaskSets ==
  ASSUME QuotaAssumption, NEW S \in SUBSET Task
  PROVE  IsFiniteSet(S) /\ Cardinality(S) \in Nat /\ Cardinality(S) <= Tasks /\ Tasks \in Nat \ {0}
  BY FS_Subset, FS_CardinalityType, FS_EmptySet DEF QuotaAssumption, Tasks

LEMMA LacksOne ==
  ASSUME QuotaAssumption, NEW t \in Task, NEW S \in SUBSET (Task \ {t})
  PROVE  Cardinality(S) <= Tasks - 1
<1>1. IsFiniteSet(Task \ {t}) /\ Cardinality(Task \ {t}) = Tasks - 1
  BY FS_RemoveElement DEF QuotaAssumption, Tasks
<1> QED BY <1>1, FS_Subset

LEMMA Joins ==
  ASSUME QuotaAssumption, NEW S \in SUBSET Task, NEW t \in Task \ S
  PROVE  Cardinality(S \cup {t}) = Cardinality(S) + 1
  BY TaskSets, FS_AddElement

LEMMA Leaves ==
  ASSUME QuotaAssumption, NEW S \in SUBSET Task, NEW t \in S
  PROVE  Cardinality(S \ {t}) = Cardinality(S) - 1
  BY TaskSets, FS_RemoveElement

LEMMA OneMore == ASSUME NEW m \in Nat, NEW k \in Nat PROVE m * k \in Nat /\ (m + 1) * k = m * k + k
  OBVIOUS

LEMMA Times == ASSUME NEW m \in Nat, NEW n \in Nat, NEW k \in Nat, m <= n PROVE m * k <= n * k
  OBVIOUS

-----------------------------------------------------------------------------
(* The steps *)

\* A tick gives the watched class a turn, or counts one more of the others.
LEMMA TickTurns ==
  ASSUME QuotaTypeOK, QuotaAssumption, NEW t \in Task, Tick(t)
  PROVE  /\ rotation' \in 0 .. Len(Rotation) - 1
         /\ Rotation' = Rotation /\ Before' = Before /\ Others' = Others
         /\ Rotation[rotation + 1] \in Class
         /\ IF Rotation[rotation + 1] = watched THEN SinceOwnTurn' = 0
            ELSE SinceOwnTurn' = SinceOwnTurn + 1
<1>1. UNCHANGED <<weight, watched>>
  BY DEF Tick
<1>2. Rotation' = Rotation /\ Before' = Before /\ Others' = Others
  BY <1>1 DEF Rotation, Repeat, Before, Others
<1>3. /\ Rotation \in Seq(Class)
      /\ Len(Rotation) \in Nat /\ weight[watched] \in Nat \ {0} /\ Before \in Nat
      /\ Before + weight[watched] <= Len(Rotation)
      /\ \A i \in 1 .. Len(Rotation) :
           Rotation[i] = watched <=> Before < i /\ i <= Before + weight[watched]
  BY RotationIs DEF QuotaTypeOK
<1>4. rotation \in Nat /\ rotation < Len(Rotation) /\ Len(Rotation) \in Nat \ {0}
  <2>1. rotation \in 0 .. Len(Rotation) - 1
    BY DEF QuotaTypeOK
  <2> QED BY <1>3, <2>1
<1>5. rotation' = IF rotation + 1 = Len(Rotation) THEN 0 ELSE rotation + 1
  BY <1>4, TurnIs DEF Tick
<1>6. Rotation[rotation + 1] \in Class
  BY <1>3, <1>4
<1>7. Rotation[rotation + 1] = watched <=>
        Before < rotation + 1 /\ rotation + 1 <= Before + weight[watched]
  BY <1>3, <1>4
<1>8. SinceOwnTurn' = IF rotation' <= Before THEN Others - Before + rotation'
                      ELSE IF rotation' <= Before + weight[watched] THEN 0
                      ELSE rotation' - (Before + weight[watched])
  BY <1>1, <1>2 DEF SinceOwnTurn
<1>9. IF Rotation[rotation + 1] = watched THEN SinceOwnTurn' = 0
      ELSE SinceOwnTurn' = SinceOwnTurn + 1
  <2>1. PICK n \in Nat, w \in Nat \ {0}, b \in Nat, q \in Nat :
          n = Len(Rotation) /\ w = weight[watched] /\ b = Before /\ q = rotation
    BY <1>3, <1>4
  <2>2. b + w <= n /\ q < n
    BY <1>3, <1>4, <2>1
  <2>3. SinceOwnTurn = IF q <= b THEN (n - w) - b + q ELSE IF q <= b + w THEN 0 ELSE q - (b + w)
    BY <2>1 DEF SinceOwnTurn, Others
  <2>4. SinceOwnTurn' = IF rotation' <= b THEN (n - w) - b + rotation'
                        ELSE IF rotation' <= b + w THEN 0 ELSE rotation' - (b + w)
    BY <1>8, <2>1 DEF Others
  <2>5. rotation' = IF q + 1 = n THEN 0 ELSE q + 1
    BY <1>5, <2>1
  <2>6. Rotation[rotation + 1] = watched <=> b < q + 1 /\ q + 1 <= b + w
    BY <1>7, <2>1
  <2>7. CASE b < q + 1 /\ q + 1 <= b + w
    <3>1. SinceOwnTurn' = 0
      BY <2>2, <2>4, <2>5, <2>7
    <3> QED BY <2>6, <2>7, <3>1
  <2>8. CASE ~(b < q + 1 /\ q + 1 <= b + w)
    <3>1. SinceOwnTurn' = SinceOwnTurn + 1
      BY <2>2, <2>3, <2>4, <2>5, <2>8
    <3> QED BY <2>6, <2>8, <3>1
  <2> QED BY <2>7, <2>8
<1> QED BY <1>2, <1>4, <1>5, <1>6, <1>9

LEMMA QuotaTypeStep == QuotaTypeOK /\ QuotaAssumption /\ [QuotaNext]_quotaVars => QuotaTypeOK'
<1> SUFFICES ASSUME QuotaTypeOK, QuotaAssumption, [QuotaNext]_quotaVars PROVE QuotaTypeOK'
  OBVIOUS
<1>0. /\ weight \in [Class -> Nat \ {0}] /\ rotation \in 0 .. Len(Rotation) - 1
      /\ ready \in [Class -> Nat] /\ task \in [Task -> Class \cup {"idle", "at work", "failed"}]
      /\ watched \in Class /\ passed \in Nat
  BY DEF QuotaTypeOK
<1>1. UNCHANGED weight => Rotation' = Rotation
  BY DEF Rotation, Repeat
<1>2. ASSUME NEW class \in Class, Arrive(class) PROVE QuotaTypeOK'
  <2>0. ready \in [Class -> Nat] /\ ready[class] \in Nat
    BY <1>0
  <2>1. PICK n \in Nat : n = ready[class] + 1
    BY <2>0
  <2>2. ready' = [ready EXCEPT ![class] = n]
    BY <1>2, <2>1 DEF Arrive
  <2>3. ready' \in [Class -> Nat]
    BY <2>0, <2>2
  <2> QED BY <1>0, <1>1, <1>2, <2>3 DEF Arrive, QuotaTypeOK
<1>3. ASSUME NEW t \in Task, Tick(t) PROVE QuotaTypeOK'
  <2>1. rotation' \in 0 .. Len(Rotation) - 1 /\ Rotation' = Rotation
        /\ Rotation[rotation + 1] \in Class
    BY <1>3, TickTurns
  <2> QED BY <1>0, <1>3, <2>1 DEF Tick, QuotaTypeOK
<1>4. ASSUME NEW t \in Task, FailTask(t) \/ FindNone(t) \/ EndTask(t) PROVE QuotaTypeOK'
  BY <1>0, <1>1, <1>4 DEF FailTask, FindNone, EndTask, QuotaTypeOK
<1>5. ASSUME NEW t \in Task, ClaimOne(t) PROVE QuotaTypeOK'
  <2>1. PICK class \in Class :
          /\ Chosen(t, class)
          /\ ready' = [ready EXCEPT ![class] = @ - 1]
          /\ passed' = IF class = watched \/ ready[watched] = 0 THEN 0 ELSE passed + 1
    BY <1>5 DEF ClaimOne
  <2>2. ready[class] > 0
    BY <2>1 DEF Chosen
  <2>3. ready' \in [Class -> Nat] /\ passed' \in Nat
    <3>0. ready \in [Class -> Nat] /\ ready[class] \in Nat
      BY <1>0
    <3>1. PICK n \in Nat : n = ready[class] - 1
      BY <2>2, <3>0
    <3>2. ready' = [ready EXCEPT ![class] = n]
      BY <2>1, <3>1
    <3>3. ready' \in [Class -> Nat]
      BY <3>0, <3>2
    <3>4. passed' \in Nat
      <4>1. passed \in Nat
        BY <1>0
      <4> QED BY <2>1, <4>1
    <3> QED BY <3>3, <3>4
  <2>4. task' \in [Task -> Class \cup {"idle", "at work", "failed"}]
    BY <1>0, <1>5 DEF ClaimOne
  <2> QED BY <1>0, <1>1, <1>5, <2>3, <2>4 DEF ClaimOne, QuotaTypeOK
<1>6. CASE RestartWorker
  <2>1. weight' \in [Class -> Nat \ {0}] /\ rotation' = 0 /\ passed' = 0
        /\ task' = [t \in Task |-> "idle"] /\ UNCHANGED <<ready, watched>>
    BY <1>6 DEF RestartWorker, Started, QuotaAssumption
  <2>2. RotationHasTurns'
    BY RotationTurns, PTL
  <2>3. Len(Rotation') \in Nat \ {0}
    BY <1>0, <2>1, <2>2 DEF RotationHasTurns
  <2>4. rotation' \in 0 .. Len(Rotation') - 1
    BY <2>1, <2>3
  <2>5. task' \in [Task -> Class \cup {"idle", "at work", "failed"}]
    BY <2>1
  <2> QED BY <1>0, <2>1, <2>4, <2>5 DEF QuotaTypeOK
<1>7. CASE UNCHANGED quotaVars
  BY <1>0, <1>1, <1>7 DEF quotaVars, QuotaTypeOK
<1> QED BY <1>2, <1>3, <1>4, <1>5, <1>6, <1>7 DEF QuotaNext, TaskStep

LEMMA WaitingStep == QuotaTypeOK /\ CountsWhileWaiting /\ [QuotaNext]_quotaVars => CountsWhileWaiting'
<1> SUFFICES ASSUME QuotaTypeOK, CountsWhileWaiting, [QuotaNext]_quotaVars, passed' > 0
             PROVE  ready'[watched'] > 0
  BY DEF CountsWhileWaiting
<1>0. ready \in [Class -> Nat] /\ watched \in Class /\ passed \in Nat
  BY DEF QuotaTypeOK
<1>1. ASSUME NEW class \in Class, Arrive(class) PROVE ready'[watched'] > 0
  <2>1. ready'[watched] >= ready[watched]
    BY <1>0, <1>1 DEF Arrive
  <2>2. ready[watched] > 0 /\ watched' = watched
    BY <1>1 DEF Arrive, CountsWhileWaiting
  <2> QED BY <1>0, <1>1, <2>1, <2>2 DEF Arrive
<1>2. ASSUME NEW t \in Task, Tick(t) \/ FailTask(t) \/ FindNone(t) \/ EndTask(t)
      PROVE  ready'[watched'] > 0
  BY <1>2 DEF Tick, FailTask, FindNone, EndTask, CountsWhileWaiting
<1>3. ASSUME NEW t \in Task, ClaimOne(t) PROVE ready'[watched'] > 0
  <2>1. PICK class \in Class :
          /\ ready' = [ready EXCEPT ![class] = @ - 1]
          /\ passed' = IF class = watched \/ ready[watched] = 0 THEN 0 ELSE passed + 1
    BY <1>3 DEF ClaimOne
  <2>2. class # watched /\ ready[watched] # 0
    BY <2>1
  <2>3. ready'[watched] = ready[watched] /\ ready[watched] \in Nat
    BY <1>0, <2>1, <2>2
  <2>4. watched' = watched
    BY <1>3 DEF ClaimOne
  <2> QED BY <2>2, <2>3, <2>4
<1>4. CASE RestartWorker
  BY <1>4 DEF RestartWorker, Started
<1>5. CASE UNCHANGED quotaVars
  BY <1>5 DEF quotaVars, CountsWhileWaiting
<1> QED BY <1>1, <1>2, <1>3, <1>4, <1>5 DEF QuotaNext, TaskStep

\* A task that takes another class's job while the watched class waits had the
\* other class's turn.
LEMMA OwnClassFirst ==
  ASSUME NEW t \in Task, NEW class \in Class, Chosen(t, class),
         task[t] \in Class, class # watched, ready[watched] # 0
  PROVE  task[t] # watched
<1> SUFFICES ASSUME task[t] = watched PROVE FALSE
  OBVIOUS
<1>1. PICK s : s = SelectSeq(ClassOrder, LAMBDA other : other # watched)
  OBVIOUS
<1>2. WithFallback(watched) = <<watched>> \o s
  BY <1>1 DEF WithFallback
<1>3. (<<watched>> \o s)[1] = watched
  OBVIOUS
<1>4. PICK i \in 1 .. 4 : /\ WithFallback(watched)[i] = class
                          /\ \A j \in 1 .. i - 1 : ready[WithFallback(watched)[j]] = 0
  BY DEF Chosen
<1>5. CASE i = 1
  BY <1>2, <1>3, <1>4, <1>5
<1>6. CASE i # 1
  <2>1. 1 \in 1 .. i - 1
    BY <1>6
  <2> QED BY <1>2, <1>3, <1>4, <2>1
<1> QED BY <1>5, <1>6

\* What the counts are made of.
LEMMA CountsAre ==
  ASSUME QuotaTypeOK, QuotaAssumption
  PROVE  /\ Tasks \in Nat \ {0} /\ Others \in Nat /\ passed \in Nat
         /\ Cardinality(OwnTurns) \in Nat /\ Cardinality(Overtaking) \in Nat
         /\ SinceOwnTurn \in Nat /\ SinceOwnTurn <= Others
<1>1. OwnTurns \in SUBSET Task /\ Overtaking \in SUBSET Task
  BY DEF OwnTurns, Overtaking
<1> QED BY <1>1, TaskSets, SinceOwnTurnIs DEF QuotaTypeOK

\* The same, to be read of a state that a restart has just reached.
QuotaCounts ==
  QuotaTypeOK /\ QuotaAssumption =>
    Others \in Nat /\ Cardinality(OwnTurns) \in Nat /\ SinceOwnTurn \in Nat

LEMMA CountsHold == QuotaCounts
  BY CountsAre DEF QuotaCounts

LEMMA OthersBound == Bound = Tasks - 1 + Tasks * Others
  BY DEF Bound, Others

\* A wait that begins anew is within every bound.
LEMMA NewWait ==
  ASSUME NEW T \in Nat \ {0}, NEW m \in Nat, NEW k \in Nat, NEW o \in Nat, NEW s \in Nat, o <= T - 1
  PROVE  0 + o <= T - 1 + m * k + s /\ 0 <= T - 1 + T * k
<1>1. m * k \in Nat /\ T * k \in Nat
  OBVIOUS
<1> QED BY <1>1

\* The jobs of other classes that a task at its claim lets pass.
LEMMA OnePasses ==
  ASSUME NEW T \in Nat \ {0}, NEW m \in Nat, NEW k \in Nat, NEW o \in Nat, NEW s \in Nat, NEW p \in Nat,
         s <= k, m <= T - 1, p + o <= T - 1 + m * k + s, o > 0
  PROVE  /\ (p + 1) + (o - 1) <= T - 1 + m * k + s
         /\ p + 1 <= T - 1 + T * k
<1>1. PICK n \in Nat : n = T - 1
  OBVIOUS
<1>2. m * k \in Nat /\ n * k \in Nat /\ m * k <= n * k
  BY <1>1, Times
<1>3. T = n + 1
  BY <1>1
<1>4. T * k = n * k + k
  BY <1>3, OneMore
<1>5. PICK x \in Nat, y \in Nat, z \in Nat : x = m * k /\ y = n * k /\ z = T * k
  BY <1>2, <1>4
<1>6. x <= y /\ z = y + k /\ p + o <= T - 1 + x + s
  BY <1>2, <1>4, <1>5
<1>7. p + 1 <= T - 1 + z /\ (p + 1) + (o - 1) <= T - 1 + x + s
  BY <1>6
<1> QED BY <1>5, <1>7

LEMMA TurnsStep ==
  QuotaInv /\ QuotaAssumption /\ [QuotaNext]_quotaVars /\ QuotaTypeOK' => TurnsAreCounted' /\ WaitIsBounded'
<1> SUFFICES ASSUME QuotaInv, QuotaAssumption, [QuotaNext]_quotaVars, QuotaTypeOK'
             PROVE  TurnsAreCounted' /\ WaitIsBounded'
  OBVIOUS
<1>0. QuotaTypeOK /\ CountsWhileWaiting /\ TurnsAreCounted /\ WaitIsBounded
  BY DEF QuotaInv
<1>1. PICK T \in Nat \ {0}, k \in Nat, p \in Nat, m \in Nat, o \in Nat, s \in Nat :
        /\ T = Tasks /\ k = Others /\ p = passed
        /\ m = Cardinality(OwnTurns) /\ o = Cardinality(Overtaking) /\ s = SinceOwnTurn
  BY <1>0, CountsAre
<1>2. s <= k /\ p + o <= T - 1 + m * k + s /\ p <= T - 1 + T * k /\ m * k \in Nat
  BY <1>0, <1>1, CountsAre, OthersBound DEF TurnsAreCounted, WaitIsBounded
<1>3. T = Tasks'
  BY <1>1 DEF Tasks
<1>4. watched \in Class /\ task \in [Task -> Class \cup {"idle", "at work", "failed"}]
      /\ ready \in [Class -> Nat]
  BY <1>0 DEF QuotaTypeOK
<1>5. UNCHANGED <<weight, watched>> => Others' = k
  BY <1>1 DEF Others, Rotation, Repeat
<1>6. UNCHANGED <<weight, watched, rotation>> => SinceOwnTurn' = s
  <2> SUFFICES ASSUME UNCHANGED <<weight, watched, rotation>> PROVE SinceOwnTurn' = s
    OBVIOUS
  <2>1. Before' = Before
    BY DEF Before
  <2>2. Others' = Others
    BY <1>1, <1>5
  <2> QED BY <1>1, <2>1, <2>2 DEF SinceOwnTurn
<1>7. UNCHANGED <<weight, watched>> /\ passed' <= T - 1 + T * k => WaitIsBounded'
  BY <1>3, <1>5 DEF WaitIsBounded, Bound, Others
<1>8. /\ UNCHANGED <<weight, watched>>
      /\ passed' + Cardinality(Overtaking') <= T - 1 + Cardinality(OwnTurns') * k + SinceOwnTurn'
      => TurnsAreCounted'
  BY <1>3, <1>5 DEF TurnsAreCounted
<1>9. \A t \in Task : task[t] # "idle" <=> task[t] \in Class \cup {"at work", "failed"}
  BY <1>4, Classes
<1>10. OwnTurns \in SUBSET Task /\ Overtaking \in SUBSET Task
       /\ OwnTurns' \in SUBSET Task /\ Overtaking' \in SUBSET Task
  BY DEF OwnTurns, Overtaking
<1>11. Cardinality(OwnTurns') \in Nat /\ Cardinality(Overtaking') \in Nat
  BY <1>10, TaskSets
<1>a. ASSUME UNCHANGED <<weight, watched, rotation, passed>>,
             OwnTurns' = OwnTurns, Overtaking' = Overtaking
      PROVE  TurnsAreCounted' /\ WaitIsBounded'
  BY <1>1, <1>2, <1>6, <1>7, <1>8, <1>a
<1>b. ASSUME NEW t \in Task, UNCHANGED <<weight, watched, rotation>>, passed' = 0, task'[t] \notin Class
      PROVE  TurnsAreCounted' /\ WaitIsBounded'
  <2>1. Overtaking' \in SUBSET (Task \ {t})
    BY <1>b DEF Overtaking
  <2>2. PICK n \in Nat, q \in Nat :
          n = Cardinality(OwnTurns') /\ q = Cardinality(Overtaking') /\ q <= T - 1
    BY <1>1, <1>11, <2>1, LacksOne
  <2>3. 0 + q <= T - 1 + n * k + s /\ 0 <= T - 1 + T * k
    BY <2>2, NewWait
  <2> QED BY <1>6, <1>7, <1>8, <1>b, <2>2, <2>3
<1>12. ASSUME NEW class \in Class, Arrive(class) PROVE TurnsAreCounted' /\ WaitIsBounded'
  BY <1>12, <1>a DEF Arrive, OwnTurns, Overtaking
<1>13. ASSUME NEW t \in Task, Tick(t) PROVE TurnsAreCounted' /\ WaitIsBounded'
  <2>1. PICK r \in Class : r = Rotation[rotation + 1]
    BY <1>0, <1>13, TickTurns
  <2>2. SinceOwnTurn' = IF r = watched THEN 0 ELSE s + 1
    BY <1>0, <1>1, <1>13, <2>1, TickTurns
  <2>3. /\ task[t] = "idle" /\ task' = [task EXCEPT ![t] = r]
        /\ UNCHANGED <<weight, watched, passed>>
    BY <1>13, <2>1 DEF Tick
  <2>4. t \notin OwnTurns /\ t \notin Overtaking /\ r \notin {"idle", "failed", "at work"}
    BY <1>4, <2>3, Classes DEF OwnTurns, Overtaking
  <2>5. CASE r = watched
    <3>1. OwnTurns' = OwnTurns \cup {t} /\ Overtaking' = Overtaking
      BY <1>4, <2>3, <2>4, <2>5 DEF OwnTurns, Overtaking
    <3>2. Cardinality(OwnTurns') = m + 1 /\ Cardinality(Overtaking') = o
      BY <1>1, <1>10, <2>4, <3>1, Joins
    <3>3. (m + 1) * k = m * k + k
      BY OneMore
    <3>4. p + o <= T - 1 + (m + 1) * k + 0
      BY <1>2, <3>3
    <3> QED BY <1>1, <1>2, <1>7, <1>8, <2>2, <2>3, <2>5, <3>2, <3>4
  <2>6. CASE r # watched
    <3>1. OwnTurns' = OwnTurns /\ Overtaking' = Overtaking \cup {t}
      BY <1>4, <2>3, <2>4, <2>6 DEF OwnTurns, Overtaking
    <3>2. Cardinality(OwnTurns') = m /\ Cardinality(Overtaking') = o + 1
      BY <1>1, <1>10, <2>4, <3>1, Joins
    <3>3. p + (o + 1) <= T - 1 + m * k + (s + 1)
      BY <1>2
    <3> QED BY <1>1, <1>2, <1>7, <1>8, <2>2, <2>3, <2>6, <3>2, <3>3
  <2> QED BY <2>5, <2>6
<1>14. ASSUME NEW t \in Task, FailTask(t) PROVE TurnsAreCounted' /\ WaitIsBounded'
  <2>1. /\ task[t] \in Class /\ task' = [task EXCEPT ![t] = "failed"]
        /\ UNCHANGED <<weight, watched, rotation, passed>>
    BY <1>14 DEF FailTask
  <2>2. task[t] \notin {"idle", "failed", "at work"} /\ {"idle", "failed", "at work"} \cap Class = {}
    BY <2>1, Classes
  <2>3. CASE task[t] = watched
    <3>1. OwnTurns' = OwnTurns /\ Overtaking' = Overtaking
      BY <1>4, <2>1, <2>2, <2>3 DEF OwnTurns, Overtaking
    <3> QED BY <1>a, <2>1, <3>1
  <2>4. CASE task[t] # watched
    <3>1. OwnTurns' = OwnTurns \cup {t} /\ Overtaking' = Overtaking \ {t}
      BY <1>4, <2>1, <2>2, <2>4 DEF OwnTurns, Overtaking
    <3>2. t \notin OwnTurns /\ t \in Overtaking
      BY <2>1, <2>2, <2>4 DEF OwnTurns, Overtaking
    <3>3. Cardinality(OwnTurns') = m + 1 /\ Cardinality(Overtaking') = o - 1
      BY <1>1, <1>10, <3>1, <3>2, Joins, Leaves
    <3>4. (m + 1) * k = m * k + k
      BY OneMore
    <3>5. p + (o - 1) <= T - 1 + (m + 1) * k + s
      BY <1>2, <3>4
    <3> QED BY <1>1, <1>2, <1>6, <1>7, <1>8, <2>1, <3>3, <3>5
  <2> QED BY <2>3, <2>4
<1>15. ASSUME NEW t \in Task, ClaimOne(t) PROVE TurnsAreCounted' /\ WaitIsBounded'
  <2>1. PICK class \in Class :
          /\ Chosen(t, class)
          /\ passed' = IF class = watched \/ ready[watched] = 0 THEN 0 ELSE passed + 1
    BY <1>15 DEF ClaimOne
  <2>2. /\ task[t] \in Class /\ task' = [task EXCEPT ![t] = "at work"]
        /\ UNCHANGED <<weight, watched, rotation>>
    BY <1>15 DEF ClaimOne
  <2>3. {"idle", "failed", "at work"} \cap Class = {}
    BY Classes
  <2>4. CASE passed' = 0
    BY <1>4, <1>b, <2>2, <2>3, <2>4
  <2>5. CASE passed' # 0
    <3>1. class # watched /\ ready[watched] # 0 /\ passed' = p + 1
      BY <1>1, <2>1, <2>5
    <3>2. task[t] # watched
      BY <2>1, <2>2, <3>1, OwnClassFirst
    <3>3. t \in Overtaking /\ OwnTurns \in SUBSET (Task \ {t})
      BY <2>2, <2>3, <3>2 DEF Overtaking, OwnTurns
    <3>4. OwnTurns' = OwnTurns /\ Overtaking' = Overtaking \ {t}
      BY <1>4, <2>2, <2>3, <3>2 DEF Overtaking, OwnTurns
    <3>5. Cardinality(OwnTurns') = m /\ Cardinality(Overtaking') = o - 1
      BY <1>1, <1>10, <3>3, <3>4, Leaves
    <3>6. m <= T - 1
      BY <1>1, <3>3, LacksOne
    <3>7. o > 0
      BY <1>11, <3>5
    <3>8. /\ (p + 1) + (o - 1) <= T - 1 + m * k + s
          /\ p + 1 <= T - 1 + T * k
      BY <1>2, <3>6, <3>7, OnePasses
    <3> QED BY <1>6, <1>7, <1>8, <2>2, <3>1, <3>5, <3>8
  <2> QED BY <2>4, <2>5
<1>16. ASSUME NEW t \in Task, FindNone(t) PROVE TurnsAreCounted' /\ WaitIsBounded'
  <2>1. /\ task' = [task EXCEPT ![t] = "idle"] /\ UNCHANGED <<weight, watched, rotation, passed>>
        /\ ready[watched] = 0
    BY <1>4, <1>16 DEF FindNone
  <2>2. passed' = 0
    BY <1>0, <1>1, <2>1 DEF CountsWhileWaiting
  <2>3. task'[t] \notin Class
    BY <1>4, <2>1, Classes
  <2> QED BY <1>b, <2>1, <2>2, <2>3
<1>17. ASSUME NEW t \in Task, EndTask(t) PROVE TurnsAreCounted' /\ WaitIsBounded'
  <2>1. /\ task[t] = "at work" /\ task' = [task EXCEPT ![t] = "idle"]
        /\ UNCHANGED <<weight, watched, rotation, passed>>
    BY <1>17 DEF EndTask
  <2>2. {"idle", "at work"} \cap Class = {}
    BY Classes
  <2>3. OwnTurns' = OwnTurns /\ Overtaking' = Overtaking
    BY <1>4, <2>1, <2>2 DEF OwnTurns, Overtaking
  <2> QED BY <1>a, <2>1, <2>3
<1>18. CASE RestartWorker
  <2>1. passed' = 0 /\ rotation' = 0 /\ task' = [t \in Task |-> "idle"]
    BY <1>18 DEF RestartWorker, Started
  <2>2. Overtaking' = {}
    BY <2>1, Classes DEF Overtaking
  <2>3. QuotaCounts'
    BY CountsHold, PTL
  <2>4. PICK n \in Nat, l \in Nat, r \in Nat :
          n = Cardinality(OwnTurns') /\ l = Others' /\ r = SinceOwnTurn'
    BY <2>3 DEF QuotaCounts
  <2>5. Cardinality(Overtaking') = 0
    BY <2>2, FS_EmptySet
  <2>6. 0 + 0 <= T - 1 + n * l + r /\ 0 <= T - 1 + T * l
    BY NewWait
  <2>7. TurnsAreCounted'
    BY <1>3, <2>1, <2>4, <2>5, <2>6 DEF TurnsAreCounted
  <2>8. WaitIsBounded'
    BY <1>3, <2>1, <2>4, <2>6 DEF WaitIsBounded, Bound, Others
  <2> QED BY <2>7, <2>8
<1>19. CASE UNCHANGED quotaVars
  BY <1>19, <1>a DEF quotaVars, OwnTurns, Overtaking
<1> QED BY <1>12, <1>13, <1>14, <1>15, <1>16, <1>17, <1>18, <1>19 DEF QuotaNext, TaskStep

LEMMA QuotaInitInv == QuotaInit /\ QuotaAssumption => QuotaInv
<1> SUFFICES ASSUME QuotaInit, QuotaAssumption PROVE QuotaInv
  OBVIOUS
<1>1. weight \in [Class -> Nat \ {0}] /\ watched \in Class /\ rotation = 0 /\ passed = 0
      /\ task = [t \in Task |-> "idle"] /\ ready \in [Class -> Nat]
  BY DEF QuotaInit, QuotaAssumption
<1>2. Len(Rotation) \in Nat \ {0}
  BY <1>1, RotationTurns DEF RotationHasTurns
<1>3. QuotaTypeOK
  <2>1. rotation \in 0 .. Len(Rotation) - 1
    BY <1>1, <1>2
  <2> QED BY <1>1, <2>1 DEF QuotaTypeOK
<1>4. CountsWhileWaiting
  BY <1>1 DEF CountsWhileWaiting
<1>5. Overtaking = {}
  BY <1>1, Classes DEF Overtaking
<1>6. PICK T \in Nat \ {0}, n \in Nat, l \in Nat, r \in Nat :
        T = Tasks /\ n = Cardinality(OwnTurns) /\ l = Others /\ r = SinceOwnTurn
  BY <1>3, CountsAre
<1>7. 0 + 0 <= T - 1 + n * l + r /\ 0 <= T - 1 + T * l
  BY NewWait
<1>8. TurnsAreCounted /\ WaitIsBounded
  BY <1>1, <1>5, <1>6, <1>7, FS_EmptySet, OthersBound DEF TurnsAreCounted, WaitIsBounded
<1> QED BY <1>3, <1>4, <1>8 DEF QuotaInv

\* The tasks are as many as the configuration says, and every class has its
\* turns: then what passes by a waiting class is counted in every state.
THEOREM QuotaInvariant == QuotaSpec => []QuotaInv
<1>1. QuotaInit => QuotaInv
  BY QuotaAssumption, QuotaInitInv
<1>2. QuotaInv /\ [QuotaNext]_quotaVars => QuotaInv'
  BY QuotaAssumption, QuotaTypeStep, WaitingStep, TurnsStep DEF QuotaInv
<1> QED BY <1>1, <1>2, PTL DEF QuotaSpec

\* No class starves while a worker runs: whatever the weights, the number of
\* tasks and the jobs that arrive, a class with a ready job sees at most Bound
\* jobs of other classes claimed before one of its own (process_tick).
THEOREM WaitsAreBounded == QuotaSpec => []WaitIsBounded
<1>1. QuotaInv => WaitIsBounded
  BY DEF QuotaInv
<1> QED BY <1>1, QuotaInvariant, PTL
=============================================================================
