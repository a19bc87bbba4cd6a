------------------------ MODULE SubscriptionsProofs -------------------------
(***************************************************************************)
(* Subscriptions and the rules they collect by: what is proved about       *)
(* Subscriptions, RuleDocuments and RuleEvaluation.                        *)
(***************************************************************************)
EXTENDS Subscriptions, RuleDocuments, RuleEvaluation, FiniteSetTheorems, TLAPS

-----------------------------------------------------------------------------
(***************************************************************************)
(* What the transactions on a subscription, its runs, their units and the  *)
(* jobs of these preserve, for any number of runs and sources.             *)
(***************************************************************************)

\* The units of a run are created and deleted with it.
UnitsTogether == \A r \in Run : \A s \in Source : run[r].state = "none" <=> unit[r][s] = "none"

\* The inductive invariant.  OneActiveRun needs RunFollowsUnits, since a
\* transaction that ends a unit ends its run without a look at other runs;
\* RunFollowsUnits needs UnitsTogether for the runs that succeeded.
Inv ==
  /\ TypeOK
  /\ OneActiveRun /\ RunFollowsUnits /\ UnitFollowsJob /\ UnitsTogether
  /\ PendingHasCarrier /\ RecentTellsTheTruth

-----------------------------------------------------------------------------
(* Types *)

LEMMA ParentStateType == ASSUME NEW units PROVE
  /\ ParentState(units) \in {"failed", "cancelled", "succeeded"}
  /\ RecentOf(ParentState(units)) \in RecentState
BY DEF ParentState, RecentOf, RecentState

LEMMA CreateRunType ==
  ASSUME NEW q \in Run, NEW kind \in CursorKind, NEW new \in JobState,
         NEW runs \in [Run -> RunRow],
         NEW units \in [Run -> [Source -> Status \cup {"none"}]],
         NEW jobs \in [Run -> [Source -> JobState]],
         CreateRun(q, kind, new, runs, units, jobs)
  PROVE  /\ run' \in [Run -> RunRow]
         /\ unit' \in [Run -> [Source -> Status \cup {"none"}]]
         /\ job' \in [Run -> [Source -> JobState]]
<1>1. [state |-> "queued", cursor |-> kind] \in RunRow
  BY DEF RunRow, Status
<1>2. [s \in Source |-> "queued"] \in [Source -> Status \cup {"none"}]
  BY DEF Status
<1>3. [s \in Source |-> new] \in [Source -> JobState]
  OBVIOUS
<1> QED
  BY <1>1, <1>2, <1>3 DEF CreateRun

LEMMA NewJobType == NewJob \in JobState
BY DEF NewJob, JobState

LEMMA FinishParentType ==
  ASSUME TypeOK, NEW r \in Run, NEW s \in Source,
         NEW state \in Status, NEW jobState \in JobState,
         FinishParent(r, s, state, jobState)
  PROVE  /\ sub' \in Subscription /\ listed' \in BOOLEAN
         /\ run' \in [Run -> RunRow]
         /\ unit' \in [Run -> [Source -> Status \cup {"none"}]]
         /\ job' \in [Run -> [Source -> JobState]]
<1> DEFINE units == [unit EXCEPT ![r] = [@ EXCEPT ![s] = state]]
           jobs == [job EXCEPT ![r] = [@ EXCEPT ![s] = jobState]]
           runs == [run EXCEPT ![r].state = ParentState(units[r])]
<1>1. units \in [Run -> [Source -> Status \cup {"none"}]]
  BY DEF TypeOK
<1>2. jobs \in [Run -> [Source -> JobState]]
  BY DEF TypeOK
<1>3. /\ ParentState(units[r]) \in {"failed", "cancelled", "succeeded"}
      /\ RecentOf(ParentState(units[r])) \in RecentState
  BY ParentStateType
<1>4. runs \in [Run -> RunRow]
  BY <1>3 DEF TypeOK, RunRow, Status
<1> HIDE DEF units, jobs, runs
<1>5. CASE ~Ended(units[r]) /\ unit' = units /\ job' = jobs /\ UNCHANGED <<run, sub, listed>>
  BY <1>1, <1>2, <1>5 DEF TypeOK
<1>6. CASE /\ \E q \in Run : CreateRun(q, sub.pendingCursor, NewJob, runs, units, jobs)
           /\ PendingServed
  <2>1. sub.pendingCursor \in CursorKind
    BY DEF TypeOK, Subscription
  <2>2. sub' \in Subscription /\ listed' \in BOOLEAN
    BY <1>6 DEF PendingServed, Subscribes, TypeOK, Subscription, CursorKind, RecentState
  <2> QED
    BY <1>6, <2>1, <2>2, <1>1, <1>2, <1>4, NewJobType, CreateRunType
<1>7. CASE /\ unit' = units /\ job' = jobs /\ run' = runs
           /\ Subscribes([sub EXCEPT !.recent = RecentOf(ParentState(units[r]))])
  BY <1>1, <1>2, <1>3, <1>4, <1>7 DEF Subscribes, TypeOK, Subscription
<1> QED
  BY <1>5, <1>6, <1>7 DEF FinishParent, units, jobs, runs

\* Every step keeps the types.
LEMMA TypeStep == TypeOK /\ [Next]_vars => TypeOK'
<1> SUFFICES ASSUME TypeOK, [Next]_vars PROVE TypeOK'
  OBVIOUS
<1> USE SubscriptionsAssumption
<1>1. CASE FallsDue
  <2>1. sub' \in Subscription
    BY <1>1 DEF FallsDue, TypeOK, Subscription
  <2> QED
    BY <1>1, <2>1 DEF FallsDue, Asks, TypeOK
<1>2. CASE ListDue
  BY <1>2 DEF ListDue, budget, TypeOK
<1>3. CASE ScheduleDue
  <2>1. sub' \in Subscription /\ listed' \in BOOLEAN
    BY <1>3 DEF ScheduleDue, Subscribes, TypeOK, Subscription, CursorKind, RecentState
  <2>2. /\ run' \in [Run -> RunRow]
        /\ unit' \in [Run -> [Source -> Status \cup {"none"}]]
        /\ job' \in [Run -> [Source -> JobState]]
    <3>1. CASE UNCHANGED <<run, unit, job>>
      BY <3>1 DEF TypeOK
    <3>2. CASE \E q \in Run : CreateRun(q, "normal", NewJob, run, unit, job)
      BY <3>2, NewJobType, CreateRunType DEF TypeOK, CursorKind
    <3> QED
      BY <1>3, <3>1, <3>2 DEF ScheduleDue
  <2> QED
    BY <1>3, <2>1, <2>2 DEF ScheduleDue, budget, TypeOK
<1>4. ASSUME NEW kind \in CursorKind, AskRun(kind) PROVE TypeOK'
  BY <1>4 DEF AskRun, Asks, TypeOK
<1>5. ASSUME NEW row \in Subscription, NEW kind \in CursorKind, Starts(row, kind)
      PROVE /\ sub' \in Subscription
            /\ run' \in [Run -> RunRow]
            /\ unit' \in [Run -> [Source -> Status \cup {"none"}]]
            /\ job' \in [Run -> [Source -> JobState]]
  <2>1. CASE Busy /\ UNCHANGED <<run, unit, job>>
    BY <1>5, <2>1 DEF Starts, TypeOK, Subscription, CursorKind
  <2>2. CASE ~Busy
    <3>1. sub' \in Subscription
      BY <1>5, <2>2 DEF Starts, Subscription, RecentState
    <3>2. \E q \in Run : CreateRun(q, kind, NewJob, run, unit, job)
      BY <1>5, <2>2 DEF Starts
    <3> QED
      BY <1>5, <3>1, <3>2, NewJobType, CreateRunType DEF TypeOK
  <2> QED
    BY <1>5, <2>1, <2>2 DEF Starts
<1>6. ASSUME NEW kind \in CursorKind, StartRun(kind) PROVE TypeOK'
  <2>1. CASE sub.exists /\ Starts(sub, kind)
    BY <1>5, <1>6, <2>1 DEF StartRun, budget, TypeOK
  <2>2. CASE UNCHANGED <<sub, run, unit, job>>
    BY <1>6, <2>2 DEF StartRun, budget, TypeOK
  <2> QED
    BY <1>6, <2>1, <2>2 DEF StartRun
<1>7. ASSUME NEW enabled \in BOOLEAN, Configure(enabled) PROVE TypeOK'
  <2>1. sub' \in Subscription /\ listed' \in BOOLEAN
    BY <1>7 DEF Configure, Subscribes, TypeOK, Subscription
  <2> QED
    BY <1>7, <2>1 DEF Configure, Operates, TypeOK
<1>8. CASE ConfigureWithBackfill
  <2>1. [sub EXCEPT !.enabled = TRUE, !.due = FALSE] \in Subscription
    BY DEF TypeOK, Subscription
  <2>2. /\ sub' \in Subscription
        /\ run' \in [Run -> RunRow]
        /\ unit' \in [Run -> [Source -> Status \cup {"none"}]]
        /\ job' \in [Run -> [Source -> JobState]]
    BY <1>5, <1>8, <2>1 DEF ConfigureWithBackfill, CursorKind
  <2>3. /\ listed' \in BOOLEAN
        /\ asks' = asks + 1
        /\ UNCHANGED <<account, asked, cursor, failures, operations>>
    BY <1>8 DEF ConfigureWithBackfill, Asks
  <2> QED
    BY <2>2, <2>3 DEF TypeOK
<1>9. CASE StopRun
  <2>1. PICK r \in Run :
          /\ job' = [job EXCEPT ![r] = [s \in Source |->
               IF @[s] \in {"none", "completed", "cancelled"} THEN @[s] ELSE "cancelled"]]
          /\ unit' = [unit EXCEPT ![r] = [s \in Source |->
               IF @[s] \in Active THEN "cancelled" ELSE @[s]]]
          /\ run' = [run EXCEPT ![r].state = "cancelled"]
    BY <1>9 DEF StopRun
  <2>2. job' \in [Run -> [Source -> JobState]]
    BY <2>1 DEF TypeOK, JobState
  <2>3. unit' \in [Run -> [Source -> Status \cup {"none"}]]
    BY <2>1 DEF TypeOK, Status
  <2>4. run' \in [Run -> RunRow]
    BY <2>1 DEF TypeOK, RunRow, Status
  <2>5. sub' \in Subscription /\ listed' \in BOOLEAN
    BY <1>9 DEF StopRun, Subscribes, TypeOK, Subscription, CursorKind, RecentState
  <2> QED
    BY <1>9, <2>2, <2>3, <2>4, <2>5 DEF StopRun, Operates, TypeOK
<1>10. CASE Delete
  <2>1. sub' \in Subscription /\ listed' \in BOOLEAN
    BY <1>10 DEF Delete, Subscribes, TypeOK, Subscription
  <2>2. run' \in [Run -> RunRow]
    BY <1>10 DEF Delete, RunRow, NoRun, CursorKind
  <2>3. /\ unit' \in [Run -> [Source -> Status \cup {"none"}]]
        /\ cursor' \in [CursorKind -> SUBSET Source]
    BY <1>10 DEF Delete
  <2> QED
    BY <1>10, <2>1, <2>2, <2>3 DEF Delete, Operates, TypeOK
<1>11. ASSUME NEW r \in Run, NEW s \in Source, CancelJob(r, s) PROVE TypeOK'
  <2>1. CASE CancelLinkedUnit(r, s)
    <3>1. "cancelled" \in Status /\ "cancelled" \in JobState
      BY DEF Status, JobState
    <3>2. /\ sub' \in Subscription /\ listed' \in BOOLEAN
          /\ run' \in [Run -> RunRow]
          /\ unit' \in [Run -> [Source -> Status \cup {"none"}]]
          /\ job' \in [Run -> [Source -> JobState]]
      BY <2>1, <3>1, FinishParentType DEF CancelLinkedUnit
    <3> QED
      BY <1>11, <3>2 DEF CancelJob, CancelLinkedUnit, Operates, TypeOK
  <2>2. CASE /\ job' = [job EXCEPT ![r] = [@ EXCEPT ![s] = "cancelled"]]
             /\ UNCHANGED <<sub, listed, run, unit>>
    BY <1>11, <2>2 DEF CancelJob, CancelLinkedUnit, Operates, TypeOK, JobState
  <2> QED
    BY <1>11, <2>1, <2>2 DEF CancelJob, CancelLinkedUnit
<1>12. ASSUME NEW r \in Run, NEW s \in Source, RetryJob(r, s) PROVE TypeOK'
  <2>1. job' \in [Run -> [Source -> JobState]]
    BY <1>12 DEF RetryJob, ResetLinkedUnit, TypeOK, JobState
  <2>2. unit' \in [Run -> [Source -> Status \cup {"none"}]]
    BY <1>12 DEF RetryJob, ResetLinkedUnit, TypeOK, Status
  <2>3. run' \in [Run -> RunRow]
    BY <1>12 DEF RetryJob, ResetLinkedUnit, TypeOK, RunRow, Status
  <2>4. sub' \in Subscription /\ listed' \in BOOLEAN
    BY <1>12 DEF RetryJob, ResetLinkedUnit, Subscribes, TypeOK, Subscription, RecentState
  <2> QED
    BY <1>12, <2>1, <2>2, <2>3, <2>4 DEF RetryJob, ResetLinkedUnit, Operates, TypeOK
<1>13. ASSUME NEW r \in Run, NEW s \in Source, RetryOrphan(r, s) PROVE TypeOK'
  BY <1>13 DEF RetryOrphan, budget, TypeOK, JobState
<1>14. ASSUME NEW r \in Run, NEW s \in Source, Claim(r, s) PROVE TypeOK'
  BY <1>14 DEF Claim, budget, TypeOK, JobState
<1>15. ASSUME NEW r \in Run, NEW s \in Source, MarkUnitRunning(r, s) PROVE TypeOK'
  <2>1. unit' \in [Run -> [Source -> Status \cup {"none"}]]
    BY <1>15 DEF MarkUnitRunning, TypeOK, Status
  <2>2. run' \in [Run -> RunRow]
    BY <1>15 DEF MarkUnitRunning, TypeOK, RunRow, Status
  <2> QED
    BY <1>15, <2>1, <2>2 DEF MarkUnitRunning, budget, TypeOK
<1>16. ASSUME NEW r \in Run, NEW s \in Source, NEW saves \in BOOLEAN, SaveCursor(r, s, saves)
       PROVE cursor' \in [CursorKind -> SUBSET Source]
  BY <1>16 DEF SaveCursor, TypeOK
<1>17. ASSUME NEW r \in Run, NEW s \in Source, Complete(r, s) PROVE TypeOK'
  <2>1. "succeeded" \in Status /\ "completed" \in JobState
    BY DEF Status, JobState
  <2>2. /\ sub' \in Subscription /\ listed' \in BOOLEAN
        /\ run' \in [Run -> RunRow]
        /\ unit' \in [Run -> [Source -> Status \cup {"none"}]]
        /\ job' \in [Run -> [Source -> JobState]]
    BY <1>17, <2>1, FinishParentType DEF Complete, CompleteLinkedUnit
  <2> QED
    BY <1>16, <1>17, <2>2 DEF Complete, CompleteLinkedUnit, budget, TypeOK
<1>18. ASSUME NEW r \in Run, NEW s \in Source, RecordAttemptFailure(r, s) PROVE TypeOK'
  BY <1>18 DEF RecordAttemptFailure, Fails, TypeOK, Status
<1>19. ASSUME NEW r \in Run, NEW s \in Source, FailRetryable(r, s) PROVE TypeOK'
  BY <1>19 DEF FailRetryable, Fails, TypeOK, JobState
<1>20. ASSUME NEW r \in Run, NEW s \in Source, FailTerminal(r, s) PROVE TypeOK'
  <2>1. CASE FailLinkedUnit(r, s)
    <3>1. "failed" \in Status /\ "failed" \in JobState
      BY DEF Status, JobState
    <3>2. /\ sub' \in Subscription /\ listed' \in BOOLEAN
          /\ run' \in [Run -> RunRow]
          /\ unit' \in [Run -> [Source -> Status \cup {"none"}]]
          /\ job' \in [Run -> [Source -> JobState]]
      BY <2>1, <3>1, FinishParentType DEF FailLinkedUnit
    <3> QED
      BY <1>16, <1>20, <3>2 DEF FailTerminal, FailLinkedUnit, budget, TypeOK
  <2>2. CASE /\ job' = [job EXCEPT ![r] = [@ EXCEPT ![s] = "failed"]]
             /\ UNCHANGED <<sub, listed, run, unit>>
    BY <1>16, <1>20, <2>2 DEF FailTerminal, FailLinkedUnit, budget, TypeOK, JobState
  <2> QED
    BY <1>20, <2>1, <2>2 DEF FailTerminal, FailLinkedUnit
<1>21. ASSUME NEW r \in Run, NEW s \in Source, BlockAccountForJob(r, s) PROVE TypeOK'
  BY <1>21 DEF BlockAccountForJob, Waits, Fails, TypeOK, JobState
<1>22. CASE BlockAccount
  BY <1>22 DEF BlockAccount, Waits, Operates, TypeOK, JobState
<1>23. CASE RecoverAccount
  <2>1. Resumed(job) \in [Run -> [Source -> JobState]]
    BY DEF Resumed, TypeOK, JobState
  <2>2. CASE job' = Resumed(job) /\ UNCHANGED <<sub, listed, run, unit>>
    BY <1>23, <2>1, <2>2 DEF RecoverAccount, Asks, TypeOK
  <2>3. CASE /\ job' = Resumed(job) /\ UNCHANGED <<run, unit>>
             /\ Subscribes([sub EXCEPT !.pending = TRUE, !.pendingCursor = "backfill"])
    <3>1. sub' \in Subscription /\ listed' \in BOOLEAN
      BY <2>3 DEF Subscribes, TypeOK, Subscription, CursorKind
    <3> QED
      BY <1>23, <2>1, <2>3, <3>1 DEF RecoverAccount, Asks, TypeOK
  <2>4. CASE /\ \E q \in Run : CreateRun(q, sub.pendingCursor, "queued", run, unit, Resumed(job))
             /\ PendingServed
    <3>1. sub.pendingCursor \in CursorKind /\ "queued" \in JobState
      BY DEF TypeOK, Subscription, JobState
    <3>2. /\ run' \in [Run -> RunRow]
          /\ unit' \in [Run -> [Source -> Status \cup {"none"}]]
          /\ job' \in [Run -> [Source -> JobState]]
      BY <2>1, <2>4, <3>1, CreateRunType DEF TypeOK
    <3>3. sub' \in Subscription /\ listed' \in BOOLEAN
      BY <2>4 DEF PendingServed, Subscribes, TypeOK, Subscription, CursorKind, RecentState
    <3> QED
      BY <1>23, <3>2, <3>3 DEF RecoverAccount, Asks, TypeOK
  <2> QED
    BY <1>23, <2>2, <2>3, <2>4 DEF RecoverAccount
<1>24. CASE UNCHANGED vars
  BY <1>24 DEF vars, budget, TypeOK
<1> QED
  BY <1>1, <1>2, <1>3, <1>4, <1>6, <1>7, <1>8, <1>9, <1>10, <1>11, <1>12, <1>13, <1>14,
     <1>15, <1>17, <1>18, <1>19, <1>20, <1>21, <1>22, <1>23, <1>24
     DEF Next, OperatorStep, UnitStep

-----------------------------------------------------------------------------
(* One run and one unit at a time *)

RunOK(state, units) ==
  /\ state \in Active <=> \E s \in Source : units[s] \in Active
  /\ state = "succeeded" => \A s \in Source : units[s] = "succeeded"
  /\ \A s \in Source : state = "none" <=> units[s] = "none"

PairOK(u, j) ==
  CASE u \in Active -> j \in {"queued", "running", "waiting_account", "retryable"}
    [] u = "succeeded" -> j = "completed"
    [] u = "failed" -> j \in {"failed", "cancelled"}
    [] u = "cancelled" -> j = "cancelled"
    [] OTHER -> TRUE

RunsOK(runs, units, jobs) == \A r \in Run :
  /\ RunOK(runs[r].state, units[r])
  /\ \A s \in Source : PairOK(units[r][s], jobs[r][s])

One(runs) == \A q, r \in Run :
  runs[q].state \in Active /\ runs[r].state \in Active => q = r

LEMMA InvParts ==
  Inv <=> /\ TypeOK /\ One(run) /\ RunsOK(run, unit, job)
          /\ PendingHasCarrier /\ RecentTellsTheTruth
BY DEF Inv, OneActiveRun, ActiveRun, One, RunsOK, RunOK, PairOK,
       RunFollowsUnits, UnitFollowsJob, UnitsTogether

\* A run is created when none is active: it is the active one.
LEMMA CreateRunLinks ==
  ASSUME NEW q \in Run, NEW kind \in CursorKind, NEW new \in {"queued", "waiting_account"},
         NEW runs \in [Run -> RunRow],
         NEW units \in [Run -> [Source -> Status \cup {"none"}]],
         NEW jobs \in [Run -> [Source -> JobState]],
         RunsOK(runs, units, jobs),
         \A r \in Run : runs[r].state \notin Active,
         CreateRun(q, kind, new, runs, units, jobs)
  PROVE  One(run') /\ RunsOK(run', unit', job') /\ Busy'
<1>1. /\ run'[q].state = "queued"
      /\ \A s \in Source : unit'[q][s] = "queued"
      /\ \A s \in Source : job'[q][s] = new
  BY DEF CreateRun
<1>2. \A r \in Run \ {q} : run'[r] = runs[r] /\ unit'[r] = units[r] /\ job'[r] = jobs[r]
  BY DEF CreateRun
<1>3. One(run') /\ Busy'
  BY <1>1, <1>2 DEF One, Busy, ActiveRun, Active
<1>4. RunOK(run'[q].state, unit'[q])
  BY <1>1, SubscriptionsAssumption DEF RunOK, Active
<1>5. \A s \in Source : PairOK(unit'[q][s], job'[q][s])
  BY <1>1 DEF PairOK, Active
<1>6. \A r \in Run \ {q} : RunOK(run'[r].state, unit'[r])
                           /\ \A s \in Source : PairOK(unit'[r][s], job'[r][s])
  BY <1>2 DEF RunsOK
<1> QED
  BY <1>3, <1>4, <1>5, <1>6 DEF RunsOK

LEMMA EndedParent ==
  ASSUME NEW units \in [Source -> Status \cup {"none"}], Ended(units),
         \A s \in Source : units[s] # "none"
  PROVE  RunOK(ParentState(units), units) /\ ParentState(units) \notin Active
BY DEF Ended, ParentState, RunOK, Active, Status

LEMMA NewJobWaits == NewJob \in {"queued", "waiting_account"}
BY DEF NewJob

\* Ending a unit keeps the links, whichever of the three ways it goes.
LEMMA FinishParentLinks ==
  ASSUME Inv, NEW r \in Run, NEW s \in Source,
         NEW state \in Status \ Active, NEW jobState \in JobState,
         PairOK(state, jobState),
         unit[r][s] \in Active,
         FinishParent(r, s, state, jobState)
  PROVE  /\ One(run') /\ RunsOK(run', unit', job')
         /\ PendingHasCarrier' /\ RecentTellsTheTruth'
<1> DEFINE units == [unit EXCEPT ![r] = [@ EXCEPT ![s] = state]]
           jobs == [job EXCEPT ![r] = [@ EXCEPT ![s] = jobState]]
           runs == [run EXCEPT ![r].state = ParentState(units[r])]
<1>1. /\ TypeOK /\ One(run) /\ RunsOK(run, unit, job)
      /\ PendingHasCarrier /\ RecentTellsTheTruth
  BY InvParts
<1>2. run[r].state \in Active /\ \A q \in Run \ {r} : run[q].state \notin Active
  BY <1>1 DEF One, RunsOK, RunOK
<1>3. /\ units \in [Run -> [Source -> Status \cup {"none"}]]
      /\ jobs \in [Run -> [Source -> JobState]]
  BY <1>1 DEF TypeOK
<1>4. /\ units[r] = [unit[r] EXCEPT ![s] = state]
      /\ jobs[r] = [job[r] EXCEPT ![s] = jobState]
      /\ \A q \in Run \ {r} : units[q] = unit[q] /\ jobs[q] = job[q]
  BY <1>1 DEF TypeOK
<1>5. \A q \in Run, t \in Source : PairOK(units[q][t], jobs[q][t])
  <2>1. \A t \in Source : PairOK(units[r][t], jobs[r][t])
    <3>1. units[r][s] = state /\ jobs[r][s] = jobState
      BY <1>1, <1>4 DEF TypeOK
    <3>2. \A t \in Source \ {s} : units[r][t] = unit[r][t] /\ jobs[r][t] = job[r][t]
      BY <1>1, <1>4 DEF TypeOK
    <3> QED
      BY <1>1, <3>1, <3>2 DEF RunsOK
  <2>2. \A q \in Run \ {r} : \A t \in Source : PairOK(units[q][t], jobs[q][t])
    BY <1>1, <1>4 DEF RunsOK
  <2> QED
    BY <2>1, <2>2
<1>6. \A t \in Source : units[r][t] # "none"
  <2>1. \A t \in Source : unit[r][t] # "none"
    BY <1>1, <1>2 DEF RunsOK, RunOK, Active
  <2> QED
    BY <1>1, <1>4, <2>1 DEF TypeOK, Status
<1>7. sub \in Subscription
  BY <1>1 DEF TypeOK
<1>8. \A q \in Run \ {r} : RunOK(run[q].state, units[q])
  BY <1>1, <1>4 DEF RunsOK
<1>9. CASE ~Ended(units[r]) /\ unit' = units /\ job' = jobs /\ UNCHANGED <<run, sub, listed>>
  <2>1. RunOK(run[r].state, units[r])
    BY <1>2, <1>6, <1>9 DEF RunOK, Ended, Active
  <2>2. RunsOK(run', unit', job')
    BY <1>5, <1>8, <1>9, <2>1 DEF RunsOK
  <2> QED
    BY <1>1, <1>9, <2>2 DEF One, PendingHasCarrier, RecentTellsTheTruth, Busy, ActiveRun
<1>10. ASSUME Ended(units[r])
       PROVE  /\ runs \in [Run -> RunRow]
              /\ \A q \in Run : runs[q].state \notin Active
              /\ RunsOK(runs, units, jobs)
              /\ runs[r].state = ParentState(units[r])
  <2>1. units[r] \in [Source -> Status \cup {"none"}]
    BY <1>3
  <2>2. /\ RunOK(ParentState(units[r]), units[r])
        /\ ParentState(units[r]) \notin Active
    BY <1>6, <1>10, <2>1, EndedParent
  <2>3. ParentState(units[r]) \in Status
    BY ParentStateType DEF Status
  <2>4. /\ runs \in [Run -> RunRow]
        /\ runs[r].state = ParentState(units[r])
        /\ \A q \in Run \ {r} : runs[q] = run[q]
    BY <1>1, <2>3 DEF TypeOK, RunRow
  <2> HIDE DEF units, jobs, runs
  <2> QED
    BY <1>2, <1>5, <1>8, <2>2, <2>4 DEF RunsOK
<1> HIDE DEF units, jobs, runs
<1>11. CASE /\ Ended(units[r]) /\ sub.pending
            /\ \E q \in Run : CreateRun(q, sub.pendingCursor, NewJob, runs, units, jobs)
            /\ PendingServed
  <2>1. sub.pendingCursor \in CursorKind
    BY <1>7 DEF Subscription
  <2>2. One(run') /\ RunsOK(run', unit', job') /\ Busy'
    <3> PICK q \in Run : CreateRun(q, sub.pendingCursor, NewJob, runs, units, jobs)
      BY <1>11
    <3>1. /\ runs \in [Run -> RunRow] /\ \A r1 \in Run : runs[r1].state \notin Active
          /\ RunsOK(runs, units, jobs)
      BY <1>10, <1>11
    <3> QED BY <1>3, <2>1, <3>1, NewJobWaits, CreateRunLinks
  <2>3. sub'.recent = "running" /\ sub'.pendingCursor = "normal" /\ ~sub'.pending
    BY <1>7, <1>11 DEF PendingServed, Subscribes, Subscription
  <2> QED
    BY <2>2, <2>3 DEF PendingHasCarrier, RecentTellsTheTruth
<1>12. CASE /\ Ended(units[r]) /\ ~sub.pending
            /\ unit' = units /\ job' = jobs /\ run' = runs
            /\ Subscribes([sub EXCEPT !.recent = RecentOf(ParentState(units[r]))])
  <2>1. ~Busy' /\ One(run') /\ RunsOK(run', unit', job')
    BY <1>10, <1>12 DEF Busy, ActiveRun, One
  <2>2. /\ sub'.recent = RecentOf(ParentState(units[r]))
        /\ sub'.exists = sub.exists /\ sub'.pending = sub.pending
        /\ sub'.pendingCursor = sub.pendingCursor
    BY <1>7, <1>12 DEF Subscribes, Subscription
  <2>3. RecentOf(ParentState(units[r])) # "running"
    BY ParentStateType DEF RecentOf
  <2>4. sub.exists => sub.pendingCursor # "backfill"
    BY <1>1, <1>12 DEF PendingHasCarrier
  <2> QED
    BY <1>12, <2>1, <2>2, <2>3, <2>4 DEF PendingHasCarrier, RecentTellsTheTruth
<1> QED
  BY <1>9, <1>11, <1>12 DEF FinishParent, units, jobs, runs

-----------------------------------------------------------------------------
(* Every step keeps the invariant *)

Live == {"queued", "running", "waiting_account", "retryable"}

\* What a run says of the subscription stays as it is.
SameRuns == /\ UNCHANGED <<run, unit>>
            /\ sub'.exists = sub.exists /\ sub'.pending = sub.pending
            /\ sub'.pendingCursor = sub.pendingCursor /\ sub'.recent = sub.recent

\* Jobs of active units may move between the states of a job that can run.
LEMMA JobsMove ==
  ASSUME Inv, SameRuns,
         \A r \in Run, s \in Source :
           \/ job'[r][s] = job[r][s]
           \/ unit[r][s] = "none"
           \/ job[r][s] \in Live /\ job'[r][s] \in Live
  PROVE  /\ One(run') /\ RunsOK(run', unit', job')
         /\ PendingHasCarrier' /\ RecentTellsTheTruth'
<1>1. /\ TypeOK /\ One(run) /\ RunsOK(run, unit, job)
      /\ PendingHasCarrier /\ RecentTellsTheTruth
  BY InvParts
<1>2. ASSUME NEW r \in Run, NEW s \in Source PROVE PairOK(unit'[r][s], job'[r][s])
  <2>1. PairOK(unit[r][s], job[r][s]) /\ unit'[r][s] = unit[r][s]
    BY <1>1 DEF RunsOK, SameRuns
  <2> QED
    BY <2>1 DEF PairOK, Live, Active
<1>3. RunsOK(run', unit', job')
  BY <1>1, <1>2 DEF RunsOK, SameRuns
<1> QED
  BY <1>1, <1>3 DEF SameRuns, One, PendingHasCarrier, RecentTellsTheTruth, Busy, ActiveRun

\* Starting a run, or noting that one is wanted.
LEMMA StartsLinks ==
  ASSUME Inv, NEW row \in Subscription, NEW kind \in CursorKind, Starts(row, kind),
         row.exists = sub.exists, row.pending = sub.pending,
         row.pendingCursor = sub.pendingCursor, row.recent = sub.recent
  PROVE  /\ One(run') /\ RunsOK(run', unit', job')
         /\ PendingHasCarrier' /\ RecentTellsTheTruth'
<1>1. /\ TypeOK /\ One(run) /\ RunsOK(run, unit, job)
      /\ PendingHasCarrier /\ RecentTellsTheTruth
  BY InvParts
<1>2. CASE Busy /\ UNCHANGED <<run, unit, job>>
  <2>1. \/ sub' = row
        \/ sub' = [row EXCEPT !.pending = TRUE,
                     !.pendingCursor = IF kind = "backfill" THEN kind ELSE @]
    BY <1>2 DEF Starts
  <2>2. /\ sub'.exists = row.exists /\ sub'.recent = row.recent
        /\ sub'.pending \/ sub' = row
    BY <2>1 DEF Subscription
  <2>3. RecentTellsTheTruth' /\ One(run') /\ RunsOK(run', unit', job')
    BY <1>1, <1>2, <2>2 DEF One, RunsOK, RecentTellsTheTruth, Busy, ActiveRun
  <2>4. PendingHasCarrier'
    BY <1>1, <1>2, <2>2 DEF PendingHasCarrier, Busy, ActiveRun
  <2> QED
    BY <2>3, <2>4
<1>3. CASE ~Busy
  <2>1. \E q \in Run : CreateRun(q, kind, NewJob, run, unit, job)
    BY <1>3 DEF Starts
  <2>2. One(run') /\ RunsOK(run', unit', job') /\ Busy'
    BY <1>1, <1>3, <2>1, NewJobWaits, CreateRunLinks DEF Busy, ActiveRun, TypeOK
  <2>3. /\ sub'.exists = row.exists /\ sub'.recent = "running"
        /\ sub'.pendingCursor = row.pendingCursor /\ sub'.pending = row.pending
    BY <1>3 DEF Starts, Subscription
  <2> QED
    BY <1>1, <2>2, <2>3 DEF PendingHasCarrier, RecentTellsTheTruth
<1> QED
  BY <1>2, <1>3 DEF Starts

LEMMA LinksStep ==
  ASSUME Inv, [Next]_vars
  PROVE  /\ One(run') /\ RunsOK(run', unit', job')
         /\ PendingHasCarrier' /\ RecentTellsTheTruth'
<1>1. /\ TypeOK /\ One(run) /\ RunsOK(run, unit, job)
      /\ PendingHasCarrier /\ RecentTellsTheTruth
  BY InvParts
<1>2. sub \in Subscription
  BY <1>1 DEF TypeOK
<1>3. CASE FallsDue
  <2>1. SameRuns /\ job' = job
    BY <1>2, <1>3 DEF FallsDue, SameRuns, Subscription
  <2> QED
    BY <2>1, JobsMove
<1>4. CASE ListDue
  <2>1. SameRuns /\ job' = job
    BY <1>4 DEF ListDue, SameRuns
  <2> QED
    BY <2>1, JobsMove
<1>5. CASE ScheduleDue
  <2>1. CASE Busy /\ UNCHANGED <<run, unit, job>>
    <3>1. sub'.pending /\ sub'.exists = sub.exists /\ sub'.recent = sub.recent
      BY <1>2, <1>5, <2>1 DEF ScheduleDue, Subscribes, Subscription
    <3> QED
      BY <1>1, <2>1, <3>1 DEF One, RunsOK, PendingHasCarrier, RecentTellsTheTruth, Busy, ActiveRun
  <2>2. CASE ~Busy
    <3>1. \E q \in Run : CreateRun(q, "normal", NewJob, run, unit, job)
      BY <1>5, <2>2 DEF ScheduleDue
    <3>2. One(run') /\ RunsOK(run', unit', job') /\ Busy'
      BY <1>1, <2>2, <3>1, NewJobWaits, CreateRunLinks DEF Busy, ActiveRun, TypeOK, CursorKind
    <3>3. ~sub'.pending /\ sub'.pendingCursor = "normal" /\ sub'.recent = "running"
      BY <1>2, <1>5, <2>2 DEF ScheduleDue, Subscribes, Subscription
    <3> QED
      BY <3>2, <3>3 DEF PendingHasCarrier, RecentTellsTheTruth
  <2> QED
    BY <1>5, <2>1, <2>2 DEF ScheduleDue
<1>6. ASSUME NEW kind \in CursorKind, AskRun(kind)
      PROVE /\ One(run') /\ RunsOK(run', unit', job')
            /\ PendingHasCarrier' /\ RecentTellsTheTruth'
  <2>1. SameRuns /\ job' = job
    BY <1>6 DEF AskRun, SameRuns
  <2> QED
    BY <2>1, JobsMove
<1>7. ASSUME NEW kind \in CursorKind, StartRun(kind)
      PROVE /\ One(run') /\ RunsOK(run', unit', job')
            /\ PendingHasCarrier' /\ RecentTellsTheTruth'
  <2>1. CASE Starts(sub, kind)
    BY <1>2, <2>1, StartsLinks
  <2>2. CASE UNCHANGED <<sub, run, unit, job>>
    BY <2>2, JobsMove DEF SameRuns
  <2> QED
    BY <1>7, <2>1, <2>2 DEF StartRun
<1>8. ASSUME NEW enabled \in BOOLEAN, Configure(enabled)
      PROVE /\ One(run') /\ RunsOK(run', unit', job')
            /\ PendingHasCarrier' /\ RecentTellsTheTruth'
  <2>1. SameRuns /\ job' = job
    BY <1>2, <1>8 DEF Configure, Subscribes, SameRuns, Subscription
  <2> QED
    BY <2>1, JobsMove
<1>9. CASE ConfigureWithBackfill
  <2> DEFINE row == [sub EXCEPT !.enabled = TRUE, !.due = FALSE]
  <2>1. /\ row \in Subscription
        /\ row.exists = sub.exists /\ row.pending = sub.pending
        /\ row.pendingCursor = sub.pendingCursor /\ row.recent = sub.recent
    BY <1>2 DEF Subscription
  <2>2. Starts(row, "backfill")
    BY <1>9 DEF ConfigureWithBackfill
  <2> HIDE DEF row
  <2> QED
    BY <2>1, <2>2, StartsLinks DEF CursorKind
<1>10. CASE StopRun
  <2>1. PICK r \in Run :
          /\ ActiveRun(r)
          /\ job' = [job EXCEPT ![r] = [s \in Source |->
               IF @[s] \in {"none", "completed", "cancelled"} THEN @[s] ELSE "cancelled"]]
          /\ unit' = [unit EXCEPT ![r] = [s \in Source |->
               IF @[s] \in Active THEN "cancelled" ELSE @[s]]]
          /\ run' = [run EXCEPT ![r].state = "cancelled"]
    BY <1>10 DEF StopRun
  <2>2. /\ \A s \in Source : unit'[r][s] = IF unit[r][s] \in Active THEN "cancelled" ELSE unit[r][s]
        /\ \A s \in Source : job'[r][s] =
             IF job[r][s] \in {"none", "completed", "cancelled"} THEN job[r][s] ELSE "cancelled"
        /\ run'[r].state = "cancelled"
    BY <1>1, <2>1 DEF TypeOK, RunRow
  <2>3. \A q \in Run \ {r} : run'[q] = run[q] /\ unit'[q] = unit[q] /\ job'[q] = job[q]
    BY <1>1, <2>1 DEF TypeOK
  <2>4. \A s \in Source : PairOK(unit[r][s], job[r][s]) /\ unit[r][s] # "none"
    BY <1>1, <2>1 DEF RunsOK, RunOK, ActiveRun, Active
  <2>5. \A s \in Source : PairOK(unit'[r][s], job'[r][s])
    BY <2>2, <2>4 DEF PairOK, Active
  <2>6. RunOK(run'[r].state, unit'[r])
    BY <2>2, <2>4 DEF RunOK, Active
  <2>7. RunsOK(run', unit', job')
    BY <1>1, <2>3, <2>5, <2>6 DEF RunsOK
  <2>8. \A q \in Run : run'[q].state \notin Active
    BY <1>1, <2>1, <2>2, <2>3 DEF One, ActiveRun, Active
  <2>9. ~sub'.pending /\ sub'.pendingCursor = "normal" /\ sub'.recent = "paused"
    BY <1>2, <1>10 DEF StopRun, Subscribes, Subscription
  <2> QED
    BY <2>7, <2>8, <2>9 DEF One, Busy, ActiveRun, PendingHasCarrier, RecentTellsTheTruth
<1>11. CASE Delete
  <2>1. /\ \A r \in Run : run'[r].state = "none"
        /\ \A r \in Run, s \in Source : unit'[r][s] = "none"
        /\ ~sub'.exists
    BY <1>2, <1>11 DEF Delete, NoRun, Subscribes, Subscription
  <2>2. RunsOK(run', unit', job')
    BY <2>1 DEF RunsOK, RunOK, PairOK, Active
  <2> QED
    BY <2>1, <2>2 DEF One, Active, PendingHasCarrier, RecentTellsTheTruth
<1>12. ASSUME NEW r \in Run, NEW s \in Source, CancelJob(r, s)
       PROVE /\ One(run') /\ RunsOK(run', unit', job')
             /\ PendingHasCarrier' /\ RecentTellsTheTruth'
  <2>1. CASE unit[r][s] \in Active
    <3>1. /\ "cancelled" \in Status \ Active /\ "cancelled" \in JobState
          /\ PairOK("cancelled", "cancelled")
      BY DEF Status, Active, JobState, PairOK
    <3> QED
      BY <1>12, <2>1, <3>1, FinishParentLinks DEF CancelJob, CancelLinkedUnit
  <2>2. CASE unit[r][s] \notin Active
    <3>1. SameRuns /\ job' = [job EXCEPT ![r] = [@ EXCEPT ![s] = "cancelled"]]
      BY <1>12, <2>2 DEF CancelJob, CancelLinkedUnit, SameRuns
    <3>2. \A p \in Run, t \in Source : PairOK(unit'[p][t], job'[p][t])
      <4>1. /\ job'[r][s] = "cancelled" /\ job[r][s] # "completed"
            /\ \A t \in Source \ {s} : job'[r][t] = job[r][t]
            /\ \A p \in Run \ {r} : job'[p] = job[p]
        BY <1>1, <1>12, <3>1 DEF TypeOK, CancelJob
      <4>2. \A p \in Run, t \in Source : PairOK(unit[p][t], job[p][t]) /\ unit'[p][t] = unit[p][t]
        BY <1>1, <3>1 DEF RunsOK, SameRuns
      <4>3. PairOK(unit[r][s], "cancelled")
        BY <2>2, <4>1, <4>2 DEF PairOK
      <4> QED
        BY <4>1, <4>2, <4>3
    <3>3. RunsOK(run', unit', job')
      BY <1>1, <3>1, <3>2 DEF RunsOK, SameRuns
    <3> QED
      BY <1>1, <3>1, <3>3 DEF SameRuns, One, PendingHasCarrier, RecentTellsTheTruth, Busy, ActiveRun
  <2> QED
    BY <2>1, <2>2
<1>13. ASSUME NEW r \in Run, NEW s \in Source, RetryJob(r, s)
       PROVE /\ One(run') /\ RunsOK(run', unit', job')
             /\ PendingHasCarrier' /\ RecentTellsTheTruth'
  <2>1. /\ unit'[r][s] = "queued" /\ job'[r][s] = "queued"
        /\ \A t \in Source \ {s} : unit'[r][t] = unit[r][t] /\ job'[r][t] = job[r][t]
        /\ \A q \in Run \ {r} : run'[q] = run[q] /\ unit'[q] = unit[q] /\ job'[q] = job[q]
    BY <1>1, <1>13 DEF RetryJob, ResetLinkedUnit, TypeOK
  <2>2. run'[r].state \in Active
    BY <1>1, <1>13 DEF RetryJob, ResetLinkedUnit, TypeOK, RunRow, Active
  <2>3. One(run') /\ Busy'
    BY <1>13, <2>1, <2>2 DEF RetryJob, ResetLinkedUnit, One, Busy, ActiveRun
  <2>4. \A t \in Source : unit[r][t] # "none"
    <3>1. run[r].state # "none"
      BY <1>1, <1>13 DEF RetryJob, ResetLinkedUnit, RunsOK, RunOK, TypeOK, Active, UnitsTogether, Inv
    <3> QED
      BY <1>1, <3>1 DEF RunsOK, RunOK
  <2>5. RunOK(run'[r].state, unit'[r])
    BY <2>1, <2>2, <2>4 DEF RunOK, Active
  <2>6. \A p \in Run, t \in Source : PairOK(unit'[p][t], job'[p][t])
    <3>1. \A p \in Run, t \in Source : PairOK(unit[p][t], job[p][t])
      BY <1>1 DEF RunsOK
    <3>2. PairOK("queued", "queued")
      BY DEF PairOK, Active
    <3> QED
      BY <2>1, <3>1, <3>2
  <2>7. RunsOK(run', unit', job')
    BY <1>1, <2>1, <2>5, <2>6 DEF RunsOK
  <2>8. /\ sub'.recent = "running" /\ sub'.pending = sub.pending
        /\ sub'.pendingCursor = sub.pendingCursor /\ sub'.exists = sub.exists
    BY <1>2, <1>13 DEF RetryJob, ResetLinkedUnit, Subscribes, Subscription
  <2> QED
    BY <1>1, <2>3, <2>7, <2>8 DEF PendingHasCarrier, RecentTellsTheTruth
<1>14. ASSUME NEW r \in Run, NEW s \in Source,
              RetryOrphan(r, s) \/ Claim(r, s) \/ FailRetryable(r, s) \/ BlockAccountForJob(r, s)
       PROVE /\ One(run') /\ RunsOK(run', unit', job')
             /\ PendingHasCarrier' /\ RecentTellsTheTruth'
  <2>1. SameRuns
    BY <1>14 DEF RetryOrphan, Claim, FailRetryable, BlockAccountForJob, SameRuns
  <2>2. CASE RetryOrphan(r, s)
    BY <1>1, <2>1, <2>2, JobsMove DEF RetryOrphan, TypeOK
  <2>3. CASE Claim(r, s) \/ FailRetryable(r, s)
    <3>1. \A p \in Run, t \in Source :
            job'[p][t] = job[p][t] \/ (job[p][t] \in Live /\ job'[p][t] \in Live)
      BY <1>1, <2>3 DEF Claim, FailRetryable, Live, TypeOK
    <3> QED
      BY <2>1, <3>1, JobsMove
  <2>4. CASE BlockAccountForJob(r, s)
    <3>1. \A p \in Run, t \in Source :
            job'[p][t] = job[p][t] \/ (job[p][t] \in Live /\ job'[p][t] \in Live)
      BY <1>1, <2>4 DEF BlockAccountForJob, Waits, Live, TypeOK
    <3> QED
      BY <2>1, <3>1, JobsMove
  <2> QED
    BY <1>14, <2>2, <2>3, <2>4
<1>15. ASSUME NEW r \in Run, NEW s \in Source, MarkUnitRunning(r, s)
       PROVE /\ One(run') /\ RunsOK(run', unit', job')
             /\ PendingHasCarrier' /\ RecentTellsTheTruth'
  <2>1. unit[r][s] \in Active /\ run[r].state \in Active
    BY <1>1, <1>15 DEF MarkUnitRunning, RunsOK, RunOK, Active
  <2>2. /\ unit'[r][s] = "running" /\ run'[r].state = "running"
        /\ \A t \in Source \ {s} : unit'[r][t] = unit[r][t]
        /\ \A q \in Run \ {r} : run'[q] = run[q] /\ unit'[q] = unit[q]
        /\ job' = job
    BY <1>1, <1>15 DEF MarkUnitRunning, TypeOK, RunRow
  <2>3. \A t \in Source : unit[r][t] # "none"
    BY <1>1, <2>1 DEF RunsOK, RunOK, Active
  <2>4. RunOK(run'[r].state, unit'[r])
    BY <2>2, <2>3 DEF RunOK, Active
  <2>5. \A p \in Run, t \in Source : PairOK(unit'[p][t], job'[p][t])
    <3>1. \A p \in Run, t \in Source : PairOK(unit[p][t], job[p][t])
      BY <1>1 DEF RunsOK
    <3>2. PairOK("running", job[r][s])
      BY <2>1, <3>1 DEF PairOK, Active
    <3> QED
      BY <2>2, <3>1, <3>2
  <2>6. RunsOK(run', unit', job')
    BY <1>1, <2>2, <2>4, <2>5 DEF RunsOK
  <2>7. One(run') /\ (Busy' <=> Busy)
    BY <1>1, <2>1, <2>2 DEF One, Busy, ActiveRun, Active
  <2> QED
    BY <1>1, <1>15, <2>6, <2>7 DEF MarkUnitRunning, PendingHasCarrier, RecentTellsTheTruth
<1>16. ASSUME NEW r \in Run, NEW s \in Source, RecordAttemptFailure(r, s)
       PROVE /\ One(run') /\ RunsOK(run', unit', job')
             /\ PendingHasCarrier' /\ RecentTellsTheTruth'
  <2>1. /\ unit'[r][s] = "queued" /\ unit[r][s] = "running"
        /\ \A t \in Source \ {s} : unit'[r][t] = unit[r][t]
        /\ \A q \in Run \ {r} : unit'[q] = unit[q]
        /\ job' = job /\ run' = run /\ sub' = sub
    BY <1>1, <1>16 DEF RecordAttemptFailure, TypeOK
  <2>2. RunOK(run[r].state, unit[r])
    BY <1>1 DEF RunsOK
  <2>3. RunOK(run'[r].state, unit'[r])
    BY <2>1, <2>2 DEF RunOK, Active
  <2>4. \A p \in Run, t \in Source : PairOK(unit'[p][t], job'[p][t])
    <3>1. \A p \in Run, t \in Source : PairOK(unit[p][t], job[p][t])
      BY <1>1 DEF RunsOK
    <3>2. PairOK("queued", job[r][s])
      BY <2>1, <3>1 DEF PairOK, Active
    <3> QED
      BY <2>1, <3>1, <3>2
  <2>5. RunsOK(run', unit', job')
    BY <1>1, <2>1, <2>3, <2>4 DEF RunsOK
  <2> QED
    BY <1>1, <2>1, <2>5 DEF One, PendingHasCarrier, RecentTellsTheTruth, Busy, ActiveRun
<1>17. ASSUME NEW r \in Run, NEW s \in Source, Complete(r, s)
       PROVE /\ One(run') /\ RunsOK(run', unit', job')
             /\ PendingHasCarrier' /\ RecentTellsTheTruth'
  <2>1. /\ "succeeded" \in Status \ Active /\ "completed" \in JobState
        /\ PairOK("succeeded", "completed")
    BY DEF Status, Active, JobState, PairOK
  <2>2. unit[r][s] \in Active
    BY <1>17 DEF Complete, CompleteLinkedUnit, Active
  <2> QED
    BY <1>17, <2>1, <2>2, FinishParentLinks DEF Complete, CompleteLinkedUnit
<1>18. ASSUME NEW r \in Run, NEW s \in Source, FailTerminal(r, s)
       PROVE /\ One(run') /\ RunsOK(run', unit', job')
             /\ PendingHasCarrier' /\ RecentTellsTheTruth'
  <2>1. CASE unit[r][s] \in Active
    <3>1. /\ "failed" \in Status \ Active /\ "failed" \in JobState
          /\ PairOK("failed", "failed")
      BY DEF Status, Active, JobState, PairOK
    <3> QED
      BY <1>18, <2>1, <3>1, FinishParentLinks DEF FailTerminal, FailLinkedUnit
  <2>2. CASE unit[r][s] \notin Active
    <3>1. /\ SameRuns /\ job' = [job EXCEPT ![r] = [@ EXCEPT ![s] = "failed"]]
          /\ unit[r][s] = "failed" \/ unit[r][s] = "none"
      BY <1>18, <2>2 DEF FailTerminal, FailLinkedUnit, SameRuns
    <3>2. unit[r][s] # "failed"
      BY <1>1, <1>18 DEF FailTerminal, FailLinkedUnit, RunsOK, PairOK, Active
    <3> QED
      BY <1>1, <3>1, <3>2, JobsMove DEF TypeOK
  <2> QED
    BY <2>1, <2>2
<1>19. CASE BlockAccount
  <2>1. SameRuns
    BY <1>19 DEF BlockAccount, SameRuns
  <2>2. \A p \in Run, t \in Source :
          job'[p][t] = job[p][t] \/ (job[p][t] \in Live /\ job'[p][t] \in Live)
    BY <1>1, <1>19 DEF BlockAccount, Waits, Live, TypeOK
  <2> QED
    BY <2>1, <2>2, JobsMove
<1>20. CASE RecoverAccount
  <2>1. /\ Resumed(job) \in [Run -> [Source -> JobState]]
        /\ \A p \in Run, t \in Source :
             Resumed(job)[p][t] = job[p][t]
             \/ (job[p][t] \in Live /\ Resumed(job)[p][t] \in Live)
    BY <1>1 DEF Resumed, Live, TypeOK, JobState
  <2>2. CASE job' = Resumed(job) /\ UNCHANGED <<sub, listed, run, unit>>
    BY <2>1, <2>2, JobsMove DEF SameRuns
  <2>3. RunsOK(run, unit, Resumed(job))
    <3>1. \A p \in Run, t \in Source : PairOK(unit[p][t], Resumed(job)[p][t])
      <4>1. \A p \in Run, t \in Source : PairOK(unit[p][t], job[p][t])
        BY <1>1 DEF RunsOK
      <4> QED
        BY <2>1, <4>1 DEF PairOK, Live, Active
    <3> QED
      BY <1>1, <3>1 DEF RunsOK
  <2>4. CASE /\ Busy /\ job' = Resumed(job) /\ UNCHANGED <<run, unit>>
             /\ Subscribes([sub EXCEPT !.pending = TRUE, !.pendingCursor = "backfill"])
    <3>1. sub'.pending /\ sub'.exists = sub.exists /\ sub'.recent = sub.recent
      BY <1>2, <2>4 DEF Subscribes, Subscription
    <3> QED
      BY <1>1, <2>3, <2>4, <3>1 DEF One, RunsOK, PendingHasCarrier, RecentTellsTheTruth, Busy, ActiveRun
  <2>5. CASE /\ ~Busy
             /\ \E q \in Run : CreateRun(q, sub.pendingCursor, "queued", run, unit, Resumed(job))
             /\ PendingServed
    <3>1. sub.pendingCursor \in CursorKind
      BY <1>2 DEF Subscription
    <3>2. One(run') /\ RunsOK(run', unit', job') /\ Busy'
      BY <1>1, <2>1, <2>3, <2>5, <3>1, CreateRunLinks DEF Busy, ActiveRun, TypeOK
    <3>3. ~sub'.pending /\ sub'.pendingCursor = "normal" /\ sub'.recent = "running"
      BY <1>2, <2>5 DEF PendingServed, Subscribes, Subscription
    <3> QED
      BY <3>2, <3>3 DEF PendingHasCarrier, RecentTellsTheTruth
  <2> QED
    BY <1>20, <2>2, <2>4, <2>5 DEF RecoverAccount
<1>21. CASE UNCHANGED vars
  <2>1. SameRuns /\ job' = job
    BY <1>21 DEF vars, SameRuns
  <2> QED
    BY <2>1, JobsMove
<1> QED
  BY <1>3, <1>4, <1>5, <1>6, <1>7, <1>8, <1>9, <1>10, <1>11, <1>12, <1>13, <1>14, <1>15,
     <1>16, <1>17, <1>18, <1>19, <1>20, <1>21 DEF Next, OperatorStep, UnitStep

LEMMA InvStep == ASSUME Inv, [Next]_vars PROVE Inv'
<1>1. TypeOK'
  BY TypeStep DEF Inv
<1>2. /\ One(run') /\ RunsOK(run', unit', job')
      /\ PendingHasCarrier' /\ RecentTellsTheTruth'
  BY LinksStep
<1> QED
  BY <1>1, <1>2 DEF Inv, OneActiveRun, ActiveRun, One, RunsOK, RunOK, PairOK,
                     RunFollowsUnits, UnitFollowsJob, UnitsTogether

-----------------------------------------------------------------------------
(* Theorems *)

LEMMA InvInit == Init => Inv
<1> SUFFICES ASSUME Init PROVE Inv
  OBVIOUS
<1>1. TypeOK
  BY DEF Init, TypeOK, Subscription, CursorKind, RecentState, RunRow, NoRun, Status, JobState
<1>2. RunsOK(run, unit, job) /\ One(run) /\ PendingHasCarrier /\ RecentTellsTheTruth
  BY DEF Init, NoRun, RunsOK, RunOK, PairOK, One, Active, Busy, ActiveRun,
         PendingHasCarrier, RecentTellsTheTruth
<1> QED
  BY <1>1, <1>2, InvParts

LEMMA SpecInv == Spec => []Inv
BY InvInit, InvStep, PTL DEF Spec

\* Every variable keeps its type: no transaction leaves a status the schema
\* does not know.
THEOREM TypeCorrect == Spec => []TypeOK
<1>1. Inv => TypeOK
  BY DEF Inv
<1> QED
  BY <1>1, SpecInv, PTL

\* Starts by schedulers, operators, the recovery of the account and the end of
\* the previous run, and the retry of a unit of an older run, never make a
\* subscription collect in two runs at once.
THEOREM RunsExclusive == Spec => []OneActiveRun
<1>1. Inv => OneActiveRun
  BY DEF Inv
<1> QED
  BY <1>1, SpecInv, PTL

\* A run ends with its last unit and comes back with the first that is retried;
\* one that is reported as succeeded collected from every source.
THEOREM RunsFollowUnits == Spec => []RunFollowsUnits
<1>1. Inv => RunFollowsUnits
  BY DEF Inv
<1> QED
  BY <1>1, SpecInv, PTL

\* The queue and the run agree on every unit, whatever cancels, retries, blocks
\* or fails its job.
THEOREM UnitsFollowJobs == Spec => []UnitFollowsJob
<1>1. Inv => UnitFollowsJob
  BY DEF Inv
<1> QED
  BY <1>1, SpecInv, PTL

\* A request that waits for the active run always finds one to wait for.
THEOREM PendingIsCarried == Spec => []PendingHasCarrier
<1>1. Inv => PendingHasCarrier
  BY DEF Inv
<1> QED
  BY <1>1, SpecInv, PTL

\* The state the console shows for a subscription is that of its runs.
THEOREM RecentIsTrue == Spec => []RecentTellsTheTruth
<1>1. Inv => RecentTellsTheTruth
  BY DEF Inv
<1> QED
  BY <1>1, SpecInv, PTL

-----------------------------------------------------------------------------
(* A backfill that waits for the active run to end *)

Waiting(row) == row.pending /\ row.pendingCursor = "backfill"
StartsBackfill ==
  \E r \in Run : run[r].state = "none" /\ run'[r] = [state |-> "queued", cursor |-> "backfill"]

LEMMA BackfillAtEnd ==
  ASSUME Inv, NEW r \in Run, NEW s \in Source, NEW state \in Status, NEW jobState,
         FinishParent(r, s, state, jobState), Waiting(sub)
  PROVE  StartsBackfill \/ Waiting(sub')
<1> DEFINE units == [unit EXCEPT ![r] = [@ EXCEPT ![s] = state]]
           jobs == [job EXCEPT ![r] = [@ EXCEPT ![s] = jobState]]
           runs == [run EXCEPT ![r].state = ParentState(units[r])]
<1>1. CASE UNCHANGED sub
  BY <1>1 DEF Waiting
<1>2. CASE \E q \in Run : CreateRun(q, sub.pendingCursor, NewJob, runs, units, jobs)
  <2>1. PICK q \in Run : CreateRun(q, sub.pendingCursor, NewJob, runs, units, jobs)
    BY <1>2
  <2>2. runs[q].state = "none" /\ run' = [runs EXCEPT ![q] = [state |-> "queued", cursor |-> "backfill"]]
    BY <2>1 DEF CreateRun, Waiting
  <2>3. run \in [Run -> RunRow]
    BY DEF Inv, TypeOK
  <2>4. PICK parent : parent = ParentState(units[r])
    OBVIOUS
  <2>5. parent # "none"
    BY <2>4 DEF ParentState
  <2>6. runs = [run EXCEPT ![r] = [run[r] EXCEPT !.state = parent]]
    BY <2>4
  <2> HIDE DEF runs
  <2>7. run[q].state = "none"
    BY <2>2, <2>3, <2>5, <2>6 DEF RunRow
  <2>8. run'[q] = [state |-> "queued", cursor |-> "backfill"]
    BY <2>2, <2>3, <2>6
  <2> QED BY <2>7, <2>8 DEF StartsBackfill
<1>3. CASE ~sub.pending
  BY <1>3 DEF Waiting
<1> QED BY <1>1, <1>2, <1>3 DEF FinishParent

LEMMA BackfillStart ==
  ASSUME NEW row, Waiting(row), NEW kind \in CursorKind, Starts(row, kind), row \in Subscription
  PROVE  Waiting(sub')
  BY DEF Starts, Waiting, Subscription, CursorKind

LEMMA BackfillStep ==
  ASSUME Inv, [Next]_vars, Waiting(sub), ~Waiting(sub')
  PROVE  StartsBackfill \/ ~(\E r \in Run : run'[r].state \in Active)
<1>0. sub \in Subscription /\ run \in [Run -> RunRow] /\ (sub.exists => Busy)
  BY DEF Inv, TypeOK, PendingHasCarrier, Waiting
<1>1. CASE FallsDue
  BY <1>0, <1>1 DEF FallsDue, Waiting, Subscription
<1>2. CASE ListDue \/ BlockAccount
  BY <1>2 DEF ListDue, BlockAccount, Waiting
<1>3. CASE ScheduleDue
  BY <1>0, <1>3 DEF ScheduleDue, Schedulable, Subscribes, Waiting, Subscription
<1>4. ASSUME NEW kind \in CursorKind, AskRun(kind) \/ StartRun(kind)
      PROVE  StartsBackfill
  <2>1. CASE UNCHANGED sub
    BY <2>1
  <2>2. CASE Starts(sub, kind)
    BY <1>0, <2>2, BackfillStart
  <2> QED BY <1>4, <2>1, <2>2 DEF AskRun, StartRun
<1>5. ASSUME NEW enabled \in BOOLEAN, Configure(enabled) PROVE StartsBackfill
  BY <1>0, <1>5 DEF Configure, Subscribes, Waiting, Subscription
<1>6. CASE ConfigureWithBackfill
  <2>1. PICK row : row = [sub EXCEPT !.enabled = TRUE, !.due = FALSE]
    OBVIOUS
  <2>2. row \in Subscription /\ Waiting(row)
    BY <1>0, <2>1 DEF Waiting, Subscription
  <2>3. Starts(row, "backfill")
    BY <1>6, <2>1 DEF ConfigureWithBackfill
  <2> QED BY <2>2, <2>3, BackfillStart DEF CursorKind
<1>7. CASE StopRun
  <2>1. PICK r \in Run : ActiveRun(r) /\ run' = [run EXCEPT ![r].state = "cancelled"]
    BY <1>7 DEF StopRun
  <2>2. \A q \in Run : ActiveRun(q) => q = r
    BY <2>1 DEF Inv, OneActiveRun
  <2> QED BY <1>0, <2>1, <2>2 DEF ActiveRun, Active, RunRow
<1>8. CASE Delete
  BY <1>0, <1>8 DEF Delete
<1>9. ASSUME NEW r \in Run, NEW s \in Source, CancelJob(r, s) \/ RetryJob(r, s) \/ RetryOrphan(r, s)
      PROVE  StartsBackfill
  <2>1. CASE CancelLinkedUnit(r, s)
    BY <2>1, BackfillAtEnd DEF CancelLinkedUnit, Status
  <2>2. CASE UNCHANGED sub
    BY <2>2
  <2>3. CASE ResetLinkedUnit(r, s)
    BY <1>0, <2>3 DEF ResetLinkedUnit, Subscribes, Waiting, Subscription
  <2> QED BY <1>9, <2>1, <2>2, <2>3 DEF CancelJob, RetryJob, RetryOrphan
<1>10. ASSUME NEW r \in Run, NEW s \in Source, UnitStep(r, s) PROVE StartsBackfill
  <2>1. CASE CompleteLinkedUnit(r, s)
    BY <2>1, BackfillAtEnd DEF CompleteLinkedUnit, Status
  <2>2. CASE FailLinkedUnit(r, s)
    BY <2>2, BackfillAtEnd DEF FailLinkedUnit, Status
  <2>3. CASE UNCHANGED sub
    BY <2>3
  <2> QED BY <1>10, <2>1, <2>2, <2>3
          DEF UnitStep, Claim, MarkUnitRunning, Complete, RecordAttemptFailure, FailRetryable,
              FailTerminal, BlockAccountForJob
<1>11. CASE RecoverAccount
  <2>1. CASE UNCHANGED sub
    BY <2>1
  <2>2. CASE Busy /\ Subscribes([sub EXCEPT !.pending = TRUE, !.pendingCursor = "backfill"])
    BY <1>0, <2>2 DEF Subscribes, Waiting, Subscription
  <2>3. CASE sub.exists /\ ~Busy
    BY <1>0, <2>3
  <2> QED BY <1>11, <2>1, <2>2, <2>3 DEF RecoverAccount
<1>12. CASE UNCHANGED vars
  BY <1>12 DEF vars
<1> QED
  BY <1>1, <1>2, <1>3, <1>4, <1>5, <1>6, <1>7, <1>8, <1>9, <1>10, <1>11, <1>12
     DEF Next, OperatorStep

\* A backfill that was asked for while a run was active is not replaced by
\* ordinary runs, whatever the schedulers, the operator and the worker do in
\* between: it starts, or the operator stops everything.
THEOREM BackfillIsKept == Spec => BackfillKept
<1>1. Inv /\ [Next]_vars =>
        [sub.pending /\ sub.pendingCursor = "backfill"
           /\ ~(sub'.pending /\ sub'.pendingCursor = "backfill")
         => \/ \E r \in Run : run[r].state = "none" /\ run'[r] = [state |-> "queued", cursor |-> "backfill"]
            \/ ~(\E r \in Run : run'[r].state \in Active)]_vars
  BY BackfillStep DEF Waiting, StartsBackfill
<1> QED BY <1>1, SpecInv, PTL DEF Spec, BackfillKept

-----------------------------------------------------------------------------
(***************************************************************************)
(* Proofs about RuleDocuments, for any rules, tabs and definitions: that   *)
(* the current version runs under its own name, and that an accepted save  *)
(* replaces what its tab was shown.  Both rest on how far a tab may be     *)
(* behind the rule it has open: a version or a count of the draft that is  *)
(* still the rule's names the definition the tab shows.                    *)
(***************************************************************************)

\* A draft was begun from the current version, and counts from one.
DraftIsOfCurrent ==
  \A r \in Rule : HasDraft(r) =>
    rule[r].draft.base = Current(r) /\ rule[r].draft.revision > 0

\* An id that was never used has no rows, and a tab has an id that was used.
UsedOnce ==
  /\ \A r \in Rule : order[r] = 0 => rule[r] = None /\ version[r] = <<>>
  /\ \A e \in Editor : editor[e].step # "closed" => order[editor[e].rule] > 0

\* "text" was the rule's definition when "base" was its version and "revision"
\* the count of its draft (0: it had none).
WasShown(r, base, revision, text) ==
  Exists(r) =>
    /\ base <= Current(r)
    /\ IF revision = 0
         THEN base = Current(r) => text = version[r][Current(r)]
         ELSE base = Current(r) =>
                /\ HasDraft(r)
                /\ revision <= rule[r].draft.revision
                /\ revision = rule[r].draft.revision => text = rule[r].draft.text

\* A tab that waits for a rule's definition, one that shows it, and one whose
\* publication has read the draft.
TabIsBehind(tab) ==
  /\ tab.step \in {"listed", "exporting"} /\ Exists(tab.rule) => tab.base <= Current(tab.rule)
  /\ tab.step \in {"open", "saving", "publishing", "promoting"} =>
       WasShown(tab.rule, tab.base, tab.draft, tab.shows)
  /\ tab.step = "promoting" =>
       /\ tab.read \in Draft /\ tab.draft > 0
       /\ WasShown(tab.rule, tab.base, tab.draft, tab.read.text)

DocumentsInv ==
  /\ DocumentsTypeOK
  /\ DraftIsOfCurrent
  /\ UsedOnce
  /\ \A e \in Editor : TabIsBehind(editor[e])
  /\ RowMatchesVersion

-----------------------------------------------------------------------------
(* Types *)

OpenTab ==
  [step : Steps, rule : Rule, shows : 0 .. MaxTexts, base : Nat, draft : Nat,
   revision : Nat, read : Draft \cup {None}]

LEMMA TabTyped ==
  ASSUME DocumentsTypeOK, NEW e \in Editor, editor[e].step # "closed"
  PROVE  editor[e] \in OpenTab
  BY DEF DocumentsTypeOK, EditorState, OpenTab, Closed

LEMMA OpenAtTyped ==
  ASSUME NEW r \in Rule, NEW text \in 0 .. MaxTexts, NEW base \in Nat, NEW draft \in Nat
  PROVE  /\ OpenAt(r, text, base, draft) \in OpenTab
         /\ OpenAt(r, text, base, draft).step = "open"
         /\ OpenAt(r, text, base, draft).rule = r
         /\ OpenAt(r, text, base, draft).shows = text
         /\ OpenAt(r, text, base, draft).base = base
         /\ OpenAt(r, text, base, draft).draft = draft
  BY DEF OpenAt, Closed, OpenTab, Steps

ListedAt(r, base, revision) ==
  [Closed EXCEPT !.step = "listed", !.rule = r, !.base = base, !.revision = revision]

LEMMA ListedAtTyped ==
  ASSUME RulesAssumption, NEW r \in Rule, NEW base \in Nat, NEW revision \in Nat
  PROVE  /\ ListedAt(r, base, revision) \in OpenTab
         /\ ListedAt(r, base, revision).step = "listed"
         /\ ListedAt(r, base, revision).rule = r
         /\ ListedAt(r, base, revision).base = base
<1>1. 0 \in 0 .. MaxTexts /\ "listed" \in Steps
  BY DEF RulesAssumption, Steps
<1> HIDE DEF Steps
<1> QED BY <1>1 DEF ListedAt, Closed, OpenTab

LEMMA BecomesTyped ==
  ASSUME DocumentsTypeOK, NEW e \in Editor, NEW state \in OpenTab \cup {Closed},
         Becomes(e, state)
  PROVE  /\ editor' \in [Editor -> EditorState]
         /\ editor'[e] = state
         /\ \A f \in Editor \ {e} : editor'[f] = editor[f]
<1>1. state \in EditorState
  BY DEF EditorState, OpenTab
<1> QED BY <1>1 DEF DocumentsTypeOK, Becomes

\* A row and its draft.
LEMMA RowTyped ==
  ASSUME DocumentsTypeOK, NEW r \in Rule, Exists(r)
  PROVE  /\ rule[r] \in Row
         /\ HasDraft(r) => rule[r].draft \in Draft
  BY DEF DocumentsTypeOK, Exists, HasDraft, Row

LEMMA CurrentTyped ==
  ASSUME DocumentsTypeOK, NEW r \in Rule
  PROVE  /\ version[r] \in Seq(Text)
         /\ Current(r) \in Nat
         /\ Current(r) > 0 => version[r][Current(r)] \in Text
  BY DEF DocumentsTypeOK, Current

\* What a save stores.
LEMMA WithDraftTyped ==
  ASSUME NEW row \in Row, NEW draft \in Draft
  PROVE  /\ WithDraft(row, draft) \in Row
         /\ WithDraft(row, draft).columns = row.columns
         /\ WithDraft(row, draft).draft = draft
<1>1. ASSUME NEW n \in Nat
      PROVE  /\ [row EXCEPT !.revision = n, !.draft = draft] \in Row
             /\ [row EXCEPT !.revision = n, !.draft = draft].columns = row.columns
             /\ [row EXCEPT !.revision = n, !.draft = draft].draft = draft
  BY DEF Row
<1>2. PICK n \in Nat : n = row.revision + 1
  BY DEF Row
<1>3. WithDraft(row, draft) = [row EXCEPT !.revision = n, !.draft = draft]
  BY <1>2 DEF WithDraft
<1> QED BY <1>1, <1>3

Stored(r, base, text) ==
  IF HasDraft(r) THEN [rule[r].draft EXCEPT !.text = text, !.revision = @ + 1]
  ELSE NewDraft(base, text)

LEMMA StoredTyped ==
  ASSUME DocumentsTypeOK, NEW r \in Rule, Exists(r), NEW base \in Nat, NEW text \in Text
  PROVE  /\ Stored(r, base, text) \in Draft
         /\ Stored(r, base, text).base = IF HasDraft(r) THEN rule[r].draft.base ELSE base
         /\ Stored(r, base, text).text = text
         /\ Stored(r, base, text).revision = IF HasDraft(r) THEN rule[r].draft.revision + 1 ELSE 1
<1>1. CASE HasDraft(r)
  <2>1. PICK d \in Draft : d = rule[r].draft
    BY <1>1, RowTyped
  <2>2. ASSUME NEW n \in Nat
        PROVE  /\ [d EXCEPT !.text = text, !.revision = n] \in Draft
               /\ [d EXCEPT !.text = text, !.revision = n].base = d.base
               /\ [d EXCEPT !.text = text, !.revision = n].text = text
               /\ [d EXCEPT !.text = text, !.revision = n].revision = n
    BY DEF Draft
  <2>3. PICK n \in Nat : n = d.revision + 1
    BY DEF Draft
  <2>4. Stored(r, base, text) = [d EXCEPT !.text = text, !.revision = n]
    BY <1>1, <2>1, <2>3 DEF Stored
  <2> QED BY <1>1, <2>1, <2>2, <2>3, <2>4
<1>2. CASE ~HasDraft(r)
  BY <1>2 DEF Stored, NewDraft, Draft
<1> QED BY <1>1, <1>2

LEMMA NoneDiffers == ASSUME NEW d \in Draft PROVE d # None
  BY NoneAssumption

-----------------------------------------------------------------------------
(* What a step does to a rule *)

Kept(r) == rule'[r] = rule[r] /\ version'[r] = version[r]
Deleted(r) == rule'[r] = None /\ version'[r] = <<>>
Drafted(r) ==
  /\ Exists(r) /\ rule'[r] # None /\ rule'[r].draft # None
  /\ version'[r] = version[r]
  /\ rule'[r].columns = rule[r].columns
  /\ rule'[r].draft.base = Current(r)
  /\ rule'[r].draft.revision = IF HasDraft(r) THEN rule[r].draft.revision + 1 ELSE 1
Published(r) ==
  /\ HasDraft(r) /\ rule'[r] # None /\ rule'[r].draft = None
  /\ version'[r] = Append(version[r], rule[r].draft.text)
  /\ rule'[r].columns = rule[r].draft.text
Added(r) ==
  /\ order[r] = 0 /\ version'[r] = version[r]
  /\ rule'[r] # None /\ rule'[r].draft # None
  /\ rule'[r].draft.base = 0 /\ rule'[r].draft.revision = 1

\* What a tab was shown stays what the rule held then.
LEMMA WasShownStep ==
  ASSUME DocumentsTypeOK, DocumentsTypeOK', DraftIsOfCurrent,
         NEW r \in Rule, NEW base \in Nat, NEW revision \in Nat, NEW text,
         WasShown(r, base, revision, text),
         Kept(r) \/ Deleted(r) \/ Drafted(r) \/ Published(r)
  PROVE  WasShown(r, base, revision, text)'
<1>1. Current(r) \in Nat
  BY CurrentTyped
<1>2. CASE Kept(r)
  BY <1>2 DEF Kept, WasShown, Exists, HasDraft, Current
<1>3. CASE Deleted(r)
  BY <1>3 DEF Deleted, WasShown, Exists
<1>4. CASE Drafted(r)
  <2>1. HasDraft(r) => rule[r].draft.revision \in Nat
    BY <1>4, RowTyped DEF Drafted, Draft
  <2> QED BY <1>1, <1>4, <2>1 DEF Drafted, WasShown, Current, Exists, HasDraft
<1>5. CASE Published(r)
  <2>1. Exists(r) /\ rule[r].draft \in Draft /\ version[r] \in Seq(Text)
    BY <1>5, RowTyped, CurrentTyped DEF Published, HasDraft
  <2>2. Current(r)' = Current(r) + 1
    BY <1>5, <2>1 DEF Published, Current, Draft
  <2> QED BY <1>1, <1>5, <2>1, <2>2 DEF WasShown
<1> QED BY <1>2, <1>3, <1>4, <1>5

\* A save stores a draft of the version it names, which is the current one.
LEMMA StoreDraftIsDrafted ==
  ASSUME DocumentsTypeOK, DraftIsOfCurrent, RulesAssumption,
         NEW e \in Editor, editor[e].step # "closed", StoreDraft(e, editor[e].base)
  PROVE  LET r == editor[e].rule
             stored == rule'[r].draft
         IN  /\ Drafted(r)
             /\ stored \in Draft
             /\ rule' \in [Rule -> Row \cup {None}] /\ texts' \in 0 .. MaxTexts
             /\ \A s \in Rule \ {r} : Kept(s)
             /\ Becomes(e, OpenAt(r, stored.text, stored.base, stored.revision))
<1> DEFINE r == editor[e].rule   base == editor[e].base   text == texts + 1
           stored == Stored(r, base, text)
<1>1. r \in Rule /\ base \in Nat
  BY TabTyped DEF OpenTab
<1>2. text \in Text /\ text \in 0 .. MaxTexts
  BY RulesAssumption DEF StoreDraft, DocumentsTypeOK, Text
<1>3. Accepts(r, editor[e].draft, base) /\ Exists(r)
  BY DEF StoreDraft, Accepts
<1>4. rule[r] \in Row
  BY <1>1, <1>3, RowTyped
<1>5. /\ stored \in Draft
      /\ stored.base = IF HasDraft(r) THEN rule[r].draft.base ELSE base
      /\ stored.text = text
      /\ stored.revision = IF HasDraft(r) THEN rule[r].draft.revision + 1 ELSE 1
  BY <1>1, <1>2, <1>3, StoredTyped
<1>6. /\ texts' = text
      /\ rule' = [rule EXCEPT ![r] = WithDraft(rule[r], stored)]
      /\ Becomes(e, OpenAt(r, text, stored.base, stored.revision))
      /\ version' = version
  BY DEF StoreDraft, Stored
<1> HIDE DEF r, base, text, stored
<1>7. /\ WithDraft(rule[r], stored) \in Row
      /\ WithDraft(rule[r], stored).columns = rule[r].columns
      /\ WithDraft(rule[r], stored).draft = stored
  BY <1>4, <1>5, WithDraftTyped
<1>8. rule'[r] = WithDraft(rule[r], stored) /\ \A s \in Rule \ {r} : rule'[s] = rule[s]
  BY <1>1, <1>6 DEF DocumentsTypeOK
<1>9. stored.base = Current(r)
  BY <1>1, <1>3, <1>5 DEF Accepts, DraftIsOfCurrent
<1>10. Drafted(r)
  <2>1. rule'[r] # None /\ rule'[r].draft # None
    BY <1>5, <1>7, <1>8, NoneAssumption
  <2> QED BY <1>3, <1>5, <1>6, <1>7, <1>8, <1>9, <2>1 DEF Drafted, Exists, HasDraft
<1>11. rule' \in [Rule -> Row \cup {None}]
  BY <1>6, <1>7 DEF DocumentsTypeOK
<1> QED BY <1>2, <1>5, <1>6, <1>7, <1>8, <1>10, <1>11 DEF Kept, r

\* A publication takes the draft that its service read.
LEMMA PublishIsPublished ==
  ASSUME DocumentsTypeOK, NEW e \in Editor, TabIsBehind(editor[e]), PublishVersion(e)
  PROVE  LET r == editor[e].rule
         IN  /\ Published(r)
             /\ rule' \in [Rule -> Row \cup {None}]
             /\ version' \in [Rule -> Seq(Text)]
             /\ \A s \in Rule \ {r} : Kept(s)
             /\ Becomes(e, OpenAt(r, rule[r].draft.text, Current(r) + 1, 0))
<1> DEFINE r == editor[e].rule   read == editor[e].read   draft == rule[r].draft
<1>1. editor[e].step = "promoting" /\ Publishable(e)
  BY DEF PublishVersion
<1>2. editor[e] \in OpenTab /\ r \in Rule
  BY <1>1, TabTyped DEF OpenTab
<1>3. HasDraft(r) /\ Exists(r) /\ rule[r] \in Row /\ draft \in Draft /\ version[r] \in Seq(Text)
  BY <1>1, <1>2, RowTyped, CurrentTyped DEF Publishable, HasDraft
<1>4. read \in Draft /\ read.text = draft.text
  BY <1>1, <1>2, <1>3 DEF TabIsBehind, WasShown, Publishable
<1>5. /\ version' = [version EXCEPT ![r] = Append(version[r], draft.text)]
      /\ rule' = [rule EXCEPT ![r] = [revision |-> rule[r].revision + 1,
                                      columns |-> read.text, draft |-> None]]
      /\ Becomes(e, OpenAt(r, draft.text, Current(r) + 1, 0))
  BY <1>2 DEF PublishVersion, DocumentsTypeOK
<1> HIDE DEF r, read, draft
<1>6. draft.text \in Text /\ rule[r].revision + 1 \in Nat
  BY <1>3 DEF Draft, Row
<1>7. [revision |-> rule[r].revision + 1, columns |-> read.text, draft |-> None] \in Row
  BY <1>4, <1>6 DEF Row
<1>8. /\ rule'[r] = [revision |-> rule[r].revision + 1, columns |-> read.text, draft |-> None]
      /\ version'[r] = Append(version[r], draft.text)
      /\ \A s \in Rule \ {r} : Kept(s)
  BY <1>2, <1>5 DEF DocumentsTypeOK, Kept
<1>9. rule'[r] # None
  BY <1>7, <1>8, NoneAssumption
<1>10. Published(r)
  BY <1>3, <1>4, <1>8, <1>9 DEF Published, Exists, HasDraft, draft
<1>11. version' \in [Rule -> Seq(Text)] /\ rule' \in [Rule -> Row \cup {None}]
  BY <1>2, <1>3, <1>5, <1>6, <1>7 DEF DocumentsTypeOK
<1> QED BY <1>5, <1>8, <1>10, <1>11 DEF r, draft

-----------------------------------------------------------------------------
(* What a step does to a tab *)

\* A tab that goes on to another step of its request keeps the rest.
LEMMA StepTyped ==
  ASSUME NEW tab \in OpenTab, NEW goal \in Steps
  PROVE  LET to == [tab EXCEPT !.step = goal]
         IN  /\ to \in OpenTab /\ to.step = goal
             /\ to.rule = tab.rule /\ to.shows = tab.shows /\ to.base = tab.base
             /\ to.draft = tab.draft /\ to.read = tab.read
  BY DEF OpenTab

LEMMA StepBaseTyped ==
  ASSUME NEW tab \in OpenTab, NEW goal \in Steps, NEW base \in Nat
  PROVE  LET to == [tab EXCEPT !.step = goal, !.base = base]
         IN  to \in OpenTab /\ to.step = goal /\ to.rule = tab.rule
  BY DEF OpenTab

Promoting(tab, read) == [tab EXCEPT !.step = "promoting", !.read = read]

LEMMA PromotingTyped ==
  ASSUME NEW tab \in OpenTab, NEW read \in Draft
  PROVE  /\ Promoting(tab, read) \in OpenTab
         /\ Promoting(tab, read).step = "promoting"
         /\ Promoting(tab, read).rule = tab.rule
         /\ Promoting(tab, read).shows = tab.shows
         /\ Promoting(tab, read).base = tab.base
         /\ Promoting(tab, read).draft = tab.draft
         /\ Promoting(tab, read).read = read
  BY DEF Promoting, OpenTab, Steps

\* The tab closes, or has a rule that was used and is behind it as allowed.
FineTab(tab) ==
  tab = Closed \/ (tab \in OpenTab /\ order[tab.rule] > 0 /\ TabIsBehind(tab))

TabEffect(e) ==
  /\ DocumentsTypeOK'
  /\ order' = order
  /\ \A r \in Rule : Kept(r) \/ Deleted(r) \/ Drafted(r) \/ Published(r)
  /\ \A f \in Editor \ {e} : editor'[f] = editor[f]
  /\ FineTab(editor[e])'

\* A step that writes nothing but the tab.
LEMMA TabOnly ==
  ASSUME DocumentsTypeOK, NEW e \in Editor, NEW tab, FineTab(tab), Becomes(e, tab), Unchanged
  PROVE  TabEffect(e)
<1>1. tab \in OpenTab \cup {Closed}
  BY DEF FineTab
<1>2. /\ editor' \in [Editor -> EditorState]
      /\ editor'[e] = tab
      /\ \A f \in Editor \ {e} : editor'[f] = editor[f]
  BY <1>1, BecomesTyped
<1>3. FineTab(editor[e])'
  BY <1>2 DEF FineTab, TabIsBehind, WasShown, Exists, HasDraft, Current, Unchanged
<1> QED BY <1>2, <1>3 DEF TabEffect, DocumentsTypeOK, Kept, Unchanged

LEMMA ClosedIsFine ==
  ASSUME DocumentsTypeOK, NEW e \in Editor, Close(e), Unchanged PROVE TabEffect(e)
  BY TabOnly DEF FineTab, Close

\* Saves and imports store alike.
LEMMA StoreEffect ==
  ASSUME DocumentsInv, RulesAssumption,
         NEW e \in Editor, editor[e].step # "closed", StoreDraft(e, editor[e].base)
  PROVE  TabEffect(e)
<1> DEFINE r == editor[e].rule   stored == rule'[r].draft
<1>0. DocumentsTypeOK /\ DraftIsOfCurrent /\ UsedOnce
  BY DEF DocumentsInv
<1>1. r \in Rule /\ order[r] > 0
  BY <1>0, TabTyped DEF OpenTab, UsedOnce
<1>2. /\ Drafted(r) /\ stored \in Draft
      /\ rule' \in [Rule -> Row \cup {None}] /\ texts' \in 0 .. MaxTexts
      /\ \A s \in Rule \ {r} : Kept(s)
      /\ Becomes(e, OpenAt(r, stored.text, stored.base, stored.revision))
  BY <1>0, StoreDraftIsDrafted
<1>3. UNCHANGED <<version, order, next>>
  BY DEF StoreDraft
<1> HIDE DEF stored, r
<1>4. stored.text \in 0 .. MaxTexts /\ stored.base \in Nat /\ stored.revision \in Nat
  BY <1>2, RulesAssumption DEF Draft, Text
<1> DEFINE tab == OpenAt(r, stored.text, stored.base, stored.revision)
<1>5. /\ tab \in OpenTab /\ tab.step = "open" /\ tab.rule = r /\ tab.shows = stored.text
      /\ tab.base = stored.base /\ tab.draft = stored.revision
  BY <1>1, <1>4, OpenAtTyped
<1>6. Becomes(e, tab)
  BY <1>2
<1> HIDE DEF tab
<1>7. /\ editor' \in [Editor -> EditorState]
      /\ editor'[e] = tab
      /\ \A f \in Editor \ {e} : editor'[f] = editor[f]
  BY <1>0, <1>5, <1>6, BecomesTyped
<1>8. DocumentsTypeOK'
  BY <1>0, <1>2, <1>3, <1>7 DEF DocumentsTypeOK
<1>9. /\ rule'[r] # None /\ rule'[r].draft # None /\ rule'[r].draft = stored
      /\ version'[r] = version[r] /\ order'[r] > 0
      /\ stored.base = Len(version[r]) /\ stored.revision > 0
  <2>1. HasDraft(r) => rule[r].draft.revision \in Nat
    BY <1>0, <1>1, <1>2, RowTyped DEF Drafted, Draft
  <2> QED BY <1>1, <1>2, <1>3, <2>1 DEF Drafted, Current, stored, r
<1>10. FineTab(editor[e])'
  BY <1>4, <1>5, <1>7, <1>9 DEF FineTab, TabIsBehind, WasShown, Exists, HasDraft, Current
<1>11. \A s \in Rule : Kept(s) \/ Drafted(s)
  BY <1>2 DEF r
<1> QED BY <1>3, <1>7, <1>8, <1>10, <1>11 DEF TabEffect

LEMMA PublishEffect ==
  ASSUME DocumentsInv, NEW e \in Editor, PublishVersion(e)
  PROVE  TabEffect(e)
<1> DEFINE r == editor[e].rule   draft == rule[r].draft
<1>0. DocumentsTypeOK /\ UsedOnce /\ TabIsBehind(editor[e]) /\ editor[e].step = "promoting"
  BY DEF DocumentsInv, PublishVersion
<1>1. r \in Rule /\ order[r] > 0
  BY <1>0, TabTyped DEF OpenTab, UsedOnce
<1>2. /\ Published(r)
      /\ rule' \in [Rule -> Row \cup {None}]
      /\ version' \in [Rule -> Seq(Text)]
      /\ \A s \in Rule \ {r} : Kept(s)
      /\ Becomes(e, OpenAt(r, draft.text, Current(r) + 1, 0))
  BY <1>0, PublishIsPublished
<1>3. UNCHANGED <<texts, order, next>>
  BY DEF PublishVersion
<1>4. draft \in Draft /\ version[r] \in Seq(Text) /\ Current(r) \in Nat
  BY <1>0, <1>1, <1>2, RowTyped, CurrentTyped DEF Published, HasDraft
<1>5. draft.text \in Text /\ draft.text \in 0 .. MaxTexts
  BY <1>4, RulesAssumption DEF Draft, Text
<1> DEFINE tab == OpenAt(r, draft.text, Current(r) + 1, 0)
<1>6. /\ tab \in OpenTab /\ tab.step = "open" /\ tab.rule = r /\ tab.shows = draft.text
      /\ tab.base = Current(r) + 1 /\ tab.draft = 0
  BY <1>1, <1>4, <1>5, OpenAtTyped
<1>7. Becomes(e, tab)
  BY <1>2
<1> HIDE DEF tab
<1>8. /\ editor' \in [Editor -> EditorState]
      /\ editor'[e] = tab
      /\ \A f \in Editor \ {e} : editor'[f] = editor[f]
  BY <1>0, <1>6, <1>7, BecomesTyped
<1>9. /\ rule'[r] # None /\ version'[r] = Append(version[r], draft.text) /\ order'[r] > 0
      /\ Len(version'[r]) = Current(r) + 1 /\ version'[r][Len(version'[r])] = draft.text
  BY <1>1, <1>2, <1>3, <1>4, <1>5 DEF Published, Current
<1> HIDE DEF r, draft
<1>10. FineTab(editor[e])'
  BY <1>4, <1>6, <1>8, <1>9 DEF FineTab, TabIsBehind, WasShown, Exists, HasDraft, Current
<1>11. \A s \in Rule : Kept(s) \/ Published(s)
  BY <1>2 DEF r
<1>12. DocumentsTypeOK'
  BY <1>0, <1>2, <1>3, <1>8 DEF DocumentsTypeOK
<1> QED BY <1>3, <1>8, <1>10, <1>11, <1>12 DEF TabEffect

LEMMA TabStepEffect ==
  ASSUME DocumentsInv, RulesAssumption, NEW e \in Editor, TabStep(e)
  PROVE  TabEffect(e)
<1> DEFINE tab == editor[e]   r == editor[e].rule
<1>0. DocumentsTypeOK /\ DraftIsOfCurrent /\ UsedOnce /\ TabIsBehind(tab)
  BY DEF DocumentsInv
<1>1. tab.step # "closed" => tab \in OpenTab /\ r \in Rule /\ order[r] > 0
  BY <1>0, TabTyped DEF OpenTab, UsedOnce
<1>2. ASSUME NEW s \in Rule, ListRule(e, s) PROVE TabEffect(e)
  <2> DEFINE to == ListedAt(s, Current(s), rule[s].revision)
  <2>1. Exists(s) /\ order[s] > 0
    BY <1>0, <1>2 DEF ListRule, UsedOnce, Exists, DocumentsTypeOK
  <2>2. Current(s) \in Nat /\ rule[s].revision \in Nat
    BY <1>0, <2>1, RowTyped, CurrentTyped DEF Row
  <2>3. to \in OpenTab /\ to.step = "listed" /\ to.rule = s /\ to.base = Current(s)
    BY <2>2, RulesAssumption, ListedAtTyped
  <2>4. Becomes(e, to) /\ Unchanged
    BY <1>2 DEF ListRule, ListedAt
  <2> HIDE DEF to
  <2>5. FineTab(to)
    BY <2>1, <2>2, <2>3 DEF FineTab, TabIsBehind
  <2> QED BY <1>0, <2>4, <2>5, TabOnly
<1>3. CASE LoadDraft(e)
  <2>1. tab.step = "listed" /\ tab \in OpenTab /\ r \in Rule /\ order[r] > 0 /\ Unchanged
    BY <1>1, <1>3 DEF LoadDraft
  <2>2. CASE HasDraft(r)
    <3>0. PICK d \in Draft : d = rule[r].draft
      BY <1>0, <2>1, <2>2, RowTyped DEF HasDraft
    <3> DEFINE to == OpenAt(r, d.text, d.base, d.revision)
    <3>1. d.base = Current(r) /\ d.revision > 0 /\ Current(r) \in Nat
      BY <1>0, <2>1, <2>2, <3>0, CurrentTyped DEF DraftIsOfCurrent
    <3>2. d.text \in 0 .. MaxTexts /\ d.base \in Nat /\ d.revision \in Nat
      BY <3>1, RulesAssumption DEF Draft, Text
    <3>3. /\ to \in OpenTab /\ to.step = "open" /\ to.rule = r /\ to.shows = d.text
          /\ to.base = d.base /\ to.draft = d.revision
      BY <2>1, <3>2, OpenAtTyped
    <3>4. Becomes(e, to)
      BY <1>3, <2>2, <3>0 DEF LoadDraft
    <3> HIDE DEF to
    <3>5. FineTab(to)
      BY <2>1, <2>2, <3>0, <3>1, <3>2, <3>3 DEF FineTab, TabIsBehind, WasShown
    <3> QED BY <1>0, <2>1, <3>4, <3>5, TabOnly
  <2>3. CASE ~HasDraft(r)
    <3> DEFINE to == [tab EXCEPT !.step = "exporting"]
    <3>1. to \in OpenTab /\ to.step = "exporting" /\ to.rule = r /\ to.base = tab.base
      BY <2>1, StepTyped DEF Steps
    <3>2. Becomes(e, to)
      BY <1>3, <2>3 DEF LoadDraft
    <3> HIDE DEF to
    <3>3. FineTab(to)
      BY <1>0, <2>1, <3>1 DEF FineTab, TabIsBehind
    <3> QED BY <1>0, <2>1, <3>2, <3>3, TabOnly
  <2> QED BY <2>2, <2>3
<1>4. CASE ExportRule(e)
  <2>1. tab.step = "exporting" /\ tab \in OpenTab /\ r \in Rule /\ order[r] > 0 /\ Unchanged
    BY <1>1, <1>4 DEF ExportRule
  <2>2. CASE Exists(r) /\ Current(r) > 0
    <3> DEFINE text == version[r][Current(r)]   to == OpenAt(r, text, tab.base, 0)
    <3>1. text \in 0 .. MaxTexts /\ Current(r) \in Nat /\ tab.base \in Nat
      BY <1>0, <2>1, <2>2, CurrentTyped, RulesAssumption DEF Text, OpenTab
    <3>2. /\ to \in OpenTab /\ to.step = "open" /\ to.rule = r /\ to.shows = text
          /\ to.base = tab.base /\ to.draft = 0
      BY <2>1, <3>1, OpenAtTyped
    <3>3. Becomes(e, to)
      BY <1>4, <2>2 DEF ExportRule
    <3> HIDE DEF to
    <3>4. FineTab(to)
      BY <1>0, <2>1, <2>2, <3>1, <3>2 DEF FineTab, TabIsBehind, WasShown
    <3> QED BY <1>0, <2>1, <3>3, <3>4, TabOnly
  <2>3. CASE ~(Exists(r) /\ Current(r) > 0)
    BY <1>0, <1>4, <2>1, <2>3, ClosedIsFine DEF ExportRule
  <2> QED BY <2>2, <2>3
<1>5. CASE DeleteRule(e)
  <2>1. r \in Rule
    BY <1>1, <1>5 DEF DeleteRule
  <2>2. \/ UNCHANGED <<rule, version>>
        \/ rule' = [rule EXCEPT ![r] = None] /\ version' = [version EXCEPT ![r] = <<>>]
    BY <1>5 DEF DeleteRule
  <2>3. rule' \in [Rule -> Row \cup {None}] /\ version' \in [Rule -> Seq(Text)]
    <3>1. <<>> \in Seq(Text) /\ None \in Row \cup {None}
      OBVIOUS
    <3>2. rule \in [Rule -> Row \cup {None}] /\ version \in [Rule -> Seq(Text)]
      BY <1>0 DEF DocumentsTypeOK
    <3> QED BY <2>1, <2>2, <3>1, <3>2
  <2>4. \A s \in Rule : Kept(s) \/ Deleted(s)
    BY <1>0, <2>1, <2>2 DEF DocumentsTypeOK, Kept, Deleted
  <2>5. /\ editor' \in [Editor -> EditorState]
        /\ editor'[e] = Closed
        /\ \A f \in Editor \ {e} : editor'[f] = editor[f]
    BY <1>0, <1>5, BecomesTyped DEF DeleteRule, Close
  <2>6. UNCHANGED <<texts, order, next>>
    BY <1>5 DEF DeleteRule
  <2>7. FineTab(editor[e])'
    BY <2>5 DEF FineTab
  <2> QED BY <1>0, <2>3, <2>4, <2>5, <2>6, <2>7 DEF TabEffect, DocumentsTypeOK
<1>6. CASE CloseTab(e)
  BY <1>0, <1>6, ClosedIsFine DEF CloseTab
<1>7. ASSUME NEW goal \in {"saving", "publishing", "importing"}, Send(e, goal)
      PROVE  TabEffect(e)
  <2> DEFINE to == [tab EXCEPT !.step = goal]
  <2>1. tab.step = "open" /\ tab \in OpenTab /\ order[r] > 0 /\ Unchanged /\ Becomes(e, to)
    BY <1>1, <1>7 DEF Send
  <2>2. /\ to \in OpenTab /\ to.step = goal /\ to.rule = r /\ to.shows = tab.shows
        /\ to.base = tab.base /\ to.draft = tab.draft
    <3>1. goal \in Steps
      BY DEF Steps
    <3> QED BY <2>1, <3>1, StepTyped
  <2> HIDE DEF to
  <2>3. FineTab(to)
    BY <1>0, <2>1, <2>2 DEF FineTab, TabIsBehind
  <2> QED BY <1>0, <2>1, <2>3, TabOnly
<1>8. CASE SaveDraft(e) \/ ImportStores(e)
  BY <1>8, StoreEffect DEF SaveDraft, ImportStores
<1>9. CASE SaveRefused(e) \/ ImportRefused(e)
  BY <1>0, <1>9, ClosedIsFine DEF SaveRefused, ImportRefused, RefuseDraft
<1>10. CASE ReadForPublish(e)
  <2>1. tab.step = "publishing" /\ tab \in OpenTab /\ r \in Rule /\ order[r] > 0 /\ Unchanged
    BY <1>1, <1>10 DEF ReadForPublish
  <2>2. CASE Close(e)
    BY <1>0, <2>1, <2>2, ClosedIsFine
  <2>3. CASE ~Close(e)
    <3>0. PICK d : d = rule[r].draft
      OBVIOUS
    <3> DEFINE to == Promoting(tab, d)
    <3>1. /\ HasDraft(r) /\ d.base = tab.base /\ d.revision = tab.draft
          /\ Becomes(e, to)
      BY <1>10, <2>3, <3>0 DEF ReadForPublish, Promoting
    <3>2. d \in Draft /\ d.base = Current(r) /\ d.revision > 0 /\ Current(r) \in Nat
      BY <1>0, <2>1, <3>0, <3>1, RowTyped, CurrentTyped DEF HasDraft, DraftIsOfCurrent
    <3>3. /\ to \in OpenTab /\ to.step = "promoting" /\ to.rule = r /\ to.shows = tab.shows
          /\ to.base = tab.base /\ to.draft = tab.draft /\ to.read = d
      BY <2>1, <3>2, PromotingTyped
    <3> HIDE DEF to
    <3>4. d.revision \in Nat
      BY <3>2 DEF Draft
    <3>5. WasShown(r, tab.base, tab.draft, d.text)
      BY <3>0, <3>1, <3>2, <3>4 DEF WasShown
    <3>6. FineTab(to)
      BY <1>0, <2>1, <3>1, <3>2, <3>3, <3>5 DEF FineTab, TabIsBehind
    <3> QED BY <1>0, <2>1, <3>1, <3>6, TabOnly
  <2> QED BY <2>2, <2>3
<1>11. CASE PublishVersion(e)
  BY <1>11, PublishEffect
<1>12. CASE PublishRefused(e)
  BY <1>0, <1>12, ClosedIsFine DEF PublishRefused
<1>13. CASE ImportReadsDraft(e) \/ ImportReadsVersion(e)
  <2>1. tab.step # "closed" /\ tab \in OpenTab /\ r \in Rule /\ order[r] > 0 /\ Unchanged
    BY <1>1, <1>13 DEF ImportReadsDraft, ImportReadsVersion
  <2>2. PICK to : /\ Becomes(e, to)
                  /\ \/ to = [tab EXCEPT !.step = "basing"]
                     \/ \E base \in Nat : to = [tab EXCEPT !.step = "storing", !.base = base]
    <3>1. Current(r) \in Nat /\ (HasDraft(r) => rule[r].draft.base \in Nat)
      BY <1>0, <2>1, RowTyped, CurrentTyped DEF Draft, HasDraft
    <3> QED BY <1>13, <3>1 DEF ImportReadsDraft, ImportReadsVersion
  <2>3. to \in OpenTab /\ to.step \in {"basing", "storing"} /\ to.rule = r
    <3>1. "basing" \in Steps /\ "storing" \in Steps
      BY DEF Steps
    <3>2. CASE to = [tab EXCEPT !.step = "basing"]
      BY <2>1, <3>1, <3>2, StepTyped
    <3>3. ASSUME NEW base \in Nat, to = [tab EXCEPT !.step = "storing", !.base = base]
          PROVE  to \in OpenTab /\ to.step \in {"basing", "storing"} /\ to.rule = r
      BY <2>1, <3>1, <3>3, StepBaseTyped
    <3> QED BY <2>2, <3>2, <3>3
  <2>4. FineTab(to)
    BY <2>1, <2>3 DEF FineTab, TabIsBehind
  <2> QED BY <1>0, <2>1, <2>2, <2>4, TabOnly
<1> QED
  BY <1>2, <1>3, <1>4, <1>5, <1>6, <1>7, <1>8, <1>9, <1>10, <1>11, <1>12, <1>13
     DEF TabStep, StartSave, StartPublish, StartImport

-----------------------------------------------------------------------------
(* The catalogue's steps *)

LEMMA AddEffect ==
  ASSUME DocumentsInv, RulesAssumption, NEW r \in Rule,
         texts < MaxTexts, AddRule(r, texts + 1)
  PROVE  /\ DocumentsTypeOK'
         /\ Added(r) /\ \A s \in Rule \ {r} : Kept(s) /\ order'[s] = order[s]
         /\ order'[r] > 0
         /\ UNCHANGED editor
<1> DEFINE text == texts + 1
           row == [revision |-> 1, columns |-> text, draft |-> NewDraft(0, text)]
<1>1. text \in Text /\ text \in 0 .. MaxTexts /\ next + 1 \in Nat /\ next + 1 > 0
  BY RulesAssumption DEF DocumentsInv, DocumentsTypeOK, Text
<1>2. /\ rule' = [rule EXCEPT ![r] = row]
      /\ texts' = text /\ next' = next + 1
      /\ order' = [order EXCEPT ![r] = next + 1]
      /\ UNCHANGED <<version, editor>> /\ order[r] = 0
  BY DEF AddRule, Unused
<1> HIDE DEF text
<1>3. NewDraft(0, text) \in Draft
  BY <1>1 DEF NewDraft, Draft
<1>4. row \in Row
  BY <1>1, <1>3 DEF Row
<1>5. DocumentsTypeOK'
  BY <1>1, <1>2, <1>4 DEF DocumentsInv, DocumentsTypeOK
<1>6. rule'[r] = row /\ row # None /\ row.draft # None
  BY <1>2, <1>3, <1>4, NoneAssumption DEF DocumentsInv, DocumentsTypeOK
<1>7. Added(r)
  BY <1>2, <1>6 DEF Added, NewDraft
<1> QED BY <1>1, <1>2, <1>5, <1>7 DEF DocumentsInv, DocumentsTypeOK, Kept

LEMMA ReorderEffect ==
  ASSUME DocumentsInv, RulesAssumption, ReorderRules
  PROVE  /\ DocumentsTypeOK'
         /\ \A r \in Rule : order'[r] > 0 <=> order[r] > 0
         /\ UNCHANGED <<rule, version, editor>>
<1> DEFINE found == {r \in Rule : Exists(r)}
<1>1. Cardinality(found) \in Nat
  <2>1. IsFiniteSet(found)
    BY FS_Subset DEF RulesAssumption
  <2> QED BY <2>1, FS_CardinalityType
<1>2. PICK to \in [found -> 1 .. Cardinality(found)] :
        order' = [r \in Rule |-> IF r \in found THEN to[r] ELSE order[r]]
  BY DEF ReorderRules
<1>3. \A r \in found : to[r] \in Nat /\ to[r] > 0
  BY <1>1, <1>2
<1>4. \A r \in found : order[r] > 0
  BY DEF DocumentsInv, DocumentsTypeOK, UsedOnce, Exists
<1>5. order' \in [Rule -> Nat] /\ \A r \in Rule : order'[r] > 0 <=> order[r] > 0
  <2>1. \A r \in Rule : order'[r] = IF r \in found THEN to[r] ELSE order[r]
    BY <1>2
  <2> HIDE DEF found
  <2> QED BY <1>2, <1>3, <1>4, <2>1 DEF DocumentsInv, DocumentsTypeOK
<1> QED BY <1>5 DEF ReorderRules, DocumentsInv, DocumentsTypeOK

-----------------------------------------------------------------------------
(* The invariant *)

\* A tab that a step leaves alone is as far behind its rule as before, or more.
LEMMA TabKept ==
  ASSUME DocumentsInv, DocumentsTypeOK', NEW f \in Editor, editor'[f] = editor[f],
         editor[f].step # "closed" =>
           \/ Kept(editor[f].rule) \/ Deleted(editor[f].rule)
           \/ Drafted(editor[f].rule) \/ Published(editor[f].rule)
  PROVE  TabIsBehind(editor[f])'
<1>1. PICK tab : tab = editor[f]
  OBVIOUS
<1>2. CASE tab.step = "closed"
  BY <1>1, <1>2 DEF TabIsBehind
<1>3. CASE tab.step # "closed"
  <2>1. tab \in OpenTab /\ tab.rule \in Rule
    BY <1>1, <1>3, TabTyped DEF DocumentsInv, OpenTab
  <2>2. DocumentsTypeOK /\ DraftIsOfCurrent /\ TabIsBehind(tab)
    BY <1>1 DEF DocumentsInv
  <2>3. Kept(tab.rule) \/ Deleted(tab.rule) \/ Drafted(tab.rule) \/ Published(tab.rule)
    BY <1>1, <1>3
  <2>4. tab.base \in Nat /\ tab.draft \in Nat
    BY <2>1 DEF OpenTab
  <2>5. ASSUME NEW text, WasShown(tab.rule, tab.base, tab.draft, text)
        PROVE  WasShown(tab.rule, tab.base, tab.draft, text)'
    BY <2>1, <2>2, <2>3, <2>4, <2>5, WasShownStep
  <2>6. tab.base <= Current(tab.rule) /\ Exists(tab.rule) =>
          (Exists(tab.rule)' => tab.base <= Current(tab.rule)')
    <3>1. Current(tab.rule) \in Nat /\ version[tab.rule] \in Seq(Text)
      BY <2>1, <2>2, CurrentTyped
    <3>2. CASE Published(tab.rule)
      <4>1. rule[tab.rule].draft.text \in Text
        BY <2>1, <2>2, <3>2, RowTyped DEF Published, HasDraft, Draft
      <4>2. Current(tab.rule)' = Current(tab.rule) + 1
        BY <3>1, <3>2, <4>1 DEF Published, Current
      <4> QED BY <2>4, <3>1, <4>2
    <3>3. CASE ~Published(tab.rule)
      BY <2>3, <3>3 DEF Kept, Deleted, Drafted, Exists, Current
    <3> QED BY <3>2, <3>3
  <2>7. Exists(tab.rule)' => Exists(tab.rule)
    BY <2>3 DEF Kept, Deleted, Drafted, Published, HasDraft, Exists
  <2>8. TabIsBehind(tab)'
    BY <2>2, <2>5, <2>6, <2>7 DEF TabIsBehind
  <2> QED BY <1>1, <2>8 DEF TabIsBehind, WasShown, Exists, HasDraft, Current
<1> QED BY <1>2, <1>3

LEMMA TabStepInv ==
  ASSUME DocumentsInv, RulesAssumption, NEW e \in Editor, TabStep(e)
  PROVE  DocumentsInv'
<1>1. /\ DocumentsTypeOK' /\ order' = order
      /\ \A r \in Rule : Kept(r) \/ Deleted(r) \/ Drafted(r) \/ Published(r)
      /\ \A f \in Editor \ {e} : editor'[f] = editor[f]
      /\ FineTab(editor[e])'
  BY TabStepEffect DEF TabEffect
<1>2. DocumentsTypeOK /\ DraftIsOfCurrent /\ UsedOnce /\ RowMatchesVersion
  BY DEF DocumentsInv
<1>3. ASSUME NEW r \in Rule
      PROVE  /\ HasDraft(r)' => /\ rule'[r].draft.base = Len(version'[r])
                                /\ rule'[r].draft.revision > 0
             /\ order'[r] = 0 => rule'[r] = None /\ version'[r] = <<>>
             /\ Exists(r)' /\ Len(version'[r]) > 0 =>
                  rule'[r].columns = version'[r][Len(version'[r])]
  <2>1. version[r] \in Seq(Text) /\ Current(r) \in Nat
    BY <1>2, CurrentTyped
  <2>2. CASE Kept(r)
    BY <1>1, <1>2, <2>2
       DEF Kept, DraftIsOfCurrent, UsedOnce, RowMatchesVersion, HasDraft, Exists, Current
  <2>3. CASE Deleted(r)
    BY <2>3 DEF Deleted, HasDraft, Exists
  <2>4. CASE Drafted(r)
    <3>1. HasDraft(r) => rule[r].draft.revision \in Nat
      BY <1>2, RowTyped DEF HasDraft, Draft
    <3> QED BY <1>1, <1>2, <2>4, <3>1
            DEF Drafted, UsedOnce, RowMatchesVersion, HasDraft, Exists, Current
  <2>5. CASE Published(r)
    <3>1. rule[r].draft.text \in Text
      BY <1>2, <2>5, RowTyped DEF Published, HasDraft, Draft
    <3>2. Len(version'[r]) = Len(version[r]) + 1
          /\ version'[r][Len(version'[r])] = rule[r].draft.text
      BY <2>1, <2>5, <3>1 DEF Published
    <3> QED BY <1>1, <1>2, <2>5, <3>2 DEF Published, UsedOnce, HasDraft, Exists
  <2> QED BY <1>1, <2>2, <2>3, <2>4, <2>5
<1>4. ASSUME NEW f \in Editor
      PROVE  /\ TabIsBehind(editor[f])'
             /\ editor'[f].step # "closed" => order'[editor'[f].rule] > 0
  <2>1. CASE f = e
    <3>1. CASE editor'[e] = Closed
      BY <2>1, <3>1 DEF TabIsBehind, Closed
    <3>2. CASE editor'[e] # Closed
      BY <1>1, <2>1, <3>2 DEF FineTab
    <3> QED BY <3>1, <3>2
  <2>2. CASE f # e
    <3>1. editor'[f] = editor[f]
      BY <1>1, <2>2
    <3>2. editor[f].step # "closed" => editor[f].rule \in Rule /\ order[editor[f].rule] > 0
      BY <1>2, TabTyped DEF OpenTab, UsedOnce
    <3> QED BY <1>1, <3>1, <3>2, TabKept
  <2> QED BY <2>1, <2>2
<1> QED BY <1>1, <1>3, <1>4
        DEF DocumentsInv, DraftIsOfCurrent, UsedOnce, RowMatchesVersion, Current

LEMMA AddInv ==
  ASSUME DocumentsInv, RulesAssumption, NEW r \in Rule,
         texts < MaxTexts, AddRule(r, texts + 1)
  PROVE  DocumentsInv'
<1>1. /\ DocumentsTypeOK'
      /\ Added(r) /\ \A s \in Rule \ {r} : Kept(s) /\ order'[s] = order[s]
      /\ order'[r] > 0
      /\ editor' = editor
  BY AddEffect
<1>2. DocumentsTypeOK /\ DraftIsOfCurrent /\ UsedOnce /\ RowMatchesVersion
  BY DEF DocumentsInv
<1>3. version'[r] = <<>>
  BY <1>1, <1>2 DEF Added, UsedOnce
<1>4. DraftIsOfCurrent'
  BY <1>1, <1>2, <1>3 DEF DraftIsOfCurrent, Added, Kept, HasDraft, Exists, Current
<1>5. RowMatchesVersion'
  BY <1>1, <1>2, <1>3 DEF RowMatchesVersion, Added, Kept, Exists, Current
<1>6. ASSUME NEW f \in Editor, editor[f].step # "closed"
      PROVE  editor[f].rule \in Rule \ {r} /\ order[editor[f].rule] > 0
  BY <1>1, <1>2, <1>6, TabTyped DEF OpenTab, UsedOnce, Added
<1>7. UsedOnce'
  BY <1>1, <1>2, <1>6 DEF UsedOnce, Kept
<1>8. ASSUME NEW f \in Editor PROVE TabIsBehind(editor[f])'
  BY <1>1, <1>6, TabKept
<1> QED BY <1>1, <1>4, <1>5, <1>7, <1>8 DEF DocumentsInv

LEMMA ReorderInv ==
  ASSUME DocumentsInv, RulesAssumption, ReorderRules
  PROVE  DocumentsInv'
<1>1. /\ DocumentsTypeOK'
      /\ \A r \in Rule : order'[r] > 0 <=> order[r] > 0
      /\ UNCHANGED <<rule, version, editor>>
  BY ReorderEffect
<1>2. \A r \in Rule : order[r] \in Nat /\ order'[r] \in Nat
  BY <1>1 DEF DocumentsInv, DocumentsTypeOK
<1>3. \A f \in Editor : editor[f].step # "closed" => editor[f].rule \in Rule
  BY TabTyped DEF DocumentsInv, OpenTab
<1>4. UsedOnce'
  BY <1>1, <1>2, <1>3 DEF DocumentsInv, UsedOnce
<1> QED BY <1>1, <1>4
        DEF DocumentsInv, DraftIsOfCurrent, RowMatchesVersion, TabIsBehind, WasShown, HasDraft,
            Exists, Current

LEMMA DocumentsInitInv == ASSUME DocumentsInit, RulesAssumption PROVE DocumentsInv
<1>1. /\ rule = [r \in Rule |-> None] /\ version = [r \in Rule |-> <<>>]
      /\ editor = [e \in Editor |-> Closed] /\ texts = 0
      /\ order = [r \in Rule |-> 0] /\ next = 0
  BY DEF DocumentsInit
<1>2. DocumentsTypeOK
  BY <1>1, RulesAssumption DEF DocumentsTypeOK, EditorState
<1>3. \A r \in Rule : ~Exists(r)
  BY <1>1 DEF Exists
<1>4. \A e \in Editor : editor[e].step = "closed"
  BY <1>1 DEF Closed
<1> QED BY <1>1, <1>2, <1>3, <1>4
        DEF DocumentsInv, DraftIsOfCurrent, UsedOnce, RowMatchesVersion, TabIsBehind, HasDraft

LEMMA DocumentsStep ==
  DocumentsInv /\ RulesAssumption /\ [DocumentsNext]_documentVars => DocumentsInv'
<1> SUFFICES ASSUME DocumentsInv, RulesAssumption, [DocumentsNext]_documentVars
             PROVE  DocumentsInv'
  OBVIOUS
<1>1. ASSUME NEW r \in Rule, CreateRule(r) \/ (\E s \in Rule : CopyRule(r, s)) PROVE DocumentsInv'
  BY <1>1, AddInv DEF CreateRule, CopyRule
<1>2. CASE ReorderRules
  BY <1>2, ReorderInv
<1>3. ASSUME NEW e \in Editor, TabStep(e) PROVE DocumentsInv'
  BY <1>3, TabStepInv
<1>4. CASE UNCHANGED documentVars
  BY <1>4 DEF documentVars, DocumentsInv, DocumentsTypeOK, DraftIsOfCurrent, UsedOnce,
              RowMatchesVersion, TabIsBehind, WasShown, HasDraft, Exists, Current
<1> QED BY <1>1, <1>2, <1>3, <1>4 DEF DocumentsNext

-----------------------------------------------------------------------------
(* The theorems *)

\* The invariant holds in every state of every execution.
THEOREM DocumentsInvariant == DocumentsSpec => []DocumentsInv
<1>1. DocumentsInit => DocumentsInv
  BY DocumentsInitInv, RulesAssumption
<1>2. DocumentsInv /\ [DocumentsNext]_documentVars => DocumentsInv'
  BY DocumentsStep, RulesAssumption
<1> QED BY <1>1, <1>2, PTL DEF DocumentsSpec

\* A rule runs under the name and actions of its current version.
THEOREM RowsMatchVersions == DocumentsSpec => []RowMatchesVersion
<1>1. DocumentsInv => RowMatchesVersion
  BY DEF DocumentsInv
<1> QED BY <1>1, DocumentsInvariant, PTL

\* A save that is accepted replaces what its tab was shown.
LEMMA SaveReplacesShown ==
  ASSUME DocumentsInv, [DocumentsNext]_documentVars, NEW e \in Editor,
         editor[e].step = "saving", editor'[e].step = "open"
  PROVE  Shown(editor[e].rule) = editor[e].shows
<1> DEFINE tab == editor[e]   r == editor[e].rule
<1>1. DocumentsTypeOK /\ DraftIsOfCurrent /\ TabIsBehind(tab)
  BY DEF DocumentsInv
<1>2. tab \in OpenTab /\ r \in Rule
  BY <1>1, TabTyped DEF OpenTab
<1>3. ASSUME NEW f \in Editor, TabStep(f) PROVE f = e
  <2>1. PICK to : Becomes(f, to)
    BY <1>3 DEF TabStep, ListRule, LoadDraft, ExportRule, DeleteRule, CloseTab, StartSave,
                StartPublish, StartImport, Send, SaveDraft, SaveRefused, ReadForPublish,
                PublishVersion, PublishRefused, ImportReadsDraft, ImportReadsVersion,
                ImportStores, ImportRefused, StoreDraft, RefuseDraft, Close
  <2> QED BY <1>1, <2>1 DEF Becomes, DocumentsTypeOK
<1>4. TabStep(e)
  <2>1. editor' # editor
    OBVIOUS
  <2>2. ~(\E s \in Rule : CreateRule(s) \/ \E u \in Rule : CopyRule(s, u)) /\ ~ReorderRules
        /\ ~(UNCHANGED documentVars)
    BY <2>1 DEF CreateRule, CopyRule, AddRule, ReorderRules, documentVars
  <2> QED BY <1>3, <2>2 DEF DocumentsNext
<1>5. SaveDraft(e)
  <2>1. ~SaveRefused(e)
    BY DEF SaveRefused, RefuseDraft, Close, Becomes, Closed, DocumentsInv, DocumentsTypeOK
  <2> QED
    BY <1>4, <2>1
       DEF TabStep, ListRule, LoadDraft, ExportRule, DeleteRule, CloseTab, StartSave,
           StartPublish, StartImport, Send, ReadForPublish, PublishVersion, PublishRefused,
           ImportReadsDraft, ImportReadsVersion, ImportStores, ImportRefused
<1>6. Accepts(r, tab.draft, tab.base)
  BY <1>5 DEF SaveDraft, StoreDraft
<1>7. WasShown(r, tab.base, tab.draft, tab.shows)
  BY <1>1 DEF TabIsBehind
<1>8. HasDraft(r) => rule[r].draft.revision \in Nat
  BY <1>1, <1>2, RowTyped DEF HasDraft, Draft
<1> QED BY <1>1, <1>2, <1>6, <1>7, <1>8 DEF Accepts, WasShown, Shown, DraftIsOfCurrent

(* An accepted save never writes over a version of the rule that its tab was
   not shown: for any number of tabs, rules and versions (save_draft looks at the
   base version and at the draft's revision). *)
THEOREM NoUpdateIsLost == DocumentsSpec => NoLostUpdate
<1>1. DocumentsInv /\ [DocumentsNext]_documentVars =>
        [\A e \in Editor :
           editor[e].step = "saving" /\ editor'[e].step = "open" =>
             Shown(editor[e].rule) = editor[e].shows]_documentVars
  BY SaveReplacesShown
<1> QED BY <1>1, DocumentsInvariant, PTL DEF DocumentsSpec, NoLostUpdate

-----------------------------------------------------------------------------
(***************************************************************************)
(* Proofs about RuleEvaluation, for any definition, work and pages: the    *)
(* loops over groups and conditions decide what the definition means. The  *)
(* invariant says of each list of results that it answers for the          *)
(* conditions passed so far, none of which stopped its loop.               *)
(***************************************************************************)

\* What each condition and each group that has been left says, and that it did
\* not stop its loop.
GroupsSoFar ==
  /\ Len(groups) < Len(definition.groups)
  /\ \A i \in 1 .. Len(groups) :
       /\ groups[i] = GroupHolds(definition.groups[i])
       /\ ~Stops(definition.mode, groups[i])
ConditionsSoFar ==
  /\ Len(conditions) < Len(Group.conditions)
  /\ \A i \in 1 .. Len(conditions) :
       /\ conditions[i] = ConditionHolds(Group.conditions[i])
       /\ ~Stops(Group.mode, conditions[i])
\* The pages looked at leave the condition under way open.
PagesSoFar ==
  page > 0 =>
    /\ known /\ OnPages /\ page < Len(work.pages)
    /\ \A p \in 1 .. page :
         ~Stops(Condition.page_quantifier, Holds(Condition, work.pages[p][Condition.field], Now))

EvaluationInv ==
  /\ EvaluationTypeOK
  /\ (step = "evaluating" /\ definition.enabled) => GroupsSoFar /\ ConditionsSoFar /\ PagesSoFar
  /\ step = "fetching" => definition.enabled /\ groups = <<>> /\ conditions = <<>> /\ page = 0
  /\ DecidesAsMeant

LEMMA Lists ==
  ASSUME NEW s, IsList(s)
  PROVE  Len(s) \in Nat /\ DOMAIN s = 1 .. Len(s) /\ (s # <<>> => Len(s) > 0)
<1>1. PICK S : s \in Seq(S)
  BY DEF IsList
<1> QED BY <1>1

\* Every operator answers with yes or no.
LEMMA HoldsIsBoolean ==
  ASSUME NEW c, NEW value, NEW now, c.operator \in Operator
  PROVE  Holds(c, value, now) \in BOOLEAN
<1> DEFINE o == c.operator
<1>1. \/ o \in {"Exists", "Missing", "IsTrue", "IsFalse", "Equals", "NotEquals"}
      \/ o \in Limits \cup {"Between", "NotBetween", "NotContains", "InSet", "NotInSet"} \cup Match
      \/ o \in {"InAny", "NotInAny", "TagNameContains", "TagNameNotContains"} \cup TagLists
      \/ o \in {"Before", "After", "RecentHours", "RecentDays"} \cup Counts
  BY DEF Operator, OperatorsFor, ValueType, FieldOf, Limits, TagLists, Counts
<1>2. CASE o \in {"Exists", "Missing", "IsTrue", "IsFalse", "Equals", "NotEquals"}
  BY <1>2 DEF Holds, Same
<1>3. CASE o \in Limits \cup {"Between", "NotBetween", "NotContains", "InSet", "NotInSet"} \cup Match
  BY <1>3 DEF Holds, Limits, Match, Above, Below
<1>4. CASE o \in {"InAny", "NotInAny", "TagNameContains", "TagNameNotContains"} \cup TagLists
  BY <1>4 DEF Holds, TagLists, NoNameContains
<1>5. CASE o \in {"Before", "After", "RecentHours", "RecentDays"} \cup Counts
  BY <1>5 DEF Holds, Counts, Above, Below, Recent
<1> QED BY <1>1, <1>2, <1>3, <1>4, <1>5

\* A loop that is left says what the whole list of its members means.
LEMMA LoopMeans ==
  ASSUME NEW mode \in GroupMode, NEW n \in Nat, NEW meant \in [1 .. n -> BOOLEAN],
         NEW results \in Seq(BOOLEAN), Len(results) \in 1 .. n,
         \A i \in 1 .. Len(results) : results[i] = meant[i],
         \A i \in 1 .. Len(results) - 1 : ~Stops(mode, results[i]),
         Stops(mode, results[Len(results)]) \/ Len(results) = n
  PROVE  Combine(mode, results) = IF mode = "all" THEN \A i \in 1 .. n : meant[i]
                                  ELSE \E i \in 1 .. n : meant[i]
<1> DEFINE k == Len(results)
<1>0. k \in Nat \ {0} /\ k <= n
  OBVIOUS
<1>1. results # <<>> /\ DOMAIN results = 1 .. k /\ \A i \in 1 .. k : i \in 1 .. k - 1 \/ i = k
  BY <1>0
<1>2. CASE mode = "all"
  <2>1. \A i \in 1 .. k - 1 : results[i]
    BY <1>2 DEF Stops
  <2>2. CASE results[k]
    <3>1. k = n
      BY <1>2, <2>2 DEF Stops
    <3>2. \A i \in 1 .. n : meant[i]
      BY <1>1, <2>1, <2>2, <3>1
    <3>3. \A i \in 1 .. k : results[i]
      BY <1>1, <2>1, <2>2
    <3> QED BY <1>1, <1>2, <3>2, <3>3 DEF Combine
  <2>3. CASE ~results[k]
    <3>1. ~meant[k] /\ k \in 1 .. n /\ k \in 1 .. k
      BY <1>0, <2>3
    <3> QED BY <1>1, <1>2, <2>3, <3>1 DEF Combine
  <2> QED BY <2>2, <2>3
<1>3. CASE mode = "any"
  <2>1. \A i \in 1 .. k - 1 : ~results[i]
    BY <1>3 DEF Stops
  <2>2. CASE results[k]
    <3>1. meant[k] /\ k \in 1 .. n /\ k \in 1 .. k
      BY <1>0, <2>2
    <3> QED BY <1>1, <1>3, <2>2, <3>1 DEF Combine
  <2>3. CASE ~results[k]
    <3>1. k = n
      BY <1>3, <2>3 DEF Stops
    <3>2. \A i \in 1 .. n : ~meant[i]
      BY <1>1, <2>1, <2>3, <3>1
    <3>3. \A i \in 1 .. k : ~results[i]
      BY <1>1, <2>1, <2>3
    <3> QED BY <1>1, <1>3, <3>2, <3>3 DEF Combine
  <2> QED BY <2>2, <2>3
<1> QED BY <1>2, <1>3 DEF GroupMode

LEMMA Appended ==
  ASSUME NEW s \in Seq(BOOLEAN), NEW x \in BOOLEAN
  PROVE  /\ Append(s, x) \in Seq(BOOLEAN) /\ Len(Append(s, x)) = Len(s) + 1
         /\ \A i \in 1 .. Len(s) : Append(s, x)[i] = s[i]
         /\ Append(s, x)[Len(s) + 1] = x
  OBVIOUS

\* The definition under evaluation.
LEMMA DefinitionIs ==
  ASSUME EvaluationTypeOK, DefinitionAssumption
  PROVE  /\ definition.enabled \in BOOLEAN /\ definition.mode \in GroupMode
         /\ Len(definition.groups) \in Nat \ {0}
         /\ DOMAIN definition.groups = 1 .. Len(definition.groups)
         /\ \A g \in 1 .. Len(definition.groups) :
              /\ definition.groups[g].mode \in GroupMode
              /\ Len(definition.groups[g].conditions) \in Nat \ {0}
              /\ DOMAIN definition.groups[g].conditions = 1 .. Len(definition.groups[g].conditions)
              /\ \A i \in 1 .. Len(definition.groups[g].conditions) :
                   /\ definition.groups[g].conditions[i].operator \in Operator
                   /\ definition.groups[g].conditions[i].page_quantifier \in {Missing, "any", "all"}
         /\ Len(work.pages) \in Nat /\ DOMAIN work.pages = 1 .. Len(work.pages)
         /\ work.pages # <<>> => Len(work.pages) > 0
<1>1. WellTyped(definition) /\ ValidDefinition(definition) /\ IsList(work.pages)
  BY DEF EvaluationTypeOK, DefinitionAssumption
<1>2. /\ Len(definition.groups) \in Nat \ {0}
      /\ DOMAIN definition.groups = 1 .. Len(definition.groups)
  BY <1>1, Lists DEF WellTyped, ValidDefinition
<1>3. ASSUME NEW g \in 1 .. Len(definition.groups)
      PROVE  /\ definition.groups[g].mode \in GroupMode
             /\ Len(definition.groups[g].conditions) \in Nat \ {0}
             /\ DOMAIN definition.groups[g].conditions = 1 .. Len(definition.groups[g].conditions)
  BY <1>1, <1>2, Lists DEF WellTyped, ValidDefinition
<1>4. /\ Len(work.pages) \in Nat /\ DOMAIN work.pages = 1 .. Len(work.pages)
      /\ work.pages # <<>> => Len(work.pages) > 0
  BY <1>1, Lists
<1> QED BY <1>1, <1>2, <1>3, <1>4 DEF WellTyped

\* The group and the condition under way.
LEMMA UnderWay ==
  ASSUME EvaluationTypeOK, DefinitionAssumption, GroupsSoFar, ConditionsSoFar
  PROVE  /\ Len(groups) \in Nat /\ Len(groups) + 1 \in 1 .. Len(definition.groups)
         /\ Len(conditions) \in Nat /\ Len(conditions) + 1 \in 1 .. Len(Group.conditions)
         /\ Group.mode \in GroupMode /\ Len(Group.conditions) \in Nat \ {0}
         /\ DOMAIN Group.conditions = 1 .. Len(Group.conditions)
         /\ \A i \in 1 .. Len(Group.conditions) : Group.conditions[i].operator \in Operator
         /\ Condition.page_quantifier \in {Missing, "any", "all"}
         /\ Condition.operator \in Operator
<1>1. groups \in Seq(BOOLEAN) /\ conditions \in Seq(BOOLEAN)
  BY DEF EvaluationTypeOK
<1>2. Len(groups) \in Nat /\ Len(conditions) \in Nat
  BY <1>1
<1>3. Len(groups) + 1 \in 1 .. Len(definition.groups)
  BY <1>2, DefinitionIs DEF GroupsSoFar
<1>4. /\ Group.mode \in GroupMode /\ Len(Group.conditions) \in Nat \ {0}
      /\ DOMAIN Group.conditions = 1 .. Len(Group.conditions)
      /\ \A i \in 1 .. Len(Group.conditions) :
           /\ Group.conditions[i].operator \in Operator
           /\ Group.conditions[i].page_quantifier \in {Missing, "any", "all"}
  BY <1>3, DefinitionIs DEF Group
<1>5. Len(conditions) + 1 \in 1 .. Len(Group.conditions)
  BY <1>2, <1>4 DEF ConditionsSoFar
<1> QED BY <1>2, <1>3, <1>4, <1>5 DEF Condition

\* An evaluation that begins has a first group with a first condition.
LEMMA BeginningHolds ==
  ASSUME EvaluationTypeOK, DefinitionAssumption
  PROVE  /\ Len(<<>>) = 0 /\ 0 < Len(definition.groups)
         /\ 0 < Len(definition.groups[1].conditions)
         /\ Len(<<>>) + 1 = 1
<1>1. Len(definition.groups) \in Nat \ {0}
  BY DefinitionIs
<1>2. 1 \in 1 .. Len(definition.groups)
  BY <1>1
<1>3. Len(definition.groups[1].conditions) \in Nat \ {0}
  BY <1>2, DefinitionIs
<1> QED BY <1>1, <1>3

LEMMA MeaningIsBoolean ==
  ASSUME NEW c, c.operator \in Operator
  PROVE  ConditionHolds(c) \in BOOLEAN
  BY HoldsIsBoolean DEF ConditionHolds

\* What a definition means does not change while it is evaluated.
LEMMA MeaningStays ==
  ASSUME UNCHANGED <<definition, work>>
  PROVE  /\ \A i : GroupHolds(definition.groups[i])' = GroupHolds(definition.groups[i])
         /\ RuleHolds' = RuleHolds
<1>1. ASSUME NEW c PROVE ConditionHolds(c)' = ConditionHolds(c)
  BY DEF ConditionHolds
<1>2. ASSUME NEW i PROVE GroupHolds(definition.groups[i])' = GroupHolds(definition.groups[i])
  BY DEF GroupHolds, ConditionHolds
<1>3. RuleHolds' = RuleHolds
  BY DEF RuleHolds, GroupHolds, ConditionHolds
<1> QED BY <1>2, <1>3

LEMMA GroupEnds ==
  ASSUME EvaluationTypeOK, DefinitionAssumption, GroupsSoFar, ConditionsSoFar,
         step = "evaluating", definition.enabled, UNCHANGED <<definition, work, known>>,
         SettleGroup(GroupHolds(Group)), page' = 0
  PROVE  EvaluationInv'
<1> DEFINE result == GroupHolds(Group)
           results == Append(groups, result)
           n == Len(definition.groups)
           meant == [i \in 1 .. n |-> GroupHolds(definition.groups[i])]
<1>0. groups \in Seq(BOOLEAN) /\ result \in BOOLEAN
  BY DEF EvaluationTypeOK, GroupHolds
<1>1. n \in Nat \ {0} /\ meant \in [1 .. n -> BOOLEAN] /\ definition.mode \in GroupMode
      /\ DOMAIN definition.groups = 1 .. n
  BY DefinitionIs DEF GroupHolds
<1>2. Len(groups) \in Nat /\ Len(groups) + 1 \in 1 .. n
  BY UnderWay
<1>3. /\ results \in Seq(BOOLEAN) /\ Len(results) = Len(groups) + 1
      /\ \A i \in 1 .. Len(groups) : results[i] = groups[i]
      /\ results[Len(groups) + 1] = result
  BY <1>0, Appended
<1>4. \A i \in 1 .. Len(results) : results[i] = meant[i]
  <2>1. ASSUME NEW i \in 1 .. Len(groups) PROVE results[i] = meant[i]
    BY <1>2, <1>3, <2>1 DEF GroupsSoFar
  <2>2. results[Len(groups) + 1] = meant[Len(groups) + 1]
    BY <1>2, <1>3 DEF Group
  <2>3. \A i \in 1 .. Len(groups) + 1 : i \in 1 .. Len(groups) \/ i = Len(groups) + 1
    BY <1>2
  <2> QED BY <1>3, <2>1, <2>2, <2>3
<1>5. \A i \in 1 .. Len(results) - 1 : ~Stops(definition.mode, results[i])
  BY <1>2, <1>3 DEF GroupsSoFar
<1>6. groups' = results /\ conditions' = <<>>
  BY DEF SettleGroup
<1>7. conditions' \in Seq(BOOLEAN) /\ Len(conditions') = 0
  BY <1>6
<1> HIDE DEF results, result
<1>8. CASE Leaves(definition.mode, results, definition.groups)
  <2>1. Combine(definition.mode, results) = IF definition.mode = "all" THEN \A i \in 1 .. n : meant[i]
                                            ELSE \E i \in 1 .. n : meant[i]
    <3>1. Stops(definition.mode, results[Len(results)]) \/ Len(results) = n
      BY <1>8 DEF Leaves
    <3>2. Len(results) \in 1 .. n
      BY <1>2, <1>3
    <3> HIDE DEF n, meant
    <3> QED BY <1>1, <1>3, <1>4, <1>5, <3>1, <3>2, LoopMeans
  <2>2. Combine(definition.mode, results) = RuleHolds
    BY <1>1, <2>1 DEF RuleHolds
  <2>3. step' = "decided" /\ action' = IF Combine(definition.mode, results)
                                       THEN definition.action ELSE definition.default_action
    BY <1>8 DEF SettleGroup, Decide, results, result
  <2>4. DecidesAsMeant'
    BY <2>2, <2>3, MeaningStays DEF DecidesAsMeant
  <2>5. EvaluationTypeOK'
    BY <1>3, <1>6, <1>7, <2>3 DEF EvaluationTypeOK, EvaluationSteps
  <2> QED BY <2>3, <2>4, <2>5 DEF EvaluationInv
<1>9. CASE ~Leaves(definition.mode, results, definition.groups)
  <2>1. step' = "evaluating"
    BY <1>9 DEF SettleGroup, results, result
  <2>2. ~Stops(definition.mode, results[Len(results)]) /\ Len(results) # n
    BY <1>9 DEF Leaves
  <2>3. Len(groups') < Len(definition'.groups)
    BY <1>1, <1>2, <1>3, <1>6, <2>2
  <2>4. ASSUME NEW i \in 1 .. Len(groups')
        PROVE  groups'[i] = GroupHolds(definition.groups[i])' /\ ~Stops(definition'.mode, groups'[i])
    <3>1. i \in 1 .. Len(results) /\ i \in 1 .. n
      BY <1>1, <1>2, <1>3, <1>6
    <3>2. groups'[i] = GroupHolds(definition.groups[i])'
      BY <1>4, <1>6, <3>1, MeaningStays
    <3>3. i \in 1 .. Len(results) - 1 \/ i = Len(results)
      BY <1>2, <1>3, <3>1
    <3> QED BY <1>5, <1>6, <2>2, <3>2, <3>3
  <2>5. GroupsSoFar'
    BY <2>3, <2>4 DEF GroupsSoFar
  <2>6. ConditionsSoFar'
    <3>1. Len(groups') + 1 \in 1 .. Len(definition.groups)
      BY <1>1, <1>2, <1>3, <1>6, <2>2
    <3>2. Len(Group'.conditions) \in Nat \ {0}
      BY <3>1, DefinitionIs DEF Group
    <3> QED BY <1>7, <3>2 DEF ConditionsSoFar
  <2>7. EvaluationTypeOK'
    BY <1>3, <1>6, <1>7, <2>1 DEF EvaluationTypeOK, EvaluationSteps
  <2> QED BY <2>1, <2>5, <2>6, <2>7 DEF EvaluationInv, PagesSoFar, DecidesAsMeant
<1> QED BY <1>8, <1>9

LEMMA ConditionEnds ==
  ASSUME EvaluationTypeOK, DefinitionAssumption, GroupsSoFar, ConditionsSoFar,
         step = "evaluating", definition.enabled, Settle(ConditionHolds(Condition))
  PROVE  EvaluationInv'
<1> DEFINE result == ConditionHolds(Condition)
           results == Append(conditions, result)
           n == Len(Group.conditions)
           meant == [i \in 1 .. n |-> ConditionHolds(Group.conditions[i])]
<1>a. UNCHANGED <<definition, work, known>> /\ page' = 0
  BY DEF Settle
<1>0. conditions \in Seq(BOOLEAN) /\ result \in BOOLEAN
  BY UnderWay, MeaningIsBoolean DEF EvaluationTypeOK
<1>1. n \in Nat \ {0} /\ meant \in [1 .. n -> BOOLEAN] /\ Group.mode \in GroupMode
      /\ DOMAIN Group.conditions = 1 .. n
  BY UnderWay, MeaningIsBoolean
<1>2. Len(conditions) \in Nat /\ Len(conditions) + 1 \in 1 .. n
  BY UnderWay
<1>3. /\ results \in Seq(BOOLEAN) /\ Len(results) = Len(conditions) + 1
      /\ \A i \in 1 .. Len(conditions) : results[i] = conditions[i]
      /\ results[Len(conditions) + 1] = result
  BY <1>0, Appended
<1>4. \A i \in 1 .. Len(results) : results[i] = meant[i]
  <2>1. ASSUME NEW i \in 1 .. Len(conditions) PROVE results[i] = meant[i]
    BY <1>2, <1>3, <2>1 DEF ConditionsSoFar
  <2>2. results[Len(conditions) + 1] = meant[Len(conditions) + 1]
    BY <1>2, <1>3 DEF Condition
  <2>3. \A i \in 1 .. Len(conditions) + 1 : i \in 1 .. Len(conditions) \/ i = Len(conditions) + 1
    BY <1>2
  <2> QED BY <1>3, <2>1, <2>2, <2>3
<1>5. \A i \in 1 .. Len(results) - 1 : ~Stops(Group.mode, results[i])
  BY <1>2, <1>3 DEF ConditionsSoFar
<1> HIDE DEF results, result
<1>6. CASE Leaves(Group.mode, results, Group.conditions)
  <2>1. Combine(Group.mode, results) = IF Group.mode = "all" THEN \A i \in 1 .. n : meant[i]
                                       ELSE \E i \in 1 .. n : meant[i]
    <3>1. Stops(Group.mode, results[Len(results)]) \/ Len(results) = n
      BY <1>6 DEF Leaves
    <3>2. Len(results) \in 1 .. n
      BY <1>2, <1>3
    <3> HIDE DEF n, meant
    <3> QED BY <1>1, <1>3, <1>4, <1>5, <3>1, <3>2, LoopMeans
  <2>2. Combine(Group.mode, results) = GroupHolds(Group)
    BY <1>1, <2>1 DEF GroupHolds
  <2>3. SettleGroup(GroupHolds(Group))
    <3>1. SettleGroup(Combine(Group.mode, results))
      BY <1>6 DEF Settle, results, result
    <3> QED BY <2>2, <3>1
  <2> QED BY <1>a, <2>3, GroupEnds
<1>7. CASE ~Leaves(Group.mode, results, Group.conditions)
  <2>1. conditions' = results /\ UNCHANGED <<groups, step, action>>
    BY <1>7 DEF Settle, results, result
  <2>2. ~Stops(Group.mode, results[Len(results)]) /\ Len(results) # n
    BY <1>7 DEF Leaves
  <2>3. Group' = Group
    BY <1>a, <2>1 DEF Group
  <2>4. ASSUME NEW i \in 1 .. Len(conditions')
        PROVE  /\ conditions'[i] = ConditionHolds(Group.conditions[i])'
               /\ ~Stops(Group.mode, conditions[i])'
    <3>1. i \in 1 .. Len(results) /\ i \in 1 .. n
      BY <1>1, <1>2, <1>3, <2>1
    <3>2. ConditionHolds(Group.conditions[i])' = ConditionHolds(Group.conditions[i])
      BY <1>a, <2>3 DEF ConditionHolds
    <3>3. conditions'[i] = ConditionHolds(Group.conditions[i])'
      BY <1>4, <2>1, <3>1, <3>2
    <3>4. i \in 1 .. Len(results) - 1 \/ i = Len(results)
      BY <1>2, <1>3, <3>1
    <3> QED BY <1>5, <2>1, <2>2, <2>3, <3>3, <3>4
  <2>5. ConditionsSoFar'
    <3>1. Len(conditions') < Len(Group'.conditions)
      BY <1>1, <1>2, <1>3, <2>1, <2>2, <2>3
    <3> QED BY <2>4, <3>1 DEF ConditionsSoFar
  <2>6. GroupsSoFar'
    BY <1>a, <2>1, MeaningStays DEF GroupsSoFar
  <2>7. EvaluationTypeOK'
    BY <1>a, <1>3, <2>1 DEF EvaluationTypeOK
  <2> QED BY <1>a, <2>1, <2>5, <2>6, <2>7 DEF EvaluationInv, PagesSoFar, DecidesAsMeant
<1> QED BY <1>6, <1>7

\* A page that decides a condition says what all of the pages mean.
LEMMA PageDecides ==
  ASSUME EvaluationTypeOK, DefinitionAssumption, GroupsSoFar, ConditionsSoFar, PagesSoFar,
         OnPages, page < Len(work.pages), PageStops \/ page + 1 = Len(work.pages)
  PROVE  OfPage = ConditionHolds(Condition)
<1> DEFINE holds == [p \in 1 .. Len(work.pages) |-> Holds(Condition, work.pages[p][Condition.field], Now)]
           matching == {p \in DOMAIN work.pages : Holds(Condition, work.pages[p][Condition.field], Now)}
           n == Len(work.pages)
<1>1. /\ Condition.page_quantifier \in {"any", "all"} /\ Condition.page_quantifier # Missing
      /\ Condition.operator \in Operator
      /\ n \in Nat /\ DOMAIN work.pages = 1 .. n /\ page \in Nat
  BY UnderWay, DefinitionIs DEF OnPages, EvaluationTypeOK
<1>2. \A p \in 1 .. n : holds[p] \in BOOLEAN
  BY <1>1, HoldsIsBoolean
<1>3. page + 1 \in 1 .. n /\ OfPage = holds[page + 1]
  BY <1>1 DEF OfPage
<1>4. matching = {p \in 1 .. n : holds[p]}
  BY <1>1
<1>5. ConditionHolds(Condition) = IF Condition.page_quantifier = "any" THEN matching # {}
                                  ELSE matching = 1 .. n /\ matching # {}
  BY <1>1 DEF ConditionHolds
<1>6. \A p \in 1 .. page : ~Stops(Condition.page_quantifier, holds[p]) /\ p \in 1 .. n
  BY <1>1, <1>3 DEF PagesSoFar
<1>7. page + 1 = n => \A p \in 1 .. n : p \in 1 .. page \/ p = page + 1
  BY <1>1
<1>8. PageStops = Stops(Condition.page_quantifier, holds[page + 1])
  BY <1>3 DEF PageStops
<1> HIDE DEF holds, matching
<1>9. CASE Condition.page_quantifier = "any"
  <2>1. CASE holds[page + 1]
    BY <1>3, <1>4, <1>5, <1>9, <2>1
  <2>2. CASE ~holds[page + 1]
    <3>1. page + 1 = n
      BY <1>8, <1>9, <2>2 DEF Stops
    <3>2. \A p \in 1 .. n : ~holds[p]
      BY <1>6, <1>7, <1>9, <2>2, <3>1 DEF Stops
    <3>3. matching = {}
      BY <1>4, <3>2
    <3> QED BY <1>2, <1>3, <1>5, <1>9, <2>2, <3>3
  <2> QED BY <2>1, <2>2
<1>10. CASE Condition.page_quantifier = "all"
  <2>1. CASE ~holds[page + 1]
    <3>1. matching # 1 .. n
      BY <1>3, <1>4, <2>1
    <3> QED BY <1>2, <1>3, <1>5, <1>10, <2>1, <3>1
  <2>2. CASE holds[page + 1]
    <3>1. page + 1 = n
      BY <1>8, <1>10, <2>2 DEF Stops
    <3>2. \A p \in 1 .. n : holds[p]
      BY <1>6, <1>7, <1>10, <2>2, <3>1 DEF Stops
    <3>3. matching = 1 .. n /\ matching # {}
      BY <1>3, <1>4, <3>2
    <3> QED BY <1>2, <1>3, <1>5, <1>10, <2>2, <3>3
  <2> QED BY <2>1, <2>2
<1> QED BY <1>1, <1>9, <1>10

LEMMA EvaluationInvStep ==
  EvaluationInv /\ DefinitionAssumption /\ [EvaluationNext]_evaluationVars => EvaluationInv'
<1> SUFFICES ASSUME EvaluationInv, DefinitionAssumption, [EvaluationNext]_evaluationVars
             PROVE  EvaluationInv'
  OBVIOUS
<1>0. EvaluationTypeOK /\ DecidesAsMeant
  BY DEF EvaluationInv
<1>a. ASSUME Evaluating PROVE GroupsSoFar /\ ConditionsSoFar /\ PagesSoFar /\ step = "evaluating" /\ definition.enabled
  BY <1>a DEF EvaluationInv, Evaluating
<1>1. CASE SkipDisabled
  <2>1. DecidesAsMeant'
    BY <1>1 DEF SkipDisabled, Decide, DecidesAsMeant
  <2>2. EvaluationTypeOK' /\ step' = "decided"
    BY <1>0, <1>1 DEF SkipDisabled, Decide, EvaluationTypeOK, EvaluationSteps
  <2> QED BY <2>1, <2>2 DEF EvaluationInv
<1>2. CASE Panics \/ FetchFails
  <2>1. EvaluationTypeOK' /\ step' \in {"panicked", "failed"}
    BY <1>0, <1>2 DEF Panics, FetchFails, EvaluationTypeOK, EvaluationSteps
  <2> QED BY <2>1 DEF EvaluationInv, DecidesAsMeant
<1>3. CASE EvaluateWork
  <2>1. Evaluating /\ ~OnPages /\ Settle(Holds(Condition, work.values[Condition.field], Now))
    BY <1>3 DEF EvaluateWork
  <2>2. Holds(Condition, work.values[Condition.field], Now) = ConditionHolds(Condition)
    BY <2>1 DEF OnPages, ConditionHolds
  <2>3. Settle(ConditionHolds(Condition))
    BY <2>1, <2>2
  <2> QED BY <1>0, <1>a, <2>1, <2>3, ConditionEnds
<1>4. CASE EvaluateNoPages
  <2>1. Evaluating /\ OnPages /\ work.pages = <<>> /\ Settle(FALSE)
    BY <1>4 DEF EvaluateNoPages
  <2>2. ConditionHolds(Condition) = FALSE
    <3>1. DOMAIN work.pages = {}
      BY <2>1
    <3> QED BY <2>1, <3>1 DEF OnPages, ConditionHolds
  <2>3. Settle(ConditionHolds(Condition))
    BY <2>1, <2>2
  <2> QED BY <1>0, <1>a, <2>1, <2>3, ConditionEnds
<1>5. CASE EvaluatePage
  <2>1. Evaluating /\ OnPages /\ known /\ page < Len(work.pages)
    BY <1>5 DEF EvaluatePage
  <2>2. CASE PageStops \/ page + 1 = Len(work.pages)
    <3>1. OfPage = ConditionHolds(Condition)
      BY <1>0, <1>a, <2>1, <2>2, PageDecides
    <3>2. Settle(OfPage)
      BY <1>5, <2>2 DEF EvaluatePage
    <3>3. Settle(ConditionHolds(Condition))
      BY <3>1, <3>2
    <3> QED BY <1>0, <1>a, <2>1, <3>3, ConditionEnds
  <2>3. CASE ~(PageStops \/ page + 1 = Len(work.pages))
    <3>1. page' = page + 1 /\ UNCHANGED <<definition, work, known, step, groups, conditions, action>>
      BY <1>5, <2>3 DEF EvaluatePage
    <3>2. page \in Nat /\ Len(work.pages) \in Nat
      BY <1>0, DefinitionIs DEF EvaluationTypeOK
    <3>3. page' < Len(work.pages) /\ page' \in Nat
      BY <2>1, <2>3, <3>1, <3>2
    <3>4. Group' = Group
      BY <3>1 DEF Group
    <3>5. Condition' = Condition
      BY <3>1, <3>4 DEF Condition
    <3>6. GroupsSoFar'
      BY <1>a, <2>1, <3>1, MeaningStays DEF GroupsSoFar
    <3>7. ConditionsSoFar'
      <4>1. \A i : ConditionHolds(Group.conditions[i])' = ConditionHolds(Group.conditions[i])
        BY <3>1, <3>4 DEF ConditionHolds
      <4> QED BY <1>a, <2>1, <3>1, <3>4, <4>1 DEF ConditionsSoFar
    <3>8. PagesSoFar'
      <4>1. ~Stops(Condition.page_quantifier, Holds(Condition, work.pages[page + 1][Condition.field], Now))
        BY <2>3 DEF PageStops, OfPage
      <4>2. ASSUME NEW p \in 1 .. page'
            PROVE  ~Stops(Condition.page_quantifier, Holds(Condition, work.pages[p][Condition.field], Now))
        <5>1. p \in 1 .. page \/ p = page + 1
          BY <3>1, <3>2
        <5>2. ASSUME p \in 1 .. page
              PROVE  ~Stops(Condition.page_quantifier, Holds(Condition, work.pages[p][Condition.field], Now))
          <6>1. page > 0
            BY <3>2, <5>2
          <6> QED BY <1>a, <2>1, <5>2, <6>1 DEF PagesSoFar
        <5> QED BY <4>1, <5>1, <5>2
      <4> QED BY <2>1, <3>1, <3>3, <3>5, <4>2 DEF PagesSoFar, OnPages
    <3>9. EvaluationTypeOK'
      BY <1>0, <3>1, <3>3 DEF EvaluationTypeOK
    <3> QED BY <1>a, <2>1, <3>1, <3>6, <3>7, <3>8, <3>9 DEF EvaluationInv, DecidesAsMeant
  <2> QED BY <2>2, <2>3
<1>6. CASE RequirePages
  <2>1. step' = "fetching" /\ groups' = <<>> /\ conditions' = <<>>
        /\ UNCHANGED <<definition, work, known, page, action>> /\ ~known /\ Evaluating
    BY <1>6 DEF RequirePages
  <2>2. page = 0
    BY <1>0, <1>a, <2>1 DEF PagesSoFar, EvaluationTypeOK
  <2>3. groups' \in Seq(BOOLEAN) /\ conditions' \in Seq(BOOLEAN)
    BY <2>1
  <2>4. EvaluationTypeOK'
    BY <1>0, <2>1, <2>3 DEF EvaluationTypeOK, EvaluationSteps
  <2> QED BY <1>a, <2>1, <2>2, <2>4 DEF EvaluationInv, DecidesAsMeant
<1>7. CASE FetchPages
  <2>1. /\ step = "fetching" /\ step' = "evaluating" /\ known' = TRUE
        /\ UNCHANGED <<definition, work, groups, conditions, page, action>>
    BY <1>7 DEF FetchPages
  <2>2. groups = <<>> /\ conditions = <<>> /\ page = 0
    BY <2>1 DEF EvaluationInv
  <2>3. EvaluationTypeOK'
    BY <1>0, <2>1 DEF EvaluationTypeOK, EvaluationSteps
  <2>4. GroupsSoFar' /\ ConditionsSoFar' /\ PagesSoFar'
    BY <1>0, <2>1, <2>2, BeginningHolds DEF GroupsSoFar, ConditionsSoFar, PagesSoFar, Group
  <2> QED BY <2>1, <2>3, <2>4 DEF EvaluationInv, DecidesAsMeant
<1>8. CASE UNCHANGED evaluationVars
  <2>1. UNCHANGED <<definition, work, known, step, groups, conditions, page, action>>
    BY <1>8 DEF evaluationVars
  <2>2. Group' = Group /\ RuleHolds' = RuleHolds
    BY <2>1, MeaningStays DEF Group
  <2>3. Condition' = Condition
    BY <2>1, <2>2 DEF Condition
  <2>4. \A i : ConditionHolds(Group.conditions[i])' = ConditionHolds(Group.conditions[i])
    BY <2>1, <2>2 DEF ConditionHolds
  <2>5. GroupsSoFar => GroupsSoFar'
    BY <2>1, MeaningStays DEF GroupsSoFar
  <2>6. ConditionsSoFar => ConditionsSoFar'
    BY <2>1, <2>2, <2>4 DEF ConditionsSoFar
  <2>7. PagesSoFar => PagesSoFar'
    BY <2>1, <2>3 DEF PagesSoFar, OnPages
  <2>8. EvaluationTypeOK' /\ DecidesAsMeant'
    BY <1>0, <2>1, <2>2 DEF EvaluationTypeOK, DecidesAsMeant
  <2> QED BY <2>1, <2>5, <2>6, <2>7, <2>8 DEF EvaluationInv
<1> QED
  BY <1>1, <1>2, <1>3, <1>4, <1>5, <1>6, <1>7, <1>8 DEF EvaluationNext, EvaluationStep

LEMMA EvaluationInitInv == EvaluationInit /\ DefinitionAssumption => EvaluationInv
<1> SUFFICES ASSUME EvaluationInit, DefinitionAssumption PROVE EvaluationInv
  OBVIOUS
<1>1. groups = <<>> /\ conditions = <<>> /\ page = 0 /\ step = "evaluating"
  BY DEF EvaluationInit
<1>2. EvaluationTypeOK
  <2>1. groups \in Seq(BOOLEAN) /\ conditions \in Seq(BOOLEAN)
    BY <1>1
  <2> QED BY <1>1, <2>1 DEF EvaluationInit, EvaluationTypeOK, EvaluationSteps
<1>3. GroupsSoFar /\ ConditionsSoFar /\ PagesSoFar
  BY <1>1, <1>2, BeginningHolds DEF GroupsSoFar, ConditionsSoFar, PagesSoFar, Group
<1> QED BY <1>1, <1>2, <1>3 DEF EvaluationInv, DecidesAsMeant

\* What the loops have evaluated so far says what the definition means of it,
\* and did not stop them (evaluate, evaluate_group).
THEOREM EvaluationInvariant == EvaluationSpec => []EvaluationInv
<1>1. EvaluationInit => EvaluationInv
  BY DefinitionAssumption, EvaluationInitInv
<1>2. EvaluationInv /\ [EvaluationNext]_evaluationVars => EvaluationInv'
  BY DefinitionAssumption, EvaluationInvStep
<1> QED BY <1>1, <1>2, PTL DEF EvaluationSpec

\* For every accepted definition and every work: loops that are left early,
\* pages without metadata and an evaluation that begins again never change what
\* is decided (RuleDefinitionV1::evaluate, process_with_lease).
THEOREM DecisionsAreMeant == EvaluationSpec => []DecidesAsMeant
<1>1. EvaluationInv => DecidesAsMeant
  BY DEF EvaluationInv
<1> QED BY <1>1, EvaluationInvariant, PTL
=============================================================================
