------------------------------ MODULE MCQueue ------------------------------
(***************************************************************************)
(* The queue: one job that two worker tasks contend for (JobQueue), or the *)
(* order in which the classes of jobs are served (QueueQuota).  The two    *)
(* share no state, so a behaviour is of one or of the other: without a     *)
(* worker's rotation, or without a job.                                    *)
(***************************************************************************)
EXTENDS JobQueue, QueueQuota

CONSTANTS j1, w1, w2, pixiv, t1, t2

MCJob == {j1}
MCSlot == {w1, w2}
MCAccount == {pixiv}
MCAccountOf == [j \in Job |-> pixiv]
MCMediaJob == {j1}
MCTask == {t1, t2}
Evenly == [c \in Class |-> 1]
MCWeights == {Evenly, [Evenly EXCEPT !["immediate"] = 2]}

VARIABLE part
queueVars == <<vars, quotaVars, part>>

NoRotation ==
  /\ weight = Evenly
  /\ rotation = 0
  /\ ready = [c \in Class |-> 0]
  /\ task = [t \in Task |-> "idle"]
  /\ watched = "immediate"
  /\ passed = 0
  /\ losses = 0
NoWork ==
  /\ job = [j \in Job |-> NoRow]
  /\ attempt = [j \in Job |-> [n \in {} |-> "running"]]
  /\ slot = [w \in Slot |-> NoClaim]
  /\ account = [a \in Account |-> "usable"]
  /\ written = [j \in Job |-> 0]
  /\ disk = "free"
  /\ scan = "idle"
  /\ disturbances = 0

QueueInit ==
  \/ part = "jobs" /\ Init /\ NoRotation
  \/ part = "quota" /\ QuotaInit /\ NoWork
Jobs(A) == part = "jobs" /\ A /\ UNCHANGED <<quotaVars, part>>
QueueNext ==
  \/ Jobs(Next)
  \/ part = "quota" /\ QuotaNext /\ UNCHANGED <<vars, part>>

(* The fairness of JobQueue, for the behaviours that have a job. *)
QueueFairness ==
  /\ WF_queueVars(Jobs(\E w \in Slot, j \in Job : ClaimNext(w, j)))
  /\ \A w \in Slot : WF_queueVars(Jobs(ExecutorStep(w) \/ RuntimeStep(w)))
  /\ \A w \in Slot :
       WF_queueVars(Jobs(FinalizeInBusinessTx(w)
                           \/ \E outcome \in Report : ReportOutcome(w, outcome)))
  /\ \A j \in Job : /\ WF_queueVars(Jobs(LeaseAges(j)))
                     /\ WF_queueVars(Jobs(LeaseExpires(j) /\ UNCHANGED disturbances))
                     /\ WF_queueVars(Jobs(RetryTimePasses(j)))
  /\ WF_queueVars(Jobs(StorageScanReads)) /\ WF_queueVars(Jobs(SetStorageWriteAllowed))
QueueSpec == QueueInit /\ [][QueueNext]_queueVars /\ QueueFairness
=============================================================================
