--------------------------- MODULE MediaArtifacts ---------------------------
(***************************************************************************)
(* The files of one archived work: download jobs publish original files,   *)
(* derivative jobs publish thumbnails, and a cleaner removes what jobs     *)
(* left behind.  A file and its row cannot be written together, so a task  *)
(* registers an intent for the path in one transaction, publishes the      *)
(* file, and records it in a second one that deletes the intent.  The      *)
(* tasks, the cleaner, the operator and lost leases interleave at will;    *)
(* the queue's own rules are module JobQueue, and a purge of the work is   *)
(* module TrashPurge, where the work's collected mark is too.              *)
(***************************************************************************)
EXTENDS Naturals

CONSTANTS
  Page,         \* pages of the work
  MaxRevision,  \* bound: media revisions of a page
  Content,      \* what Pixiv may serve for a page
  Download,     \* download jobs
  Regeneration, \* derivative jobs queued by maintenance
  Slot,         \* worker tasks
  MaxTrouble,   \* bound: failures, crashes, leases lost at work
  MaxOperator,  \* bound: cancellations and retries
  NoJob, NoSlot, NoContent, NoPath

Media == Page \X (1..MaxRevision)
\* The derivative job that save_source_revision queues is named by its revision.
Job == Download \cup Regeneration \cup Media

\* PixivMediaPaths: one path per revision and derivative of it, and one per
\* regeneration job.
SourceOf(m) == [kind |-> "source", of |-> m]
BaseOf(m) == [kind |-> "base", of |-> m]
FreshOf(j) == [kind |-> "fresh", of |-> j]
Path == {SourceOf(m) : m \in Media} \cup {BaseOf(m) : m \in Media}
          \cup {FreshOf(j) : j \in Regeneration}

ASSUME MediaAssumption ==
  /\ MaxRevision \in Nat /\ MaxTrouble \in Nat /\ MaxOperator \in Nat
  /\ Download \cap Regeneration = {}
  /\ (Download \cup Regeneration) \cap Media = {}
  /\ NoJob \notin Job /\ NoSlot \notin Slot
  /\ NoContent \notin Content /\ NoPath \notin Path

VARIABLES
  state, holder, target,  \* jobs: state, task with the lease, revision to derive
  phase, at,              \* tasks: what each does, for which job
  todo, seen,             \* its download plan: pages left, revisions planned on
  path, got,              \* the path it works on, the content it has
  revision,               \* media_revision: content recorded, by page and number
  current, savedBy,       \* the page's current revision and the job that saved it
  thumb,                  \* derivative.path of a revision
  intent, held,           \* media_artifact_intent: owner, and cleanup_after ahead
  disk,                   \* the files
  strayed,                \* history: a task changed a file after losing its lease
  listed,                 \* the cleaner's list
  trouble, requests       \* the bounded counts

jobVars == <<state, holder, target>>
planVars == <<at, todo, seen>>
taskVars == <<phase, planVars, path, got>>
rowVars == <<revision, current, savedBy, thumb>>
intentVars == <<intent, held>>
diskVars == <<disk, strayed>>
counts == <<trouble, requests>>
vars == <<jobVars, taskVars, rowVars, intentVars, diskVars, listed, counts>>

JobState == {"none", "waiting", "running", "failed", "cancelled", "completed"}
Phase == {"idle", "load", "items", "publish", "settle", "redundant", "save",
          "finish", "retry", "fail"}

NoPlan == [p \in Page |-> 0]

\* Failed is failed without a retry; waiting covers queued, parked and
\* retryable jobs.
Terminal(j) == j # NoJob /\ state[j] \in {"completed", "cancelled", "failed"}
Active(j) == state[j] \in {"waiting", "running"}

PathOf(j) == IF j \in Regeneration THEN FreshOf(j) ELSE BaseOf(j)

Recorded(q) ==
  \/ \E m \in Media : q = SourceOf(m) /\ revision[m] # NoContent
  \/ \E m \in Media : q = thumb[m]

HoldsLease(s) == at[s] # NoJob /\ state[at[s]] = "running" /\ holder[at[s]] = s

Troubled == trouble < MaxTrouble /\ trouble' = trouble + 1 /\ UNCHANGED requests
Requested == requests < MaxOperator /\ requests' = requests + 1 /\ UNCHANGED trouble

Goes(s, next) == phase' = [phase EXCEPT ![s] = next]

Leaves(s) ==
  /\ Goes(s, "idle")
  /\ at' = [at EXCEPT ![s] = NoJob]
  /\ todo' = [todo EXCEPT ![s] = {}]
  /\ seen' = [seen EXCEPT ![s] = NoPlan]
  /\ path' = [path EXCEPT ![s] = NoPath]
  /\ got' = [got EXCEPT ![s] = NoContent]

Settles(j, outcome) ==
  /\ state' = [state EXCEPT ![j] = outcome]
  /\ holder' = [holder EXCEPT ![j] = NoSlot]
  /\ UNCHANGED target

-----------------------------------------------------------------------------
(* The queue around the executors *)

\* enqueue_download_if_absent
EnqueueDownload(j) ==
  /\ \A k \in Download : ~Active(k)
  /\ state[j] = "none"
  /\ state' = [state EXCEPT ![j] = "waiting"]
  /\ UNCHANGED <<holder, target, taskVars, rowVars, intentVars, diskVars, listed, counts>>

\* enqueue_derivative_regeneration_jobs for one current revision
EnqueueRegeneration(j, p) ==
  LET m == <<p, current[p]>> IN
  /\ current[p] # 0
  /\ \A k \in Regeneration \cup {m} : target[k] = m => ~Active(k)
  /\ state[j] = "none"
  /\ state' = [state EXCEPT ![j] = "waiting"]
  /\ target' = [target EXCEPT ![j] = m]
  /\ UNCHANGED <<holder, taskVars, rowVars, intentVars, diskVars, listed, counts>>

Claim(s, j) ==
  /\ phase[s] = "idle"
  /\ state[j] = "waiting" \/ (state[j] = "running" /\ holder[j] = NoSlot)
  /\ state' = [state EXCEPT ![j] = "running"]
  /\ holder' = [holder EXCEPT ![j] = s]
  /\ at' = [at EXCEPT ![s] = j]
  /\ Goes(s, "load")
  /\ UNCHANGED <<target, todo, seen, path, got, rowVars, intentVars, diskVars, listed, counts>>

\* Heartbeats are late, or the task is gone.
LeaseRunsOut(j) ==
  /\ state[j] = "running" /\ holder[j] # NoSlot
  /\ IF at[holder[j]] = j THEN Troubled ELSE UNCHANGED counts
  /\ Settles(j, "running")
  /\ UNCHANGED <<taskVars, rowVars, intentVars, diskVars, listed>>

\* cancel_requested keeps the intents until the lease would have run out.
Cancel(j) ==
  /\ state[j] \in {"waiting", "running", "failed"}
  /\ Requested
  /\ held' = held \cup {q \in Path : holder[j] # NoSlot /\ intent[q] = j}
  /\ Settles(j, "cancelled")
  /\ UNCHANGED <<taskVars, rowVars, intent, diskVars, listed>>

HoldPasses(q) ==
  /\ q \in held
  /\ held' = held \ {q}
  /\ UNCHANGED <<jobVars, taskVars, rowVars, intent, diskVars, listed, counts>>

\* retry_requested
Retry(j) ==
  /\ state[j] = "failed"
  /\ Requested
  /\ Settles(j, "waiting")
  /\ UNCHANGED <<taskVars, rowVars, intentVars, diskVars, listed>>

\* The runtime drops a task that lost its job, or the process stops.
Dropped(s) ==
  /\ phase[s] # "idle"
  /\ IF HoldsLease(s) THEN Troubled ELSE UNCHANGED counts
  /\ Leaves(s)
  /\ UNCHANGED <<jobVars, rowVars, intentVars, diskVars, listed>>

-----------------------------------------------------------------------------
(* Steps both executors share *)

\* "retry" may be tried again, "fail" is final.
Fails(s, kind) ==
  /\ Goes(s, kind)
  /\ UNCHANGED <<jobVars, planVars, path, got, rowVars, intentVars, diskVars, listed>>

\* The gateway, the validation, the generator or the disk fails, or writing
\* has to stop.
StepFails(s) ==
  /\ phase[s] \in {"load", "items", "publish", "settle", "redundant"}
  /\ Troubled
  /\ \E kind \in {"retry", "fail"} : Fails(s, kind)

\* apply_failure: a final error, or the last of the retries, ends the job.
Report(s) ==
  /\ phase[s] \in {"retry", "fail"} /\ HoldsLease(s)
  /\ \E outcome \in {"waiting", "failed"} :
       /\ phase[s] = "fail" => outcome = "failed"
       /\ Settles(at[s], outcome)
  /\ Leaves(s)
  /\ UNCHANGED <<rowVars, intentVars, diskVars, listed, counts>>

\* complete_artifact_job
Finish(s) ==
  /\ phase[s] = "finish" /\ HoldsLease(s)
  /\ Settles(at[s], "completed")
  /\ Leaves(s)
  /\ UNCHANGED <<rowVars, intentVars, diskVars, listed, counts>>

\* Wrong: an intent is taken from a job that still runs.
TakesAny(q, j) == TRUE

\* register_artifact_intent_in_tx: the path is free, or its job is over.
MayTake(q, j) == intent[q] \in {NoJob, j} \/ Terminal(intent[q])

Register(s, q) ==
  /\ HoldsLease(s)
  /\ \/ /\ MayTake(q, at[s])
        /\ intent' = [intent EXCEPT ![q] = at[s]]
        /\ held' = held \ {q}
        /\ path' = [path EXCEPT ![s] = q]
        /\ Goes(s, "publish")
        /\ UNCHANGED <<jobVars, planVars, got, rowVars, diskVars, listed>>
     \/ ~MayTake(q, at[s]) /\ Fails(s, "retry")
  /\ UNCHANGED counts

\* A file changes; a late task that does it has strayed.
Writes(s, content) ==
  /\ disk' = [disk EXCEPT ![path[s]] = content]
  /\ strayed' = (strayed \/ (disk[path[s]] # content /\ ~HoldsLease(s)))

-----------------------------------------------------------------------------
(* The download executor *)

LoadPlan(s) ==
  LET pending == {p \in Page : savedBy[p] # at[s]}
  IN /\ phase[s] = "load" /\ at[s] \in Download
     /\ \A p \in pending : current[p] < MaxRevision
     /\ todo' = [todo EXCEPT ![s] = pending]
     /\ seen' = [seen EXCEPT ![s] = current]
     /\ Goes(s, IF pending = {} THEN "finish" ELSE "items")
     /\ UNCHANGED <<jobVars, at, path, got, rowVars, intentVars, diskVars, listed, counts>>

StartItem(s, p) ==
  /\ phase[s] = "items" /\ at[s] \in Download /\ p \in todo[s]
  /\ Register(s, SourceOf(<<p, seen[s][p] + 1>>))

\* MediaStore::promote: an existing file must have the same content.
PublishSource(s, content) ==
  /\ phase[s] = "publish" /\ at[s] \in Download
  /\ \/ /\ disk[path[s]] \in {NoContent, content}
        /\ Writes(s, content)
        /\ got' = [got EXCEPT ![s] = content]
        /\ Goes(s, "settle")
        /\ UNCHANGED <<jobVars, planVars, path, rowVars, intentVars, listed>>
     \/ disk[path[s]] \notin {NoContent, content} /\ Fails(s, "fail")
  /\ UNCHANGED counts

PageOf(s) == path[s].of[1]
Planned(s) == <<PageOf(s), seen[s][PageOf(s)]>>

\* The page's current file has this content and still exists.
IsRedundant(s) ==
  /\ Planned(s) \in Media
  /\ revision[Planned(s)] = got[s]
  /\ disk[SourceOf(Planned(s))] # NoContent

Settle(s) ==
  /\ phase[s] = "settle"
  /\ Goes(s, IF IsRedundant(s) THEN "redundant" ELSE "save")
  /\ UNCHANGED <<jobVars, planVars, path, got, rowVars, intentVars, diskVars, listed, counts>>

\* On to the next item of the plan.
Proceeds(s) ==
  LET left == todo[s] \ {PageOf(s)}
  IN /\ todo' = [todo EXCEPT ![s] = left]
     /\ path' = [path EXCEPT ![s] = NoPath]
     /\ got' = [got EXCEPT ![s] = NoContent]
     /\ Goes(s, IF left = {} THEN "finish" ELSE "items")
     /\ UNCHANGED <<at, seen>>

\* remove_redundant_file looks at no lease.
RemoveRedundant(s) ==
  /\ phase[s] = "redundant"
  /\ Writes(s, NoContent)
  /\ Proceeds(s)
  /\ UNCHANGED <<jobVars, rowVars, intentVars, listed, counts>>

DerivativeQueued(m) == [state EXCEPT ![m] = IF @ = "none" THEN "waiting" ELSE @]

\* save_source_revision; the last item of the plan completes the job.
SaveSource(s) ==
  LET p == PageOf(s)  m == path[s].of IN
  /\ phase[s] = "save" /\ at[s] \in Download /\ HoldsLease(s)
  /\ current[p] = seen[s][p]
  /\ intent[path[s]] = at[s]
  /\ revision' = [revision EXCEPT ![m] = got[s]]
  /\ current' = [current EXCEPT ![p] = m[2]]
  /\ savedBy' = [savedBy EXCEPT ![p] = at[s]]
  /\ intent' = [intent EXCEPT ![path[s]] = NoJob]
  /\ \/ /\ todo[s] \subseteq {p}
        /\ state' = [DerivativeQueued(m) EXCEPT ![at[s]] = "completed"]
        /\ holder' = [holder EXCEPT ![at[s]] = NoSlot]
        /\ Leaves(s)
     \/ /\ ~(todo[s] \subseteq {p})
        /\ state' = DerivativeQueued(m)
        /\ Proceeds(s)
        /\ UNCHANGED holder
  /\ UNCHANGED <<target, thumb, held, diskVars, listed, counts>>

-----------------------------------------------------------------------------
(* The derivative executor *)

LoadDerivative(s) ==
  /\ phase[s] = "load" /\ at[s] \notin Download
  /\ \/ /\ disk[SourceOf(target[at[s]])] # NoContent
        /\ got' = [got EXCEPT ![s] = revision[target[at[s]]]]
        /\ Goes(s, "items")
        /\ UNCHANGED <<jobVars, planVars, path, rowVars, intentVars, diskVars, listed>>
     \/ disk[SourceOf(target[at[s]])] = NoContent /\ Fails(s, "retry")
  /\ UNCHANGED counts

StartDerivative(s) ==
  /\ phase[s] = "items" /\ at[s] \notin Download
  /\ Register(s, PathOf(at[s]))

\* DerivativeGenerator::generate takes over an existing valid file.
PublishDerivative(s) ==
  /\ phase[s] = "publish" /\ at[s] \notin Download
  /\ Writes(s, got[s])
  /\ Goes(s, "save")
  /\ UNCHANGED <<jobVars, planVars, path, got, rowVars, intentVars, listed, counts>>

\* The replaced file gets an intent, the recorded one loses its own.
IntentsAfterSave(s, old) ==
  [q \in Path |-> IF q = path[s] THEN NoJob
                  ELSE IF q = old THEN at[s] ELSE intent[q]]

\* save_derivative
SaveDerivative(s) ==
  LET m == target[at[s]]  old == thumb[m] IN
  /\ phase[s] = "save" /\ at[s] \notin Download /\ HoldsLease(s)
  /\ intent[path[s]] = at[s]
  /\ old \notin {NoPath, path[s]} => MayTake(old, at[s])
  /\ thumb' = [thumb EXCEPT ![m] = path[s]]
  /\ intent' = IntentsAfterSave(s, old)
  /\ held' = held \ {old}
  /\ Settles(at[s], "completed")
  /\ Leaves(s)
  /\ UNCHANGED <<revision, current, savedBy, diskVars, listed, counts>>

\* The commits above fail: a revision saved meanwhile, or a replaced file whose
\* intent another active job owns, is a RevisionConflict, which is tried again;
\* a missing intent is final.
SaveRejected(s) ==
  /\ phase[s] = "save" /\ HoldsLease(s)
  /\ \/ /\ at[s] \in Download
        /\ current[PageOf(s)] # seen[s][PageOf(s)]
        /\ Fails(s, "retry")
     \/ /\ at[s] \notin Download
        /\ thumb[target[at[s]]] \notin {NoPath, path[s]}
        /\ ~MayTake(thumb[target[at[s]]], at[s])
        /\ Fails(s, "retry")
     \/ /\ intent[path[s]] # at[s]
        /\ at[s] \in Download => current[PageOf(s)] = seen[s][PageOf(s)]
        /\ Fails(s, "fail")
  /\ UNCHANGED counts

-----------------------------------------------------------------------------
(* The cleaner *)

\* Wrong: the intents of failed jobs are left alone.
DueUnlessFailed(q) == Terminal(intent[q]) /\ state[intent[q]] # "failed" /\ q \notin held

\* terminal_artifact_intent_ids
Due(q) == Terminal(intent[q]) /\ q \notin held

ListIntents ==
  /\ listed = {} /\ (\E q \in Path : Due(q))
  /\ listed' = {q \in Path : Due(q)}
  /\ UNCHANGED <<jobVars, taskVars, rowVars, intentVars, diskVars, counts>>

\* Wrong: a recorded path is removed like any other.
CleanReferenced(q) ==
  /\ q \in listed
  /\ listed' = listed \ {q}
  /\ intent' = IF Due(q) THEN [intent EXCEPT ![q] = NoJob] ELSE intent
  /\ disk' = IF Due(q) THEN [disk EXCEPT ![q] = NoContent] ELSE disk
  /\ UNCHANGED <<jobVars, taskVars, rowVars, held, strayed, counts>>

\* The intent and its job are locked and read again; the file goes unless a
\* row names it.
CleanIntent(q) ==
  /\ q \in listed
  /\ listed' = listed \ {q}
  /\ intent' = IF Due(q) THEN [intent EXCEPT ![q] = NoJob] ELSE intent
  /\ disk' = IF Due(q) /\ ~Recorded(q) THEN [disk EXCEPT ![q] = NoContent] ELSE disk
  /\ UNCHANGED <<jobVars, taskVars, rowVars, held, strayed, counts>>

\* The removal fails, or the process stops before the commit.
CleanBreaksOff(q) ==
  /\ q \in listed
  /\ Troubled
  /\ listed' \in {listed \ {q}, {}}
  /\ \/ UNCHANGED disk
     \/ Due(q) /\ ~Recorded(q) /\ disk' = [disk EXCEPT ![q] = NoContent]
  /\ UNCHANGED <<jobVars, taskVars, rowVars, intentVars, strayed>>

-----------------------------------------------------------------------------
Init ==
  /\ state = [j \in Job |-> "none"]
  /\ holder = [j \in Job |-> NoSlot]
  /\ target = [j \in Job |-> IF j \in Media THEN j ELSE NoPath]
  /\ phase = [s \in Slot |-> "idle"]
  /\ at = [s \in Slot |-> NoJob]
  /\ todo = [s \in Slot |-> {}]
  /\ seen = [s \in Slot |-> NoPlan]
  /\ path = [s \in Slot |-> NoPath]
  /\ got = [s \in Slot |-> NoContent]
  /\ revision = [m \in Media |-> NoContent]
  /\ current = NoPlan
  /\ savedBy = [p \in Page |-> NoJob]
  /\ thumb = [m \in Media |-> NoPath]
  /\ intent = [q \in Path |-> NoJob]
  /\ held = {}
  /\ disk = [q \in Path |-> NoContent]
  /\ strayed = FALSE
  /\ listed = {}
  /\ trouble = 0 /\ requests = 0

QueueStep ==
  \/ \E j \in Download : EnqueueDownload(j)
  \/ \E j \in Regeneration, p \in Page : EnqueueRegeneration(j, p)
  \/ \E j \in Job : LeaseRunsOut(j) \/ Cancel(j) \/ Retry(j)
  \/ \E q \in Path : HoldPasses(q)

SlotStep(s) ==
  \/ \E j \in Job : Claim(s, j)
  \/ Dropped(s) \/ StepFails(s) \/ Report(s) \/ Finish(s)
  \/ LoadPlan(s) \/ Settle(s) \/ RemoveRedundant(s)
  \/ \E p \in Page : StartItem(s, p)
  \/ \E c \in Content : PublishSource(s, c)
  \/ SaveSource(s) \/ SaveDerivative(s) \/ SaveRejected(s)
  \/ LoadDerivative(s) \/ StartDerivative(s) \/ PublishDerivative(s)

CleanerStep == ListIntents \/ \E q \in Path : CleanIntent(q) \/ CleanBreaksOff(q)

Next == QueueStep \/ (\E s \in Slot : SlotStep(s)) \/ CleanerStep

Spec == Init /\ [][Next]_vars

\* The storage scheduler runs every 15 seconds, a lease runs out by the clock,
\* and a disk does not fail the same removal for ever.
Fairness ==
  /\ WF_vars(ListIntents)
  /\ \A q \in Path : SF_vars(CleanIntent(q)) /\ WF_vars(HoldPasses(q))

FairSpec == Spec /\ Fairness

-----------------------------------------------------------------------------
(* Properties *)

Shape ==
  /\ state \in [Job -> JobState]
  /\ holder \in [Job -> Slot \cup {NoSlot}]
  /\ target \in [Job -> Media \cup {NoPath}]
  /\ phase \in [Slot -> Phase]
  /\ at \in [Slot -> Job \cup {NoJob}]
  /\ todo \in [Slot -> SUBSET Page]
  /\ seen \in [Slot -> [Page -> 0..MaxRevision]]
  /\ path \in [Slot -> Path \cup {NoPath}]
  /\ got \in [Slot -> Content \cup {NoContent}]
  /\ revision \in [Media -> Content \cup {NoContent}]
  /\ current \in [Page -> 0..MaxRevision]
  /\ savedBy \in [Page -> Download \cup {NoJob}]
  /\ thumb \in [Media -> Path \cup {NoPath}]
  /\ intent \in [Path -> Job \cup {NoJob}]
  /\ held \subseteq Path /\ listed \subseteq Path
  /\ disk \in [Path -> Content \cup {NoContent}]
  /\ strayed \in BOOLEAN
  /\ trouble \in Nat /\ requests \in Nat

\* A page's revisions have no gaps, and each has its derivative job.
Numbered ==
  \A m \in Media :
    /\ revision[m] # NoContent <=> m[2] <= current[m[1]]
    /\ revision[m] # NoContent <=> state[m] # "none"

\* The tables' shapes and the numbering of revisions.
TypeOK == Shape /\ Numbered

\* A task that may still commit owns the intent of the path it works on:
\* neither the cleaner nor another job can take the path meanwhile, and no save
\* fails with "media artifact intent is missing" (media.rs).
OwnsIntent ==
  \A s \in Slot :
    HoldsLease(s) /\ phase[s] \in {"publish", "settle", "redundant", "save"}
      => intent[path[s]] = at[s]

\* What a row names is on disk as recorded, whatever jobs, cleaner and
\* operator do, unless a task changed a file after losing its lease.
RecordedIsIntact ==
  ~strayed =>
    \A m \in Media :
      /\ revision[m] # NoContent => disk[SourceOf(m)] = revision[m]
      /\ thumb[m] # NoPath => disk[thumb[m]] # NoContent

\* Every other file has an intent, through crashes, cancellations and
\* replaced derivatives: the cleaner will find it.
NoUntrackedFile ==
  ~strayed =>
    \A q \in Path : disk[q] # NoContent => Recorded(q) \/ intent[q] # NoJob

\* Two downloads of one page, however interleaved, never record the same
\* content twice in a row.
NoRedundantRevision ==
  ~strayed =>
    \A m, n \in Media :
      m[1] = n[1] /\ n[2] = m[2] + 1 /\ revision[n] # NoContent => revision[n] # revision[m]

\* What a finished, cancelled or failed job left behind goes.
LeftoversGo ==
  \A q \in Path :
    Terminal(intent[q]) ~> ~Terminal(intent[q])
=============================================================================
