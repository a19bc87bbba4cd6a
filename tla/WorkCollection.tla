---------------------------- MODULE WorkCollection ----------------------------
(***************************************************************************)
(* How works enter the archive.  Collectors - the jobs of imports and of   *)
(* subscription units - ask Pixiv for a work, decide by rule, save its     *)
(* metadata, queue its download and note what they did, each in a          *)
(* transaction of its own; download jobs store the pages; the operator     *)
(* deletes works for good meanwhile and Pixiv changes what it shows.       *)
(* A transaction of a job checks its lease, so an executor that lost its   *)
(* lease writes nothing more: it is modelled as gone (see JobQueue).  What *)
(* trash_entry adds is module TrashPurge's, the files are MediaArtifacts'. *)
(***************************************************************************)
EXTENDS Naturals

CONSTANTS
  Work,          \* Pixiv work ids
  MaxPages,      \* pages a work may have
  Rule,          \* what the published rule says of each snapshot
  Import,        \* imports, by their import_run
  WorkImport,    \* those of a single work; the others are of an artist
  Forced,        \* the default and forced ones, which download without a rule
  Unit,          \* subscription units
  Target,        \* the works each collector goes through
  Download,      \* rows a download job can take
  MaxChanges,    \* bound: changes on the side of Pixiv
  MaxFailures,   \* bound: failed or lost attempts
  MaxOperator    \* bound: requests of the operator

Collector == Import \cup Unit
Page == 1..MaxPages
\* What revision_basis tells apart: here the number of pages stands for it.
Snapshot == [pages : Page]
Verdict == {"Ignore", "MetadataOnly", "Download"}

ASSUME WorkCollectionAssumption ==
  /\ MaxPages \in Nat \ {0}
  /\ Rule \in [Snapshot -> Verdict]
  /\ WorkImport \subseteq Import /\ Forced \subseteq Import
  /\ Import \cap Unit = {}
  /\ Target \in [Collector -> SUBSET Work]
  /\ \A c \in WorkImport : \E w \in Work : Target[c] = {w}
  /\ MaxChanges \in Nat /\ MaxFailures \in Nat /\ MaxOperator \in Nat

VARIABLES
  pixiv,     \* what Pixiv shows of each work
  work,      \* the work row, its pages and its current revision
  marker,    \* the works with a deletion marker
  job,       \* the state of each collector's job
  run,       \* the import_run of each import
  executor,  \* what the process that runs the collector holds in memory
  download,  \* the download jobs
  changes, failures, operations

budget == <<changes, failures, operations>>
vars == <<pixiv, work, marker, job, run, executor, download, budget>>

Hidden == [pages |-> 0]
\* "row" is the row's id: a later row of the same Pixiv work has a greater one.
NoWork(row) == [row |-> row, basis |-> Hidden, page |-> [i \in Page |-> "none"],
                media |-> {}, state |-> "none", source |-> "none"]
WorkRow == [row : Nat, basis : Snapshot \cup {Hidden},
            page : [Page -> {"none", "present", "deleted"}], media : SUBSET Page,
            state : {"none", "metadata_only", "collected", "trash"},
            source : {"none", "present", "missing"}]
JobState == {"none", "queued", "running", "retryable", "failed", "cancelled", "completed"}
ImportStatus == {"none", "queued", "running", "ignored", "metadata_saved",
                 "download_queued", "failed", "cancelled"}
Successful == {"ignored", "metadata_saved", "download_queued"}
NoRun == [status |-> "none", saved |-> {}, candidates |-> {}]
ImportRun == [status : ImportStatus, saved : SUBSET Work, candidates : SUBSET Work]
Step == {"idle", "begin", "choose", "detail", "pages", "save", "enqueue", "record", "failing"}
\* "todo" holds the works still to come, "current" the one in hand, "row" the id
\* that its save returned, "terminal" whether the error in hand is permanent.
NoMemory == [step |-> "idle", todo |-> {}, current |-> {}, saved |-> {},
             detail |-> Hidden, row |-> 0, terminal |-> FALSE]
Memory == [step : Step, todo : SUBSET Work, current : SUBSET Work, saved : SUBSET Work,
           detail : Snapshot \cup {Hidden}, row : Nat, terminal : BOOLEAN]
NoJob == [state |-> "none", row |-> 0, plan |-> {}]
DownloadJob == [state : JobState, row : Nat, plan : SUBSET Page]

TypeOK ==
  /\ pixiv \in [Work -> Snapshot \cup {Hidden}]
  /\ work \in [Work -> WorkRow]
  /\ marker \subseteq Work
  /\ job \in [Collector -> JobState]
  /\ run \in [Import -> ImportRun]
  /\ executor \in [Collector -> Memory]
  /\ download \in [Work \X Download -> DownloadJob]
  /\ changes \in Nat /\ failures \in Nat /\ operations \in Nat

Init ==
  /\ pixiv \in [Work -> Snapshot]
  /\ work = [w \in Work |-> NoWork(0)]
  /\ marker = {}
  /\ job = [c \in Collector |-> "none"]
  /\ run = [c \in Import |-> NoRun]
  /\ executor = [c \in Collector |-> NoMemory]
  /\ download = [d \in Work \X Download |-> NoJob]
  /\ changes = 0 /\ failures = 0 /\ operations = 0

Operates == operations < MaxOperator /\ operations' = operations + 1
Fails == failures < MaxFailures /\ failures' = failures + 1

-----------------------------------------------------------------------------
(* Pixiv and the operator *)

\* The work changes, disappears or comes back.
PixivChanges(w) ==
  /\ changes < MaxChanges /\ changes' = changes + 1
  /\ \E shown \in (Snapshot \cup {Hidden}) \ {pixiv[w]} : pixiv' = [pixiv EXCEPT ![w] = shown]
  /\ UNCHANGED <<work, marker, job, run, executor, download, failures, operations>>

\* ImportRepository::queue makes the run and its job in one transaction.
QueueImport(c) ==
  /\ job[c] = "none"
  /\ job' = [job EXCEPT ![c] = "queued"]
  /\ run' = [run EXCEPT ![c].status = "queued"]
  /\ UNCHANGED <<pixiv, work, marker, executor, download, budget>>

\* A run of the subscription makes a new job for the unit.
QueueUnit(c) ==
  /\ job[c] \in {"none", "completed", "failed", "cancelled"}
  /\ Operates
  /\ job' = [job EXCEPT ![c] = "queued"]
  /\ UNCHANGED <<pixiv, work, marker, run, executor, download, changes, failures>>

Trash(w) ==
  /\ work[w].state \in {"metadata_only", "collected"}
  /\ Operates
  /\ work' = [work EXCEPT ![w].state = "trash"]
  /\ UNCHANGED <<pixiv, marker, job, run, executor, download, changes, failures>>

\* The row goes, the marker stays; download jobs are not looked at.
Purge(w) ==
  /\ work[w].state = "trash"
  /\ work' = [work EXCEPT ![w] = NoWork(@.row)]
  /\ marker' = marker \cup {w}
  /\ UNCHANGED <<pixiv, job, run, executor, download, budget>>

\* cancel_linked_import_run
CancelledRun(c) == [run[c] EXCEPT !.status =
  IF @ \in {"queued", "running"} THEN "cancelled" ELSE @]

\* Wrong: the import is not told that its job was cancelled.
CancelJobOnly(c) ==
  /\ job[c] \in {"queued", "running", "retryable", "failed"}
  /\ Operates
  /\ job' = [job EXCEPT ![c] = "cancelled"]
  /\ executor' = [executor EXCEPT ![c] = NoMemory]
  /\ UNCHANGED <<pixiv, work, marker, run, download, changes, failures>>

Cancel(c) ==
  /\ job[c] \in {"queued", "running", "retryable", "failed"}
  /\ Operates
  /\ job' = [job EXCEPT ![c] = "cancelled"]
  /\ executor' = [executor EXCEPT ![c] = NoMemory]
  /\ run' = IF c \in Import THEN [run EXCEPT ![c] = CancelledRun(c)] ELSE run
  /\ UNCHANGED <<pixiv, work, marker, download, changes, failures>>

\* reset_linked_import_run_for_retry refuses a run that its last attempt left
\* running.
ResetRun(c) ==
  /\ run[c].status \in {"queued", "failed"}
  /\ run' = [run EXCEPT ![c].status = "queued", ![c].saved = {}]

Retry(c) ==
  /\ job[c] \in {"retryable", "failed"}
  /\ Operates
  /\ job' = [job EXCEPT ![c] = "queued"]
  /\ IF c \in Import THEN ResetRun(c) ELSE UNCHANGED run
  /\ UNCHANGED <<pixiv, work, marker, executor, download, changes, failures>>

-----------------------------------------------------------------------------
(* The executor of a collector *)

Remembers(c, memory) == executor' = [executor EXCEPT ![c] = memory]

Moves(c, step) == Remembers(c, [executor[c] EXCEPT !.step = step])

\* The work in hand is done with.
NextWork(c) == Remembers(c, [executor[c] EXCEPT !.step = "choose", !.current = {}])

GivesUp(c) == Remembers(c, [executor[c] EXCEPT !.step = "failing", !.terminal = TRUE])

At(c, step) == job[c] = "running" /\ executor[c].step = step

\* Default and forced imports have no document to evaluate.
VerdictOf(c, snapshot) == IF c \in Forced THEN "Download" ELSE Rule[snapshot]

Claim(c) ==
  /\ job[c] \in {"queued", "retryable"}
  /\ job' = [job EXCEPT ![c] = "running"]
  /\ Remembers(c, [NoMemory EXCEPT !.step = "begin"])
  /\ UNCHANGED <<pixiv, work, marker, run, download, budget>>

\* mark_running_for_job; an import that ended already is not executed.
Begin(c) ==
  /\ At(c, "begin")
  /\ IF c \in Import
       THEN /\ run[c].status \in {"queued", "running"}
            /\ run' = [run EXCEPT ![c].status = "running"]
       ELSE UNCHANGED run
  /\ Remembers(c, [executor[c] EXCEPT !.step = "choose", !.todo = Target[c]])
  /\ UNCHANGED <<pixiv, work, marker, job, download, budget>>

\* A subscription passes by a work with a marker, an import goes on.
Choose(c) ==
  /\ At(c, "choose")
  /\ \E w \in executor[c].todo :
       IF c \in Unit /\ w \in marker
         THEN Remembers(c, [executor[c] EXCEPT !.todo = @ \ {w}])
         ELSE Remembers(c, [executor[c] EXCEPT !.step = "detail", !.todo = @ \ {w},
                                               !.current = {w}])
  /\ UNCHANGED <<pixiv, work, marker, job, run, download, budget>>

\* A unit ignores a work that Pixiv refuses for good, an import fails.
PixivRefuses(c) == IF c \in Unit THEN NextWork(c) ELSE GivesUp(c)

\* mark_source_state
SourceMissing(w) == [work EXCEPT ![w].source = IF @ = "none" THEN @ ELSE "missing"]

\* fetch_work_detail with mark_source_state, then the rule's verdict.
FetchDetail(c) ==
  /\ At(c, "detail")
  /\ \E w \in executor[c].current :
       \/ /\ pixiv[w] = Hidden
          /\ PixivRefuses(c)
          /\ work' = SourceMissing(w)
       \/ /\ pixiv[w] # Hidden
          /\ IF VerdictOf(c, pixiv[w]) = "Ignore"
               THEN NextWork(c)
               ELSE Remembers(c, [executor[c] EXCEPT !.step = "pages", !.detail = pixiv[w]])
          /\ UNCHANGED work
  /\ UNCHANGED <<pixiv, marker, job, run, download, budget>>

\* validate_pages
PagesFit(c, w) == pixiv[w].pages = executor[c].detail.pages

\* Pages that do not fit the detail are a permanent error, for a unit as well.
FetchPages(c) ==
  /\ At(c, "pages")
  /\ \E w \in executor[c].current :
       IF pixiv[w] = Hidden THEN PixivRefuses(c)
       ELSE IF PagesFit(c, w) THEN Moves(c, "save") ELSE GivesUp(c)
  /\ UNCHANGED <<pixiv, work, marker, job, run, download, budget>>

\* sync_pages: pages beyond the count are deleted, the others present (again).
SyncPages(page, count) == [i \in Page |->
  IF i <= count THEN "present" ELSE IF page[i] = "none" THEN "none" ELSE "deleted"]

\* upsert_work, store_current_revision and sync_pages
Upserted(w, snapshot) ==
  [row |-> IF work[w].state = "none" THEN work[w].row + 1 ELSE work[w].row,
   basis |-> snapshot,
   page |-> SyncPages(work[w].page, snapshot.pages),
   media |-> work[w].media,
   state |-> IF work[w].state = "none" THEN "metadata_only" ELSE work[w].state,
   source |-> "present"]

\* Wrong: the marker was looked at when the work was chosen, and is not again.
SaveTrustsCheck(c) ==
  /\ At(c, "save")
  /\ \E w \in executor[c].current :
       /\ work' = [work EXCEPT ![w] = Upserted(w, executor[c].detail)]
       /\ marker' = IF c \in Import THEN marker \ {w} ELSE marker
       /\ Remembers(c, [executor[c] EXCEPT !.row = work'[w].row, !.step =
            IF VerdictOf(c, executor[c].detail) = "Download" THEN "enqueue" ELSE "record"])
  /\ UNCHANGED <<pixiv, job, run, download, budget>>

\* save_pixiv_metadata_with_lease: under the lock of the Pixiv work a unit is
\* refused by a marker and an import removes it.
Save(c) ==
  /\ At(c, "save")
  /\ \E w \in executor[c].current :
       \/ /\ c \in Unit /\ w \in marker
          /\ GivesUp(c)
          /\ UNCHANGED <<work, marker>>
       \/ /\ ~(c \in Unit /\ w \in marker)
          /\ work' = [work EXCEPT ![w] = Upserted(w, executor[c].detail)]
          /\ marker' = marker \ {w}
          /\ Remembers(c, [executor[c] EXCEPT !.row = work'[w].row, !.step =
               IF VerdictOf(c, executor[c].detail) = "Download" THEN "enqueue" ELSE "record"])
  /\ UNCHANGED <<pixiv, job, run, download, budget>>

\* The job states that may still run.
Live == {"queued", "running", "retryable"}

LiveDownload(w) == \E d \in Download : download[<<w, d>>].state \in Live

\* enqueue_download_if_absent: a live download job of the Pixiv work is enough,
\* whatever row it was made for.
EnqueueDownload(c) ==
  /\ At(c, "enqueue")
  /\ \E w \in executor[c].current :
       IF LiveDownload(w) THEN UNCHANGED download
       ELSE \E d \in Download : download' = [download EXCEPT ![<<w, d>>] =
              [state |-> "queued", row |-> executor[c].row, plan |-> {}]]
  /\ Moves(c, "record")
  /\ UNCHANGED <<pixiv, work, marker, job, run, budget>>

\* record_candidate, or the ranking entry, and the work is counted.
Record(c) ==
  /\ At(c, "record")
  /\ run' = IF c \in Import
              THEN [run EXCEPT ![c].candidates = @ \cup executor[c].current] ELSE run
  /\ Remembers(c, [executor[c] EXCEPT !.step = "choose", !.current = {},
                                      !.saved = @ \cup executor[c].current])
  /\ UNCHANGED <<pixiv, work, marker, job, download, budget>>

\* What the import reports of the works it saved.
Result(c) == [run[c] EXCEPT !.saved = executor[c].saved, !.status =
  IF executor[c].saved = {} THEN "ignored"
  ELSE IF c \in WorkImport /\ VerdictOf(c, executor[c].detail) = "Download"
    THEN "download_queued" ELSE "metadata_saved"]

\* JobCompletion::Import ends the job and the import_run together.
Complete(c) ==
  /\ At(c, "choose") /\ executor[c].todo = {}
  /\ c \in Import => run[c].status \in {"queued", "running"}
  /\ job' = [job EXCEPT ![c] = "completed"]
  /\ run' = IF c \in Import THEN [run EXCEPT ![c] = Result(c)] ELSE run
  /\ Remembers(c, NoMemory)
  /\ UNCHANGED <<pixiv, work, marker, download, budget>>

\* A request or a transaction fails in a way that may pass.
Trouble(c) ==
  /\ job[c] = "running" /\ executor[c].step \notin {"idle", "failing"}
  /\ Fails
  /\ Moves(c, "failing")
  /\ UNCHANGED <<pixiv, work, marker, job, run, download, changes, operations>>

\* record_job_attempt_failure
RecordAttemptFailure(c) ==
  /\ At(c, "failing")
  /\ c \in Import /\ run[c].status = "running"
  /\ run' = [run EXCEPT ![c].status = "queued", ![c].saved = {}]
  /\ UNCHANGED <<pixiv, work, marker, job, executor, download, budget>>

\* Wrong: the job is given up and its import is not told.
FailLeavesRun(c) ==
  /\ At(c, "failing")
  /\ \E state \in {"failed"} \cup (IF executor[c].terminal THEN {} ELSE {"retryable"}) :
       job' = [job EXCEPT ![c] = state]
  /\ Remembers(c, NoMemory)
  /\ UNCHANGED <<pixiv, work, marker, run, download, budget>>

\* fail_linked_import_run
FailedRun(c) == [run[c] EXCEPT !.status =
  IF @ \in {"queued", "running"} THEN "failed" ELSE @]

\* JobRepository::fail: a permanent error or the last attempt fails the import,
\* whether or not the failed attempt could be noted before.
Fail(c) ==
  /\ At(c, "failing")
  /\ \/ /\ ~executor[c].terminal
        /\ job' = [job EXCEPT ![c] = "retryable"]
        /\ UNCHANGED run
     \/ /\ job' = [job EXCEPT ![c] = "failed"]
        /\ run' = IF c \in Import THEN [run EXCEPT ![c] = FailedRun(c)] ELSE run
  /\ Remembers(c, NoMemory)
  /\ UNCHANGED <<pixiv, work, marker, download, budget>>

\* The executor dies or loses its lease, and the job is claimed anew.
Lost(c) ==
  /\ job[c] = "running"
  /\ Fails
  /\ job' = [job EXCEPT ![c] = "queued"]
  /\ Remembers(c, NoMemory)
  /\ UNCHANGED <<pixiv, work, marker, run, download, changes, operations>>

-----------------------------------------------------------------------------
(* The executor of a download *)

Downloads(w, d, new) == download' = [download EXCEPT ![<<w, d>>] = new]

Present(w) == {i \in Page : work[w].page[i] = "present"}

HasRow(w, d) == work[w].state # "none" /\ work[w].row = download[<<w, d>>].row

\* load_download_plan reads the row the job was made for: without it the job
\* fails for good.
ClaimDownload(w, d) ==
  /\ download[<<w, d>>].state \in {"queued", "retryable"}
  /\ Downloads(w, d, IF HasRow(w, d)
       THEN [download[<<w, d>>] EXCEPT !.state = "running", !.plan = Present(w)]
       ELSE [download[<<w, d>>] EXCEPT !.state = "failed"])
  /\ UNCHANGED <<pixiv, work, marker, job, run, executor, budget>>

Recorded(w, i) ==
  LET media == work[w].media \cup {i}
      complete == \A k \in Page : work[w].page[k] # "none" => k \in media
  IN  [work[w] EXCEPT !.media = media,
         !.state = IF @ # "trash" /\ complete THEN "collected" ELSE @]

\* The pages in order; save_source_revision of the last one completes the job,
\* and a page that did not change is not saved again.
DownloadPage(w, d) ==
  /\ download[<<w, d>>].state = "running"
  /\ \E i \in download[<<w, d>>].plan :
       /\ \A k \in download[<<w, d>>].plan : i <= k
       /\ IF HasRow(w, d)
            THEN /\ work' \in {[work EXCEPT ![w] = Recorded(w, i)]} \cup
                              (IF i \in work[w].media THEN {work} ELSE {})
                 /\ Downloads(w, d, [download[<<w, d>>] EXCEPT !.plan = @ \ {i},
                      !.state = IF download[<<w, d>>].plan = {i} THEN "completed" ELSE @])
            ELSE /\ Downloads(w, d, [download[<<w, d>>] EXCEPT !.state = "failed", !.plan = {}])
                 /\ UNCHANGED work
  /\ UNCHANGED <<pixiv, marker, job, run, executor, budget>>

\* An attempt fails or is lost.
DownloadFails(w, d) ==
  /\ download[<<w, d>>].state = "running"
  /\ Fails
  /\ \E state \in {"queued", "retryable", "failed"} :
       Downloads(w, d, [download[<<w, d>>] EXCEPT !.state = state, !.plan = {}])
  /\ UNCHANGED <<pixiv, work, marker, job, run, executor, changes, operations>>

\* The operator cancels a download, or retries one that failed.
CancelDownload(w, d) ==
  /\ download[<<w, d>>].state \in Live
  /\ Operates
  /\ Downloads(w, d, [download[<<w, d>>] EXCEPT !.state = "cancelled", !.plan = {}])
  /\ UNCHANGED <<pixiv, work, marker, job, run, executor, changes, failures>>

RetryDownload(w, d) ==
  /\ download[<<w, d>>].state = "failed"
  /\ Operates
  /\ Downloads(w, d, [download[<<w, d>>] EXCEPT !.state = "queued"])
  /\ UNCHANGED <<pixiv, work, marker, job, run, executor, changes, failures>>

-----------------------------------------------------------------------------

CollectorStep(c) ==
  \/ Claim(c) \/ Begin(c) \/ Choose(c) \/ FetchDetail(c) \/ FetchPages(c)
  \/ Save(c) \/ EnqueueDownload(c) \/ Record(c) \/ Complete(c)
  \/ RecordAttemptFailure(c) \/ Fail(c)

DownloadStep(w, d) == ClaimDownload(w, d) \/ DownloadPage(w, d)

OperatorStep ==
  \/ \E c \in Import : QueueImport(c)
  \/ \E c \in Unit : QueueUnit(c)
  \/ \E c \in Collector : Cancel(c) \/ Retry(c)
  \/ \E w \in Work : Trash(w) \/ Purge(w)
  \/ \E w \in Work, d \in Download : CancelDownload(w, d) \/ RetryDownload(w, d)

Next ==
  \/ \E w \in Work : PixivChanges(w)
  \/ OperatorStep
  \/ \E c \in Collector : CollectorStep(c) \/ Trouble(c) \/ Lost(c)
  \/ \E w \in Work, d \in Download : DownloadStep(w, d) \/ DownloadFails(w, d)

Spec == Init /\ [][Next]_vars

\* The queue hands out what is due and a worker goes on with what it claimed.
Fairness == \A c \in Collector : WF_vars(CollectorStep(c))

FairSpec == Spec /\ Fairness

-----------------------------------------------------------------------------
(* Properties *)

\* A work deleted for good has no row while its marker stands, although the
\* marker is looked at long before the work is saved.
MarkerExcludesWork == \A w \in marker : work[w].state = "none"

\* An import and its job agree: an import that waits or runs has a job that
\* still can, and one that ended has a job that ended alike.
ImportAgreesWithJob == \A c \in Import :
  CASE run[c].status \in {"queued", "running"} -> job[c] \in Live
    [] run[c].status \in Successful -> job[c] = "completed"
    [] run[c].status = "failed" -> job[c] \in {"failed", "cancelled"}
    [] run[c].status = "cancelled" -> job[c] = "cancelled"
    [] OTHER -> job[c] = "none"

\* Every import ends.
ImportsEnd == \A c \in Import :
  run[c].status \in {"queued", "running"} ~> run[c].status \notin {"queued", "running"}

=============================================================================
