------------------------- MODULE WorkCollectionProofs -------------------------
(***************************************************************************)
(* Proofs about WorkCollection, for any works, imports, units and bounds:  *)
(* its types, that a work deleted for good has no row while its marker     *)
(* stands, and that an import ends with its job.  Both invariants are      *)
(* inductive with the types: the transactions in which they could break    *)
(* look again at what an earlier step had looked at.                       *)
(***************************************************************************)
EXTENDS WorkCollection, TLAPS

-----------------------------------------------------------------------------
(* What the writes keep of the types *)

\* The writes of an executor's memory, whichever step makes them.
LEMMA RemembersTyped ==
  ASSUME executor \in [Collector -> Memory], NEW c \in Collector, NEW memory \in Memory,
         Remembers(c, memory)
  PROVE  executor' \in [Collector -> Memory]
  BY DEF Remembers

LEMMA NoMemoryTyped == NoMemory \in Memory
  BY DEF NoMemory, Memory, Step

LEMMA MovesTyped ==
  ASSUME executor \in [Collector -> Memory], NEW c \in Collector, NEW step \in Step,
         Moves(c, step)
  PROVE  executor' \in [Collector -> Memory]
<1>1. [executor[c] EXCEPT !.step = step] \in Memory
  BY DEF Memory
<1> QED BY <1>1, RemembersTyped DEF Moves

LEMMA NextWorkTyped ==
  ASSUME executor \in [Collector -> Memory], NEW c \in Collector, NextWork(c)
  PROVE  executor' \in [Collector -> Memory]
<1>1. [executor[c] EXCEPT !.step = "choose", !.current = {}] \in Memory
  BY DEF Memory, Step
<1> QED BY <1>1, RemembersTyped DEF NextWork

LEMMA GivesUpTyped ==
  ASSUME executor \in [Collector -> Memory], NEW c \in Collector, GivesUp(c)
  PROVE  executor' \in [Collector -> Memory]
<1>1. [executor[c] EXCEPT !.step = "failing", !.terminal = TRUE] \in Memory
  <2>1. [executor[c] EXCEPT !.step = "failing"] \in Memory
    BY DEF Memory, Step
  <2> QED BY <2>1 DEF Memory, Step
<1> QED BY <1>1, RemembersTyped DEF GivesUp

\* An EXCEPT of one import's run.
LEMMA RunTyped ==
  ASSUME run \in [Import -> ImportRun], NEW c \in Import, NEW record \in ImportRun,
         run' = [run EXCEPT ![c] = record]
  PROVE  run' \in [Import -> ImportRun]
  OBVIOUS

LEMMA NoWorkTyped == ASSUME NEW n \in Nat PROVE NoWork(n) \in WorkRow
  BY DEF NoWork, WorkRow, Hidden, Page

\* The row that save_pixiv_metadata_with_lease leaves.
LEMMA UpsertedTyped ==
  ASSUME work \in [Work -> WorkRow], NEW w \in Work, NEW snapshot \in Snapshot \cup {Hidden}
  PROVE  Upserted(w, snapshot) \in WorkRow
<1> DEFINE page == SyncPages(work[w].page, snapshot.pages)
<1>1. page \in [Page -> {"none", "present", "deleted"}]
  BY DEF SyncPages
<1>2. work[w] \in WorkRow /\ work[w].row \in Nat /\ work[w].row + 1 \in Nat
  BY DEF WorkRow
<1> HIDE DEF page
<1>3. Upserted(w, snapshot) =
        [row |-> IF work[w].state = "none" THEN work[w].row + 1 ELSE work[w].row,
         basis |-> snapshot, page |-> page, media |-> work[w].media,
         state |-> IF work[w].state = "none" THEN "metadata_only" ELSE work[w].state,
         source |-> "present"]
  BY DEF Upserted, page
<1> QED BY <1>1, <1>2, <1>3 DEF WorkRow

\* The row that save_source_revision leaves.
LEMMA RecordedTyped ==
  ASSUME work \in [Work -> WorkRow], NEW w \in Work, NEW i \in Page
  PROVE  Recorded(w, i) \in WorkRow
<1>1. work[w] \in WorkRow
  OBVIOUS
<1>2. [work[w] EXCEPT !.media = work[w].media \cup {i}] \in WorkRow
  BY <1>1 DEF WorkRow
<1> QED BY <1>1, <1>2 DEF Recorded, WorkRow

\* The writes of a download's row.
LEMMA DownloadStateTyped ==
  ASSUME download \in [Work \X Download -> DownloadJob],
         NEW w \in Work, NEW d \in Download, NEW state \in JobState
  PROVE  [download[<<w, d>>] EXCEPT !.state = state] \in DownloadJob
<1>1. PICK old \in DownloadJob : download[<<w, d>>] = old
  OBVIOUS
<1>2. [old EXCEPT !.state = state] \in DownloadJob
  BY DEF DownloadJob
<1> QED BY <1>1, <1>2

LEMMA DownloadJobTyped ==
  ASSUME download \in [Work \X Download -> DownloadJob],
         NEW w \in Work, NEW d \in Download, NEW state \in JobState, NEW plan \in SUBSET Page
  PROVE  /\ [download[<<w, d>>] EXCEPT !.state = state, !.plan = plan] \in DownloadJob
         /\ [download[<<w, d>>] EXCEPT !.plan = plan, !.state = state] \in DownloadJob
<1>1. PICK old \in DownloadJob : download[<<w, d>>] = old
  OBVIOUS
<1>2. [old EXCEPT !.state = state, !.plan = plan] \in DownloadJob
  BY DEF DownloadJob
<1>3. [old EXCEPT !.plan = plan, !.state = state] \in DownloadJob
  BY DEF DownloadJob
<1> QED BY <1>1, <1>2, <1>3

-----------------------------------------------------------------------------
(* The types *)

LEMMA InitTyped == Init => TypeOK
<1> SUFFICES ASSUME Init PROVE TypeOK
  OBVIOUS
<1>1. work \in [Work -> WorkRow]
  BY NoWorkTyped DEF Init
<1>2. executor \in [Collector -> Memory]
  BY NoMemoryTyped DEF Init
<1>3. run \in [Import -> ImportRun]
  BY DEF Init, NoRun, ImportRun, ImportStatus
<1>4. download \in [Work \X Download -> DownloadJob]
  BY DEF Init, NoJob, DownloadJob, JobState
<1> QED BY <1>1, <1>2, <1>3, <1>4 DEF Init, TypeOK, JobState

LEMMA OperatorTyped ==
  ASSUME TypeOK, OperatorStep, WorkCollectionAssumption
  PROVE  TypeOK'
<1>1. ASSUME NEW c \in Import, QueueImport(c) PROVE TypeOK'
  <2>1. [run[c] EXCEPT !.status = "queued"] \in ImportRun
    BY DEF TypeOK, ImportRun, ImportStatus
  <2>2. run' = [run EXCEPT ![c] = [run[c] EXCEPT !.status = "queued"]]
    BY <1>1 DEF QueueImport
  <2>3. run' \in [Import -> ImportRun]
    BY <2>1, <2>2, RunTyped DEF TypeOK
  <2> QED BY <1>1, <2>3 DEF TypeOK, QueueImport, JobState, Collector, budget
<1>2. ASSUME NEW c \in Unit, QueueUnit(c) PROVE TypeOK'
  BY <1>2 DEF TypeOK, QueueUnit, Operates, JobState, Collector
<1>3. ASSUME NEW c \in Collector, Cancel(c) PROVE TypeOK'
  <2>1. executor' \in [Collector -> Memory]
    BY <1>3, NoMemoryTyped DEF TypeOK, Cancel
  <2>2. run' \in [Import -> ImportRun]
    <3>1. CASE c \in Import
      <4>1. CancelledRun(c) \in ImportRun
        BY <3>1 DEF TypeOK, CancelledRun, ImportRun, ImportStatus
      <4> QED BY <1>3, <3>1, <4>1, RunTyped DEF TypeOK, Cancel
    <3> QED BY <1>3, <3>1 DEF TypeOK, Cancel
  <2> QED BY <1>3, <2>1, <2>2 DEF TypeOK, Cancel, Operates, JobState
<1>4. ASSUME NEW c \in Collector, Retry(c) PROVE TypeOK'
  <2>1. run' \in [Import -> ImportRun]
    <3>1. CASE c \in Import
      <4>1. [run[c] EXCEPT !.status = "queued", !.saved = {}] \in ImportRun
        BY <3>1 DEF TypeOK, ImportRun, ImportStatus
      <4>2. run' = [run EXCEPT ![c] = [run[c] EXCEPT !.status = "queued", !.saved = {}]]
        BY <1>4, <3>1 DEF TypeOK, Retry, ResetRun
      <4> QED BY <3>1, <4>1, <4>2, RunTyped DEF TypeOK
    <3> QED BY <1>4, <3>1 DEF TypeOK, Retry
  <2> QED BY <1>4, <2>1 DEF TypeOK, Retry, Operates, JobState
<1>5. ASSUME NEW w \in Work, Trash(w) PROVE TypeOK'
  <2>1. [work[w] EXCEPT !.state = "trash"] \in WorkRow
    BY DEF TypeOK, WorkRow
  <2> QED BY <1>5, <2>1 DEF TypeOK, Trash, Operates
<1>6. ASSUME NEW w \in Work, Purge(w) PROVE TypeOK'
  <2>1. NoWork(work[w].row) \in WorkRow
    BY NoWorkTyped DEF TypeOK, WorkRow
  <2> QED BY <1>6, <2>1 DEF TypeOK, Purge, budget
<1>7. ASSUME NEW w \in Work, NEW d \in Download, CancelDownload(w, d) PROVE TypeOK'
  <2>1. [download[<<w, d>>] EXCEPT !.state = "cancelled", !.plan = {}] \in DownloadJob
    BY DownloadJobTyped DEF TypeOK, JobState
  <2> QED BY <1>7, <2>1 DEF TypeOK, CancelDownload, Downloads, Operates
<1>8. ASSUME NEW w \in Work, NEW d \in Download, RetryDownload(w, d) PROVE TypeOK'
  <2>1. [download[<<w, d>>] EXCEPT !.state = "queued"] \in DownloadJob
    BY DownloadStateTyped DEF TypeOK, JobState
  <2> QED BY <1>8, <2>1 DEF TypeOK, RetryDownload, Downloads, Operates
<1> QED BY <1>1, <1>2, <1>3, <1>4, <1>5, <1>6, <1>7, <1>8 DEF OperatorStep

LEMMA DownloadTyped ==
  ASSUME TypeOK, WorkCollectionAssumption, NEW w \in Work, NEW d \in Download,
         DownloadStep(w, d) \/ DownloadFails(w, d)
  PROVE  TypeOK'
<1>1. CASE ClaimDownload(w, d)
  <2>1. [download[<<w, d>>] EXCEPT !.state = "running", !.plan = Present(w)] \in DownloadJob
    BY DownloadJobTyped DEF TypeOK, JobState, Present
  <2>2. [download[<<w, d>>] EXCEPT !.state = "failed"] \in DownloadJob
    BY DownloadStateTyped DEF TypeOK, JobState
  <2> QED BY <1>1, <2>1, <2>2 DEF TypeOK, ClaimDownload, Downloads, budget
<1>2. CASE DownloadPage(w, d)
  <2>1. PICK i \in download[<<w, d>>].plan :
          IF HasRow(w, d)
            THEN /\ work' \in {[work EXCEPT ![w] = Recorded(w, i)]} \cup
                              (IF i \in work[w].media THEN {work} ELSE {})
                 /\ Downloads(w, d, [download[<<w, d>>] EXCEPT !.plan = @ \ {i},
                      !.state = IF download[<<w, d>>].plan = {i} THEN "completed" ELSE @])
            ELSE /\ Downloads(w, d, [download[<<w, d>>] EXCEPT !.state = "failed", !.plan = {}])
                 /\ UNCHANGED work
    BY <1>2 DEF DownloadPage
  <2>2. i \in Page
    BY DEF TypeOK, DownloadJob
  <2>3. work' \in [Work -> WorkRow]
    <3>1. work' = work \/ work' = [work EXCEPT ![w] = Recorded(w, i)]
      BY <2>1
    <3>2. Recorded(w, i) \in WorkRow
      BY <2>2, RecordedTyped DEF TypeOK
    <3> QED BY <3>1, <3>2 DEF TypeOK
  <2>4. download' \in [Work \X Download -> DownloadJob]
    <3>1. [download[<<w, d>>] EXCEPT !.state = "failed", !.plan = {}] \in DownloadJob
      BY DownloadJobTyped DEF TypeOK, JobState
    <3>2. [download[<<w, d>>] EXCEPT !.plan = @ \ {i},
             !.state = IF download[<<w, d>>].plan = {i} THEN "completed" ELSE @] \in DownloadJob
      <4>1. download[<<w, d>>].plan \ {i} \in SUBSET Page /\ download[<<w, d>>].state \in JobState
        BY DEF TypeOK, DownloadJob
      <4> QED BY <4>1, DownloadJobTyped DEF TypeOK, JobState
    <3> QED BY <2>1, <3>1, <3>2 DEF TypeOK, Downloads
  <2> QED BY <1>2, <2>3, <2>4 DEF TypeOK, DownloadPage, budget
<1>3. CASE DownloadFails(w, d)
  <2>1. PICK state \in {"queued", "retryable", "failed"} :
          Downloads(w, d, [download[<<w, d>>] EXCEPT !.state = state, !.plan = {}])
    BY <1>3 DEF DownloadFails
  <2>2. [download[<<w, d>>] EXCEPT !.state = state, !.plan = {}] \in DownloadJob
    BY DownloadJobTyped DEF TypeOK, JobState
  <2> QED BY <1>3, <2>1, <2>2 DEF TypeOK, DownloadFails, Downloads, Fails
<1> QED BY <1>1, <1>2, <1>3 DEF DownloadStep

LEMMA CollectorTyped ==
  ASSUME TypeOK, WorkCollectionAssumption, NEW c \in Collector,
         CollectorStep(c) \/ Trouble(c) \/ Lost(c)
  PROVE  TypeOK'
<1> USE DEF budget
<1>1. CASE Claim(c)
  <2>1. [NoMemory EXCEPT !.step = "begin"] \in Memory
    BY NoMemoryTyped DEF Memory, Step
  <2> QED BY <1>1, <2>1, RemembersTyped DEF TypeOK, Claim, JobState
<1>2. CASE Begin(c)
  <2>1. [executor[c] EXCEPT !.step = "choose", !.todo = Target[c]] \in Memory
    <3>1. Target[c] \in SUBSET Work
      BY DEF WorkCollectionAssumption
    <3> QED BY <3>1 DEF TypeOK, Memory, Step
  <2>2. executor' \in [Collector -> Memory]
    BY <1>2, <2>1, RemembersTyped DEF TypeOK, Begin
  <2>3. run' \in [Import -> ImportRun]
    <3>1. CASE c \in Import
      <4>1. [run[c] EXCEPT !.status = "running"] \in ImportRun
        BY <3>1 DEF TypeOK, ImportRun, ImportStatus
      <4>2. run' = [run EXCEPT ![c] = [run[c] EXCEPT !.status = "running"]]
        BY <1>2, <3>1 DEF TypeOK, Begin
      <4> QED BY <3>1, <4>1, <4>2, RunTyped DEF TypeOK
    <3> QED BY <1>2, <3>1 DEF TypeOK, Begin
  <2> QED BY <1>2, <2>2, <2>3 DEF TypeOK, Begin
<1>3. CASE Choose(c)
  <2>1. PICK w \in executor[c].todo :
          \/ Remembers(c, [executor[c] EXCEPT !.todo = @ \ {w}])
          \/ Remembers(c, [executor[c] EXCEPT !.step = "detail", !.todo = @ \ {w},
                                              !.current = {w}])
    BY <1>3 DEF Choose
  <2>2. executor[c] \in Memory /\ w \in Work
    BY DEF TypeOK, Memory
  <2>3. [executor[c] EXCEPT !.todo = @ \ {w}] \in Memory
    BY <2>2 DEF Memory
  <2>4. [executor[c] EXCEPT !.step = "detail", !.todo = @ \ {w}, !.current = {w}] \in Memory
    BY <2>2 DEF Memory, Step
  <2>5. executor' \in [Collector -> Memory]
    BY <2>1, <2>3, <2>4, RemembersTyped DEF TypeOK
  <2> QED BY <1>3, <2>5 DEF TypeOK, Choose
<1>4. CASE FetchDetail(c)
  <2>1. PICK w \in executor[c].current :
          \/ /\ pixiv[w] = Hidden
             /\ PixivRefuses(c)
             /\ work' = SourceMissing(w)
          \/ /\ pixiv[w] # Hidden
             /\ IF VerdictOf(c, pixiv[w]) = "Ignore"
                  THEN NextWork(c)
                  ELSE Remembers(c, [executor[c] EXCEPT !.step = "pages", !.detail = pixiv[w]])
             /\ UNCHANGED work
    BY <1>4 DEF FetchDetail
  <2>2. executor[c] \in Memory /\ w \in Work /\ pixiv[w] \in Snapshot \cup {Hidden}
    BY DEF TypeOK, Memory
  <2>3. [executor[c] EXCEPT !.step = "pages", !.detail = pixiv[w]] \in Memory
    BY <2>2 DEF Memory, Step
  <2>4. executor' \in [Collector -> Memory]
    BY <2>1, <2>3, NextWorkTyped, GivesUpTyped, RemembersTyped DEF TypeOK, PixivRefuses
  <2>5. work' \in [Work -> WorkRow]
    <3>1. [work[w] EXCEPT !.source = "missing"] \in WorkRow /\ work[w] \in WorkRow
      <4>1. PICK old \in WorkRow : work[w] = old
        BY <2>2 DEF TypeOK
      <4>2. [old EXCEPT !.source = "missing"] \in WorkRow
        BY DEF WorkRow
      <4> QED BY <4>1, <4>2
    <3>2. work' = work \/ work' = [work EXCEPT ![w] = [work[w] EXCEPT !.source = "missing"]]
      <4>1. [work EXCEPT ![w].source = work[w].source] = work
        <5>1. work[w] \in WorkRow /\ work \in [Work -> WorkRow]
          BY <2>2 DEF TypeOK
        <5>2. [work[w] EXCEPT !.source = work[w].source] = work[w]
          BY <5>1 DEF WorkRow
        <5>3. [work EXCEPT ![w] = work[w]] = work
          BY <5>1
        <5> QED BY <5>2, <5>3
      <4>2. CASE pixiv[w] = Hidden
        <5>1. work' = [work EXCEPT ![w].source = IF work[w].source = "none"
                                                   THEN work[w].source ELSE "missing"]
          BY <2>1, <4>2 DEF SourceMissing
        <5>2. CASE work[w].source = "none"
          BY <4>1, <5>1, <5>2
        <5>3. CASE work[w].source # "none"
          BY <5>1, <5>3, <2>2 DEF TypeOK
        <5> QED BY <5>2, <5>3
      <4> QED BY <2>1, <4>2
    <3> QED BY <3>1, <3>2, <2>2 DEF TypeOK
  <2> QED BY <1>4, <2>4, <2>5 DEF TypeOK, FetchDetail
<1>5. CASE FetchPages(c)
  <2>1. PixivRefuses(c) \/ Moves(c, "save") \/ GivesUp(c)
    BY <1>5 DEF FetchPages
  <2>2. executor' \in [Collector -> Memory]
    BY <2>1, MovesTyped, NextWorkTyped, GivesUpTyped DEF TypeOK, PixivRefuses, Step
  <2> QED BY <1>5, <2>2 DEF TypeOK, FetchPages
<1>6. CASE Save(c)
  <2>1. PICK w \in executor[c].current :
          \/ /\ GivesUp(c)
             /\ UNCHANGED <<work, marker>>
          \/ /\ work' = [work EXCEPT ![w] = Upserted(w, executor[c].detail)]
             /\ marker' = marker \ {w}
             /\ Remembers(c, [executor[c] EXCEPT !.row = work'[w].row, !.step =
                  IF VerdictOf(c, executor[c].detail) = "Download" THEN "enqueue" ELSE "record"])
    BY <1>6 DEF Save
  <2>2. CASE GivesUp(c) /\ UNCHANGED <<work, marker>>
    BY <1>6, <2>2, GivesUpTyped DEF TypeOK, Save
  <2>3. CASE /\ work' = [work EXCEPT ![w] = Upserted(w, executor[c].detail)]
             /\ marker' = marker \ {w}
             /\ Remembers(c, [executor[c] EXCEPT !.row = work'[w].row, !.step =
                  IF VerdictOf(c, executor[c].detail) = "Download" THEN "enqueue" ELSE "record"])
    <3>1. executor[c] \in Memory /\ w \in Work /\ executor[c].detail \in Snapshot \cup {Hidden}
      BY DEF TypeOK, Memory
    <3>2. Upserted(w, executor[c].detail) \in WorkRow
      BY <3>1, UpsertedTyped DEF TypeOK
    <3>3. work' \in [Work -> WorkRow] /\ work'[w].row \in Nat
      BY <2>3, <3>1, <3>2 DEF TypeOK, WorkRow
    <3>4. PICK step \in Step : step =
            IF VerdictOf(c, executor[c].detail) = "Download" THEN "enqueue" ELSE "record"
      BY DEF Step
    <3>5. [executor[c] EXCEPT !.row = work'[w].row, !.step = step] \in Memory
      BY <3>1, <3>3 DEF Memory
    <3>6. executor' \in [Collector -> Memory]
      BY <2>3, <3>4, <3>5, RemembersTyped DEF TypeOK
    <3> QED BY <1>6, <2>3, <3>3, <3>6 DEF TypeOK, Save
  <2> QED BY <2>1, <2>2, <2>3
<1>7. CASE EnqueueDownload(c)
  <2>1. executor' \in [Collector -> Memory]
    BY <1>7, MovesTyped DEF TypeOK, EnqueueDownload, Step
  <2>2. PICK w \in executor[c].current :
          \/ UNCHANGED download
          \/ \E d \in Download : download' = [download EXCEPT ![<<w, d>>] =
               [state |-> "queued", row |-> executor[c].row, plan |-> {}]]
    BY <1>7 DEF EnqueueDownload
  <2>3. w \in Work /\ executor[c].row \in Nat
    BY DEF TypeOK, Memory
  <2>4. [state |-> "queued", row |-> executor[c].row, plan |-> {}] \in DownloadJob
    BY <2>3 DEF DownloadJob, JobState
  <2>5. download' \in [Work \X Download -> DownloadJob]
    BY <2>2, <2>3, <2>4 DEF TypeOK
  <2> QED BY <1>7, <2>1, <2>5 DEF TypeOK, EnqueueDownload
<1>8. CASE Record(c)
  <2>1. executor[c] \in Memory /\ executor[c].current \in SUBSET Work
    BY DEF TypeOK, Memory
  <2>2. [executor[c] EXCEPT !.step = "choose", !.current = {},
                            !.saved = @ \cup executor[c].current] \in Memory
    BY <2>1 DEF Memory, Step
  <2>3. executor' \in [Collector -> Memory]
    BY <1>8, <2>2, RemembersTyped DEF TypeOK, Record
  <2>4. run' \in [Import -> ImportRun]
    <3>1. CASE c \in Import
      <4>1. [run[c] EXCEPT !.candidates = @ \cup executor[c].current] \in ImportRun
        BY <2>1, <3>1 DEF TypeOK, ImportRun
      <4>2. run' = [run EXCEPT ![c] = [run[c] EXCEPT !.candidates = @ \cup executor[c].current]]
        BY <1>8, <3>1 DEF TypeOK, Record
      <4> QED BY <3>1, <4>1, <4>2, RunTyped DEF TypeOK
    <3> QED BY <1>8, <3>1 DEF TypeOK, Record
  <2> QED BY <1>8, <2>3, <2>4 DEF TypeOK, Record
<1>9. CASE Complete(c)
  <2>1. executor' \in [Collector -> Memory]
    BY <1>9, NoMemoryTyped, RemembersTyped DEF TypeOK, Complete
  <2>2. run' \in [Import -> ImportRun]
    <3>1. CASE c \in Import
      <4>1. executor[c].saved \in SUBSET Work /\ run[c] \in ImportRun
        BY <3>1 DEF TypeOK, Memory
      <4>2. Result(c) \in ImportRun
        <5>1. PICK status \in ImportStatus : status =
                IF executor[c].saved = {} THEN "ignored"
                ELSE IF c \in WorkImport /\ VerdictOf(c, executor[c].detail) = "Download"
                  THEN "download_queued" ELSE "metadata_saved"
          BY DEF ImportStatus
        <5>2. [run[c] EXCEPT !.saved = executor[c].saved, !.status = status] \in ImportRun
          BY <4>1 DEF ImportRun
        <5> QED BY <5>1, <5>2 DEF Result
      <4> QED BY <1>9, <3>1, <4>2, RunTyped DEF TypeOK, Complete
    <3> QED BY <1>9, <3>1 DEF TypeOK, Complete
  <2> QED BY <1>9, <2>1, <2>2 DEF TypeOK, Complete, JobState
<1>10. CASE RecordAttemptFailure(c)
  <2>1. [run[c] EXCEPT !.status = "queued", !.saved = {}] \in ImportRun
    BY <1>10 DEF TypeOK, RecordAttemptFailure, ImportRun, ImportStatus
  <2>2. run' = [run EXCEPT ![c] = [run[c] EXCEPT !.status = "queued", !.saved = {}]]
    BY <1>10 DEF TypeOK, RecordAttemptFailure
  <2>3. run' \in [Import -> ImportRun]
    BY <1>10, <2>1, <2>2, RunTyped DEF TypeOK, RecordAttemptFailure
  <2> QED BY <1>10, <2>3 DEF TypeOK, RecordAttemptFailure
<1>11. CASE Fail(c)
  <2>1. executor' \in [Collector -> Memory]
    BY <1>11, NoMemoryTyped, RemembersTyped DEF TypeOK, Fail
  <2>2. run' \in [Import -> ImportRun]
    <3>1. CASE c \in Import
      <4>1. FailedRun(c) \in ImportRun
        BY <3>1 DEF TypeOK, FailedRun, ImportRun, ImportStatus
      <4> QED BY <1>11, <3>1, <4>1, RunTyped DEF TypeOK, Fail
    <3> QED BY <1>11, <3>1 DEF TypeOK, Fail
  <2>3. job' \in [Collector -> JobState]
    BY <1>11 DEF TypeOK, Fail, JobState
  <2> QED BY <1>11, <2>1, <2>2, <2>3 DEF TypeOK, Fail
<1>12. CASE Trouble(c)
  <2>1. executor' \in [Collector -> Memory]
    BY <1>12, MovesTyped DEF TypeOK, Trouble, Step
  <2> QED BY <1>12, <2>1 DEF TypeOK, Trouble, Fails
<1>13. CASE Lost(c)
  <2>1. executor' \in [Collector -> Memory]
    BY <1>13, NoMemoryTyped, RemembersTyped DEF TypeOK, Lost
  <2>2. job' \in [Collector -> JobState]
    BY <1>13 DEF TypeOK, Lost, JobState
  <2> QED BY <1>13, <2>1, <2>2 DEF TypeOK, Lost, Fails
<1> QED BY <1>1, <1>2, <1>3, <1>4, <1>5, <1>6, <1>7, <1>8, <1>9, <1>10, <1>11, <1>12, <1>13
       DEF CollectorStep

LEMMA TypeStep == TypeOK /\ WorkCollectionAssumption /\ [Next]_vars => TypeOK'
<1> SUFFICES ASSUME TypeOK, WorkCollectionAssumption, [Next]_vars PROVE TypeOK'
  OBVIOUS
<1>1. ASSUME NEW w \in Work, PixivChanges(w) PROVE TypeOK'
  BY <1>1 DEF TypeOK, PixivChanges
<1>2. CASE OperatorStep
  BY <1>2, OperatorTyped
<1>3. ASSUME NEW c \in Collector, CollectorStep(c) \/ Trouble(c) \/ Lost(c) PROVE TypeOK'
  BY <1>3, CollectorTyped
<1>4. ASSUME NEW w \in Work, NEW d \in Download, DownloadStep(w, d) \/ DownloadFails(w, d)
      PROVE  TypeOK'
  BY <1>4, DownloadTyped
<1>5. CASE UNCHANGED vars
  BY <1>5 DEF vars, budget, TypeOK
<1> QED BY <1>1, <1>2, <1>3, <1>4, <1>5 DEF Next

-----------------------------------------------------------------------------
(* A marker excludes a row *)

\* A row is made by Save alone, which removes the marker of the work or, for a
\* unit, is refused by it; a download writes only to a row that exists.
LEMMA MarkerStep ==
  TypeOK /\ WorkCollectionAssumption /\ MarkerExcludesWork /\ [Next]_vars => MarkerExcludesWork'
<1> SUFFICES ASSUME TypeOK, WorkCollectionAssumption, MarkerExcludesWork, [Next]_vars
             PROVE  MarkerExcludesWork'
  OBVIOUS
<1> SUFFICES ASSUME NEW v \in marker' PROVE work'[v].state = "none"
  BY DEF MarkerExcludesWork
<1>1. CASE marker' = marker /\ work' = work
  BY <1>1 DEF MarkerExcludesWork
<1>2. ASSUME NEW w \in Work, Trash(w) PROVE work'[v].state = "none"
  BY <1>2 DEF Trash, MarkerExcludesWork, TypeOK
<1>3. ASSUME NEW w \in Work, Purge(w) PROVE work'[v].state = "none"
  BY <1>3 DEF Purge, NoWork, MarkerExcludesWork, TypeOK
<1>4. ASSUME NEW c \in Collector, FetchDetail(c) PROVE work'[v].state = "none"
  <2>1. marker' = marker /\ \A w \in Work : work'[w].state = work[w].state
    <3>1. ASSUME NEW u \in Work, NEW w \in Work PROVE SourceMissing(w)[u].state = work[u].state
      BY DEF SourceMissing, TypeOK, WorkRow
    <3>2. executor[c].current \subseteq Work
      BY DEF TypeOK, Memory
    <3> QED BY <1>4, <3>1, <3>2 DEF FetchDetail
  <2> QED BY <2>1 DEF MarkerExcludesWork, TypeOK
<1>5. ASSUME NEW c \in Collector, Save(c) PROVE work'[v].state = "none"
  <2>1. PICK w \in executor[c].current :
          \/ UNCHANGED <<work, marker>>
          \/ /\ work' = [work EXCEPT ![w] = Upserted(w, executor[c].detail)]
             /\ marker' = marker \ {w}
    BY <1>5 DEF Save
  <2> QED BY <2>1 DEF MarkerExcludesWork, TypeOK
<1>6. ASSUME NEW w \in Work, NEW d \in Download, DownloadPage(w, d)
      PROVE  work'[v].state = "none"
  <2>1. marker' = marker
    BY <1>6 DEF DownloadPage
  <2>2. work' = work \/ (HasRow(w, d) /\ \E i \in Page : work' = [work EXCEPT ![w] = Recorded(w, i)])
    <3>1. download[<<w, d>>].plan \subseteq Page
      BY DEF TypeOK, DownloadJob
    <3> QED BY <1>6, <3>1 DEF DownloadPage
  <2> QED BY <2>1, <2>2 DEF MarkerExcludesWork, HasRow, TypeOK
<1> QED
  <2>1. CASE UNCHANGED vars
    BY <1>1, <2>1 DEF vars
  <2>2. ASSUME NEW w \in Work, PixivChanges(w) PROVE work'[v].state = "none"
    BY <1>1, <2>2 DEF PixivChanges
  <2>3. CASE OperatorStep
    BY <1>1, <1>2, <1>3, <2>3
       DEF OperatorStep, QueueImport, QueueUnit, Cancel, Retry, CancelDownload, RetryDownload
  <2>4. ASSUME NEW c \in Collector, CollectorStep(c) \/ Trouble(c) \/ Lost(c)
        PROVE  work'[v].state = "none"
    BY <1>1, <1>4, <1>5, <2>4
       DEF CollectorStep, Claim, Begin, Choose, FetchPages, EnqueueDownload, Record, Complete,
           RecordAttemptFailure, Fail, Trouble, Lost
  <2>5. ASSUME NEW w \in Work, NEW d \in Download, DownloadStep(w, d) \/ DownloadFails(w, d)
        PROVE  work'[v].state = "none"
    BY <1>1, <1>6, <2>5 DEF DownloadStep, ClaimDownload, DownloadFails
  <2> QED BY <2>1, <2>2, <2>3, <2>4, <2>5 DEF Next

-----------------------------------------------------------------------------
(* An import and its job *)

\* The agreement of one import, as a relation of the two states.
Agrees(status, state) ==
  CASE status \in {"queued", "running"} -> state \in Live
    [] status \in Successful -> state = "completed"
    [] status = "failed" -> state \in {"failed", "cancelled"}
    [] status = "cancelled" -> state = "cancelled"
    [] OTHER -> state = "none"

LEMMA AgreesMeans ==
  ASSUME NEW status \in ImportStatus, NEW state \in JobState
  PROVE  Agrees(status, state) <=>
           \/ status \in {"queued", "running"} /\ state \in Live
           \/ status \in Successful /\ state = "completed"
           \/ status = "failed" /\ state \in {"failed", "cancelled"}
           \/ status = "cancelled" /\ state = "cancelled"
           \/ status = "none" /\ state = "none"
<1>1. CASE status \in {"queued", "running"}
  BY <1>1 DEF Agrees, Successful
<1>2. CASE status \in Successful
  BY <1>2 DEF Agrees, Successful
<1>3. CASE status \in {"failed", "cancelled", "none"}
  BY <1>3 DEF Agrees, Successful
<1> QED BY <1>1, <1>2, <1>3 DEF ImportStatus, Successful

\* What may become of an import and its job in a step.
Follows(status, state, after, next) ==
  \/ after = status /\ next = state
  \/ /\ status \in {"queued", "running"} /\ state \in Live
     /\ after \in {"queued", "running"} /\ next \in Live
  \/ after \in Successful /\ next = "completed"
  \/ after = "failed" /\ next \in {"failed", "cancelled"}
  \/ after = "cancelled" /\ next = "cancelled"
  \/ after = "queued" /\ next = "queued"

\* A step of a collector, or about one, leaves the others' rows alone.
TouchesOnly(c) ==
  /\ \A x \in Import \ {c} : run'[x] = run[x]
  /\ \A x \in Collector \ {c} : job'[x] = job[x]

\* An import ends in the transaction that ends its job, and a job that can run
\* again has an import that can.
LEMMA AgreementStep ==
  /\ TypeOK /\ TypeOK' /\ WorkCollectionAssumption
  /\ ImportAgreesWithJob /\ [Next]_vars
  => ImportAgreesWithJob'
<1> SUFFICES ASSUME TypeOK, TypeOK', WorkCollectionAssumption, ImportAgreesWithJob, [Next]_vars,
                    NEW i \in Import
             PROVE  Agrees(run'[i].status, job'[i])
  BY DEF ImportAgreesWithJob, Agrees
<1> DEFINE status == run[i].status   state == job[i]
           after == run'[i].status   next == job'[i]
<1>1. i \in Collector /\ i \notin Unit
  BY DEF Collector, WorkCollectionAssumption
<1>2. status \in ImportStatus /\ state \in JobState /\ after \in ImportStatus /\ next \in JobState
  BY <1>1 DEF TypeOK, ImportRun
<1>3. Agrees(status, state)
  BY DEF ImportAgreesWithJob, Agrees
<1>4. SUFFICES Follows(status, state, after, next)
  BY <1>2, <1>3, AgreesMeans DEF Follows, Live, Successful
<1>5. status \in {"queued", "running"} <=> state \in Live
  BY <1>2, <1>3, AgreesMeans DEF Live, Successful
<1>6. state = "failed" => status = "failed"
  BY <1>2, <1>3, AgreesMeans DEF Live, Successful
<1> HIDE DEF status, state, after, next
<1>7. UNCHANGED <<run, job>> => after = status /\ next = state
  BY DEF status, state, after, next
<1>8. ASSUME NEW c \in Collector, c # i, TouchesOnly(c) PROVE after = status /\ next = state
  BY <1>1, <1>8 DEF status, state, after, next, TouchesOnly
<1>9. run[i] \in ImportRun /\ run \in [Import -> ImportRun] /\ job \in [Collector -> JobState]
  BY DEF TypeOK
<1>10. CASE OperatorStep
  <2>1. ASSUME NEW c \in Import, QueueImport(c) PROVE TouchesOnly(c) /\ (c = i => after = "queued" /\ next = "queued")
    BY <1>1, <1>9, <2>1 DEF QueueImport, TouchesOnly, after, next, ImportRun, Collector
  <2>2. ASSUME NEW c \in Unit, QueueUnit(c) PROVE TouchesOnly(c)
    BY <1>9, <2>2 DEF QueueUnit, TouchesOnly
  <2>3. ASSUME NEW c \in Collector, Cancel(c)
        PROVE  /\ TouchesOnly(c)
               /\ c = i => /\ state \in Live \cup {"failed"} /\ next = "cancelled"
                           /\ after = IF status \in {"queued", "running"} THEN "cancelled" ELSE status
    BY <1>1, <1>9, <2>3
       DEF Cancel, CancelledRun, TouchesOnly, status, state, after, next, ImportRun, Live
  <2>4. ASSUME NEW c \in Collector, Retry(c)
        PROVE  TouchesOnly(c) /\ (c = i => after = "queued" /\ next = "queued")
    BY <1>1, <1>9, <2>4 DEF Retry, ResetRun, TouchesOnly, after, next, ImportRun
  <2>5. ASSUME NEW w \in Work, NEW d \in Download,
               CancelDownload(w, d) \/ RetryDownload(w, d)
        PROVE  UNCHANGED <<run, job>>
    BY <2>5 DEF CancelDownload, RetryDownload
  <2>6. ASSUME NEW w \in Work, Trash(w) \/ Purge(w) PROVE UNCHANGED <<run, job>>
    BY <2>6 DEF Trash, Purge
  <2> QED
    BY <1>1, <1>5, <1>6, <1>7, <1>8, <1>10, <2>1, <2>2, <2>3, <2>4, <2>5, <2>6
       DEF OperatorStep, Collector, Live, Follows
<1>11. ASSUME NEW c \in Collector, CollectorStep(c) \/ Trouble(c) \/ Lost(c)
       PROVE  Follows(status, state, after, next)
  <2>1. ASSUME Choose(c) \/ FetchDetail(c) \/ FetchPages(c) \/ Save(c) \/ EnqueueDownload(c) \/ Trouble(c)
        PROVE  UNCHANGED <<run, job>>
    BY <2>1 DEF Choose, FetchDetail, FetchPages, Save, EnqueueDownload, Trouble
  <2>2. CASE Record(c)
    <3>1. job' = job /\ \A x \in Import : run'[x].status = run[x].status
      BY <1>9, <2>2 DEF Record, ImportRun
    <3> QED BY <3>1 DEF Follows, status, state, after, next
  <2>3. ASSUME Claim(c)
        PROVE  /\ TouchesOnly(c)
               /\ c = i => after = status /\ state \in Live /\ next \in Live
    BY <1>1, <1>9, <2>3 DEF Claim, TouchesOnly, status, state, after, next, Live
  <2>4. ASSUME Begin(c)
        PROVE  /\ TouchesOnly(c)
               /\ c = i => after \in {"queued", "running"} /\ state \in Live /\ next \in Live
    BY <1>1, <1>9, <2>4 DEF Begin, At, TouchesOnly, status, state, after, next, ImportRun, Live
  <2>5. ASSUME Complete(c)
        PROVE  TouchesOnly(c) /\ (c = i => after \in Successful /\ next = "completed")
    BY <1>1, <1>9, <2>5 DEF Complete, Result, TouchesOnly, after, next, ImportRun, Successful
  <2>6. ASSUME RecordAttemptFailure(c)
        PROVE  /\ TouchesOnly(c)
               /\ c = i => after = "queued" /\ state \in Live /\ next = state
    BY <1>1, <1>9, <2>6
       DEF RecordAttemptFailure, At, TouchesOnly, state, after, next, ImportRun, Live
  <2>7. ASSUME Fail(c)
        PROVE  /\ TouchesOnly(c)
               /\ c = i => /\ state \in Live
                           /\ \/ after = status /\ next \in Live
                              \/ /\ next = "failed"
                                 /\ after = IF status \in {"queued", "running"} THEN "failed" ELSE status
    BY <1>1, <1>9, <2>7
       DEF Fail, FailedRun, At, TouchesOnly, status, state, after, next, ImportRun, Live
  <2>8. ASSUME Lost(c)
        PROVE  /\ TouchesOnly(c)
               /\ c = i => after = status /\ state \in Live /\ next \in Live
    BY <1>1, <1>9, <2>8 DEF Lost, TouchesOnly, status, state, after, next, Live
  <2>9. CASE c # i
    BY <1>7, <1>8, <1>11, <2>1, <2>2, <2>3, <2>4, <2>5, <2>6, <2>7, <2>8, <2>9
       DEF CollectorStep, Follows
  <2>10. CASE c = i
    BY <1>5, <1>7, <1>11, <2>1, <2>2, <2>3, <2>4, <2>5, <2>6, <2>7, <2>8, <2>10
       DEF CollectorStep, Follows
  <2> QED BY <2>9, <2>10
<1>12. ASSUME NEW w \in Work, NEW d \in Download,
              DownloadStep(w, d) \/ DownloadFails(w, d)
       PROVE  UNCHANGED <<run, job>>
  BY <1>12 DEF DownloadStep, ClaimDownload, DownloadPage, DownloadFails
<1>13. ASSUME NEW w \in Work, PixivChanges(w) PROVE UNCHANGED <<run, job>>
  BY <1>13 DEF PixivChanges
<1>14. UNCHANGED vars => UNCHANGED <<run, job>>
  BY DEF vars
<1>15. UNCHANGED <<run, job>> => Follows(status, state, after, next)
  BY DEF Follows, status, state, after, next
<1> QED BY <1>10, <1>11, <1>12, <1>13, <1>14, <1>15 DEF Next

-----------------------------------------------------------------------------
(* The theorems *)

CollectionInv == TypeOK /\ MarkerExcludesWork /\ ImportAgreesWithJob

LEMMA InitInv == Init => CollectionInv
<1> SUFFICES ASSUME Init PROVE CollectionInv
  OBVIOUS
<1>1. MarkerExcludesWork
  BY DEF Init, MarkerExcludesWork
<1>2. ASSUME NEW c \in Import PROVE Agrees(run[c].status, job[c])
  BY DEF Init, NoRun, Agrees, Successful, Collector
<1>3. ImportAgreesWithJob
  BY <1>2 DEF ImportAgreesWithJob, Agrees
<1> QED BY <1>1, <1>3, InitTyped DEF CollectionInv

\* The invariant holds in every state of every execution.
THEOREM CollectionInvariant == Spec => []CollectionInv
<1>1. CollectionInv /\ [Next]_vars => CollectionInv'
  BY TypeStep, MarkerStep, AgreementStep, WorkCollectionAssumption DEF CollectionInv
<1> QED BY InitInv, <1>1, PTL DEF Spec

\* The rows of works, imports and downloads keep their types.
THEOREM CollectionTypeCorrect == Spec => []TypeOK
<1>1. CollectionInv => TypeOK
  BY DEF CollectionInv
<1> QED BY <1>1, CollectionInvariant, PTL

\* Whatever a collector looked at before, a work deleted for good comes back
\* only with its marker removed.
THEOREM MarkersHold == Spec => []MarkerExcludesWork
<1>1. CollectionInv => MarkerExcludesWork
  BY DEF CollectionInv
<1> QED BY <1>1, CollectionInvariant, PTL

\* No import waits for a job that ended, and none is told that it ended while
\* its job goes on.
THEOREM ImportsFollowJobs == Spec => []ImportAgreesWithJob
<1>1. CollectionInv => ImportAgreesWithJob
  BY DEF CollectionInv
<1> QED BY <1>1, CollectionInvariant, PTL
=============================================================================
