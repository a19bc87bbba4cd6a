# PixivArchive, specified in TLA+

PixivArchive is a self-hosted archive of Pixiv works. A web process (`src/apps/web`) serves
the API and the user interface (`src/frontend`); a worker process (`src/apps/worker`) runs
background jobs; both share one PostgreSQL database and one media directory. The application
is a thin layer over SQL transactions, and what is hard about it is what happens *between*
transactions: a job is claimed in one, worked on for minutes, and finished in another, while
the operator, other worker tasks, the account service and the schedulers commit theirs.

This directory specifies that behaviour: TLA+ modules translated from the code, TLC runs on
small instances, and proofs checked by TLAPS for every value of the constants.

## 1. The system's parts

| Part | State it keeps | Operations | Talks to | What makes it correct | Module |
|---|---|---|---|---|---|
| Job queue (`crates/db/src/jobs`, `application/src/jobs.rs`) | `job`, `job_attempt` | enqueue, claim, heartbeat, lease status, complete, fail, wait for storage or account, cancel, retry | every other part enqueues or finishes jobs in its own transaction | one lease per job, attempts are a gapless history, a stale executor cannot write, every job settles | `JobQueue`, `JobLedger` |
| Quota rotation (`application/src/jobs.rs`, `runtime.rs`) | the rotation, in memory | tick, claim, fall back, restart | job queue | no class of jobs waits longer than its share allows | `QueueQuota` |
| Worker runtime (`worker/src/runtime.rs`, `scheduler.rs`, `storage.rs`) | tasks with their claims | poll, execute with heartbeats, apply outcomes, scan the disk, clean up | job queue, executors | an executor stops when it lost its job and not when it finished it | `JobQueue`, `QueueQuota`, `MediaArtifacts` |
| Pixiv account (`application/src/pixiv_accounts.rs`, `db/src/pixiv.rs`) | `pixiv_account`, its cookie | update, validate, clear, block, activate | job queue, Pixiv (between two transactions) | only accepted cookies are stored, a clear deletes what was seen | `PixivAccount` |
| Pixiv client (`pixiv/src/limit.rs`) | permits, the next free start | wait, book, sleep, end | Pixiv | requests start spread out | `RequestGate` |
| Bookmarks, following (`application/src/bookmarks.rs`, `following.rs`, their `db`) | bookmark rows, followed artists, exclusions | commands, listings, saves of works | Pixiv, subscriptions | the copy settles on what Pixiv shows | `PixivMirror` |
| Subscriptions (`application/src/subscriptions*`, `db/src/subscriptions`) | `subscription`, its runs, their units, cursors | fall due, start, finish, cancel, retry, stop, delete | job queue, works, account | one active run, no request is forgotten, a run ends with its units | `Subscriptions` |
| Imports, works and revisions (`application/src/imports`, `pixiv_works.rs`, `db/src/works`) | import runs and candidates, works, markers, downloads | look up, decide, save, queue a download, record | job queue, rules, trash | deleted works stay out, run and job agree | `WorkCollection` |
| Rules (`application/src/rules.rs`, `db/src/rules.rs`, `domain/src/rule`) | rules, versions, drafts | list, edit, publish, import, evaluate | imports, subscriptions | no edit is lost; a rule decides what it means | `RuleDocuments`, `RuleConditions`, `RuleEvaluation` |
| Trash and purge (`application/src/trash.rs`, `db/src/works/trash.rs`, `worker/src/executors/trash.rs`) | `trash_entry`, deletion markers | move, restore, reschedule, purge | job queue, media | what can be restored is complete; a purge ends | `TrashPurge`, `WorkLifecycle` |
| Media artifacts (`db/src/media.rs`, `crates/media`, the download and derivative executors) | intents, files, revisions, derivatives | register, publish, record, clean up | job queue, file system | a row's file is on disk, a leftover is removed | `MediaArtifacts` |
| Administrator session (`application/src/auth*`, `db/src/auth.rs`, `apps/admin`) | administrator, sessions, rate-limit buckets | log in, renew, log out, prepare | web API | no session outlives its password, guesses are bounded, the right password gets in | `AdminSessions` |
| Settings (`application/src/settings.rs`, `db/src/settings.rs`, the settings page) | nine groups with revisions | read, save a batch, read back | every service | no save overwrites what its page never showed | `Settings` |
| System page (`application/src/system.rs`) | the last measurement | ask, walk, answer, drop | media directory | every asker is answered | `MediaUsage` |
| Event feed (`db/src/events.rs`, `application/src/events.rs`, `web/src/api/events.rs`) | `app_event`, each browser's last event id | append, publish, replay, stream | every writer appends in its transaction | no committed event is skipped | `EventFeed` |
| Gallery and search (`db/src/gallery`, `frontend/.../gallery`) | lists, cursors, selections, in the browser | search, page, refresh, select, count, command | works, trash | paging skips nothing, a selection takes what was counted | `Gallery`, `GalleryFilters` |
| A page that follows the feed (`resource-refresh.ts`, `ContextDirectory.svelte`) | pending refreshes, open requests | listen, load, refresh | event feed, HTTP API | a change reaches the page | `ResourceRefresh`, `LivePage` |
| HTTP API (`web/src/api`) | none | translates requests into the calls above | all | | none |

What is hard about each, with the line where it bites, is the list `hazards` of `PROJECT.json`.

## 2. How the modules fit together

The job queue comes first, because everything that takes time is a job. `JobQueue` has its
leases, attempts and revisions in full; the modules of the components whose jobs they are
(`TrashPurge`, `MediaArtifacts`, `Subscriptions`, `WorkCollection`, `PixivAccount`) keep of
the queue a job's state and what its transactions check, and say so in their headers: a
guarded transaction of a lost lease is refused, which is what `JobQueue` proves of it.

- `JobLedger` and `WorkLifecycle` are abstract specifications; `JobQueue` implements the first
  and `TrashPurge` the second.
- `LivePage` composes `EventFeed` (the server and the connection), `ResourceRefresh` (the
  coordinator, a function of its state) and the page.
- `RuleEvaluation` uses `RuleConditions`, `Gallery` uses `GalleryFilters`.
- An `MC` module gives the constants their values. Where one run covers several components
  that share no state (`MCQueue`, `MCPixiv`, `MCAdministration`, `MCUpkeep`, `MCSubscriptions`,
  `MCPages`), a variable `part` says which of them a behaviour is of; the others keep their
  initial state, so each component is explored as if alone.
- Proofs are in the modules named `...Proofs`, one for each run with safety properties
  (section 5).

Every module models a transaction as one action: the transactions lock the row they depend on
(`SELECT ... FOR UPDATE`, or a guarded `UPDATE`), so what happens inside one cannot be seen.
What the code does between two transactions is between two actions. Clocks are abstract
except in `RequestGate`: a lease is fresh, aging or expired, a retry is due or not. A
definition under a comment "Wrong:" is no part of the model: it is the form a plausible
mistake would give to the definition after it, kept to make sure that the properties notice.

The order of the work was: the queue and its ledger; account, trash, media and the feed with
its page; then the collectors (subscriptions, imports, works), the services around them
(mirror, gate, sessions, settings, rules, usage) and the gallery; the proofs followed the
hazards: those of rows that several actors change under leases and revisions came first.
What is left is in section 7.

## 3. The modules and the code

### JobQueue, JobLedger

| Model | Code |
|---|---|
| `job`, `attempt` | tables `job` and `job_attempt` |
| `slot` | a task of the worker's `JoinSet` with its `ClaimedJob` |
| `Enqueue`, `ClaimNext`, `Heartbeat` | `jobs/enqueue.rs`, `claim_next` and `heartbeat` in `jobs/claiming.rs` |
| `WriteUnderLease`, `FinalizeInBusinessTx`, `ReturnFinalized` | an executor's transactions, the last of which may complete the job itself |
| `ReportOutcome`, `Complete`, `WaitForStorage`, `DecideFailure`, `Fail`, `BlockAccountForJob`, `OutcomeRejected` | `process_selection` and `apply_outcome`; `failure_decision` and `apply_failure` are two transactions |
| `DropStaleExecutor` | `execute_with_heartbeats` after `resolve_lease_conflict` |
| `CancelRequested`, `RetryRequested` | the operator's two calls |
| `AccountLost`, `ActivateAccount`, `StorageScanReads`, `SetStorageWriteAllowed` | account service and storage scheduler, as far as they move jobs |
| `Crash` | the process or one task ends at any point |

`JobLedger` is what other components may rely on: numbered rounds, one at a time, effects only
in the open round, and "done" and "cancelled" for ever. The mapping takes `round` to
`attempts`, `effect` to the attempt of the latest business write and `phase` to the state,
where every form of waiting is "ready".

### QueueQuota

`Tick` takes the next class of the rotation, `ClaimOne` claims of that class or of the first
in the fallback order that has a job, `FailTask` is a scheduler that fails between the two,
and `RestartWorker` begins the rotation anew with other weights. One class is watched:
`passed` counts what was claimed while it had a job ready.

### PixivAccount

A request (`Call`) to update or validate a cookie reads the row, waits for Pixiv, and writes:
`ReadExisting`/`PersistUpdate`, `BeginValidate`/`MarkValidating`/`ReadSaved`/`PersistValidation`.
The operator loads the page and clears with the revision shown; jobs are inserted, run and
report invalid credentials meanwhile. What Pixiv answers is a choice. Two behaviours are worth
knowing and are not forbidden by anything the repository says:

- `activate_validated_in_tx` looks at no revision, so a validation that read a cookie before
  the operator cleared it stores that cookie again. What does hold is that the cookie had been
  accepted for that user.
- An account in state `validating` holds no jobs back, although
  `frontend/src/lib/pixiv-account-status.ts:40` tells the operator that tasks needing the
  account wait. Insertions only look for `unconfigured` and `credential_invalid`.

### PixivMirror, RequestGate

Pixiv is the authority: `marks` and `follows` are what it shows, `bookmark` and `author` the
archive's copy. Commands (`CommandStep`: ask, then write), saves of a work's metadata
(`SaveDetail`) and listings read page by page by a unit or by the web process (`RefreshStep`,
`ListMarks`, `ReadMarks`, `Reconcile`) each read first and write later; answers get lost and
writes fail. `settled` remembers that a listing was written during which Pixiv did not change.
`RequestGate` has the semaphore, the booked start times and the sleepers of `pixiv/src/limit.rs`
on a clock of its own.

### TrashPurge, WorkLifecycle

One work, its `trash_entry`, purge jobs and the tasks that execute them: `LoadPlan`,
`BeginPurge`, `RemoveFile`, `CompletePurge` are separate transactions or file operations, and
`SaveMedia`, the commit of a download or derivative of the same work, may come between any two
of them. `WorkLifecycle` promises that a work is kept, trashed (and complete), then purging,
then gone; `Stage` maps the rows to it, `intact` is "every recorded file exists". Dates are
abstract: retention may end at any time.

### MediaArtifacts, MediaUsage

`Register` and `StartItem` take an intent (`register_artifact_intent_in_tx`), `PublishSource`
and `PublishDerivative` link the file, `Settle` compares it with the current revision and
either goes on to record it or to drop it as redundant, `SaveSource` and `SaveDerivative`
record it and delete the intent, `ListIntents` and `CleanIntent` are the cleaner.
`SaveRejected` covers the transactions' refusals. A lease that runs out while a task is in the
middle of a file operation does not stop the operation: the task notices at its next heartbeat.
Such a task can remove a file its successor recorded, or publish one after the cleaner removed
the intent; in the second case a later download of other content meets `DestinationConflict`
every time. The history variable `strayed` records that a task without its lease changed a
file, and `RecordedIsIntact` is stated for behaviours where none did. This is a limit of the
code, kept visible instead of being left out of the model.

`MediaUsage` is the tracker of the system page: the kept answer and its age, the walk that
belongs to no request, and the requests that wait for it or are dropped.

### Subscriptions

One subscription: it falls due (`listed` by some scheduler at a revision, then scheduled in a
transaction of its own) or is asked for by the operator, whose check of the account is another
statement. A request that finds an active run is kept as the pending run; whoever ends the
active run starts it. `UnitStep` is what a unit's job does; units fail, are retried, cancelled
and taken over. `SavesCursor` tells the kinds that store cursors from those that store none.

### WorkCollection

Collectors are the jobs of imports and of subscription units. Each takes a work through
`Choose` (looks for a deletion marker), `FetchDetail` (and the rule's first verdict),
`FetchPages`, `Save`, `EnqueueDownload` and `Record`, every one a request to Pixiv or a
transaction, while Pixiv changes the work, downloads store its pages, and the operator trashes, purges, cancels and
retries. A snapshot of a work is its number of pages and one value for everything else.

### RuleDocuments, RuleConditions, RuleEvaluation

`RuleDocuments` has rows, versions and drafts, and the tabs (`editor`) whose requests read and
write them. `RuleConditions` gives which conditions are accepted and when one holds, word for
word after `schema.rs` and `evaluator.rs` with strings as words. `RuleEvaluation` is the loops
of `evaluate` as steps, with the abandoned first pass and its restart once pages are known;
`RuleHolds` is the meaning without loops it is compared with.

### AdminSessions

A login is `LoginWithPassword`, `Reserve` or `Refuse`, `Verify`, then `RecordLoginFailure`,
`FinalizeLogin` or `LoseToChange`, then `Release`; `Drop` is a client that goes away between
any two, which leaves its reservation to `LeaseLapses`. `orphans` counts those. `prepare` of
`apps/admin` reads, verifies and then creates or updates under the revision it read.

### Settings

`stored` has a row or none for each group; a form is what a page holds: the revisions and the
values it read, in which order it read them (`early`: revisions first), and the batch it saves.
`LockGroup`, the comparison and the write of `update_many` are separate steps under the
advisory locks. `Valid` is the validation of each group, `Reader` names the services that read
settings back and `Capability` what each was built with.

### EventFeed, ResourceRefresh, LivePage

`EventFeed` has the rows of `app_event`: an id at the insert, a published id given by the
first reader that sees the row committed (`PublishPending`). The connection goes through
`EventStream::after` (publish, read the newest id, read the events after the last one received;
three separate statements) and the loop of `into_stream`. `Breaks` stands for the network, a
restart and an error of the loop; `Rejected` for an error response, after which the browser's
EventSource gives up. Nothing in the repository deletes an event, so the reload that
`replay_window` would ask for is unreachable and not modelled.

`ResourceRefresh` has one operator per method of `ResourceRefreshCoordinator`, as functions
of its state. `LivePage` is `ContextDirectory.svelte`: the first load, searches, page requests
and refreshes overlap, are answered in any order, and fail; the effect that calls `observe`
runs before anything else happens (`Flushed`). The return to a cached page and the restored
scroll position are left out, as are the resources the page does not show.

### Gallery, GalleryFilters

`list` is what a view shows, with the search it applied and the one asked for; `requests` are
searches, further pages and refreshes under way; `selection` is an expression (a search and
what is chosen in it) with its projections, marks and commands, all of which the server
evaluates anew. `row` holds the works, which change meanwhile. `GalleryFilters` says of every
filter of `domain/work.rs` (`IsFilter`) which works pass, as the SQL text built in
`gallery/query.rs` does over columns that may be NULL.

## 4. The runs

Each run explores every interleaving within its bounds. Bounds cap what the environment may
do (crashes, failures, commands of the operator, changes on Pixiv); steps of the program are
not capped.

| Run | What it shows | Bounds, and why they are enough |
|---|---|---|
| `queue` | `AttemptLedger`: attempts are numbered without gap, one is open while the job runs, and a completed job was completed by its newest one. `NoStaleWrite`: only the open attempt writes. `ImplementsLedger`: every transaction is a step of `JobLedger`. `JobsSettle`: a job ends or waits for someone outside. `WaitIsBounded`: a waiting class lets no more jobs pass than the other turns of a rotation and the tasks already under way | one job, two tasks, one account, one retry, two disturbances: two tasks are enough for one to be stale, two disturbances for a reclaim of a reclaim. Rotation: two tasks that can overtake each other, even and uneven weights, one ready job a class, one restart |
| `pixiv` | `StoredCookieWasAccepted`, `ClearsWhatWasSeen`; `SettledMirrors`: after an undisturbed listing the copy is what Pixiv shows, whatever older reads write; `ExclusionOutlivesListing`; `MirrorCatchesUp`; `NoBurst` | two users, one of them with two cookies, two overlapping requests, a job; one work or two artists, one command, two readers of pages of one, four (artists: two) changes, one failure; four requests through one permit, up to a horizon of four ticks |
| `administration` | `SessionsMatchPassword`; `FailuresBounded`: failures and reservations never exceed a bucket; `RightPasswordGetsIn`; `RestorableIsComplete`; `ImplementsLifecycle`; `PurgeEnds` | two logins from two sources, two passwords, one preparer, a permit that is busy, one change, one trouble, a limit of one for an address and two for the shared buckets; two purge jobs, two tasks, two files, two troubles, two operator actions: a retry, a replay and a stale task at once |
| `upkeep` | `NothingUnseenIsOverwritten`; `SavesEnd`: no deadlock between batches; `AskersAreAnswered`; `LeftoversGo` | two pages that save the two groups of one card, two saves, a mishap; two requests, two failing walks; two pages of a work, one download, one task, one trouble |
| `media_files` | `OwnsIntent`: a task with its lease owns its path's intent; `RecordedIsIntact`: what a row names is on disk as recorded | one page of two contents and two revisions (needed for an unchanged content), two downloads, a regeneration, two tasks, two troubles, one operator action. Symmetry over tasks, contents, downloads; there is no liveness in this run |
| `subscriptions` | `RunFollowsUnits`, `PendingHasCarrier`, `BackfillKept`, `RunsEnd`; `NoLostUpdate`, `RowMatchesVersion`; `DecidesAsMeant` | three runs (one active, one pending, one retried), two sources, three requests, a failure, an operator action; two tabs, two rules, three saved texts (three of them for one rule); every accepted condition over eight fields, and every definition of up to two groups of up to two conditions, on works with no page, one and two |
| `work_collection` | `MarkerExcludesWork`, `ImportAgreesWithJob`, `ImportsEnd` | one work of up to three pages, an import and a unit, two downloads, a change, a failure, two operator actions: a purge between the lookup and the save, followed by a retry |
| `pages` | `NothingLeftBehind`: once the stream and the page have nothing left to do, every change since the browser joined is shown; `PageCatchesUp`; `NoneSkipped`: paging shows every unchanged item once; `ShowsNewest`; `MarksAgree`; `TrashesWhatWasCounted`; `FilterOppositesDivide` | two events that commit in either order, batches of one, two loads in flight, one broken connection or failing load, one action; three works of two artists in pages of one, four list orders with ties and missing values, the directories and the trash, up to four choices or one change with two or three requests in flight |
| `account_stranded_jobs` | **violated** `UpdateReleasesJobs` | two users, three requests |
| `trash_orphan_file` | **violated** `PurgeRemovesEveryRecordedFile` | one job, one task, two files, no crash |
| `trash_purge_count` | **violated** `PurgesTheNumberConfirmed` | the gallery's instance |
| `settings_avif` | **violated** `EveryReaderGoesOn` | the settings' instance, with AVIF available |

`CHECK_DEADLOCK FALSE` stands everywhere because the bounded systems stop when their budgets
are used up, and because a browser whose event stream was refused does not come back. That
nothing is stuck before is what the liveness properties say.

**Findings.**

- `UpdateReleasesJobs`: `update_cookie_record` decides from the account it read before asking
  Pixiv whether parked jobs are released; if a job reports the credential invalid during the
  call, the account ends up normal with its jobs still in `waiting_account`, though the
  interface promises that they go on.
- `PurgeRemovesEveryRecordedFile`: the plan is read before the purge begins, and completion
  deletes the rows without reading them; a file recorded in between stays on disk without a row.
- `PurgesTheNumberConfirmed`: the trash page asks to confirm the purge of N works and then
  sends the expression without waiting for the count that belongs to it, as the gallery does
  for its move to the trash; the purge may reach more works than were confirmed.
- `EveryReaderGoesOn`: the settings page validates with the deployment's capabilities, other
  readers with none. Once AVIF is stored, logins, the status page and every enqueue fail, and
  the worker ends at its first tick.

**Fairness.** Always of the program, never of failures, crashes, Pixiv or the operator's
whims:

- Queue: the worker polls (`ClaimNext`), tasks go on, a lease nobody extends runs out, retry
  times pass, the storage scan repeats; nothing is assumed of the account or the disk.
- Trash, subscriptions, collection: the worker polls and tasks go on (`JobsSettle` of the queue
  is why that may be assumed of jobs).
- Media: the cleaner runs every 15 seconds (`scheduler.rs`), the hold on a retried intent
  passes, and a removal that is tried again and again succeeds once; the last is strong
  fairness, because another job may own the intent in between.
- Settings: the server answers, and an advisory lock that becomes free again and again is given
  to who waits for it (strong fairness: PostgreSQL queues the waiters of a lock).
- Usage: a walk ends, an answer is sent.
- Mirror: commands and listings go on, the reconciliation interval passes.
- Sessions: whoever wants in keeps sending the right password (the property is about them),
  requests go on, and windows, cooldowns and the leases of dropped requests end by the clock.
- Page: the stream's loop goes on (its wait ends by a timer at the latest), the browser
  reconnects, runs its timers and its effect, and the server answers.

Runs over several components state each one's fairness for the behaviours of that component.

## 5. The proofs

Checked by TLAPS, for every value of the constants that satisfies the named assumptions of the
module that declares them. These say no more than the code or the schema does: the SQL NULLs are
no identities (`"none" \notin Work \cup Artist`), the bounds are numbers, sets of tasks, rules,
logins, files and events are finite where they are counted, thresholds, batches and pages are not
empty, a rate and a number of permits are positive, every class of the rotation has a turn,
definitions have the form validation lets through (`WellTyped`), the filters of a search are
of the forms of `GalleryFilter` (`IsFilter`), and an id is of one work or one context, with sort
columns that are numbers or absent (`OrderAssumption`).

The proofs follow the runs: a module for each run that has safety properties, with one section
for each module of the specification it is about. The components of a module share no state, and
no proof of one uses another.

### QueueProofs

- **JobQueue.** `QueueInvariant`: types, the attempt ledger, fencing of claims, and the validity
  of a decision are inductive together. The key is `ClaimsFenced`: a claim carries the revision
  it was made at, revisions of a row only grow, so at most one claim matches the row. From it
  follow `LeaseIsExclusive`, `AttemptsAreLedger`, `RetriesBounded`, `PostCommitSafe`,
  `WritesAreFenced`, `HistoryFinal`, and the refinement `QueueImplementsLedger`, one step lemma
  per action.
- **QueueQuota.** `WaitsAreBounded` is not inductive: how many jobs pass a waiting class depends
  on tasks that have had their turn and not yet claimed. `QuotaInvariant` counts those from the
  turn on, against the turns the rotation can have given since the class last had its own
  (`TurnsAreCounted`); the lemmas on cardinalities say what one turn, one claim and one fallback
  do to the two numbers.

### PixivProofs

- **PixivAccount.** The invariant adds to the properties that a request past Pixiv's answer
  carries an accepted cookie of its own user, and that the page is never ahead of the row;
  `RevisionStep` says that no step changes a cookie under an unchanged revision.
- **RequestGate.** `NoBurst` speaks of starts and says nothing of sleepers. `GateInvariant` counts
  with the starts of an interval those booked before its end, and keeps room for one more
  exactly while the next free start lies before that end.
- **PixivMirror.** A listing that is under way may be wrong already. `MirrorInvariant` says how:
  what a reader has seen while nothing changed is what Pixiv shows (`still`), what changed since
  has cleared its mark, and a command that is between Pixiv's answer and its own write has
  cleared `settled`. `CopiesSettle` and `ExclusionsOutlive` follow.

### AdministrationProofs

- **AdminSessions.** `SessionsInv`: every live session carries the version of the password in
  force (`Backed`), and failures plus reservations fit each bucket (`Fits`). The reservations of a
  bucket are the logins that hold one and the orphans of dropped ones; the lemmas on cardinalities
  say what one login's step does to their number, and a step either leaves the sum, turns a
  reservation into a failure, or had room for one more. Whether the count of orphans is natural
  is not needed.
- **TrashPurge.** The strengthening is that a task that may remove files is one whose purge was
  counted as an attempt, and that nothing is left to remove for a work that is gone.
  `TrashImplementsLifecycle` uses it for the steps that touch files.

### SettingsProofs, MediaArtifactsProofs

- **Settings.** `FormBehind`: a form is never ahead of a row; one that read revisions first shows
  the row's value wherever its revision is still the row's; a batch that compared holds its
  locks, and so its revisions stay equal until it commits. `NothingUnseen` and
  `SavesAreExclusive` follow. `LocksInOrder`: a save that may hold locks is accepted, they are of
  its batch, and each comes before every lock it still needs. `NoDeadlock` follows: if no save
  could go on, each would wait for a lock whose holder waits for a later one, and there are nine.
  It is the part of `SavesEnd` that needs no fairness.
- **MediaUsage.** `AskersAreWaitedFor`: who waits is in the list of a walk under way or among
  those its end is about to answer; the part of `AskersAreAnswered` that needs no fairness.
- **MediaArtifacts.** The invariant relates a task's plan, the intent it owns, the file it
  published and what it compared: `Planning`, `Targeted`, `Holding`, `Apart`, `Published`,
  `Compared` are what a task may still rely on while it holds its lease.

### SubscriptionsProofs

- **Subscriptions.** One active run, runs that follow their units, units that follow their jobs
  and pending runs with a carrier need each other: a transaction that ends a unit ends its run
  without a look at other runs, which is right because no other run is active. Adding that the
  units of a run are created and deleted with it (`UnitsTogether`) makes the conjunction
  inductive, and `RecentIsTrue` and `PendingIsCarried` follow. `BackfillIsKept` is an action
  property over the same invariant.
- **RuleDocuments.** A save compares a base version and the revision of a draft, and that
  revision starts again after each publication, so equal numbers alone prove nothing.
  `DocumentsInvariant` says how far a tab may be behind the rule it has open (`FineTab`,
  `TabIsBehind`): if version and revision are still the rule's, the definition is the one the
  tab shows. `NoUpdateIsLost` and `RowsMatchVersions` rest on it.
- **RuleEvaluation.** `DecisionsAreMeant` compares loops with early exits, an abandoned pass and
  its restart with a meaning that has none. `EvaluationInvariant` says of each list of results
  that it answers for the conditions, groups and pages passed, and that none of them stopped its
  loop. What a single condition says (`RuleConditions`) is the same on both sides and is only
  known to be a truth value.

### WorkCollectionProofs

- `MarkerExcludesWork` and `ImportAgreesWithJob` are inductive with the types
  (`CollectionInvariant`): the transactions in which they could break look again at what an
  earlier step had looked at, `Save` at the marker, the ends of an import at its lease. The
  proof shows that nothing else is relied on: not what a collector found before.

### PagesProofs

- **EventFeed.** `StreamCovers`: an open stream has sent or holds everything up to its cursor and
  up to each event it holds. It is kept because published ids are distinct and new ones are
  larger than all given before (`Publication`, by the cardinalities of the sets of older rows),
  batches are closed downward (`BatchIsClosed`), and an empty batch means that nothing is left
  (`EmptyBatch`, by well-foundedness of strict inclusion on finite sets).
- **LivePage.** `NothingStaysBehind` joins what the stream holds to what the page shows. Of the
  coordinator, `CoordinatorOK` says that a version it wants has its timer set, or a refresh is
  running, and that nothing it remembers is newer than the newest version. Of the page, `PageInv`
  says that one load at most is not overtaken and the flags name its kind (`OneLoad`, `FlagsSay`);
  that the list, and every answer on its way, covers what the browser had been told when the
  version it counts for was the newest (`Covers`); and that a version no refresh will load has
  left a message, unless a search is under way that replaces the list (`FailureShows`). It is
  inductive in every order in which loads return, fail and overtake each other
  (`QuietPagesAreCurrent`); `StreamCovers` then says that a stream at rest has told the browser of
  every change. It is the part of `PageCatchesUp` that needs no fairness.
- **Gallery.** `GalleryInvariant` has three parts. `ListInv`: one request of the list at most is
  not superseded, and its kind says which search the list will be of when it is answered; so a
  list at rest is of the newest search (`ListsAreOfTheNewestSearch`). `SelectionInv`: one
  projection at most is not superseded, the selection waits for exactly that one, it is of all
  items shown unless a refresh for them is to follow, and what it, the selection and each move
  carry is right but for works that changed since. Right is stated once, of marks
  (`MarksRight`) and of counts (`CountRight`), and `SelectedStays` and `WorksOfStays` say that a
  change of a work touches no item but the work and its contexts before and after, for every
  search and choice. `RowInv`: the types of rows. `MarksAreRight` and `MovesTakeWhatWasCounted`
  follow. `FiltersDivide` rests on `OppositesDivide`, by the forms of a filter.
- **Paging.** `NoneSkipped` needs to know what an answer holds before it is shown. `PagingInv`
  says so of the request that counts, by its kind: a first page and a list read again hold
  every item before their cursor once; a next page holds what lies between the list's cursor
  and its own; a reload holds whatever of the shown items the search still finds; each but for
  items that moved since. It rests on `Arrangement` (in a strict order, the number of members
  before each gives every member of a finite set a place of its own), `SearchesOrder` (the order
  of a search, with its absent keys and ties, is strict), `RowsFollow` (what comes after an item
  past a cursor is past the cursor), `PageIs` and `KeptIs`, and on `PlacesStay`: an item keeps
  its place until it is touched. `Arranged` states the order by places instead of with
  `SetToSortSeq` because the provers cannot open an operator of the library that takes an
  operator.

**Only model-checked.** Liveness under fairness (`JobsSettle`, `PurgeEnds`, `LeftoversGo`,
`RunsEnd`, `ImportsEnd`, `MirrorCatchesUp`, `RightPasswordGetsIn`, `SavesEnd`,
`AskersAreAnswered`, `PageCatchesUp`) is out of the prover's reach. Every safety invariant and
action property of the passing runs is a theorem.

## 6. What is not modelled

- In the queue: the table of worker heartbeats, the grace period of a shutdown (a crash of all
  tasks).
- In the account: the bookmark write-back switch and its record, profiles, encryption.
- In the mirror: the cache of avatars.
- In the trash: dates beyond their order, sizes.
- In media: staging, probing, reflinks, image and ugoira formats, the choice of a derivative's
  format.
- In subscriptions and imports: the parsing of links, names, schedules beyond falling due, the
  listing of earlier runs.
- In rules: the preview's pages of results and the catalog of fields.
- In the gallery: the details of one work, counts over all pages, downloads of originals.
- In the interface: everything that only renders.
- The HTTP layer and the mapping of Pixiv's JSON are translations without state; the classes of
  errors they produce are inputs of the models.

## 7. What is left

The composition of `WorkCollection` with `TrashPurge`, which share the deletion marker and are kept
apart because their product is beyond TLC; and the bookmark write-back switch.
