------------------------------ MODULE LivePage ------------------------------
(***************************************************************************)
(* A page that shows data and follows the event feed: ContextDirectory,    *)
(* with its coordinator (ResourceRefresh), the revisions of appEventsStore *)
(* and the browser's connection (EventFeed).  The page loads its data on   *)
(* mount, when the operator searches, page by page as the operator         *)
(* scrolls, and when the coordinator refreshes it; requests overlap, are   *)
(* answered in any order and may fail.                                     *)
(*                                                                         *)
(* What a request reads is the set of committed changes.  Svelte runs the  *)
(* effect that calls observe before the browser handles its next event,    *)
(* answer, timer or click, so everything else waits for `Flushed'; what    *)
(* follows an answer without waiting for another is one step with it.      *)
(***************************************************************************)
EXTENDS EventFeed, ResourceRefresh

CONSTANTS
  Request,     \* requests for data in flight at once
  MaxOperator  \* bound: searches, scrolls, retries, selections, returns to the tab

VARIABLES
  revision,    \* sum of the revisions in appEventsStore
  request,     \* the requests in flight
  shown,       \* the changes the list on the page reflects
  loading, refreshing,
  error,       \* a message is shown; failedLoad says for which load
  failedLoad,
  ready,       \* directoryReady
  selecting,   \* selection.mode or selection.busy
  actions      \* the bounded count

pageVars == <<refresher, revision, request, shown, loading, refreshing, error,
              failedLoad, ready, selecting, actions>>
vars == <<feedVars, pageVars>>

LoadKind == {"mount", "reset", "next", "refresh"}
\* current: the request's revision is still loadRevision; version: targetVersions
\* of a search.
RequestRow == [kind : LoadKind \cup {"none"}, current : BOOLEAN, version : Nat,
               read : BOOLEAN, seen : SUBSET Event]

NoRequest == [kind |-> "none", current |-> FALSE, version |-> 0, read |-> FALSE, seen |-> {}]
NewRequest(kind) ==
  [kind |-> kind, current |-> TRUE, version |-> IF kind = "reset" THEN revision ELSE 0,
   read |-> FALSE, seen |-> {}]

Paused == ~ready \/ loading \/ refreshing \/ selecting
Flushed == refresher.latest = revision /\ refresher.paused = Paused

Acts == actions < MaxOperator /\ actions' = actions + 1

-----------------------------------------------------------------------------
(* What invalidates the page *)

\* The app_event listener of connectAppEvents.
ReceiveEvent(e) ==
  /\ Flushed
  /\ Deliver(e)
  /\ revision' = revision + 1
  /\ UNCHANGED <<refresher, request, shown, loading, refreshing, error, failedLoad,
                 ready, selecting, actions>>

\* refreshVisibleSnapshot
TabBecomesVisible ==
  /\ Flushed /\ Acts
  /\ revision' = revision + 1
  /\ UNCHANGED <<feedVars, refresher, request, shown, loading, refreshing, error,
                 failedLoad, ready, selecting>>

\* The effect of the page.
EffectRuns ==
  /\ ~Flushed
  /\ refresher' = Observe(refresher, revision, Paused)
  /\ UNCHANGED <<feedVars, revision, request, shown, loading, refreshing, error,
                 failedLoad, ready, selecting, actions>>

-----------------------------------------------------------------------------
(* Loads *)

Overtaken(q) == [NoRequest EXCEPT !.kind = q.kind]

\* load(true): older requests are no longer current.
StartReset(r) ==
  /\ request[r].kind = "none"
  /\ request' = [q \in Request |-> IF q = r THEN NewRequest("reset") ELSE Overtaken(request[q])]
  /\ loading' = TRUE /\ refreshing' = FALSE
  /\ error' = FALSE

\* search, or the retry of a first load or a search that failed.
Search(r) ==
  /\ Flushed /\ Acts
  /\ ~selecting \/ (error /\ failedLoad = "reset" /\ ~loading)
  /\ StartReset(r)
  /\ UNCHANGED <<feedVars, refresher, revision, shown, failedLoad, ready, selecting>>

\* load(false), when ViewportPager asks for more or the operator retries.
LoadNext(r) ==
  /\ Flushed /\ Acts
  /\ ~loading /\ ~refreshing
  /\ error => failedLoad = "next"
  /\ request[r].kind = "none"
  /\ request' = [request EXCEPT ![r] = NewRequest("next")]
  /\ loading' = TRUE
  /\ error' = FALSE
  /\ UNCHANGED <<feedVars, refresher, revision, shown, refreshing, failedLoad, ready, selecting>>

\* The coordinator called refreshLoadedItems, which begins unless a load is
\* under way; `next' is the coordinator's state after the call.
StartsRefresh(next, r) ==
  /\ refresher' = next
  /\ IF next.running /\ ~refresher.running
       THEN /\ request[r].kind = "none"
            /\ request' = [request EXCEPT ![r] = NewRequest("refresh")]
            /\ refreshing' = TRUE
            /\ error' = FALSE
       ELSE UNCHANGED <<request, refreshing, error>>

\* schedule's timer.
RefreshTimer(r) ==
  /\ Flushed /\ refresher.timer
  /\ StartsRefresh(TimerFires(refresher), r)
  /\ UNCHANGED <<feedVars, revision, shown, loading, failedLoad, ready, selecting, actions>>

\* retryDirectoryLoad after a refresh that failed.
RetryRefresh(r) ==
  /\ Flushed /\ Acts
  /\ error /\ failedLoad = "refresh" /\ ~loading
  /\ StartsRefresh(Retry(refresher), r)
  /\ error' = FALSE
  /\ UNCHANGED <<feedVars, revision, shown, loading, failedLoad, ready, selecting>>

\* The server reads the data; of an overtaken request it does not matter what.
Reads(r) ==
  /\ request[r].current /\ ~request[r].read
  /\ request' = [request EXCEPT ![r].read = TRUE, ![r].seen = {e \in Event : Visible(e)}]
  /\ UNCHANGED <<feedVars, refresher, revision, shown, loading, refreshing, error,
                 failedLoad, ready, selecting, actions>>

\* The version a page's own load counts for: the one it began with.
MarkedVersion(q) == q.version

\* The coordinator's part of an answer.
AfterAnswer(q, ok) ==
  CASE q.kind = "refresh" -> Returns(refresher, ok /\ q.current)
    [] q.kind \in {"mount", "reset"} /\ ok /\ q.current -> MarkCurrent(refresher, MarkedVersion(q))
    [] OTHER -> refresher

\* The answer to a request that was overtaken changes nothing on the page.
AnsweredLate(r) ==
  /\ Flushed /\ request[r].kind # "none" /\ ~request[r].current
  /\ request' = [request EXCEPT ![r] = NoRequest]
  /\ refresher' = AfterAnswer(request[r], FALSE)
  /\ ready' = (ready \/ request[r].kind = "mount")
  /\ UNCHANGED <<feedVars, revision, shown, loading, refreshing, error, failedLoad,
                 selecting, actions>>

Loaded(r) ==
  LET q == request[r] IN
  /\ Flushed /\ q.current /\ q.read
  /\ shown' = IF q.kind = "next" THEN shown ELSE q.seen
  /\ failedLoad' = "none"
  /\ loading' = (loading /\ q.kind = "refresh") /\ refreshing' = (refreshing /\ q.kind # "refresh")
  /\ request' = [request EXCEPT ![r] = NoRequest]
  /\ refresher' = AfterAnswer(q, TRUE)
  /\ ready' = (ready \/ q.kind = "mount")
  /\ UNCHANGED <<feedVars, revision, error, selecting, actions>>

LoadFails(r) ==
  LET q == request[r] IN
  /\ Flushed /\ q.current
  /\ Troubled
  /\ error' = TRUE /\ failedLoad' = IF q.kind = "mount" THEN "reset" ELSE q.kind
  /\ loading' = (loading /\ q.kind = "refresh") /\ refreshing' = (refreshing /\ q.kind # "refresh")
  /\ request' = [request EXCEPT ![r] = NoRequest]
  /\ refresher' = AfterAnswer(q, FALSE)
  /\ ready' = (ready \/ q.kind = "mount")
  /\ UNCHANGED <<tableVars, streamVars, browserVars, revision, shown, selecting, actions>>

\* Multi-select pauses the refreshes.
Select ==
  /\ Flushed /\ ~selecting /\ Acts
  /\ selecting' = TRUE
  /\ UNCHANGED <<feedVars, refresher, revision, request, shown, loading, refreshing, error,
                 failedLoad, ready>>

LeaveSelection ==
  /\ Flushed /\ selecting
  /\ selecting' = FALSE
  /\ UNCHANGED <<feedVars, refresher, revision, request, shown, loading, refreshing, error,
                 failedLoad, ready, actions>>

-----------------------------------------------------------------------------
\* The layout connects the events, then the page mounts and begins to load.
Init ==
  /\ FeedInit
  /\ refresher = NewRefresher(0)
  /\ revision = 0
  /\ \E r \in Request : request = [q \in Request |-> IF q = r THEN NewRequest("mount")
                                                     ELSE NoRequest]
  /\ shown = {}
  /\ loading = TRUE /\ refreshing = FALSE
  /\ error = FALSE /\ failedLoad = "none"
  /\ ready = FALSE
  /\ selecting = FALSE
  /\ actions = 0

FeedStep == (TableStep \/ ConnStep) /\ UNCHANGED pageVars

AnswerStep ==
  \E r \in Request : Loaded(r) \/ LoadFails(r) \/ AnsweredLate(r)

OperatorStep ==
  \/ TabBecomesVisible \/ Select \/ LeaveSelection
  \/ \E r \in Request : Search(r) \/ LoadNext(r) \/ RetryRefresh(r)

Next ==
  \/ FeedStep
  \/ \E e \in Event : ReceiveEvent(e)
  \/ EffectRuns
  \/ \E r \in Request : RefreshTimer(r) \/ Reads(r)
  \/ AnswerStep
  \/ OperatorStep

Spec == Init /\ [][Next]_vars

\* The server's loop goes on, the browser reconnects and runs what is due,
\* and the server answers what it is asked.
Fairness ==
  /\ WF_vars((Connect \/ ReplayPublishes \/ ReplayBoundary \/ Replay
                \/ ListPublishes \/ ListReads) /\ UNCHANGED pageVars)
  /\ WF_vars(\E e \in Event : ReceiveEvent(e))
  /\ WF_vars(EffectRuns)
  /\ WF_vars(\E r \in Request : RefreshTimer(r))
  /\ WF_vars(\E r \in Request : Reads(r))
  /\ WF_vars(\E r \in Request : Loaded(r) \/ AnsweredLate(r))

FairSpec == Spec /\ Fairness

-----------------------------------------------------------------------------
(* Properties *)

\* Shape of the page: the flags say which load is under way, and the
\* coordinator knows of every refresh.
TypeOK ==
  /\ FeedTypeOK
  /\ refresher \in Refresher
  /\ revision \in Nat
  /\ request \in [Request -> RequestRow]
  /\ shown \subseteq Event
  /\ loading <=> \E r \in Request : request[r].current /\ request[r].kind # "refresh"
  /\ refreshing <=> \E r \in Request : request[r].current /\ request[r].kind = "refresh"
  /\ refresher.running <=> \E r \in Request : request[r].kind = "refresh"
  /\ error \in BOOLEAN /\ failedLoad \in LoadKind \cup {"none"}
  /\ ready \in BOOLEAN /\ selecting \in BOOLEAN
  /\ actions \in 0..MaxOperator

\* Nothing is under way that would still change the page.
Quiet ==
  /\ Flushed /\ ~selecting
  /\ ~refresher.running /\ ~refresher.timer
  /\ \A r \in Request : request[r].kind = "none"

\* A page at rest without a message shows all the browser was told of: a
\* version is not forgotten by the coordinator (resource-refresh.ts), nor
\* counted as loaded by a load that began before it.
QuietPageIsCurrent == Quiet /\ ~error => received \subseteq shown

\* Nothing waits between the table and the browser.
StreamAtRest == phase = "wait" /\ pending = {} /\ cursor = lastPub /\ Unpublished = {}

\* When the stream and the page have nothing left to do, the page shows every
\* change committed since the browser joined the feed.
NothingLeftBehind ==
  Quiet /\ ~error /\ StreamAtRest =>
    \A e \in Event : Visible(e) /\ published[e] > joined => e \in shown

\* A change committed while the page follows the feed reaches the page, unless
\* a load failed, the operator selects, or the connection was refused.
PageCatchesUp ==
  \A e \in Event :
    (lastId # 0 /\ Visible(e) /\ (published[e] = 0 \/ published[e] > joined))
      ~> (e \in shown \/ error \/ selecting \/ phase = "rejected")
=============================================================================
