----------------------------- MODULE EventFeed -----------------------------
(***************************************************************************)
(* The feed that tells browsers what changed.  A transaction that changes  *)
(* a resource inserts a row into app_event, whose id it takes at the       *)
(* insert; transactions commit in another order than they inserted.  Every *)
(* reader first numbers the rows that became visible (publish_pending) and *)
(* then reads by that number, the published id.  One browser follows the   *)
(* feed over a connection that may break; it reconnects with the id of the *)
(* last event it received.                                                 *)
(*                                                                         *)
(* The server's wait between two reads ends by a notification, by an error *)
(* of the listener or after five seconds, so it always ends and no         *)
(* notification is modelled.  The code deletes no row of app_event, so     *)
(* published ids start with 1, a browser never asks for one that is gone   *)
(* or not yet given out, and the reload such a request would cause (the    *)
(* snapshot_refresh of replay_window) never happens.                       *)
(***************************************************************************)
EXTENDS Naturals, FiniteSets

CONSTANTS
  Event,       \* changes, each written and announced by one transaction
  BatchLimit,  \* rows one read returns at most
  MaxTrouble   \* bound: broken connections and failed requests

ASSUME FeedAssumption ==
  /\ IsFiniteSet(Event)
  /\ BatchLimit \in Nat \ {0}
  /\ MaxTrouble \in Nat

VARIABLES
  writer,     \* the transaction of each event
  rowId,      \* app_event.id, 0 before the insert
  published,  \* app_event.published_id, 0 for NULL
  lastRow,    \* the sequence behind app_event.id
  lastPub,    \* app_event_publication_cursor.last_published_id
  phase,      \* the server's side of the browser's connection
  asked,      \* Last-Event-ID of the request being opened, 0 without one
  boundary,   \* latest_event_id, while replay_window goes on
  cursor,     \* OpenedEventStream.cursor
  pending,    \* OpenedEventStream.pending
  lastId,     \* id of the last event the browser received, 0 for none
  joined,     \* history: published id from which this browser follows the feed
  received,   \* history: events the browser received
  trouble

tableVars == <<writer, rowId, published, lastRow, lastPub>>
streamVars == <<phase, asked, boundary, cursor, pending>>
browserVars == <<lastId, joined, received>>
feedVars == <<tableVars, streamVars, browserVars, trouble>>

WriterState == {"none", "open", "committed", "rolledback"}
ConnPhase == {"closed", "opening", "boundary", "replay", "wait", "list", "rejected"}

Troubled == trouble < MaxTrouble /\ trouble' = trouble + 1

-----------------------------------------------------------------------------
(* The table app_event *)

\* append_in_tx: the id is taken when the row is inserted.
AppendInTx(e) ==
  /\ writer[e] = "none"
  /\ writer' = [writer EXCEPT ![e] = "open"]
  /\ lastRow' = lastRow + 1
  /\ rowId' = [rowId EXCEPT ![e] = lastRow + 1]
  /\ UNCHANGED <<published, lastPub, streamVars, browserVars, trouble>>

EndWriter(e, outcome) ==
  /\ writer[e] = "open"
  /\ writer' = [writer EXCEPT ![e] = outcome]
  /\ UNCHANGED <<rowId, published, lastRow, lastPub, streamVars, browserVars, trouble>>

Visible(e) == writer[e] = "committed"

\* WHERE published_id IS NULL
Unpublished == {e \in Event : Visible(e) /\ published[e] = 0}
UpTo(e) == {d \in Unpublished : rowId[d] <= rowId[e]}

\* Wrong: rows keep the order of their inserts.
PublishByRowId ==
  /\ published' = [e \in Event |-> IF Visible(e) THEN rowId[e] ELSE published[e]]
  /\ lastPub' = lastRow
  /\ UNCHANGED <<writer, rowId, lastRow>>

\* publish_pending: the new rows are numbered in the order of their ids.
PublishPending ==
  /\ published' = [e \in Event |-> IF e \in Unpublished
                                     THEN lastPub + Cardinality(UpTo(e)) ELSE published[e]]
  /\ lastPub' = lastPub + Cardinality(Unpublished)
  /\ UNCHANGED <<writer, rowId, lastRow>>

\* Another browser's connection publishes.
PublishElsewhere ==
  /\ Unpublished # {}
  /\ PublishPending
  /\ UNCHANGED <<streamVars, browserVars, trouble>>

After(id) == {e \in Event : published[e] > id}
Between(id, e) == {d \in Event : id < published[d] /\ published[d] < published[e]}

\* WHERE published_id > id ORDER BY published_id LIMIT BatchLimit
Batch(id) == {e \in After(id) : Cardinality(Between(id, e)) < BatchLimit}

-----------------------------------------------------------------------------
(* The connection *)

\* EventSource sends the id of the last event it received.
Connect ==
  /\ phase = "closed"
  /\ phase' = "opening"
  /\ asked' = lastId
  /\ UNCHANGED <<tableVars, boundary, cursor, pending, browserVars, trouble>>

\* EventStream::after fails, the response is an error, and EventSource gives up.
Rejected ==
  /\ phase \in {"opening", "boundary", "replay"}
  /\ Troubled
  /\ phase' = "rejected" /\ asked' = 0 /\ boundary' = 0
  /\ UNCHANGED <<tableVars, cursor, pending, browserVars>>

\* replay_window, first transaction.
ReplayPublishes ==
  /\ phase = "opening"
  /\ PublishPending
  /\ phase' = "boundary"
  /\ UNCHANGED <<asked, boundary, cursor, pending, browserVars, trouble>>

\* replay_window reads the newest id; without a Last-Event-ID it replays
\* nothing and the stream begins there.
ReplayBoundary ==
  /\ phase = "boundary"
  /\ \/ /\ asked = 0
        /\ phase' = "wait" /\ cursor' = lastPub /\ joined' = lastPub
        /\ UNCHANGED boundary
     \/ /\ asked # 0
        /\ phase' = "replay" /\ boundary' = lastPub
        /\ UNCHANGED <<cursor, joined>>
  /\ UNCHANGED <<tableVars, asked, pending, lastId, received, trouble>>

\* replay_window reads the events; the cursor is the last of them.
Replay ==
  /\ phase = "replay"
  /\ pending' = Batch(asked)
  /\ \/ /\ pending' = {} /\ cursor' = boundary
     \/ \E e \in pending' : /\ \A d \in pending' : published[d] <= published[e]
                            /\ cursor' = published[e]
  /\ phase' = "wait" /\ asked' = 0 /\ boundary' = 0
  /\ UNCHANGED <<tableVars, browserVars, trouble>>

\* into_stream sends the next pending event and the browser receives it; an
\* event lost on the way is one the broken connection did not send.
Deliver(e) ==
  /\ phase = "wait" /\ e \in pending
  /\ \A d \in pending : published[e] <= published[d]
  /\ pending' = pending \ {e}
  /\ cursor' = published[e]
  /\ lastId' = published[e]
  /\ received' = received \cup {e}
  /\ UNCHANGED <<tableVars, phase, asked, boundary, joined, trouble>>

\* list_after, first transaction.
ListPublishes ==
  /\ phase = "wait" /\ pending = {}
  /\ PublishPending
  /\ phase' = "list"
  /\ UNCHANGED <<asked, boundary, cursor, pending, browserVars, trouble>>

ListReads ==
  /\ phase = "list"
  /\ pending' = Batch(cursor)
  /\ phase' = "wait"
  /\ UNCHANGED <<tableVars, asked, boundary, cursor, browserVars, trouble>>

\* The network, a restart of the web process or an error of list_after ends
\* the stream.
Breaks ==
  /\ phase \notin {"closed", "rejected"}
  /\ Troubled
  /\ phase' = "closed"
  /\ pending' = {} /\ asked' = 0 /\ boundary' = 0 /\ cursor' = 0
  /\ UNCHANGED <<tableVars, browserVars>>

-----------------------------------------------------------------------------
FeedInit ==
  /\ writer = [e \in Event |-> "none"]
  /\ rowId = [e \in Event |-> 0]
  /\ published = [e \in Event |-> 0]
  /\ lastRow = 0 /\ lastPub = 0
  /\ phase = "closed"
  /\ asked = 0 /\ boundary = 0 /\ cursor = 0
  /\ pending = {}
  /\ lastId = 0 /\ joined = 0
  /\ received = {}
  /\ trouble = 0

TableStep ==
  \/ \E e \in Event : AppendInTx(e) \/ \E outcome \in {"committed", "rolledback"} : EndWriter(e, outcome)
  \/ PublishElsewhere

ConnStep ==
  \/ Connect \/ Rejected \/ Breaks
  \/ ReplayPublishes \/ ReplayBoundary \/ Replay
  \/ ListPublishes \/ ListReads

FeedNext == TableStep \/ ConnStep \/ \E e \in Event : Deliver(e)

FeedSpec == FeedInit /\ [][FeedNext]_feedVars

-----------------------------------------------------------------------------
(* Properties *)

\* Shape of the rows, of the connection and of what the browser keeps: only
\* committed rows have a published id, and nobody is ahead of the counter.
FeedTypeOK ==
  /\ writer \in [Event -> WriterState]
  /\ rowId \in [Event -> 0..lastRow] /\ published \in [Event -> 0..lastPub]
  /\ lastRow \in Nat /\ lastPub \in Nat
  /\ \A e \in Event : published[e] # 0 => Visible(e)
  /\ phase \in ConnPhase
  /\ {asked, boundary, cursor, lastId, joined} \subseteq 0..lastPub
  /\ pending \subseteq After(lastId)
  /\ received \subseteq {e \in Event : published[e] # 0}
  /\ trouble \in 0..MaxTrouble

\* Between the event a browser joined at and the last one it received nothing
\* is missing, whatever the order of commits, through batches that are cut
\* off, other readers that publish, and broken connections.
NoGap ==
  \A e \in Event :
    lastId # 0 /\ joined < published[e] /\ published[e] <= lastId => e \in received
=============================================================================
