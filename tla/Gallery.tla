------------------------------- MODULE Gallery -------------------------------
(***************************************************************************)
(* The gallery and the trash: a view that lists works, artists, tags,      *)
(* series or the trash a page at a time (GallerySearchSession,             *)
(* ContextDirectory, TrashWorkspace), the selection made in it             *)
(* (GallerySelectionSession, GalleryContextSelectionSession,               *)
(* TrashSelectionSession), the queries the server answers for both         *)
(* (db/gallery, db/works/trash), and the works that change while they run. *)
(*                                                                         *)
(* A list and a selection are each a search: they name no works, and the   *)
(* server evaluates them again for every page, every count and the final   *)
(* command.                                                                *)
(***************************************************************************)
EXTENDS GalleryFilters, SequencesExt

CONSTANTS
  Work, Context,   \* works; artists, tags and series
  Rank,            \* the order of ids
  Collation,       \* the order of words in lower case
  ContextWords,    \* the names an artist, a tag or a series is found by
  About,           \* the names of the descriptions each work may have
  Described,       \* the description each of them stands for
  Opening,         \* the searches the page may open with
  Searches,        \* the searches asked for in it
  Limit,           \* items a page holds
  Sooner, Later,   \* when a trashed work is purged, and when it is put off to
  Budget,          \* how often a behaviour may do what (see Spend)
  MaxInFlight      \* superseded requests kept, and requests in all

ASSUME LimitAssumption == Limit \in Nat \ {0}
(* An id is of one item of its kind, and what works are ordered by can be  *)
(* compared.                                                               *)
ASSUME OrderAssumption ==
  /\ IsFiniteSet(Work) /\ IsFiniteSet(Context)
  /\ \A i \in Work \cup Context : Rank[i] \in Nat
  /\ \A i, j \in Work : Rank[i] = Rank[j] => i = j
  /\ \A i, j \in Context : Rank[i] = Rank[j] => i = j
  /\ \A x \in Word : Collation[Lower[x]] \in Nat
  /\ {Sooner, Later} \subseteq Nat
  /\ \A s \in Opening \cup Searches : s.kind = "work" =>
       s.sort_field \in {"PixivId", "LocalUpdatedAt", "PublishedAt", "BookmarkCount", "Title"}
  /\ \A w \in Work : \A about \in About[w] :
       /\ Described[about].text["Title"] \in Word
       /\ Described[about].number["BookmarkCount"] \in Nat \cup {Missing}
       /\ \A f \in {"LocalUpdatedAt", "PublishedAt"} :
            Described[about].date[f] \in Nat \cup {Missing}

ASSUME SearchesAssumption ==
  /\ \A s \in Opening \cup Searches :
       /\ s.kind \in {"work", "artist", "tag", "series", "trash"}
       /\ s.kind = "work" => \A g \in s.groups : \A f \in g.filters : IsFilter(f)
  /\ \A w \in Work : \A about \in About[w] : Described[about].flag \in [Flag -> BOOLEAN]

Item == Work \cup Context
None == [none |-> TRUE]

VARIABLES
  row,        \* of each work: its state, whether it has stored pages, its
              \* description, how far a purge of it is and when it is due
  list,       \* the items shown and where the next page begins
  requests,   \* the list's requests, superseded ones too
  selection,  \* the selection, with its projections and its move
  budget

galleryVars == <<row, list, requests, selection, budget>>

-----------------------------------------------------------------------------
(* What the server finds.                                                  *)

(* GalleryScope::BrowsableCollection, push_browsable_work_condition. *)
Details(w) == Described[row[w].about]
Browsable(w) == row[w].state = "collected" /\ row[w].stored

ContextsOf(w) == UNION {Details(w).identity[k] :
                          k \in {"ArtistId", "TagId", "SeriesId"}}
KindOf(search) == CASE search.kind = "artist" -> "ArtistId"
                    [] search.kind = "tag" -> "TagId"
                    [] search.kind = "series" -> "SeriesId"
WorksIn(search, c) == {w \in Work : Browsable(w) /\
                         c \in Details(w).identity[KindOf(search)]}

Named(c, query) ==
  Trimmed[query] = Empty \/ \E n \in ContextWords[c] : <<n, query>> \in Like["Contains"]

(* trash_filter_values: the title or the artist contains the query, and    *)
(* the purge is in one of the states, if any are given.                    *)
PurgeState(w) == IF row[w].purge = "started" THEN "running" ELSE "pending"
InTrash(search, w) ==
  /\ row[w].state = "trash"
  /\ \/ Trimmed[search.query] = Empty
     \/ \E c \in {"Title", "ArtistName"} :
          TextMatches(Details(w).text[c], "Contains", search.query)
  /\ search.states # {} => PurgeState(w) \in search.states

Found(search, i) ==
  CASE search.kind = "work" ->
         i \in Work /\ Browsable(i) /\ GroupsHold(Details(i), search)
    [] search.kind = "trash" -> i \in Work /\ InTrash(search, i)
    [] OTHER -> i \in Context /\ WorksIn(search, i) # {} /\ Named(i, search.query)
Items(search) == {i \in Item : Found(search, i)}

(* The works behind a set of items. *)
WorksOf(search, items) ==
  IF search.kind \in {"work", "trash"} THEN items
  ELSE UNION {WorksIn(search, c) : c \in items}

-----------------------------------------------------------------------------
(* The order of a search, and a page of it.                                *)

Key(search, i) ==
  IF search.kind = "trash" THEN row[i].due
  ELSE IF search.kind # "work" THEN Cardinality(WorksIn(search, i))
  ELSE LET about == Details(i) IN
       CASE search.sort_field = "PixivId" -> Rank[i]
         [] search.sort_field \in {"LocalUpdatedAt", "PublishedAt"} ->
              about.date[search.sort_field]
         [] search.sort_field = "BookmarkCount" -> about.number["BookmarkCount"]
         [] search.sort_field = "Title" ->
              Collation[Lower[about.text["Title"]]]

Beyond(descending, a, b) == IF descending THEN b < a ELSE a < b
Descends(search) ==
  CASE search.kind = "work" -> search.sort_direction = "Descending"
    [] search.kind = "trash" -> FALSE
    [] OTHER -> TRUE
(* Contexts are ordered by falling number of works, then by rising name. *)
IdBeyond(search, a, b) ==
  Beyond(search.kind = "work" /\ Descends(search), Rank[a], Rank[b])

(* push_order: NULLS LAST in either direction, then the id. *)
Precedes(search, a, b) ==
  LET ka == Key(search, a)
      kb == Key(search, b) IN
  IF ka = kb THEN IdBeyond(search, a, b)
  ELSE /\ ka # Missing
       /\ kb = Missing \/ Beyond(Descends(search), ka, kb)

CursorFor(search, i) == [key |-> Key(search, i), id |-> i]

(* Wrong: the row comparison alone, which no absent key passes. *)
RowsAfterValue(search, cursor, i) ==
  LET k == Key(search, i) IN
  \/ cursor.key = Missing /\ k = Missing /\ IdBeyond(search, cursor.id, i)
  \/ /\ cursor.key # Missing /\ k # Missing
     /\ \/ Beyond(Descends(search), cursor.key, k)
        \/ k = cursor.key /\ IdBeyond(search, cursor.id, i)

(* push_value_cursor, push_nullable_cursor, and the contexts' own cursor. *)
RowsAfter(search, cursor, i) ==
  LET k == Key(search, i) IN
  IF cursor.key = Missing
  THEN k = Missing /\ IdBeyond(search, cursor.id, i)
  ELSE \/ k = Missing
       \/ Beyond(Descends(search), cursor.key, k)
       \/ k = cursor.key /\ IdBeyond(search, cursor.id, i)

(* The members of a set, each at the place the number of members before it *)
(* gives it.                                                               *)
Arranged(S, before) ==
  [n \in 1 .. Cardinality(S) |->
     CHOOSE i \in S : Cardinality({j \in S : <<j, i>> \in before}) = n - 1]

InOrder(search, items) ==
  Arranged(items, {p \in items \X items : Precedes(search, p[1], p[2])})

(* A cursor of None is the beginning; `only' limits the page to some items. *)
RowsFrom(search, cursor, only) ==
  InOrder(search, {i \in Items(search) \cap only :
                     cursor = None \/ RowsAfter(search, cursor, i)})

(* One item more than the page is read, to know whether another follows.   *)
PageOf(search, cursor, only, limit) ==
  LET rows == RowsFrom(search, cursor, only)
      more == Len(rows) > limit IN
  [items |-> IF more THEN SubSeq(rows, 1, limit) ELSE rows,
   cursor |-> IF more THEN CursorFor(search, rows[limit]) ELSE None]

-----------------------------------------------------------------------------
(* The choice of a selection: all but some, or none but some.              *)

Nothing == [base |-> FALSE, exceptions |-> {}]
Chosen(choice, i) == choice.base # (i \in choice.exceptions)
Selected(search, choice) == {i \in Items(search) : Chosen(choice, i)}
(* setSelected *)
Choose(choice, i, chosen) ==
  [choice EXCEPT !.exceptions =
     IF chosen = choice.base THEN @ \ {i} ELSE @ \cup {i}]

Superseded(S) == {[x EXCEPT !.current = FALSE] : x \in S}
OnTrashPage == list.applied.kind = "trash"

(* No selection; what was under way goes on without effect, but for the    *)
(* commands of the trash page, which the page waits for.  `counted' and    *)
(* `changed' are for the properties: the works the count stands for, and   *)
(* what has changed since they were counted.                               *)
Off(sel) ==
  [mode |-> FALSE, search |-> None, choice |-> Nothing, marked |-> {},
   count |-> 0, blocked |-> 0, latest |-> "failed", error |-> FALSE,
   busy |-> OnTrashPage /\ sel.busy,
   refresh |-> {}, trashing |-> FALSE, counted |-> {}, changed |-> {},
   projections |-> Superseded(sel.projections),
   commands |-> IF OnTrashPage THEN sel.commands ELSE Superseded(sel.commands)]

SearchRequest(kind, search) ==
  [kind |-> kind, search |-> search, cursor |-> None, only |-> Item,
   depth |-> 0, got |-> <<>>, stage |-> "asked", moved |-> {}, current |-> TRUE]

Opened(search) ==
  /\ list = [items |-> <<>>, cursor |-> None, applied |-> search, asked |-> search,
             error |-> FALSE, returning |-> FALSE, moved |-> {}]
  /\ requests = {SearchRequest("reset", search)}

GalleryInit ==
  /\ row \in [Work -> [state : {"collected", "metadata_only", "trash"},
                       stored : BOOLEAN, about : UNION {About[w] : w \in Work},
                       purge : {"none", "queued"}, due : {Sooner, Later}]]
  /\ \A w \in Work :
       /\ row[w].state = "collected" => row[w].stored
       /\ row[w].state = "metadata_only" => ~row[w].stored
       /\ row[w].state # "trash" => row[w].due = Sooner /\ row[w].purge = "none"
  /\ \A w \in Work : row[w].about \in About[w]
  /\ \E s \in Opening : Opened(s)
  /\ selection = [Off([projections |-> {}, commands |-> {}, busy |-> FALSE])
                   EXCEPT !.latest = "ok"]
  /\ budget \in Budget

(* A bound: how often each kind of thing still happens. *)
Spend(what) ==
  /\ budget[what] > 0
  /\ budget' = [budget EXCEPT ![what] = @ - 1]

-----------------------------------------------------------------------------
(* The selection, and the projections that count it and mark what is shown *)
(* (SelectionProjectionCoordinator).                                       *)

Ask(sel, choice, visible, previous) ==
  [sel EXCEPT
     !.latest = "pending", !.error = FALSE, !.refresh = {},
     !.projections = Superseded(@) \cup
       {[search |-> sel.search, choice |-> choice, visible |-> visible,
         previous |-> previous, stage |-> "asked", marked |-> {},
         counted |-> {}, count |-> 0, blocked |-> 0, changed |-> {},
         current |-> TRUE]}]

Snapshot(sel) ==
  [choice |-> sel.choice, marked |-> sel.marked, count |-> sel.count,
   blocked |-> sel.blocked]

(* projectExpression with a new intent, shown before the server answers. *)
Intend(sel, choice, visible, count) ==
  Ask([sel EXCEPT !.choice = choice, !.count = count,
                  !.marked = {i \in visible : Chosen(choice, i)}],
      choice, visible, Snapshot(sel))

(* refreshVisible once the latest projection has succeeded. *)
Reproject(sel, visible) ==
  IF sel.choice = Nothing
  THEN [sel EXCEPT !.marked = {}, !.count = 0, !.blocked = 0,
                   !.counted = {}, !.refresh = {}]
  ELSE Ask(sel, sel.choice, visible, Snapshot(sel))

(* Wrong: a page that arrives while a choice is counted stays unmarked. *)
RefreshUnlessPending(sel, visible) ==
  IF sel.mode /\ sel.latest = "ok" THEN Reproject(sel, visible) ELSE sel

(* refreshVisible waits for the latest projection, and gives up if it fails. *)
RefreshVisible(sel, visible) ==
  CASE ~sel.mode \/ sel.latest = "failed" -> sel
    [] sel.mode /\ sel.latest = "pending" -> [sel EXCEPT !.refresh = {visible}]
    [] sel.mode /\ sel.latest = "ok" -> Reproject(sel, visible)

(* A command for what is selected; `shown' is the number the user saw. *)
Send(sel, command) ==
  [sel EXCEPT
     !.trashing = FALSE, !.busy = TRUE, !.error = FALSE,
     !.commands = Superseded(@) \cup
       {[command |-> command, search |-> sel.search, choice |-> sel.choice,
         stage |-> "asked", shown |-> sel.count, counted |-> sel.counted,
         changed |-> sel.changed, current |-> TRUE]}]

(* GallerySelectionSession.trash after its wait. *)
SendMove(sel) ==
  IF sel.count = 0 \/ sel.busy THEN [sel EXCEPT !.trashing = FALSE]
  ELSE Send(sel, "trash")

-----------------------------------------------------------------------------
(* The list (GallerySearchSession, ContextDirectory.load).                 *)

Loading == \E r \in requests : r.current /\ r.kind \in {"reset", "next"}
Refreshing == \E r \in requests : r.current /\ r.kind \in {"refresh", "reload"}
Room(S) == Cardinality(S) < MaxInFlight
Shown == ToSet(list.items)

ResetList(search) ==
  /\ requests' = Superseded(requests) \cup {SearchRequest("reset", search)}
  /\ list' = [list EXCEPT !.error = FALSE, !.asked = search]

(* runSearch, applyFilters: a new search, or, the one thing possible during *)
(* a selection and only in the gallery, the one shown after an error.       *)
Reset(search) ==
  /\ search.kind = list.applied.kind
  /\ ~selection.busy
  /\ selection.mode => /\ list.error /\ search = list.applied /\ ~Refreshing
                       /\ ~OnTrashPage
  /\ Room(requests)
  /\ Spend("list")
  /\ ResetList(search)
  /\ UNCHANGED <<row, selection>>

LoadMore ==
  /\ ~Loading /\ ~Refreshing /\ ~selection.busy
  /\ list.cursor # None
  /\ Room(requests)
  /\ Spend("list")
  /\ requests' = requests \cup
       {[SearchRequest("next", list.applied) EXCEPT !.cursor = list.cursor]}
  /\ UNCHANGED <<row, list, selection>>

(* refreshFromAppliedQuery, replaceSnapshot: as deep as before.  The trash  *)
(* page reads itself again after an error, even during a selection, and     *)
(* after a command, when it gives up a search asked for in the meantime.    *)
Deep == [SearchRequest("refresh", list.applied) EXCEPT
           !.depth = Max({Len(list.items), Limit})]
StartRefresh ==
  /\ requests' = Superseded(requests) \cup {Deep}
  /\ list' = [list EXCEPT !.error = FALSE, !.asked = list.applied]

Refresh ==
  /\ ~list.returning
  /\ ~Loading /\ ~Refreshing /\ ~selection.busy
  /\ selection.mode => OnTrashPage /\ list.error
  /\ Room(requests)
  /\ Spend("list")
  /\ StartRefresh
  /\ UNCHANGED <<row, selection>>

(* The page is left and opened again with what it showed: its requests and *)
(* its selection are gone.  The gallery reloads its items once it is drawn, *)
(* the trash page (onMount) at once.                                       *)
Return ==
  /\ list.items # <<>>
  /\ Spend("list")
  /\ list' = [list EXCEPT !.error = FALSE, !.asked = list.applied,
                          !.returning = ~OnTrashPage]
  /\ requests' = Superseded(requests) \cup
       IF OnTrashPage THEN {Deep} ELSE {}
  /\ selection' = [Off(selection) EXCEPT !.latest = "ok", !.busy = FALSE,
                                         !.commands = Superseded(@)]
  /\ UNCHANGED row

(* restoreGallery, refreshLoadedItems: it supersedes a search asked for in *)
(* the meantime.                                                           *)
Reload ==
  /\ list.returning
  /\ Room(requests)
  /\ requests' = Superseded(requests) \cup
       {[SearchRequest("reload", list.applied) EXCEPT !.only = Shown, !.depth = Len(list.items)]}
  /\ list' = [list EXCEPT !.returning = FALSE, !.error = FALSE, !.asked = list.applied]
  /\ UNCHANGED <<row, selection, budget>>

(* The server answers with a page; a refresh goes on to the depth it wants. *)
ServePage(r) ==
  LET page == PageOf(r.search, r.cursor, r.only,
                     IF r.kind = "reload" THEN r.depth ELSE Limit)
      got == r.got \o page.items
      goesOn == r.kind = "refresh" /\ Len(got) < r.depth /\ page.cursor # None
  IN
  /\ r.stage = "asked"
  /\ requests' = (requests \ {r}) \cup
       {[r EXCEPT !.got = got, !.cursor = page.cursor,
                  !.moved = IF r.got = <<>> THEN {} ELSE @,
                  !.stage = IF goesOn THEN "asked" ELSE "answered"]}
  /\ UNCHANGED <<row, list, selection, budget>>

(* The trash page is busy until it has been read again after a command. *)
Ended(r) ==
  IF r.current /\ r.kind = "refresh"
  THEN [selection EXCEPT !.busy = \E m \in selection.commands : m.current]
  ELSE selection

(* Of the items shown those the server still finds, in their old order. *)
Kept(items, got) ==
  LET places == {n \in DOMAIN items : items[n] \in ToSet(got)}
      order == Arranged(places, {p \in places \X places : p[1] < p[2]}) IN
  [n \in 1 .. Cardinality(places) |-> items[order[n]]]

WithPage(r) ==
  CASE r.kind \in {"reset", "refresh"} ->
         [list EXCEPT !.items = r.got, !.cursor = r.cursor,
                      !.applied = r.search, !.moved = r.moved]
    [] r.kind = "next" ->
         [list EXCEPT !.items = @ \o r.got, !.cursor = r.cursor]
    [] r.kind = "reload" ->
         [list EXCEPT !.items = Kept(@, r.got)]

(* Wrong: an answer is shown although a later search superseded it. *)
ReceiveAny(r) ==
  /\ r.stage = "answered"
  /\ requests' = requests \ {r}
  /\ list' = WithPage(r)
  /\ selection' = RefreshVisible(selection, ToSet(list'.items))
  /\ UNCHANGED <<row, budget>>

Receive(r) ==
  /\ r.stage = "answered"
  /\ requests' = requests \ {r}
  /\ IF r.current
     THEN /\ list' = WithPage(r)
          /\ selection' = RefreshVisible(Ended(r), ToSet(list'.items))
     ELSE UNCHANGED <<list, selection>>
  /\ UNCHANGED <<row, budget>>

(* The request or its answer is lost, or the count asked for with it fails. *)
LosePage(r) ==
  /\ Spend("failure")
  /\ requests' = requests \ {r}
  /\ list' = IF r.current /\ r.kind # "next"
             THEN [list EXCEPT !.error = TRUE, !.asked = list.applied] ELSE list
  /\ selection' = Ended(r)
  /\ UNCHANGED row

-----------------------------------------------------------------------------
(* Selecting. *)

Edit == selection.mode /\ Spend("choice")

Enter ==
  /\ ~selection.mode /\ ~selection.busy
  /\ OnTrashPage => list.items # <<>>
  /\ Spend("choice")
  /\ selection' = [Off(selection) EXCEPT !.mode = TRUE, !.search = list.applied]
  /\ UNCHANGED <<row, list, requests>>

Exit ==
  /\ Edit
  /\ selection' = Off(selection)
  /\ UNCHANGED <<row, list, requests>>

(* The choice becomes empty at once; nothing is asked of the server. *)
Clear ==
  /\ Edit
  /\ selection' =
       [selection EXCEPT
          !.choice = Nothing, !.marked = {}, !.count = 0, !.blocked = 0,
          !.counted = {},
          !.latest = "failed", !.error = FALSE,
          !.refresh = {}, !.trashing = FALSE,
          !.projections = Superseded(@)]
  /\ UNCHANGED <<row, list, requests>>

(* setWork guesses the count; setItem leaves it to the server. *)
Toggle(i) ==
  LET was == Chosen(selection.choice, i)
      guess == IF selection.search.kind \notin {"work", "trash"}
               THEN selection.count
               ELSE IF was THEN Max({0, selection.count - 1})
               ELSE selection.count + 1 IN
  /\ Edit /\ Room(selection.projections)
  /\ selection' = Intend(selection, Choose(selection.choice, i, ~was), Shown, guess)
  /\ UNCHANGED <<row, list, requests>>

SelectAll ==
  /\ Edit /\ Room(selection.projections)
  /\ selection' = Intend(selection, [base |-> TRUE, exceptions |-> {}], Shown,
                         selection.count)
  /\ UNCHANGED <<row, list, requests>>

Invert ==
  /\ Edit /\ Room(selection.projections)
  /\ selection' = Intend(selection, [selection.choice EXCEPT !.base = ~@], Shown,
                         selection.count)
  /\ UNCHANGED <<row, list, requests>>

ServeProjection(p) ==
  LET selected == Selected(p.search, p.choice)
      works == WorksOf(p.search, selected) IN
  /\ p.stage = "asked"
  /\ selection' = [selection EXCEPT !.projections = (@ \ {p}) \cup
       {[p EXCEPT !.stage = "answered", !.marked = selected \cap p.visible,
                  !.counted = works, !.count = Cardinality(works),
                  !.blocked = Cardinality({w \in works : row[w].purge # "none"}),
                  !.changed = {}]}]
  /\ UNCHANGED <<row, list, requests, budget>>

(* What waited for the projection goes on before anything else happens. *)
Settle(p) ==
  LET rest == [selection EXCEPT !.projections = @ \ {p}]
      settled == [rest EXCEPT !.choice = p.choice, !.marked = p.marked,
                              !.count = p.count, !.blocked = p.blocked,
                              !.counted = p.counted,
                              !.changed = p.changed, !.latest = "ok"]
      sent == IF settled.trashing THEN SendMove(settled) ELSE settled IN
  /\ p.stage = "answered"
  /\ selection' = IF ~p.current THEN rest
                  ELSE IF sent.refresh = {} THEN sent
                  ELSE Reproject(sent, UNION sent.refresh)
  /\ UNCHANGED <<row, list, requests, budget>>

LoseProjection(p) ==
  LET rest == [selection EXCEPT !.projections = @ \ {p}] IN
  /\ Spend("failure")
  /\ selection' =
       IF ~p.current THEN rest
       ELSE [rest EXCEPT !.choice = p.previous.choice, !.marked = p.previous.marked,
                         !.count = p.previous.count,
                         !.blocked = p.previous.blocked, !.error = TRUE,
                         !.latest = "failed", !.refresh = {}, !.trashing = FALSE]
  /\ UNCHANGED <<row, list, requests>>

(* Wrong: the move does not wait for the choice to be counted. *)
TrashAtOnce ==
  /\ Edit /\ ~selection.busy /\ ~Loading /\ Room(selection.commands)
  /\ selection.search.kind # "trash"
  /\ selection' = SendMove(selection)
  /\ UNCHANGED <<row, list, requests>>

Trash ==
  /\ Edit /\ ~selection.busy /\ ~Loading /\ Room(selection.commands)
  /\ selection.search.kind # "trash"
  /\ selection.search.kind # "work" => ~Refreshing
  /\ selection.count > 0
  /\ selection' = CASE selection.latest = "failed" -> selection
                    [] selection.latest = "pending" ->
                         [selection EXCEPT !.trashing = TRUE]
                    [] selection.latest = "ok" -> SendMove(selection)
  /\ UNCHANGED <<row, list, requests>>

(* batchRestore, batchReschedule, requestBatchPurge: the trash's commands   *)
(* take the choice and the number of the moment, counted or not.           *)
Command(command) ==
  /\ Edit /\ ~selection.busy /\ Room(selection.commands)
  /\ selection.search.kind = "trash"
  /\ selection.count > 0
  /\ command # "purge" => selection.blocked = 0
  /\ selection' = Send(selection, command)
  /\ UNCHANGED <<row, list, requests>>

-----------------------------------------------------------------------------
(* Works change.                                                           *)

Noting(S, items) == {[x EXCEPT !.changed = @ \cup items] : x \in S}
Touched(works) ==
  works \cup UNION {ContextsOf(w) \cup ContextsOf(w)' : w \in works}

(* What was listed and what was counted before the works changed. *)
NoteChange(works, sel) ==
  LET items == Touched(works) IN
  /\ list' = [list EXCEPT !.moved = @ \cup items]
  /\ requests' = {[r EXCEPT !.moved = @ \cup items] : r \in requests}
  /\ selection' = [sel EXCEPT !.changed = @ \cup items,
                              !.projections = Noting(@, items),
                              !.commands = Noting(@, items)]

Restored(r) ==
  [r EXCEPT !.state = IF r.stored THEN "collected" ELSE "metadata_only",
            !.due = Sooner]
PutOff(r) == [r EXCEPT !.due = Later]

(* What a command makes of a work it is for. *)
Commanded(command, r) ==
  CASE command = "trash" -> [r EXCEPT !.state = "trash"]
    [] command = "restore" -> Restored(r)
    [] command = "reschedule" -> PutOff(r)
    [] command = "purge" -> [r EXCEPT !.purge = IF @ = "none" THEN "queued" ELSE @]

(* lock_trash_selection: nothing is restored or put off if the purge of    *)
(* any of the works is under way.                                          *)
Refused(m, works) ==
  /\ m.command \in {"restore", "reschedule"}
  /\ \E w \in works : row[w].purge # "none"

ServeCommand(m) ==
  LET works == WorksOf(m.search, Selected(m.search, m.choice))
      changed == IF Refused(m, works) THEN {} ELSE works
      stage == IF Refused(m, works) THEN "refused" ELSE "answered" IN
  /\ m.stage = "asked"
  /\ row' = [w \in Work |-> IF w \in changed THEN Commanded(m.command, row[w])
                            ELSE row[w]]
  /\ NoteChange(changed, [selection EXCEPT
       !.commands = (@ \ {m}) \cup {[m EXCEPT !.stage = stage]}])
  /\ UNCHANGED budget

(* The selection ends and the list is read again. *)
ReceiveDone(m) ==
  /\ m.stage = "answered"
  /\ IF m.current
     THEN /\ selection' = [Off(selection) EXCEPT
                              !.commands = Superseded(@ \ {m}), !.busy = OnTrashPage]
          /\ IF m.command = "trash" THEN ResetList(list.applied) ELSE StartRefresh
     ELSE /\ selection' = [selection EXCEPT !.commands = @ \ {m}]
          /\ UNCHANGED <<list, requests>>
  /\ UNCHANGED <<row, budget>>

CommandFailed(m) ==
  selection' = IF m.current THEN [selection EXCEPT !.commands = @ \ {m},
                                                   !.busy = FALSE, !.error = TRUE]
               ELSE [selection EXCEPT !.commands = @ \ {m}]
ReceiveRefusal(m) ==
  /\ m.stage = "refused"
  /\ CommandFailed(m)
  /\ UNCHANGED <<row, list, requests, budget>>
LoseCommand(m) ==
  /\ Spend("failure")
  /\ CommandFailed(m)
  /\ UNCHANGED <<row, list, requests>>

Change(w, to) ==
  /\ Spend("change")
  /\ row' = [row EXCEPT ![w] = to]
  /\ NoteChange({w}, selection)

(* A page of a work that had none is stored. *)
Collect(w) ==
  /\ row[w].state = "metadata_only"
  /\ Change(w, [row[w] EXCEPT !.state = "collected", !.stored = TRUE])

SaveDetail(w) ==
  \E about \in About[w] \ {row[w].about} :
    Change(w, [row[w] EXCEPT !.about = about])

MoveToTrash(w) ==
  /\ row[w].state \in {"collected", "metadata_only"}
  /\ Change(w, [row[w] EXCEPT !.state = "trash"])

Restore(w) ==
  /\ row[w].state = "trash" /\ row[w].purge = "none"
  /\ Change(w, Restored(row[w]))

(* A purge that is due is queued, begins and ends. *)
Purge(w) ==
  /\ row[w].state = "trash"
  /\ Change(w, CASE row[w].purge = "none" -> [row[w] EXCEPT !.purge = "queued"]
                 [] row[w].purge = "queued" -> [row[w] EXCEPT !.purge = "started"]
                 [] row[w].purge = "started" -> [row[w] EXCEPT !.state = "purged"])

-----------------------------------------------------------------------------
ListStep ==
  \/ \E s \in Searches \cup (IF list.error THEN {list.applied} ELSE {}) : Reset(s)
  \/ LoadMore
  \/ Refresh
  \/ Return
  \/ Reload
  \/ \E r \in requests : ServePage(r) \/ Receive(r) \/ LosePage(r)
SelectionStep ==
  \/ Enter
  \/ Exit
  \/ Clear
  \/ \E i \in Shown : Toggle(i)
  \/ SelectAll
  \/ Invert
  \/ \E p \in selection.projections :
       ServeProjection(p) \/ Settle(p) \/ LoseProjection(p)
  \/ Trash
  \/ \E command \in {"restore", "reschedule", "purge"} : Command(command)
  \/ \E m \in selection.commands :
       ServeCommand(m) \/ ReceiveDone(m) \/ ReceiveRefusal(m) \/ LoseCommand(m)
WorkStep ==
  \E w \in Work : Collect(w) \/ SaveDetail(w) \/ MoveToTrash(w) \/ Restore(w)
                  \/ Purge(w)

GalleryNext == ListStep \/ SelectionStep \/ WorkStep
GallerySpec == GalleryInit /\ [][GalleryNext]_galleryVars

-----------------------------------------------------------------------------
(* Paging by cursor skips nothing and repeats nothing: an item that the    *)
(* search finds, and that has not changed since the list's first page, is  *)
(* shown once if it lies before the next page, and not at all otherwise    *)
(* (search_in_scope, cursor_for, push_cursor, push_order).                 *)
NoneSkipped ==
  list.items # <<>> =>
    \A i \in Items(list.applied) \ list.moved :
      Cardinality({n \in DOMAIN list.items : list.items[n] = i}) =
        IF list.cursor # None /\ RowsAfter(list.applied, list.cursor, i) THEN 0 ELSE 1

(* When nothing is under way the list is that of the newest search asked   *)
(* for, unless that search failed and said so (requestRevision).           *)
ShowsNewest ==
  ~Loading /\ ~Refreshing => list.applied = list.asked

(* Once the server has answered, what is marked is what would be moved:    *)
(* of the items shown, those the selection takes in, as far as they have   *)
(* not changed since they were counted (SelectionProjectionCoordinator,    *)
(* refreshVisible).                                                        *)
MarksAgree ==
  selection.mode /\ selection.latest = "ok" =>
    \A i \in Shown \ selection.changed :
      i \in selection.marked <=> i \in Selected(selection.search, selection.choice)

(* The move takes exactly the works whose number was shown when it was     *)
(* sent, but for works that changed after they were counted                *)
(* (GallerySelectionSession.trash, move_selection_to_trash).               *)
Moved == {w \in Work : row[w].state # "trash" /\ row'[w].state = "trash"}
TrashesWhatWasCounted ==
  [][\A m \in selection.commands : m.command = "trash" /\ ServeCommand(m) =>
       \A w \in Work \ m.changed : w \in Moved <=> w \in m.counted]_galleryVars

(* Of a filter and its opposite, a work passes exactly one (push_filter).  *)
FilterOppositesDivide ==
  list.applied.kind = "work" =>
    \A w \in Work, f \in UNION {g.filters : g \in list.applied.groups} :
      HasOpposite(f) =>
        FilterHolds(Details(w), f) # FilterHolds(Details(w), Opposite(f))

(* The purge of a selection is for as many works as the confirmation says  *)
(* (TrashWorkspace, "purge the selected N works?"), if none has changed     *)
(* since the list was read and the selection last counted.                 *)
PurgesTheNumberConfirmed ==
  [][\A m \in selection.commands :
       m.command = "purge" /\ m.changed = {} /\ list.moved = {} /\ ServeCommand(m) =>
         Cardinality(Selected(m.search, m.choice)) = m.shown]_galleryVars
=============================================================================
