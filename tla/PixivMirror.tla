------------------------------ MODULE PixivMirror ------------------------------
(***************************************************************************)
(* The archive's copy of the owner's bookmarks and followed artists.       *)
(* Pixiv is the authority; it changes through the commands given here and  *)
(* through what the owner does on Pixiv itself.  The copy is written by    *)
(* three kinds of writer that read Pixiv first and write later, in         *)
(* separate requests and transactions: a command of the operator, the save *)
(* of a work's metadata, and a listing of everything, read page by page    *)
(* and by visibility, that replaces the copy.                              *)
(* A missing bookmark row reads as an inactive one without an id.  The     *)
(* revision and event of a bookmark change are module EventFeed's matter,  *)
(* names, avatars and times are left out.                                  *)
(***************************************************************************)
EXTENDS Integers, Sequences, SequencesExt

CONSTANTS
  Work,         \* Pixiv works the owner may bookmark
  Artist,       \* Pixiv artists the owner may follow
  Command,      \* commands of the operator that can be under way at once
  Refresher,    \* readers of the followed artists: the unit's job, the web page
  PageSize,     \* entries on a page of a listing
  MaxChanges,   \* bound: commands of the operator and changes on Pixiv itself
  MaxFailures   \* bound: refused or lost requests, lost leases, failed writes

Visibility == {"public", "private"}

ASSUME PixivMirrorAssumption ==
  /\ Work \cap Artist = {} /\ "none" \notin Work \cup Artist
  /\ PageSize \in Nat \ {0}
  /\ MaxChanges \in Nat /\ MaxFailures \in Nat

VARIABLES
  marks, markId,   \* Pixiv: the bookmarks of each visibility, newest first; their ids
  follows,         \* Pixiv: the artists followed with each visibility, newest first
  archived,        \* the works with a row
  bookmark,        \* pixiv_work_bookmark
  author,          \* pixiv_following_author
  excluded,        \* pixiv_following_author_exclusion
  due,             \* the last full reconciliation is older than the interval
  command, detail, \* what the operator's requests and a metadata save have read
  listing,         \* what the bookmarks unit has read
  refresh,         \* what each reader of the followed artists has read
  settled,         \* history: the copies replaced by a listing of the Pixiv of now
  changes, failures

remote == <<marks, markId, follows>>
bookmarks == <<archived, bookmark, due, listing, detail>>
following == <<author, excluded, refresh>>
mirrorVars == <<remote, bookmarks, following, command, settled, changes, failures>>

NoId == 0
NoBookmark == [active |-> FALSE, visibility |-> "public", id |-> NoId]
\* "still": Pixiv has not changed since this reader began, a history field.
NotListing == [step |-> "idle", offset |-> 0, seen |-> {}, still |-> FALSE]
NoCommand == [kind |-> "none", step |-> "idle", item |-> "none",
              visibility |-> "public", id |-> NoId]
NoDetail == [work |-> "none", found |-> NoBookmark, still |-> FALSE]

MirrorInit ==
  /\ marks = [v \in Visibility |-> <<>>] /\ markId = [w \in Work |-> NoId]
  /\ follows = [v \in Visibility |-> <<>>]
  /\ archived = {} /\ bookmark = [w \in Work |-> NoBookmark]
  /\ author = [a \in Artist |-> "none"] /\ excluded = {} /\ due = TRUE
  /\ command = [c \in Command |-> NoCommand] /\ detail = NoDetail
  /\ listing = NotListing /\ refresh = [r \in Refresher |-> NotListing]
  /\ settled = [marks |-> FALSE, follows |-> FALSE]
  /\ changes = 0 /\ failures = 0

-----------------------------------------------------------------------------
(* Pixiv, as the requests of the code see it. *)

\* A list shows an entry once.
Dropped(list, x) ==
  IF \E i \in DOMAIN list : list[i] = x
    THEN RemoveAt(list, CHOOSE i \in DOMAIN list : list[i] = x) ELSE list
Without(lists, x) == [v \in Visibility |-> Dropped(lists[v], x)]
With(lists, x, v) ==
  LET others == Without(lists, x) IN [others EXCEPT ![v] = <<x>> \o @]
Shown(lists, x) ==
  IF \E i \in DOMAIN lists["private"] : lists["private"][i] = x THEN "private"
  ELSE IF \E i \in DOMAIN lists["public"] : lists["public"][i] = x THEN "public" ELSE "none"
IsMarked(w) == Shown(marks, w) # "none"
Followed(a) == Shown(follows, a) # "none"
MarkOf(w) == [active |-> IsMarked(w),
              visibility |-> IF IsMarked(w) THEN Shown(marks, w) ELSE "public",
              id |-> IF IsMarked(w) THEN markId[w] ELSE NoId]

\* A change of the bookmarks outdates what was read of them before.
MarksBecome(lists, ids) ==
  /\ marks' = lists /\ markId' = ids
  /\ listing' = [listing EXCEPT !.still = FALSE]
  /\ detail' = [detail EXCEPT !.still = FALSE]
  /\ settled' = [settled EXCEPT !.marks = FALSE]
  /\ UNCHANGED follows
FollowsBecome(lists) ==
  /\ follows' = lists
  /\ refresh' = [r \in Refresher |-> [refresh[r] EXCEPT !.still = FALSE]]
  /\ settled' = [settled EXCEPT !.follows = FALSE]
  /\ UNCHANGED <<marks, markId>>

\* A new bookmark has a new id; one that changes its visibility keeps it.
MarkAdded(w, v) ==
  MarksBecome(With(marks, w, v),
              IF IsMarked(w) THEN markId ELSE [markId EXCEPT ![w] = @ + 1])
MarkRemoved(w) == MarksBecome(Without(marks, w), markId)

Spend == changes < MaxChanges /\ changes' = changes + 1

\* The owner uses Pixiv itself.
OwnerMarks(w, v) ==
  /\ Spend /\ MarkAdded(w, v)
  /\ UNCHANGED <<archived, bookmark, due, following, command, failures>>
OwnerUnmarks(w) ==
  /\ IsMarked(w) /\ Spend /\ MarkRemoved(w)
  /\ UNCHANGED <<archived, bookmark, due, following, command, failures>>
OwnerFollows(a, v) ==
  /\ Spend /\ FollowsBecome(With(follows, a, v))
  /\ UNCHANGED <<bookmarks, author, excluded, command, failures>>
OwnerUnfollows(a) ==
  /\ Followed(a) /\ Spend /\ FollowsBecome(Without(follows, a))
  /\ UNCHANGED <<bookmarks, author, excluded, command, failures>>

-----------------------------------------------------------------------------
(* A bookmark command whose writeback is enabled. *)

At(c, kind, step) == command[c].kind = kind /\ command[c].step = step
Go(c, step) == command' = [command EXCEPT ![c].step = step]
Done(c) == command' = [command EXCEPT ![c] = NoCommand]

StartAdd(c, w, v) ==
  /\ command[c] = NoCommand /\ Spend
  /\ command' = [command EXCEPT ![c] = [NoCommand EXCEPT !.kind = "add", !.step = "send",
                                                         !.item = w, !.visibility = v]]
  /\ settled' = [settled EXCEPT !.marks = FALSE]
  /\ UNCHANGED <<remote, bookmarks, following, failures>>

StartRemove(c, w) ==
  /\ command[c] = NoCommand /\ Spend
  /\ command' = [command EXCEPT ![c] = [NoCommand EXCEPT !.kind = "remove",
                                                         !.step = "local", !.item = w]]
  /\ settled' = [settled EXCEPT !.marks = FALSE]
  /\ UNCHANGED <<remote, bookmarks, following, failures>>

\* The answer to an add may leave the id out.
SendAdd(c) ==
  /\ At(c, "add", "send")
  /\ MarkAdded(command[c].item, command[c].visibility)
  /\ \E id \in {NoId, markId'[command[c].item]} :
        command' = [command EXCEPT ![c].step = "project", ![c].id = id]
  /\ UNCHANGED <<archived, bookmark, due, following, changes, failures>>

\* A removal needs the bookmark's id: the row's if it has one, or Pixiv's.
ActiveId(w) == IF w \in archived /\ bookmark[w].active THEN bookmark[w].id ELSE NoId
ResolveLocally(c) ==
  /\ At(c, "remove", "local")
  /\ LET id == ActiveId(command[c].item)
     IN command' = [command EXCEPT ![c].id = id,
                                   ![c].step = IF id = NoId THEN "detail" ELSE "send"]
  /\ UNCHANGED <<remote, bookmarks, following, settled, changes, failures>>
ResolveAtPixiv(c) ==
  /\ At(c, "remove", "detail")
  /\ LET id == MarkOf(command[c].item).id
     IN command' = [command EXCEPT ![c].id = id,
                                   ![c].step = IF id = NoId THEN "project" ELSE "send"]
  /\ UNCHANGED <<remote, bookmarks, following, settled, changes, failures>>

\* A bookmark Pixiv does not find counts as removed.
SendRemove(c) ==
  LET w == command[c].item IN
  /\ At(c, "remove", "send")
  /\ IF command[c].id = MarkOf(w).id
       THEN MarkRemoved(w)
       ELSE UNCHANGED <<remote, listing, detail, settled>>
  /\ Go(c, "project")
  /\ UNCHANGED <<archived, bookmark, due, following, changes, failures>>

\* mark_added, mark_removed_by_work; then the outcome is recorded.
ProjectMark(c) ==
  LET w == command[c].item IN
  /\ command[c].kind \in {"add", "remove"} /\ command[c].step = "project"
  /\ bookmark' =
       IF w \notin archived THEN bookmark
       ELSE IF command[c].kind = "add"
         THEN [bookmark EXCEPT ![w] = [active |-> TRUE, visibility |-> command[c].visibility,
                                       id |-> command[c].id]]
         ELSE [bookmark EXCEPT ![w].active = FALSE]
  /\ Done(c)
  /\ UNCHANGED <<remote, archived, due, listing, detail, following, settled, changes, failures>>

-----------------------------------------------------------------------------
(* A follow command: read, change, verify, then write the copy. *)

StartFollow(c, a, followed) ==
  /\ command[c] = NoCommand /\ Spend
  /\ command' = [command EXCEPT ![c] =
       [NoCommand EXCEPT !.kind = IF followed THEN "follow" ELSE "unfollow",
                         !.step = "read", !.item = a]]
  /\ settled' = [settled EXCEPT !.follows = FALSE]
  /\ UNCHANGED <<remote, bookmarks, following, failures>>

Wanted(c) == command[c].kind = "follow"
IsFollowCommand(c) == command[c].kind \in {"follow", "unfollow"}

\* pixiv_state, before the change: nothing to change when it is as wanted.
ReadFollow(c) ==
  /\ IsFollowCommand(c) /\ command[c].step = "read"
  /\ Go(c, IF Followed(command[c].item) = Wanted(c) THEN "sync" ELSE "follow")
  /\ UNCHANGED <<remote, bookmarks, following, settled, changes, failures>>

SendFollow(c) ==
  LET a == command[c].item IN
  /\ IsFollowCommand(c) /\ command[c].step = "follow"
  /\ FollowsBecome(IF Wanted(c) THEN With(follows, a, "public") ELSE Without(follows, a))
  /\ Go(c, "verify")
  /\ UNCHANGED <<bookmarks, author, excluded, changes, failures>>

\* pixiv_state, after it: StateMismatch ends the command and the copy stays.
VerifyFollow(c) ==
  /\ IsFollowCommand(c) /\ command[c].step = "verify"
  /\ IF Followed(command[c].item) = Wanted(c) THEN Go(c, "sync") ELSE Done(c)
  /\ UNCHANGED <<remote, bookmarks, following, settled, changes, failures>>

\* sync_local_projection: a followed artist is written as a public one; the
\* exclusion goes with the row (ON DELETE CASCADE).
ProjectFollow(c) ==
  LET a == command[c].item IN
  /\ IsFollowCommand(c) /\ command[c].step = "sync"
  /\ author' = [author EXCEPT ![a] = IF Wanted(c) THEN "public" ELSE "none"]
  /\ excluded' = IF Wanted(c) THEN excluded ELSE excluded \ {a}
  /\ Done(c)
  /\ UNCHANGED <<remote, bookmarks, refresh, settled, changes, failures>>

\* A request is refused or its answer lost - what it did on Pixiv stays done -
\* or the copy cannot be written.
CommandFails(c) ==
  /\ command[c] # NoCommand /\ failures < MaxFailures
  /\ Done(c) /\ failures' = failures + 1
  /\ UNCHANGED <<remote, bookmarks, following, settled, changes>>

\* set_enabled_many: for every artist named, or for none.
SetEnabled(artists, enabled) ==
  /\ Spend
  /\ \A a \in artists : author[a] # "none"
  /\ excluded' = IF enabled THEN excluded \ artists ELSE excluded \cup artists
  /\ UNCHANGED <<remote, bookmarks, author, refresh, command, settled, failures>>

-----------------------------------------------------------------------------
(* The save of a work's metadata, by whatever job collects it. *)

ReadDetail(w) ==
  /\ detail = NoDetail
  /\ detail' = [work |-> w, found |-> MarkOf(w), still |-> TRUE]
  /\ UNCHANGED <<remote, archived, bookmark, due, listing, following, command, settled,
                 changes, failures>>

\* update_bookmark, in the transaction that saves the work.
SaveDetail ==
  LET w == detail.work IN
  /\ detail # NoDetail
  /\ archived' = archived \cup {w}
  /\ bookmark' = [bookmark EXCEPT ![w] =
       IF detail.found.active THEN detail.found ELSE [@ EXCEPT !.active = FALSE]]
  /\ detail' = NoDetail
  /\ UNCHANGED <<remote, due, listing, following, command, settled, changes, failures>>

-----------------------------------------------------------------------------
(* The listings. *)

StartsListing == [NotListing EXCEPT !.step = "public", !.still = TRUE]
\* Wrong: a listing ends with the first page of each visibility.
TurnedFirstPages(reader, lists) ==
  [reader EXCEPT !.seen = @ \cup {<<reader.step, lists[reader.step][i]>> :
                                     i \in (1..PageSize) \cap DOMAIN lists[reader.step]},
                 !.step = IF @ = "public" THEN "private" ELSE "write"]
\* One more page; the offset counts entries, so it is relative to what Pixiv
\* lists by then.
Turned(reader, lists) ==
  LET all == lists[reader.step]
      end == reader.offset + PageSize
      page == {<<reader.step, all[i]>> : i \in (reader.offset + 1..end) \cap DOMAIN all}
      more == end < Len(all)
  IN [reader EXCEPT !.seen = @ \cup page,
                    !.offset = IF more THEN end ELSE 0,
                    !.step = IF more THEN @ ELSE IF @ = "public" THEN "private" ELSE "write"]
\* An entry read twice counts as private.
Seen(reader, x) ==
  IF <<"private", x>> \in reader.seen THEN "private"
  ELSE IF <<"public", x>> \in reader.seen THEN "public" ELSE "none"
Reading(reader) == reader.step \in Visibility

IntervalPasses ==
  /\ ~due /\ due' = TRUE
  /\ UNCHANGED <<remote, archived, bookmark, listing, detail, following, command, settled,
                 changes, failures>>

\* execute_bookmarks_unit as a full run: a backfill or the interval has passed.
\* An incremental one writes no copy, beyond the metadata it saves.
ListMarks(backfill) ==
  /\ listing.step = "idle" /\ (backfill \/ due)
  /\ listing' = StartsListing
  /\ UNCHANGED <<remote, archived, bookmark, due, detail, following, command, settled,
                 changes, failures>>
ReadMarks ==
  /\ Reading(listing)
  /\ listing' = Turned(listing, marks)
  /\ UNCHANGED <<remote, archived, bookmark, due, detail, following, command, settled,
                 changes, failures>>

\* Nothing else is about to write what it read before this listing began.
NoMarkWriter ==
  /\ \A c \in Command : command[c].kind \notin {"add", "remove"}
  /\ detail = NoDetail \/ detail.still

\* Wrong: what the listing no longer shows stays active.
ReconciledAdds(w, row) ==
  IF w \notin archived \/ Seen(listing, w) = "none" THEN row
  ELSE [row EXCEPT !.active = TRUE, !.visibility = Seen(listing, w)]
Reconciled(w, row) ==
  LET v == Seen(listing, w) IN
  IF w \notin archived THEN row
  ELSE IF v = "none" THEN [row EXCEPT !.active = FALSE]
  ELSE [row EXCEPT !.active = TRUE, !.visibility = v]

Reconcile ==
  /\ listing.step = "write"
  /\ bookmark' = [w \in Work |-> Reconciled(w, bookmark[w])]
  /\ due' = FALSE /\ listing' = NotListing
  /\ settled' = [settled EXCEPT !.marks = listing.still /\ NoMarkWriter]
  /\ UNCHANGED <<remote, archived, detail, following, command, changes, failures>>

\* A page is refused, a work could not be saved (retry_pending) or the lease is lost.
ListingEnds ==
  /\ listing.step # "idle" /\ failures < MaxFailures
  /\ listing' = NotListing /\ failures' = failures + 1
  /\ UNCHANGED <<remote, archived, bookmark, due, detail, following, command, settled, changes>>

\* FollowingService::refresh, for the unit's job or for the page.
ListFollows(r) ==
  /\ refresh[r].step = "idle"
  /\ refresh' = [refresh EXCEPT ![r] = StartsListing]
  /\ UNCHANGED <<remote, bookmarks, author, excluded, command, settled, changes, failures>>
ReadFollows(r) ==
  /\ Reading(refresh[r])
  /\ refresh' = [refresh EXCEPT ![r] = Turned(@, follows)]
  /\ UNCHANGED <<remote, bookmarks, author, excluded, command, settled, changes, failures>>

NoFollowWriter(r) ==
  /\ \A c \in Command : ~IsFollowCommand(c)
  /\ \A other \in Refresher \ {r} : refresh[other].step = "idle" \/ refresh[other].still

AuthorsOf(r) == [a \in Artist |-> Seen(refresh[r], a)]
\* Wrong: the rows are deleted and written anew.
StaysExcludedReplaced(r) == {}
\* sync_authors: rows are upserted first, so that those kept keep their exclusion.
StaysExcluded(r) == {a \in excluded : Seen(refresh[r], a) # "none"}

Sync(r) ==
  /\ refresh[r].step = "write"
  /\ author' = AuthorsOf(r)
  /\ excluded' = StaysExcluded(r)
  /\ refresh' = [refresh EXCEPT ![r] = NotListing]
  /\ settled' = [settled EXCEPT !.follows = refresh[r].still /\ NoFollowWriter(r)]
  /\ UNCHANGED <<remote, bookmarks, command, changes, failures>>

RefreshEnds(r) ==
  /\ refresh[r].step # "idle" /\ failures < MaxFailures
  /\ refresh' = [refresh EXCEPT ![r] = NotListing] /\ failures' = failures + 1
  /\ UNCHANGED <<remote, bookmarks, author, excluded, command, settled, changes>>

-----------------------------------------------------------------------------
CommandStep(c) ==
  \/ SendAdd(c) \/ ResolveLocally(c) \/ ResolveAtPixiv(c) \/ SendRemove(c) \/ ProjectMark(c)
  \/ ReadFollow(c) \/ SendFollow(c) \/ VerifyFollow(c) \/ ProjectFollow(c)
OperatorStep(c) ==
  \/ \E w \in Work, v \in Visibility : StartAdd(c, w, v)
  \/ \E w \in Work : StartRemove(c, w)
  \/ \E a \in Artist, followed \in BOOLEAN : StartFollow(c, a, followed)
OwnerStep ==
  \/ \E w \in Work, v \in Visibility : OwnerMarks(w, v)
  \/ \E w \in Work : OwnerUnmarks(w)
  \/ \E a \in Artist, v \in Visibility : OwnerFollows(a, v)
  \/ \E a \in Artist : OwnerUnfollows(a)
RefreshStep(r) == ListFollows(r) \/ ReadFollows(r) \/ Sync(r)

MirrorNext ==
  \/ OwnerStep
  \/ \E c \in Command : OperatorStep(c) \/ CommandStep(c) \/ CommandFails(c)
  \/ \E artists \in SUBSET Artist \ {{}}, enabled \in BOOLEAN : SetEnabled(artists, enabled)
  \/ \E w \in Work : ReadDetail(w)
  \/ SaveDetail
  \/ IntervalPasses
  \/ \E backfill \in BOOLEAN : ListMarks(backfill)
  \/ ReadMarks \/ Reconcile \/ ListingEnds
  \/ \E r \in Refresher : RefreshStep(r) \/ RefreshEnds(r)

MirrorSpec == MirrorInit /\ [][MirrorNext]_mirrorVars
\* Requests end, the interval passes, and the scheduler starts a unit again and
\* again; the page's refreshes end once they are asked for.
MirrorFairSpec ==
  /\ MirrorSpec
  /\ \A c \in Command : WF_mirrorVars(CommandStep(c))
  /\ WF_mirrorVars(SaveDetail) /\ WF_mirrorVars(IntervalPasses)
  /\ WF_mirrorVars(ListMarks(FALSE)) /\ WF_mirrorVars(ReadMarks) /\ WF_mirrorVars(Reconcile)
  /\ \A r \in Refresher : WF_mirrorVars(RefreshStep(r))

-----------------------------------------------------------------------------
MarksMirrored ==
  \A w \in archived :
    /\ bookmark[w].active <=> IsMarked(w)
    /\ IsMarked(w) => bookmark[w].visibility = Shown(marks, w)
FollowsMirrored == \A a \in Artist : author[a] # "none" <=> Followed(a)

(* Once a listing that Pixiv did not change under has been written, the copy
   is what Pixiv shows, until something changes on Pixiv or is commanded: what
   writers read before, the saves of works and the other readers' listings
   included, does not undo it (reconcile_full, sync_authors). *)
SettledMirrors ==
  /\ settled.marks => MarksMirrored
  /\ settled.follows => FollowsMirrored

(* Commands whose answer is lost or whose write fails, saves with an old
   detail, listings that Pixiv changed under: whatever they leave wrong, the
   copy is right for good once nothing changes any more. *)
MirrorCatchesUp == <>[](MarksMirrored /\ FollowsMirrored)

(* The operator's exclusion of an artist outlives every listing that Pixiv did
   not change under and that shows the artist (sync_authors). *)
ExclusionOutlivesListing ==
  [][\A r \in Refresher :
       (refresh[r].step = "write" /\ refresh'[r].step = "idle" /\ refresh[r].still) =>
         \A a \in excluded : Followed(a) => a \in excluded']_mirrorVars
=============================================================================
