----------------------------- MODULE MCGallery -----------------------------
(***************************************************************************)
(* Three works of two artists.  A behaviour pages through a list while     *)
(* works change, or selects in it, or (no budget at all) only evaluates    *)
(* one filter against one description.                                     *)
(***************************************************************************)
EXTENDS Gallery

CONSTANTS w1, w2, w3, a1, a2, t1, t2, s1, me, other

MCWork == {w1, w2, w3}
MCContext == {a1, a2, t1, t2, s1}
MCRank == w1 :> 1 @@ w2 :> 2 @@ w3 :> 3 @@ a1 :> 1 @@ a2 :> 2
          @@ t1 :> 3 @@ t2 :> 4 @@ s1 :> 5
MCWord == {"", " ", "cat", "CAT", "catfood"}
MCLower == ("CAT" :> "cat") @@ [w \in MCWord |-> w]
MCTrimmed == (" " :> "") @@ MCLower
MCCollation == "" :> 0 @@ "cat" :> 1 @@ "catfood" :> 2 @@ " " :> 3
Cats == {"cat", "CAT"}
MCLike ==
  [m \in Match |->
     {<<t, v>> \in MCWord \X MCWord :
        \/ v = "" \/ t = v
        \/ t \in Cats /\ v \in Cats
        \/ m # "EndsWith" /\ t = "catfood" /\ v \in Cats}]
MCContextWords ==
  [c \in MCContext |-> IF c = a1 THEN {"CAT"} ELSE {"catfood"}]

Description(w, title, caption, tags, count, published, flag) ==
  [identity |-> [k \in Identity |->
     CASE k = "WorkId" -> {w}
       [] k = "ArtistId" -> {IF w = w3 THEN a2 ELSE a1}
       [] k = "TagId" -> IF tags = {} THEN {t1} ELSE {t1, t2}
       [] k = "SeriesId" -> IF w = w1 THEN {s1} ELSE {}
       [] OTHER -> {}],
   text |-> [c \in Column |-> IF c = "Title" THEN title ELSE caption],
   tags |-> tags,
   category |-> [c \in Category |->
     IF c = "MediaFormat" THEN {title, "CAT"} ELSE {title}],
   number |-> [n \in Number |-> count],
   date |-> [f \in DateField |-> published],
   flag |-> [f \in Flag |-> flag],
   bookmarkedBy |-> IF flag THEN {me} ELSE {other}]
Tag(raw, translated) == [raw |-> raw, translated |-> translated]

(* The first work's count comes and goes; the others' stay. *)
MCDescribed ==
  "one" :> Description(w1, "cat", "", {}, 2, 1, TRUE)
  @@ "one, saved again" :> Description(w1, "CAT", "", {Tag("cat", "")}, Missing, 2, FALSE)
  @@ "two" :> Description(w2, "catfood", "cat", {Tag("CAT", "catfood")}, Missing, 2, FALSE)
  @@ "three" :> Description(w3, "cat", "", {}, 2, Missing, TRUE)
MCAbout == w1 :> {"one", "one, saved again"} @@ w2 :> {"two"} @@ w3 :> {"three"}

NoGroups(field, direction) ==
  [kind |-> "work", group_mode |-> "Any", groups |-> {}, sort_field |-> field,
   sort_direction |-> direction]
With(f) ==
  [NoGroups("PixivId", "Descending") EXCEPT
     !.group_mode = "All", !.groups = {[mode |-> "Any", filters |-> {f}]}]
Names == {{}, {" "}, {"CAT"}, {"cat", "catfood"}}
Filters ==
  [type : {"Text"}, field : Column \cup {"Any", "TagName"},
   operator : {"Equals", "Contains", "Excludes", "StartsWith", "EndsWith"},
   value : {"CAT", "catfood"}]
  \cup [type : {"Tags"}, operator : {"Any", "All", "ExcludeAny", "NotAll", "ExactSet"},
        names : Names, scope : {"Original", "OriginalAndTranslation"}]
  \cup [type : {"Category"}, field : {"WorkKind", "MediaFormat"},
        include : Names, exclude : Names]
  \cup [type : {"Number"}, field : {"BookmarkCount"}, value : {2}, to : {2},
        comparison : {"Equals", "GreaterThan", "GreaterThanOrEqual", "LessThan",
                      "LessThanOrEqual", "Between"}]
  \cup [type : {"Date"}, field : {"PublishedAt"}, value : {1}, to : {2},
        comparison : {"Before", "After", "Between"}]
  \cup [type : {"Boolean"}, field : Flag \cup {"BookmarkedByCurrentAccount"},
        value : BOOLEAN]
  \cup [type : {"ArtistId"}, value : {a1}] \cup [type : {"TagId"}, value : {t2}]
Lists ==
  {NoGroups("BookmarkCount", "Ascending"), NoGroups("PublishedAt", "Descending"),
   NoGroups("Title", "Ascending"), NoGroups("PixivId", "Descending")}
Directories == [kind : {"artist"}, query : {" "}] \cup [kind : {"tag"}, query : {"cat"}]
               \cup [kind : {"series"}, query : {""}]
Trashes == [kind : {"trash"}, query : {" "}, states : {{}, {"pending"}}]
MCOpening == Lists \cup Directories \cup Trashes \cup {With(f) : f \in Filters}
MCSearches == {With([type |-> "ArtistId", value |-> a1]),
             [kind |-> "artist", query |-> "cat"],
             [kind |-> "trash", query |-> "catfood", states |-> {"pending"}]}

Budgets(lists, choices, changes, failures) ==
  [list |-> lists, choice |-> choices, change |-> changes, failure |-> failures]
Paging == {Budgets(2, 0, 1, 0), Budgets(3, 0, 0, 1)}
Selecting == {Budgets(1, 2, 1, 0), Budgets(1, 3, 0, 1)}
Trashing == {Budgets(0, 3, 1, 0), Budgets(0, 3, 0, 1), Budgets(0, 4, 0, 0)}
Matching == {Budgets(0, 0, 0, 0)}
MCBudget == Paging \cup Selecting \cup Trashing \cup Matching

(* Filters are evaluated where nothing else happens; selections are made   *)
(* in one order of the works, among the artists and in the trash.          *)
MCOpenings ==
  CASE budget \in Matching -> {With(f) : f \in Filters}
    [] budget \in Paging -> Lists \cup Directories \cup Trashes
    [] budget \in Selecting -> {NoGroups("BookmarkCount", "Ascending"),
                               [kind |-> "artist", query |-> " "]}
    [] budget \in Trashing -> {[kind |-> "trash", query |-> " ", states |-> {}]}
Row(state, stored, about, purge, due) ==
  [state |-> state, stored |-> stored, about |-> about, purge |-> purge, due |-> due]
MCRows(w) ==
  IF OnTrashPage
  THEN {Row("trash", TRUE, about,
            IF w = w1 /\ budget \in Paging THEN "queued" ELSE "none", due) :
          about \in About[w], due \in IF w = w3 THEN {Later} ELSE {Sooner}}
  ELSE {Row("collected", TRUE, about, "none", Sooner) : about \in About[w]}
       \cup IF budget \in Selecting \/ (w = w2 /\ budget \notin Matching) THEN {}
            ELSE {Row("metadata_only", FALSE, about, "none", Sooner) : about \in About[w]}
MCInit ==
  /\ budget \in Budget
  /\ \E s \in MCOpenings : Opened(s)
  /\ row \in {f \in [Work -> UNION {MCRows(w) : w \in Work}] :
                \A w \in Work : f[w] \in MCRows(w)}
  /\ budget \in Selecting \cup Trashing => row[w1].about = "one"
  /\ GalleryInit
MCSpec == MCInit /\ [][GalleryNext]_galleryVars
=============================================================================
