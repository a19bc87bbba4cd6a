--------------------------- MODULE GalleryFilters ---------------------------
(***************************************************************************)
(* What a search of the gallery finds: the filters of domain/work.rs and   *)
(* the conditions gallery/query.rs gives the database for them.            *)
(*                                                                         *)
(* A word stands for a string.  What the code and the database do with     *)
(* strings is given by functions of words: their lower case, the form a    *)
(* list of names is reduced to (trimmed and in lower case), and which      *)
(* words contain, begin with or end with which when case is ignored.       *)
(* Numbers and times are naturals.  Filters and groups are sets: they are  *)
(* only ever joined by AND or by OR.                                       *)
(***************************************************************************)
EXTENDS Naturals, Sequences, FiniteSets

CONSTANTS
  Word,     \* the strings of works and searches
  Empty,    \* the empty string
  Lower,    \* the lower case of each word
  Trimmed,  \* each word trimmed and in lower case
  Like,     \* which words contain, start with or end with which
  Missing,  \* an absent value
  Viewer    \* the current Pixiv account, or Missing

Match == {"Contains", "StartsWith", "EndsWith"}

ASSUME FilterWordsAssumption ==
  /\ Empty \in Word
  /\ Lower \in [Word -> Word]
  /\ Trimmed \in [Word -> Word]
  /\ Like \in [Match -> SUBSET (Word \X Word)]

-----------------------------------------------------------------------------
(* A work as the database describes it: for each identity the ids it has   *)
(* (itself, its artist, its tags, its series, its current media), its      *)
(* texts (empty where absent), its tags with their translations, the words *)
(* of its categories, its numbers and dates, its flags, and the accounts   *)
(* that have bookmarked it.                                                *)

Identity == {"WorkId", "PixivWorkId", "ArtistId", "PixivArtistId", "TagId",
             "SeriesId", "MediaRevisionId"}
Column == {"Title", "Description", "ArtistName", "SeriesTitle"}
Category == {"WorkKind", "AgeRating", "CollectionState", "SourceState",
             "MediaFormat", "DerivativeFormat"}
Number == {"BookmarkCount", "ViewCount", "LikeCount", "CommentCount",
           "PageCount", "Width", "Height", "MediaByteSize"}
DateField == {"PublishedAt", "SourceUpdatedAt", "LocalUpdatedAt", "TrashedAt"}
Flag == {"Ugoira", "HasMedia", "AiGenerated", "OriginalWork"}

(* The forms of a filter.                                                  *)
IsFilter(f) ==
  \/ f.type \in Identity
  \/ f \in [type : {"Text"}, field : Column \cup {"Any", "TagName"},
            operator : Match \cup {"Equals", "Excludes"}, value : Word]
  \/ f \in [type : {"Tags"}, operator : {"Any", "All", "ExcludeAny", "NotAll", "ExactSet"},
            names : SUBSET Word, scope : {"Original", "OriginalAndTranslation"}]
  \/ f \in [type : {"Category"}, field : Category,
            include : SUBSET Word, exclude : SUBSET Word]
  \/ f \in [type : {"Number"}, field : Number, value : Nat, to : Nat,
            comparison : {"Equals", "GreaterThan", "GreaterThanOrEqual", "LessThan",
                          "LessThanOrEqual", "Between"}]
  \/ f \in [type : {"Date"}, field : DateField, value : Nat, to : Nat,
            comparison : {"Before", "After", "Between"}]
  \/ f \in [type : {"Boolean"}, field : Flag \cup {"BookmarkedByCurrentAccount"},
            value : BOOLEAN]

-----------------------------------------------------------------------------
(* A text of the work against the text of a filter (push_text_predicate).  *)
TextMatches(text, operator, value) ==
  CASE operator = "Equals" -> Lower[text] = Lower[value]
    [] operator \in {"Contains", "Excludes"} -> <<text, value>> \in Like["Contains"]
    [] OTHER -> <<text, value>> \in Like[operator]

ColumnsOf(field) ==
  CASE field = "Any" -> Column [] field = "TagName" -> {} [] OTHER -> {field}

TextFound(d, f) ==
  \/ \E c \in ColumnsOf(f.field) : TextMatches(d.text[c], f.operator, f.value)
  \/ /\ f.field \in {"Any", "TagName"}
     /\ \E t \in d.tags : \/ TextMatches(t.raw, f.operator, f.value)
                          \/ TextMatches(t.translated, f.operator, f.value)

(* Wrong: an exclusion that finds what it should leave out. *)
TextKeepsExcluded(d, f) == TextFound(d, f)

TextFilter(d, f) == TextFound(d, f) # (f.operator = "Excludes")

-----------------------------------------------------------------------------
(* The names of a filter, without the blank ones (normalized_values). *)
Normalized(names) == {Trimmed[n] : n \in names} \ {Empty}

TagHasName(tag, scope, name) ==
  \/ Lower[tag.raw] = name
  \/ scope = "OriginalAndTranslation" /\ Lower[tag.translated] = name

HasAny(d, f, names) == \E t \in d.tags, n \in names : TagHasName(t, f.scope, n)
LacksOne(d, f, names) ==
  \E n \in names : \A t \in d.tags : ~TagHasName(t, f.scope, n)

TagFilter(d, f) ==
  LET names == Normalized(f.names) IN
  IF names = {} THEN f.operator \in {"All", "ExcludeAny", "ExactSet"}
  ELSE CASE f.operator = "Any" -> HasAny(d, f, names)
         [] f.operator = "ExcludeAny" -> ~HasAny(d, f, names)
         [] f.operator = "All" -> ~LacksOne(d, f, names)
         [] f.operator = "NotAll" -> LacksOne(d, f, names)
         [] f.operator = "ExactSet" ->
              /\ \A t \in d.tags : \E n \in names : TagHasName(t, f.scope, n)
              /\ ~LacksOne(d, f, names)

-----------------------------------------------------------------------------
(* A work has one kind, rating and state, and the formats of every stored  *)
(* revision of its pages, current or not (push_category_filter).           *)
CategoryFilter(d, f) ==
  LET include == Normalized(f.include)
      exclude == Normalized(f.exclude)
      words == {Lower[w] : w \in d.category[f.field]} IN
  /\ include # {} => words \cap include # {}
  /\ words \cap exclude = {}

(* An absent number or date compares with nothing. *)
Compares(value, f) ==
  /\ value # Missing
  /\ CASE f.comparison = "Equals" -> value = f.value
       [] f.comparison \in {"GreaterThan", "After"} -> value > f.value
       [] f.comparison = "GreaterThanOrEqual" -> value >= f.value
       [] f.comparison \in {"LessThan", "Before"} -> value < f.value
       [] f.comparison = "LessThanOrEqual" -> value <= f.value
       [] f.comparison = "Between" -> f.value <= value /\ value <= f.to

(* push_current_bookmark_exists: nobody's bookmarks without an account. *)
BookmarkedByViewer(d) == Viewer # Missing /\ Viewer \in d.bookmarkedBy

FlagHolds(d, field) ==
  IF field = "BookmarkedByCurrentAccount" THEN BookmarkedByViewer(d)
  ELSE d.flag[field]

BooleanFilter(d, f) == FlagHolds(d, f.field) = f.value

-----------------------------------------------------------------------------
FilterHolds(d, f) ==
  CASE f.type \in Identity -> f.value \in d.identity[f.type]
    [] f.type = "Text" -> TextFilter(d, f)
    [] f.type = "Tags" -> TagFilter(d, f)
    [] f.type = "Category" -> CategoryFilter(d, f)
    [] f.type = "Number" -> Compares(d.number[f.field], f)
    [] f.type = "Date" -> Compares(d.date[f.field], f)
    [] f.type = "Boolean" -> BooleanFilter(d, f)

GroupHolds(d, group) ==
  IF group.mode = "All" THEN \A f \in group.filters : FilterHolds(d, f)
  ELSE \E f \in group.filters : FilterHolds(d, f)

(* A search without groups finds every work, whatever its mode. *)
GroupsHold(d, search) ==
  \/ search.groups = {}
  \/ /\ search.group_mode = "All"
     /\ \A g \in search.groups : GroupHolds(d, g)
  \/ /\ search.group_mode = "Any"
     /\ \E g \in search.groups : GroupHolds(d, g)

-----------------------------------------------------------------------------
(* The filter the interface offers as the opposite of another: it should   *)
(* find exactly the works the other leaves out.                            *)
HasOpposite(f) ==
  \/ f.type = "Text" /\ f.operator \in {"Contains", "Excludes"}
  \/ f.type = "Tags" /\ f.operator # "ExactSet"
  \/ /\ f.type = "Category"
     /\ (Normalized(f.include) = {}) # (Normalized(f.exclude) = {})
  \/ f.type = "Boolean"

Opposite(f) ==
  CASE f.type = "Text" ->
         [f EXCEPT !.operator = IF @ = "Contains" THEN "Excludes" ELSE "Contains"]
    [] f.type = "Tags" ->
         [f EXCEPT !.operator = CASE @ = "Any" -> "ExcludeAny"
                                  [] @ = "ExcludeAny" -> "Any"
                                  [] @ = "All" -> "NotAll"
                                  [] @ = "NotAll" -> "All"]
    [] f.type = "Category" ->
         [f EXCEPT !.include = f.exclude, !.exclude = f.include]
    [] f.type = "Boolean" -> [f EXCEPT !.value = ~@]
=============================================================================
