--------------------------- MODULE RuleConditions ---------------------------
(***************************************************************************)
(* One condition of a download rule: which definitions are accepted        *)
(* (rule/schema.rs) and when a condition holds of a value                  *)
(* (rule/evaluator.rs).                                                    *)
(*                                                                         *)
(* A word stands for a string.  What the code does with strings is given   *)
(* by functions of words: their NFKC form, their lower case, and which     *)
(* words contain, begin with or end with which.  Numbers and times are     *)
(* integers.                                                               *)
(***************************************************************************)
EXTENDS Integers, Sequences, FiniteSets

CONSTANTS
  Word,      \* the strings of works and rules
  Narrow,    \* the NFKC form of each word
  Lower,     \* the lower case of each word
  Matching,  \* which words contain, start with or end with which
  Option,    \* the words a field is limited to (empty: any)
  Missing,   \* an absent value
  Day,       \* hours of a day
  Reach      \* the longest period that can be taken from the present time

Match == {"Contains", "StartsWith", "EndsWith"}

ASSUME WordsAssumption ==
  /\ Narrow \in [Word -> Word]
  /\ Lower \in [Word -> Word]
  /\ Matching \in [Match -> SUBSET (Word \X Word)]
ASSUME ReachAssumption == Reach \in Nat /\ Day \in Nat

-----------------------------------------------------------------------------
(* Fields and operators. *)

PageField == {"PageOriginalExtension", "PageWidth", "PageHeight",
              "PageAspectRatio", "PageOrientation"}
FieldOf ==
  [Number |-> {"PixivWorkId", "ArtistId", "PageCount", "BookmarkCount",
               "ViewCount", "LikeCount", "CommentCount", "BookmarkRate",
               "BookmarksPerDay", "RankingRank", "SeriesId", "SeriesOrder",
               "PageWidth", "PageHeight", "PageAspectRatio"},
   Text |-> {"Title", "Description", "ArtistName", "SeriesTitle"},
   Category |-> {"ContentType", "AgeRating", "PageOriginalExtension",
                 "PageOrientation"},
   Tags |-> {"Tags"},
   Date |-> {"PublishedAt", "UpdatedAt", "RankingDate"},
   Boolean |-> {"AiGenerated", "OriginalWork", "BookmarkedByCurrentAccount"}]
ValueType == DOMAIN FieldOf
RuleField == UNION {FieldOf[t] : t \in ValueType}
TypeOfField(field) == CHOOSE t \in ValueType : field \in FieldOf[t]

Limits == {"GreaterThan", "GreaterThanOrEqual", "LessThan", "LessThanOrEqual"}
TagLists == {"ContainsAnyTag", "ContainsAllTags", "ExcludesAnyTag",
             "NotContainsAllTags", "EqualsTagSet"}
Counts == {"CountEquals", "CountGreaterThanOrEqual", "CountLessThanOrEqual"}
OperatorsFor ==
  [Number |-> {"Equals", "NotEquals", "Between", "NotBetween"} \cup Limits,
   Text |-> {"Equals", "NotEquals", "NotContains", "InSet", "NotInSet"}
              \cup Match,
   Category |-> {"Equals", "NotEquals", "InAny", "NotInAny"},
   Tags |-> {"TagNameContains", "TagNameNotContains"} \cup TagLists \cup Counts,
   Date |-> {"Before", "After", "Between", "RecentHours", "RecentDays"},
   Boolean |-> {"IsTrue", "IsFalse"}]

Operator == {"Exists", "Missing"} \cup UNION {OperatorsFor[t] : t \in ValueType}

(* The type of value an operator takes from the rule, for a field's type. *)
Operand(type, operator) ==
  IF type = "Number" /\ operator \in {"Between", "NotBetween"} THEN "NumberRange"
  ELSE IF type = "Number" \/ operator \in Counts THEN "Number"
  ELSE IF operator \in {"InSet", "NotInSet", "InAny", "NotInAny"} \cup TagLists
  THEN "TextList"
  ELSE IF type \in {"Text", "Category", "Tags"} THEN "Text"
  ELSE CASE operator \in {"Before", "After"} -> "Date"
         [] operator = "Between" -> "DateRange"
         [] operator = "RecentHours" -> "DurationHours"
         [] operator = "RecentDays" -> "DurationDays"
         [] OTHER -> "nothing"

(* value_matches_condition, range_is_ordered, value_matches_options. *)
OperandFits(c) ==
  LET type == TypeOfField(c.field)
      operand == IF c.operator \in {"Exists", "Missing"} THEN "nothing"
                 ELSE Operand(type, c.operator) IN
  IF operand = "nothing" THEN c.value = Missing
  ELSE /\ c.value # Missing
       /\ c.value.type = operand
       /\ CASE operand \in {"NumberRange", "DateRange"} ->
                 c.value.value.from <= c.value.value.to
            [] operand \in {"DurationHours", "DurationDays"} -> c.value.value > 0
            [] operand = "TextList" ->
                 /\ c.value.value # <<>>
                 /\ Option[c.field] # {} =>
                      \A i \in DOMAIN c.value.value :
                        c.value.value[i] \in Option[c.field]
            [] operand = "Text" ->
                 Option[c.field] # {} => c.value.value \in Option[c.field]
            [] OTHER -> TRUE

(* Condition::validate. *)
ValidCondition(c) ==
  /\ (c.field \in PageField) <=> (c.page_quantifier # Missing)
  /\ c.tag_scope # Missing => c.field = "Tags"
  /\ c.case_sensitive # Missing => TypeOfField(c.field) \in {"Text", "Tags"}
  /\ c.operator \in OperatorsFor[TypeOfField(c.field)] \cup {"Exists", "Missing"}
  /\ OperandFits(c)

(* RuleDefinitionV1::validate and ConditionGroup::validate. *)
ValidDefinition(d) ==
  /\ d.groups # <<>>
  /\ \A g \in DOMAIN d.groups :
       /\ d.groups[g].conditions # <<>>
       /\ \A i \in DOMAIN d.groups[g].conditions :
            ValidCondition(d.groups[g].conditions[i])

-----------------------------------------------------------------------------
(* Comparing a value with a condition's.  A value of another type than the
   operator compares is as good as none. *)

Are(value, types, c, operand) ==
  /\ value # Missing /\ value.type \in types
  /\ c.value # Missing /\ c.value.type = operand

Normalize(word, c) ==
  IF c.case_sensitive = TRUE THEN Narrow[word] ELSE Lower[Narrow[word]]

(* compare_equals *)
Same(c, value) ==
  \/ Are(value, {"Number"}, c, "Number") /\ value.value = c.value.value
  \/ Are(value, {"Date"}, c, "Date") /\ value.value = c.value.value
  \/ /\ Are(value, {"Text", "Category"}, c, "Text")
     /\ Normalize(value.value, c) = Normalize(c.value.value, c)

(* compare_number and compare_date *)
Below(c, value, type) ==
  Are(value, {type}, c, type) /\ value.value < c.value.value
Above(c, value, type) ==
  Are(value, {type}, c, type) /\ value.value > c.value.value
Level(c, value, type) ==
  Are(value, {type}, c, type) /\ value.value = c.value.value

(* number_between and date_between *)
Inside(c, value) ==
  c.value.value.from <= value.value /\ value.value <= c.value.value.to
Ranged(c, value) ==
  \/ Are(value, {"Number"}, c, "NumberRange")
  \/ Are(value, {"Date"}, c, "DateRange")

(* compare_text *)
Texts(c, value) == Are(value, {"Text", "Category"}, c, "Text")
Matches(c, value, match) ==
  <<Normalize(value.value, c), Normalize(c.value.value, c)>> \in Matching[match]

(* text_in_set *)
Listed(c, value) == Are(value, {"Text", "Category"}, c, "TextList")
InList(c, value) ==
  \E i \in DOMAIN c.value.value :
    Normalize(c.value.value[i], c) = Normalize(value.value, c)

(* recent: the period is taken from the present time before it is compared. *)
Recent(c, value, now, hours) ==
  /\ value # Missing /\ value.type = "Date"
  /\ c.value # Missing /\ c.value.type \in {"DurationHours", "DurationDays"}
  /\ now - hours * c.value.value <= value.value
  /\ value.value <= now
Overflows(c, value) ==
  /\ c.operator \in {"RecentHours", "RecentDays"}
  /\ value # Missing /\ value.type = "Date"
  /\ c.value.value * (IF c.operator = "RecentDays" THEN Day ELSE 1) > Reach

(* normalized_tags: every name of every tag in the scope, with repetitions. *)
Named(c, tags) ==
  LET scoped == {<<i, "original">> : i \in DOMAIN tags} \cup
        {<<i, "translation">> : i \in
           {i \in DOMAIN tags : /\ c.tag_scope = "OriginalAndTranslation"
                                /\ tags[i].translation # Missing}} IN
  [n \in scoped |-> Normalize(tags[n[1]][n[2]], c)]
Wanted(c) == [i \in DOMAIN c.value.value |-> Normalize(c.value.value[i], c)]
Names(f) == {f[x] : x \in DOMAIN f}
Times(f, name) == Cardinality({x \in DOMAIN f : f[x] = name})
(* tags_match compares sorted lists: a name counts as often as it occurs. *)
SameNames(f, g) ==
  \A name \in Names(f) \cup Names(g) : Times(f, name) = Times(g, name)
TagList(c, value) == Are(value, {"Tags"}, c, "TextList")
TagName(c, value) == Are(value, {"Tags"}, c, "Text")
TagCount(c, value) == Are(value, {"Tags"}, c, "Number")
(* tag_text_match *)
Contains(c, name) == <<name, Normalize(c.value.value, c)>> \in Matching["Contains"]

(* tag_text_all *)
NoNameContains(c, value) ==
  TagName(c, value) /\ \A n \in Names(Named(c, value.value)) : ~Contains(c, n)

(* evaluate_value *)
Holds(c, value, now) ==
  LET tags == Names(Named(c, value.value))
      wanted == Names(Wanted(c))
      count == Len(value.value) IN
  CASE c.operator = "Exists" -> value # Missing
    [] c.operator = "Missing" -> value = Missing
    [] c.operator = "IsTrue" ->
         value # Missing /\ value.type = "Boolean" /\ value.value
    [] c.operator = "IsFalse" ->
         value # Missing /\ value.type = "Boolean" /\ ~value.value
    [] c.operator = "Equals" -> Same(c, value)
    [] c.operator = "NotEquals" -> value # Missing /\ ~Same(c, value)
    [] c.operator = "GreaterThan" -> Above(c, value, "Number")
    [] c.operator = "GreaterThanOrEqual" ->
         Above(c, value, "Number") \/ Level(c, value, "Number")
    [] c.operator = "LessThan" -> Below(c, value, "Number")
    [] c.operator = "LessThanOrEqual" ->
         Below(c, value, "Number") \/ Level(c, value, "Number")
    [] c.operator = "Between" -> Ranged(c, value) /\ Inside(c, value)
    [] c.operator = "NotBetween" -> Ranged(c, value) /\ ~Inside(c, value)
    [] c.operator \in Match -> Texts(c, value) /\ Matches(c, value, c.operator)
    [] c.operator = "NotContains" ->
         Texts(c, value) /\ ~Matches(c, value, "Contains")
    [] c.operator \in {"InSet", "InAny"} -> Listed(c, value) /\ InList(c, value)
    [] c.operator \in {"NotInSet", "NotInAny"} ->
         Listed(c, value) /\ ~InList(c, value)
    [] c.operator = "ContainsAnyTag" ->
         TagList(c, value) /\ wanted \cap tags # {}
    [] c.operator = "ContainsAllTags" -> TagList(c, value) /\ wanted \subseteq tags
    [] c.operator = "ExcludesAnyTag" ->
         TagList(c, value) /\ wanted \cap tags = {}
    [] c.operator = "NotContainsAllTags" ->
         TagList(c, value) /\ ~(wanted \subseteq tags)
    [] c.operator = "EqualsTagSet" ->
         TagList(c, value) /\ SameNames(Named(c, value.value), Wanted(c))
    [] c.operator = "TagNameContains" ->
         TagName(c, value) /\ \E n \in tags : Contains(c, n)
    [] c.operator = "TagNameNotContains" -> NoNameContains(c, value)
    [] c.operator = "CountEquals" ->
         TagCount(c, value) /\ count = c.value.value
    [] c.operator = "CountGreaterThanOrEqual" ->
         TagCount(c, value) /\ count >= c.value.value
    [] c.operator = "CountLessThanOrEqual" ->
         TagCount(c, value) /\ count <= c.value.value
    [] c.operator = "Before" -> Below(c, value, "Date")
    [] c.operator = "After" -> Above(c, value, "Date")
    [] c.operator = "RecentHours" -> Recent(c, value, now, 1)
    [] c.operator = "RecentDays" -> Recent(c, value, now, Day)
=============================================================================
