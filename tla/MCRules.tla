------------------------------ MODULE MCRules ------------------------------
(***************************************************************************)
(* Rules: their editors (RuleDocuments) and their evaluation               *)
(* (RuleEvaluation).  The two share no state, so a behaviour is of one or  *)
(* of the other: either every evaluation is over, or every text has been   *)
(* written before there is a rule.                                         *)
(***************************************************************************)
EXTENDS RuleDocuments, RuleEvaluation, TLC

MCWord == {"cat", "CAT", "wide", "catfood"}
MCNarrow == ("wide" :> "CAT") @@ [w \in MCWord |-> w]
MCLower == ("CAT" :> "cat") @@ [w \in MCWord |-> w]
MCMatching ==
  [m \in Match |-> {<<w, w>> : w \in MCWord} \cup
                   (IF m = "EndsWith" THEN {} ELSE {<<"catfood", "cat">>})]
MCOption ==
  [f \in RuleField |-> IF f \in {"ContentType", "PageOrientation"}
                       THEN {"cat", "catfood"} ELSE {}]

Is(type, value) == [type |-> type, value |-> value]
MCOperand ==
  {Missing} \cup {Is("Number", n) : n \in 1 .. 2}
  \cup {Is("NumberRange", [from |-> a, to |-> b]) : a \in 1 .. 2, b \in 1 .. 2}
  \cup {Is("DateRange", [from |-> 1, to |-> 2]), Is("Date", 2)}
  \cup {Is(t, n) : t \in {"DurationHours", "DurationDays"}, n \in 0 .. 2}
  \cup {Is("Text", w) : w \in MCWord}
  \cup {Is("TextList", l) : l \in {<<>>, <<"CAT">>, <<"catfood">>,
                                   <<"cat", "CAT">>, <<"catfood", "wide">>}}
MCField == {"BookmarkCount", "Title", "ContentType", "Tags", "PublishedAt",
            "AiGenerated", "PageWidth", "PageOrientation"}

On(f, o, v, s, t, q) ==
  [field |-> f, operator |-> o, value |-> v, case_sensitive |-> s,
   tag_scope |-> t, page_quantifier |-> q]
(* Everything ValidCondition may accept of these fields and operands. *)
Singles ==
  UNION {{On(f, o, v, s, t, q) :
            o \in OperatorsFor[TypeOfField(f)] \cup {"Exists", "Missing"},
            v \in MCOperand,
            s \in {Missing, TRUE},
            t \in IF f = "Tags" THEN {Missing, "OriginalAndTranslation"}
                  ELSE {Missing},
            q \in IF f \in PageField THEN {"any", "all"} ELSE {Missing}} :
         f \in MCField}
Plain(f, o, v, q) == On(f, o, v, Missing, Missing, q)
Three == {Plain("BookmarkCount", "GreaterThan", Is("Number", 1), Missing),
          Plain("PageWidth", "GreaterThan", Is("Number", 1), "any"),
          Plain("PageWidth", "NotEquals", Is("Number", 1), "all")}

OneOrTwo(S) == {<<s>> : s \in S} \cup {<<s, t>> : s \in S, t \in S}
GroupsOf(S) == [mode : {"all", "any"}, conditions : S]
Definitions(modes, S) ==
  [enabled : {TRUE}, mode : modes, groups : S, action : {"download"},
   default_action : {"ignore"}]
Alone(c) == <<[mode |-> "all", conditions |-> <<c>>]>>
MCDefinition ==
  Definitions({"all"}, {Alone(c) : c \in {c \in Singles : ValidCondition(c)}})
  \cup Definitions({"all", "any"}, OneOrTwo(GroupsOf(OneOrTwo(Three))))
  \cup {[d EXCEPT !.enabled = FALSE] :
          d \in Definitions({"all"}, {Alone(c) : c \in Three})}

Absent == [f \in RuleField |-> Missing]
Pages(widths) ==
  [p \in DOMAIN widths |->
     [f \in PageField |-> CASE f = "PageWidth" -> Is("Number", widths[p])
                            [] f = "PageOrientation" -> Is("Category", "cat")
                            [] OTHER -> Missing]]
Described(count, title, tags, published, ai) ==
  [f \in RuleField |->
     CASE f = "BookmarkCount" -> Is("Number", count)
       [] f = "Title" -> Is("Text", title)
       [] f = "ContentType" -> Is("Category", "cat")
       [] f = "Tags" -> Is("Tags", tags)
       [] f = "PublishedAt" -> Is("Date", published)
       [] f = "AiGenerated" -> Is("Boolean", ai)
       [] OTHER -> Missing]
Tag(original, translation) ==
  [original |-> original, translation |-> translation]
MCWork ==
  {[values |-> v, pages |-> Pages(w)] :
     v \in {Described(1, "wide", <<Tag("CAT", "cat"), Tag("catfood", Missing)>>,
                      3, TRUE),
            Described(2, "catfood", <<Tag("wide", Missing)>>, 2, FALSE)},
     w \in {<<>>, <<1>>, <<1, 2>>, <<2, 1>>}}
  \cup {[values |-> [Absent EXCEPT !["Tags"] = Is("Tags", <<>>)],
         pages |-> Pages(<<1>>)]}

(* No evaluation: one that failed. *)
Over ==
  /\ definition = CHOOSE d \in Definition : TRUE
  /\ work = CHOOSE w \in Work : TRUE
  /\ known = TRUE
  /\ step = "failed"
  /\ groups = <<>>
  /\ conditions = <<>>
  /\ page = 0
  /\ action = Missing
(* No rule, and no text to write one with. *)
Idle ==
  /\ rule = [r \in Rule |-> None]
  /\ version = [r \in Rule |-> <<>>]
  /\ editor = [e \in Editor |-> Closed]
  /\ texts = MaxTexts
  /\ order = [r \in Rule |-> 0]
  /\ next = 0

(* Three texts are for one rule. *)
TwoRulesShareTwoTexts == texts <= 2 \/ \E r \in Rule : order[r] = 0

RulesInit == (DocumentsInit /\ Over) \/ (EvaluationInit /\ Idle)
RulesNext ==
  \/ DocumentsNext /\ TwoRulesShareTwoTexts' /\ UNCHANGED evaluationVars
  \/ EvaluationNext /\ UNCHANGED documentVars
=============================================================================
