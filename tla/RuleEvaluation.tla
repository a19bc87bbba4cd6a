--------------------------- MODULE RuleEvaluation ---------------------------
(***************************************************************************)
(* How a rule's definition decides what happens to a work                  *)
(* (RuleDefinitionV1::evaluate, and its caller process_with_lease).        *)
(*                                                                         *)
(* Groups of conditions are evaluated in order and each loop is left as    *)
(* soon as its result is known; conditions on pages look at one page after *)
(* the other.  A work that is being processed begins without the metadata  *)
(* of its pages: the first condition that needs them abandons the          *)
(* evaluation, the pages are fetched and everything is evaluated again.  A *)
(* preview fetches the pages first.                                        *)
(***************************************************************************)
EXTENDS RuleConditions

CONSTANTS
  Definition,  \* the definitions that may be evaluated
  Work,        \* the works, as Pixiv describes them
  Now          \* the time of the evaluation

(* What the types of the schema say of a definition. *)
GroupMode == {"all", "any"}
IsList(s) == s \in Seq({s[i] : i \in DOMAIN s})
WellTyped(d) ==
  /\ d.enabled \in BOOLEAN /\ d.mode \in GroupMode /\ IsList(d.groups)
  /\ \A g \in DOMAIN d.groups :
       /\ d.groups[g].mode \in GroupMode /\ IsList(d.groups[g].conditions)
       /\ \A i \in DOMAIN d.groups[g].conditions :
            /\ d.groups[g].conditions[i].operator \in Operator
            /\ d.groups[g].conditions[i].page_quantifier \in {Missing, "any", "all"}

ASSUME DefinitionAssumption ==
  /\ \A d \in Definition : WellTyped(d) /\ ValidDefinition(d)
  /\ \A w \in Work : IsList(w.pages)

VARIABLES
  definition,  \* RuleDefinitionV1
  work,        \* RuleCandidate: its values and its pages' values
  known,       \* CandidatePage.metadata: are the pages' values known
  step,        \* "evaluating", "fetching", "decided", "failed", "panicked"
  groups,      \* group_results
  conditions,  \* condition_results of the group under way
  page,        \* how many pages the condition under way has looked at
  action       \* EvaluationDecision.action, when decided

evaluationVars ==
  <<definition, work, known, step, groups, conditions, page, action>>

EvaluationSteps == {"evaluating", "fetching", "decided", "failed", "panicked"}
EvaluationTypeOK ==
  /\ definition \in Definition
  /\ work \in Work
  /\ known \in BOOLEAN
  /\ step \in EvaluationSteps
  /\ groups \in Seq(BOOLEAN)
  /\ conditions \in Seq(BOOLEAN)
  /\ page \in Nat

(* A processed work's pages are pending; a preview's are known. *)
EvaluationInit ==
  /\ definition \in Definition
  /\ work \in Work
  /\ known \in BOOLEAN
  /\ step = "evaluating"
  /\ groups = <<>>
  /\ conditions = <<>>
  /\ page = 0
  /\ action = Missing

-----------------------------------------------------------------------------
Group == definition.groups[Len(groups) + 1]
Condition == Group.conditions[Len(conditions) + 1]
OnPages == Condition.page_quantifier # Missing

Stops(mode, result) == mode = (IF result THEN "any" ELSE "all")
Combine(mode, results) ==
  IF mode = "all"
  THEN results # <<>> /\ \A i \in DOMAIN results : results[i]
  ELSE \E i \in DOMAIN results : results[i]

Decide(choice) ==
  /\ step' = "decided"
  /\ action' = choice

(* A loop is left when its result stops it or its members are used up. *)
Leaves(mode, results, members) ==
  \/ Stops(mode, results[Len(results)])
  \/ Len(results) = Len(members)

SettleGroup(result) ==
  LET results == Append(groups, result) IN
  /\ groups' = results
  /\ conditions' = <<>>
  /\ IF Leaves(definition.mode, results, definition.groups)
     THEN Decide(IF Combine(definition.mode, results)
                 THEN definition.action ELSE definition.default_action)
     ELSE UNCHANGED <<step, action>>

Settle(result) ==
  LET results == Append(conditions, result) IN
  /\ page' = 0
  /\ IF Leaves(Group.mode, results, Group.conditions)
     THEN SettleGroup(Combine(Group.mode, results))
     ELSE /\ conditions' = results
          /\ UNCHANGED <<groups, step, action>>
  /\ UNCHANGED <<definition, work, known>>

Evaluating == step = "evaluating" /\ definition.enabled

(* A disabled rule leaves everything to its default action. *)
SkipDisabled ==
  /\ step = "evaluating"
  /\ ~definition.enabled
  /\ Decide(definition.default_action)
  /\ UNCHANGED <<definition, work, known, groups, conditions, page>>

(* The arithmetic of times panics beyond its range. *)
Panics ==
  /\ Evaluating
  /\ ~OnPages
  /\ Overflows(Condition, work.values[Condition.field])
  /\ step' = "panicked"
  /\ UNCHANGED <<definition, work, known, groups, conditions, page, action>>

EvaluateWork ==
  /\ Evaluating
  /\ ~OnPages
  /\ ~Overflows(Condition, work.values[Condition.field])
  /\ Settle(Holds(Condition, work.values[Condition.field], Now))

(* No page satisfies either quantifier. *)
EvaluateNoPages ==
  /\ Evaluating
  /\ OnPages
  /\ work.pages = <<>>
  /\ Settle(FALSE)

(* What the condition under way says of the next page. *)
OfPage == Holds(Condition, work.pages[page + 1][Condition.field], Now)
PageStops == Stops(Condition.page_quantifier, OfPage)

(* The page decides.  Wrong: the first page always does. *)
EvaluateFirstPage ==
  /\ Evaluating
  /\ OnPages
  /\ known
  /\ page < Len(work.pages)
  /\ Settle(OfPage)
EvaluatePage ==
  /\ Evaluating
  /\ OnPages
  /\ known
  /\ page < Len(work.pages)
  /\ IF PageStops \/ page + 1 = Len(work.pages)
     THEN Settle(OfPage)
     ELSE /\ page' = page + 1
          /\ UNCHANGED <<definition, work, known, step, groups, conditions,
                         action>>

(* PageMetadataRequired: the evaluation so far is thrown away. *)
RequirePages ==
  /\ Evaluating
  /\ OnPages
  /\ work.pages # <<>>
  /\ ~known
  /\ step' = "fetching"
  /\ groups' = <<>>
  /\ conditions' = <<>>
  /\ UNCHANGED <<definition, work, known, page, action>>

(* The pages are applied to the candidate, once. *)
FetchPages ==
  /\ step = "fetching"
  /\ known' = TRUE
  /\ step' = "evaluating"
  /\ UNCHANGED <<definition, work, groups, conditions, page, action>>

(* Pixiv's refusal, or pages that do not fit the detail (validate_pages). *)
FetchFails ==
  /\ step = "fetching"
  /\ step' = "failed"
  /\ UNCHANGED <<definition, work, known, groups, conditions, page, action>>

EvaluationStep ==
  \/ SkipDisabled \/ Panics \/ EvaluateWork \/ EvaluateNoPages \/ EvaluatePage
  \/ RequirePages \/ FetchPages
EvaluationNext == EvaluationStep \/ FetchFails

EvaluationSpec == EvaluationInit /\ [][EvaluationNext]_evaluationVars
(* The evaluation is a loop of one task. *)
EvaluationFairness == WF_evaluationVars(EvaluationStep)

-----------------------------------------------------------------------------
(* What a definition means, without order and without early exits. *)

ConditionHolds(c) ==
  IF c.page_quantifier = Missing THEN Holds(c, work.values[c.field], Now)
  ELSE LET matching == {p \in DOMAIN work.pages :
                          Holds(c, work.pages[p][c.field], Now)} IN
       IF c.page_quantifier = "any" THEN matching # {}
       ELSE matching = DOMAIN work.pages /\ matching # {}
GroupHolds(g) ==
  IF g.mode = "all"
  THEN \A i \in DOMAIN g.conditions : ConditionHolds(g.conditions[i])
  ELSE \E i \in DOMAIN g.conditions : ConditionHolds(g.conditions[i])
RuleHolds ==
  IF definition.mode = "all"
  THEN \A i \in DOMAIN definition.groups : GroupHolds(definition.groups[i])
  ELSE \E i \in DOMAIN definition.groups : GroupHolds(definition.groups[i])

(* Leaving loops early, meeting a page without metadata and starting again
   never change what is decided: a work being processed and its preview get
   the decision the definition means. *)
DecidesAsMeant ==
  step = "decided" =>
    action = IF definition.enabled /\ RuleHolds
             THEN definition.action ELSE definition.default_action
=============================================================================
