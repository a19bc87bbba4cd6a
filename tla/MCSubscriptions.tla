--------------------------- MODULE MCSubscriptions ---------------------------
(***************************************************************************)
(* What is collected: the runs of a ranking subscription with two sources  *)
(* (Subscriptions), and the rules that decide about the works they find    *)
(* (MCRules).  The two share no state, so a behaviour is of one of them:   *)
(* there is no rule, or no run.                                            *)
(***************************************************************************)
EXTENDS Subscriptions, MCRules

VARIABLE part
collectingVars == <<vars, documentVars, evaluationVars, part>>

CollectingInit ==
  \/ part = "runs" /\ Init /\ Idle /\ Over
  \/ part = "rules" /\ Init /\ RulesInit
Running(A) ==
  part = "runs" /\ A /\ UNCHANGED <<documentVars, evaluationVars, part>>
CollectingNext ==
  \/ Running(Next)
  \/ part = "rules" /\ RulesNext /\ UNCHANGED <<vars, part>>

(* The fairness of Subscriptions. *)
CollectingSpec ==
  /\ CollectingInit
  /\ [][CollectingNext]_collectingVars
  /\ \A r \in Run, s \in Source : WF_collectingVars(Running(UnitStep(r, s)))
=============================================================================
