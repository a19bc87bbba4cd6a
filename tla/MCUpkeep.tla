------------------------------ MODULE MCUpkeep ------------------------------
(***************************************************************************)
(* What keeps an installation in order: its settings (MCSettings), the     *)
(* size of the media directory (MediaUsage) and the removal of what jobs   *)
(* left there (MediaArtifacts).  They share no state, so a behaviour is of *)
(* one of them, and the others rest.                                       *)
(***************************************************************************)
EXTENDS MCSettings, MediaUsage, MediaArtifacts

VARIABLE part
upkeepVars == <<settingsVars, usageVars, vars, part>>

UpkeepInit ==
  /\ SettingsInit
  /\ UsageInit
  /\ Init
  /\ part \in {"settings", "usage", "media"}

Saving(A) ==
  part = "settings" /\ A /\ UNCHANGED <<usageVars, vars, part>>
Measuring(A) ==
  part = "usage" /\ A /\ UNCHANGED <<settingsVars, vars, part>>
Cleaning(A) ==
  part = "media" /\ A /\ UNCHANGED <<settingsVars, usageVars, part>>
UpkeepNext ==
  \/ Saving(SettingsNext)
  \/ Measuring(UsageNext)
  \/ Cleaning(Next)

(* The fairness of Settings, MediaUsage and MediaArtifacts. *)
UpkeepFairness ==
  /\ \A c \in Client :
       /\ WF_upkeepVars(Saving(ServerStep(c)))
       /\ SF_upkeepVars(Saving(\E g \in SettingGroup : LockGroup(c, g)))
  /\ WF_upkeepVars(Measuring(EndWalk))
  /\ \A r \in UsageRequest : WF_upkeepVars(Measuring(SendUsage(r)))
  /\ WF_upkeepVars(Cleaning(ListIntents))
  /\ \A q \in Path : /\ SF_upkeepVars(Cleaning(CleanIntent(q)))
                     /\ WF_upkeepVars(Cleaning(HoldPasses(q)))
UpkeepSpec ==
  /\ UpkeepInit
  /\ [][UpkeepNext]_upkeepVars
  /\ UpkeepFairness
=============================================================================
