-------------------------- MODULE MCAdministration --------------------------
(***************************************************************************)
(* The administrator: the login and its sessions (AdminSessions), and the  *)
(* trash (TrashPurge).  The two share no state, so a behaviour is of one   *)
(* of them: every browser stays logged in, or the work is never trashed.   *)
(***************************************************************************)
EXTENDS AdminSessions, TrashPurge

CONSTANTS EntryLimit, SharedLimit

MCThreshold == [k \in Kind |-> IF k = "entry" THEN EntryLimit ELSE SharedLimit]

VARIABLE part
administrationVars == <<sessionsVars, vars, part>>

AllAreLoggedIn ==
  /\ admin = [password |-> CHOOSE p \in Password : TRUE, old |-> FALSE,
              version |-> 1, revision |-> 1]
  /\ login = [l \in Login |-> NotLoggingIn]
  /\ prepare = [r \in Preparer |-> NotPreparing]
  /\ bucket = [b \in Bucket |-> FreshBucket]
  /\ orphans = [b \in Bucket |-> 0]
  /\ session = [l \in Login |-> Session("fresh", 1)]
  /\ troubles = 0

AdministrationInit ==
  \/ part = "sessions" /\ SessionsInit /\ Init /\ work = "metadata_only"
  \/ part = "trash" /\ Init /\ AllAreLoggedIn
Purging(A) == part = "trash" /\ A /\ UNCHANGED <<sessionsVars, part>>
LoggingIn(A) == part = "sessions" /\ A /\ UNCHANGED <<vars, part>>
AdministrationNext ==
  \/ LoggingIn(SessionsNext)
  \/ Purging(Next)

(* The fairness of AdminSessions and of TrashPurge. *)
SessionsGoOn ==
  /\ \A l \in Login :
       /\ \A s \in Source :
            WF_administrationVars(LoggingIn(LoginWithPassword(l, s)))
       /\ WF_administrationVars(LoggingIn(Reserve(l) \/ Refuse(l)))
       /\ WF_administrationVars(LoggingIn(Verify(l)))
       /\ WF_administrationVars(LoggingIn(
            RecordLoginFailure(l) \/ FinalizeLogin(l) \/ LoseToChange(l)))
       /\ WF_administrationVars(LoggingIn(Release(l)))
  /\ \A s \in Source : WF_administrationVars(LoggingIn(LeaseLapses(s)))
  /\ \A b \in Bucket : /\ WF_administrationVars(LoggingIn(WindowPasses(b)))
                        /\ WF_administrationVars(LoggingIn(CooldownEnds(b)))
  /\ \A r \in Preparer :
       /\ WF_administrationVars(LoggingIn(\E p \in Password :
            admin = Unset /\ PrepareReads(r, p)))
       /\ WF_administrationVars(LoggingIn(
            PrepareCreates(r) \/ PrepareUpdates(r) \/ PrepareFails(r)))
AdministrationSpec ==
  /\ AdministrationInit
  /\ [][AdministrationNext]_administrationVars
  /\ SessionsGoOn
  /\ \A s \in Slot : WF_administrationVars(Purging(Execute(s)))
  /\ WF_administrationVars(Purging(\E s \in Slot, j \in Job : Claim(s, j)))
=============================================================================
