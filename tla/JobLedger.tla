----------------------------- MODULE JobLedger ------------------------------
(***************************************************************************)
(* What the job queue promises to the rest of the application, without     *)
(* leases, workers, accounts or storage: a job is worked on in numbered    *)
(* rounds, one at a time; a business effect belongs to the round that is   *)
(* open when it is committed; a job that is done or cancelled stays so.    *)
(***************************************************************************)
EXTENDS Naturals

CONSTANT Job

VARIABLES phase, round, effect

ledger == <<phase, round, effect>>

Init ==
  /\ phase = [j \in Job |-> "absent"]
  /\ round = [j \in Job |-> 0]
  /\ effect = [j \in Job |-> 0]

Enters(j, from, to) ==
  /\ phase[j] \in from
  /\ phase' = [phase EXCEPT ![j] = to]

\* The first round, the next one, or one that replaces an open round nobody
\* answers for any more.
Open(j) ==
  /\ Enters(j, {"ready", "active"}, "active")
  /\ round' = [round EXCEPT ![j] = @ + 1]
  /\ UNCHANGED effect

Commit(j) ==
  /\ phase[j] = "active"
  /\ effect' = [effect EXCEPT ![j] = round[j]]
  /\ UNCHANGED <<phase, round>>

Close(j) ==
  /\ \E to \in {"ready", "done", "stopped"} : Enters(j, {"active"}, to)
  /\ effect' \in {effect, [effect EXCEPT ![j] = round[j]]}
  /\ UNCHANGED round

Decide(j) ==
  /\ \/ Enters(j, {"absent", "stopped"}, "ready")
     \/ Enters(j, {"ready", "active", "stopped"}, "cancelled")
  /\ UNCHANGED <<round, effect>>

Next == \E j \in Job : Open(j) \/ Commit(j) \/ Close(j) \/ Decide(j)

Spec == Init /\ [][Next]_ledger
=============================================================================
