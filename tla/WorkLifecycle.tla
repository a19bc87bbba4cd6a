--------------------------- MODULE WorkLifecycle ---------------------------
(***************************************************************************)
(* What the trash promises of one archived work: it can be restored, with  *)
(* all its files, until its purge has started; a started purge only ends   *)
(* with the work gone.                                                     *)
(***************************************************************************)
VARIABLES stage, intact

vars == <<stage, intact>>

Init == stage = "kept" /\ intact = TRUE

Trash == stage = "kept" /\ stage' = "trashed" /\ UNCHANGED intact

Restore == stage = "trashed" /\ stage' = "kept" /\ UNCHANGED intact

StartPurge == stage = "trashed" /\ stage' = "purging" /\ UNCHANGED intact

TouchFiles == stage = "purging" /\ intact' \in BOOLEAN /\ UNCHANGED stage

FinishPurge == stage = "purging" /\ stage' = "gone" /\ intact' = TRUE

Next == Trash \/ Restore \/ StartPurge \/ TouchFiles \/ FinishPurge

Spec == Init /\ [][Next]_vars
=============================================================================
