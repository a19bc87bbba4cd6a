---------------------------- MODULE MCTrashPurge ----------------------------
(* Instances of TrashPurge for TLC.  The configurations name their own model  *)
(* values; none uses symmetry, because both check temporal properties.        *)
EXTENDS TrashPurge
=============================================================================
