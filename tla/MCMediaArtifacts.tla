-------------------------- MODULE MCMediaArtifacts --------------------------
(* Instances of MediaArtifacts for TLC: tasks, contents and download jobs  *)
(* are interchangeable, and so are regenerations.                          *)
EXTENDS MediaArtifacts, TLC

Symmetry ==
  Permutations(Slot) \cup Permutations(Content) \cup Permutations(Download)
    \cup Permutations(Regeneration)
=============================================================================
