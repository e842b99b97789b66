-------------------------- MODULE MCStoryGeneration --------------------------
(***************************************************************************)
(* Instances of StoryGeneration for TLC.                                   *)
(***************************************************************************)
EXTENDS StoryGeneration, TLC

CONSTANTS r1, r2, l1

Symmetry == Permutations({r1, r2})
=============================================================================
