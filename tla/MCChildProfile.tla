---------------------------- MODULE MCChildProfile ----------------------------
(***************************************************************************)
(* Instances of ChildProfile for TLC.  The counts of names are those on    *)
(* both sides of the thresholds of the post-check.                         *)
(***************************************************************************)
EXTENDS ChildProfile, TLC

CONSTANTS r1, r2

Symmetry == Permutations({r1, r2})
===============================================================================
