------------------------- MODULE MCOutlineLifecycle -------------------------
(***************************************************************************)
(* Instances of OutlineLifecycle for TLC: two requests of one account.     *)
(***************************************************************************)
EXTENDS OutlineLifecycle, TLC

CONSTANTS c1, c2, alice, visit

MCAccount == [c \in {c1, c2} |-> alice]
Symmetry == Permutations({c1, c2})
=============================================================================
