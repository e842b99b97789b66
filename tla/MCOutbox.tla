------------------------------ MODULE MCOutbox ------------------------------
(***************************************************************************)
(* Instances of Outbox for TLC: three events (ids 1..3), two workers.      *)
(***************************************************************************)
EXTENDS Outbox, TLC

CONSTANTS w1, w2

MCEvent == 1..3
MCRegistered == {1, 2}     \* event 3 has a type nobody registered
MCRevivable == {1}
Symmetry == Permutations({w1, w2})
=============================================================================
