-------------------------- MODULE MCAudioPipeline --------------------------
(***************************************************************************)
(* Instances of AudioPipeline for TLC.                                     *)
(***************************************************************************)
EXTENDS AudioPipeline, TLC

CONSTANTS w1, w2

Symmetry == Permutations({w1, w2})
=============================================================================
