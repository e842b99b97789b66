---------------------------- MODULE MCCostPipeline ----------------------------
(***************************************************************************)
(* Instances of CostPipeline for TLC: a request that generates a story,    *)
(* rewrites it twice and calls a model without a price, and a job of the   *)
(* worker that is attempted three times.                                   *)
(***************************************************************************)
EXTENDS CostPipeline

Paid(work, stage, attempt) == [work |-> work, stage |-> stage, attempt |-> attempt]

MCRequest == {"req"}
MCPriced == {Paid("req", "story", 1), Paid("req", "length_retry", 1),
             Paid("req", "length_retry", 2),
             Paid("job", "tts", 1), Paid("job", "tts", 2), Paid("job", "tts", 3)}
MCCall == MCPriced \cup {Paid("req", "hook", 1)}
=============================================================================
