------------------------------ MODULE JobQueue ------------------------------
(***************************************************************************)
(* What the outbox promises to the code that writes events into it, with   *)
(* no table, worker, batch or lock in sight.  A job is submitted, waits,   *)
(* is held, is tried, and is then finished, given back or buried.  It may  *)
(* be lost on the way (the job is then stranded), and only an operator     *)
(* brings a stranded or buried job back.  If he does so with a job that is *)
(* in somebody's hands, it is contested, and nothing is promised of it     *)
(* until he brings it back once more, when it is in nobody's.              *)
(*                                                                         *)
(* Outbox implements this specification; see Outbox!JobQueueSpec.          *)
(***************************************************************************)
EXTENDS Naturals

CONSTANTS
    Job,       \* the jobs that may ever be submitted
    MaxTries   \* how often a job may be tried between two submissions

VARIABLES
    phase,     \* phase[j]: where the job stands
    tries      \* tries[j]: executions started since it was last submitted

vars == <<phase, tries>>

Phase == {"new", "waiting", "held", "trying", "done", "buried", "stranded",
          "contested"}

TypeOK ==
    /\ phase \in [Job -> Phase]
    /\ tries \in [Job -> 0..MaxTries]

Init ==
    /\ phase = [j \in Job |-> "new"]
    /\ tries = [j \in Job |-> 0]

Move(S, to) == phase' = [j \in Job |-> IF j \in S THEN to ELSE phase[j]]

Submit(S) ==
    /\ \A j \in S : phase[j] = "new"
    /\ Move(S, "waiting")
    /\ UNCHANGED tries

Take(S) ==
    /\ \A j \in S : phase[j] = "waiting"
    /\ Move(S, "held")
    /\ UNCHANGED tries

Try(j) ==
    /\ phase[j] = "held"
    /\ tries[j] < MaxTries
    /\ Move({j}, "trying")
    /\ tries' = [tries EXCEPT ![j] = @ + 1]

Finish(j) ==
    /\ phase[j] = "trying"
    /\ Move({j}, "done")
    /\ UNCHANGED tries

GiveBack(j) ==
    /\ phase[j] = "trying"
    /\ tries[j] < MaxTries
    /\ Move({j}, "waiting")
    /\ UNCHANGED tries

Bury(j) ==
    /\ phase[j] = "trying"
    /\ tries[j] = MaxTries
    /\ Move({j}, "buried")
    /\ UNCHANGED tries

Strand(S) ==
    /\ \A j \in S : phase[j] \in {"waiting", "held", "trying"}
    /\ Move(S, "stranded")
    /\ UNCHANGED tries

InHand == {"held", "trying", "contested"}

(* S are the jobs that nobody has, as far as the operator can tell; those  *)
(* of T are in somebody's hands.                                           *)
Resubmit(S, T) ==
    /\ \A j \in S : phase[j] \in {"buried", "stranded", "contested"}
    /\ \A j \in T \ S : phase[j] \in InHand
    /\ phase' = [j \in Job |-> IF j \in S THEN "waiting"
                               ELSE IF j \in T THEN "contested" ELSE phase[j]]
    /\ tries' = [j \in Job |-> IF j \in S \cup T THEN 0 ELSE tries[j]]

Next ==
    \/ \E S \in SUBSET Job : Submit(S) \/ Take(S) \/ Strand(S)
    \/ \E S, T \in SUBSET Job : Resubmit(S, T)
    \/ \E j \in Job : Try(j) \/ Finish(j) \/ GiveBack(j) \/ Bury(j)

Spec == Init /\ [][Next]_vars
=============================================================================
