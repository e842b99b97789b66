------------------------------- MODULE Outbox -------------------------------
(***************************************************************************)
(* The transactional outbox: the table outbox_events                       *)
(* (server/internal/repository/outbox_repo.go) and the workers that poll   *)
(* it (server/internal/worker/worker.go).  The program starts one worker   *)
(* per server process; several processes may share the table, which is    *)
(* what FOR UPDATE SKIP LOCKED is for.                                     *)
(*                                                                         *)
(* Time is abstracted to one bit per row: due[e] says whether              *)
(* next_attempt_at <= now.  A handler is abstracted to its verdict; the    *)
(* module AudioPipeline puts the real handlers in its place.               *)
(***************************************************************************)
EXTENDS Naturals, FiniteSets

CONSTANTS
    Event,        \* ids the BIGSERIAL may hand out; their order is the poll order
    Registered,   \* the events whose event_type has a handler
    Revivable,    \* the events the operator's UPDATE selects by event_type
    Worker,       \* the polling goroutines, one per server process
    BatchSize,    \* worker.batch_size
    MaxAttempts,  \* worker.max_attempts
    MaxCrashes,   \* bound on process crashes
    MaxDbErrors,  \* bound on failed database calls of the workers
    MaxRevives    \* bound on runs of the operator's UPDATE

ASSUME OutboxAssumption ==
    /\ Event \subseteq Nat /\ IsFiniteSet(Event) /\ IsFiniteSet(Worker)
    /\ Registered \subseteq Event
    /\ Revivable \subseteq Event
    /\ BatchSize \in Nat \ {0}
    /\ MaxAttempts \in Nat \ {0}
    /\ MaxCrashes \in Nat /\ MaxDbErrors \in Nat /\ MaxRevives \in Nat

VARIABLES
    status,    \* status[e]: column status, or "absent" before the INSERT
    attempts,  \* attempts[e]: column attempts, recorded failures
    due,       \* due[e]: next_attempt_at <= now
    locked,    \* locked[w]: rows the open transaction of w's FetchPending locks
    claim,     \* claim[w]: the part of the fetched batch w has not settled yet
    stage,     \* stage[w]: where w is in tick and processOne
    read,      \* read[w]: the attempts that MarkFailed of w has read
    tries,     \* tries[e]: times processOne took e since it was last enqueued
    met,       \* met[e]: times the operator put e back while a worker held it,
               \* since nobody last held it when he did
    shared,    \* the events that were in the hands of two workers at a time
    crashes, dbErrors, revives   \* the bounded environment events so far

rows == <<status, attempts, due>>
history == <<tries, met, shared>>
bounds == <<crashes, dbErrors, revives>>
vars == <<rows, locked, claim, stage, read, history, bounds>>

Status == {"absent", "pending", "processing", "done", "dead"}
Stage == {"idle", "fetching", "next", "handling", "ok", "err", "failing"}

(***************************************************************************)
(* IsCurrent(w, e): e is the event processOne of w works on or takes next; *)
(* the batch is walked in the order of the SELECT, by id.                  *)
(***************************************************************************)
IsCurrent(w, e) == e \in claim[w] /\ \A f \in claim[w] : e <= f

InFlight(w) == stage[w] \in {"handling", "ok", "err", "failing"}

Holders(e) == {w \in Worker : e \in claim[w]}

Held(e) == Holders(e) # {}

Trying(e) == \E w \in Worker : IsCurrent(w, e) /\ InFlight(w)

Stranded == {e \in Event : status[e] = "processing" /\ ~Held(e)}

-----------------------------------------------------------------------------

Init ==
    /\ status = [e \in Event |-> "absent"]
    /\ attempts = [e \in Event |-> 0]
    /\ due = [e \in Event |-> FALSE]
    /\ locked = [w \in Worker |-> {}]
    /\ claim = [w \in Worker |-> {}]
    /\ stage = [w \in Worker |-> "idle"]
    /\ read = [w \in Worker |-> 0]
    /\ met = [e \in Event |-> 0] /\ shared = {}
    /\ tries = [e \in Event |-> 0]
    /\ crashes = 0 /\ dbErrors = 0 /\ revives = 0

(***************************************************************************)
(* CreateWithOutbox commits the events of one story: all of them or none.  *)
(***************************************************************************)
Publish(S) ==
    /\ S # {}
    /\ \A e \in S : status[e] = "absent"
    /\ status' = [e \in Event |-> IF e \in S THEN "pending" ELSE status[e]]
    /\ due' = [e \in Event |-> e \in S \/ due[e]]
    /\ UNCHANGED <<attempts, locked, claim, stage, read, history, bounds>>

(***************************************************************************)
(* The SELECT of FetchPending: the first BatchSize due pending rows that   *)
(* no other transaction has locked.                                        *)
(***************************************************************************)
Unlocked(e) == \A v \in Worker : e \notin locked[v]

Ready == {e \in Event : status[e] = "pending" /\ due[e] /\ Unlocked(e)}

FirstBatch(S, R) ==
    /\ S \subseteq R
    /\ Cardinality(S) = IF Cardinality(R) < BatchSize THEN Cardinality(R) ELSE BatchSize
    /\ \A e \in S, f \in R \ S : e < f

FetchSelectUnlocked(w) ==
    /\ stage[w] = "idle"
    /\ \E S \in SUBSET Event :
         /\ S # {}
         /\ FirstBatch(S, {e \in Event : status[e] = "pending" /\ due[e]})
         /\ locked' = [locked EXCEPT ![w] = S]
    /\ stage' = [stage EXCEPT ![w] = "fetching"]
    /\ UNCHANGED <<rows, claim, read, history, bounds>>

FetchSelect(w) ==
    /\ stage[w] = "idle"
    /\ \E S \in SUBSET Event :
         /\ S # {}
         /\ FirstBatch(S, Ready)
         /\ locked' = [locked EXCEPT ![w] = S]
    /\ stage' = [stage EXCEPT ![w] = "fetching"]
    /\ UNCHANGED <<rows, claim, read, history, bounds>>

FetchCommit(w) ==
    /\ stage[w] = "fetching"
    /\ status' = [e \in Event |-> IF e \in locked[w] THEN "processing" ELSE status[e]]
    /\ claim' = [claim EXCEPT ![w] = locked[w]]
    /\ locked' = [locked EXCEPT ![w] = {}]
    /\ stage' = [stage EXCEPT ![w] = "next"]
    /\ shared' = shared \cup {e \in locked[w] : Held(e)}
    /\ UNCHANGED <<attempts, due, read, tries, met, bounds>>

(* The UPDATE or the COMMIT fails: everything rolls back, tick gives up.   *)
FetchAbort(w) ==
    /\ stage[w] = "fetching"
    /\ dbErrors < MaxDbErrors
    /\ locked' = [locked EXCEPT ![w] = {}]
    /\ stage' = [stage EXCEPT ![w] = "idle"]
    /\ dbErrors' = dbErrors + 1
    /\ UNCHANGED <<rows, claim, read, history, crashes, revives>>

(* The COMMIT takes effect but its reply is lost: FetchPending returns nil. *)
FetchInDoubt(w) ==
    /\ stage[w] = "fetching"
    /\ dbErrors < MaxDbErrors
    /\ status' = [e \in Event |-> IF e \in locked[w] THEN "processing" ELSE status[e]]
    /\ locked' = [locked EXCEPT ![w] = {}]
    /\ stage' = [stage EXCEPT ![w] = "idle"]
    /\ dbErrors' = dbErrors + 1
    /\ UNCHANGED <<attempts, due, claim, read, history, crashes, revives>>

-----------------------------------------------------------------------------

(***************************************************************************)
(* processOne: look the handler up, run it, record the verdict.            *)
(***************************************************************************)
Dispatch(w) ==
    /\ stage[w] = "next"
    /\ \E e \in Event :
         /\ IsCurrent(w, e)
         /\ tries' = [tries EXCEPT ![e] = @ + 1]
         /\ stage' = [stage EXCEPT ![w] = IF e \in Registered THEN "handling" ELSE "err"]
    /\ UNCHANGED <<rows, locked, claim, read, met, shared, bounds>>

HandlerReturns(w, verdict) ==
    /\ stage[w] = "handling"
    /\ verdict \in {"ok", "err"}
    /\ stage' = [stage EXCEPT ![w] = verdict]
    /\ UNCHANGED <<rows, locked, claim, read, history, bounds>>

(* The loop of tick goes on to the rest of the batch.                      *)
AbandonBatch(w, e) ==
    /\ claim' = [claim EXCEPT ![w] = {}]
    /\ stage' = [stage EXCEPT ![w] = "idle"]
    /\ read' = [read EXCEPT ![w] = 0]

Advance(w, e) ==
    /\ claim' = [claim EXCEPT ![w] = @ \ {e}]
    /\ stage' = [stage EXCEPT ![w] = IF claim[w] = {e} THEN "idle" ELSE "next"]
    /\ read' = [read EXCEPT ![w] = 0]

(***************************************************************************)
(* Both Mark calls name the row by its id and ask neither for its status   *)
(* nor for who holds it; they wait for a poll that has locked it.          *)
(***************************************************************************)
MarkDone(w) ==
    /\ stage[w] = "ok"
    /\ \E e \in Event :
         /\ IsCurrent(w, e) /\ Unlocked(e)
         /\ status' = [status EXCEPT ![e] = "done"]
         /\ Advance(w, e)
    /\ UNCHANGED <<attempts, due, locked, history, bounds>>

(* The First of MarkFailed locks nothing, and its Save writes every column. *)
ReadAttempts(w) ==
    /\ stage[w] = "err"
    /\ \E e \in Event : IsCurrent(w, e) /\ read' = [read EXCEPT ![w] = attempts[e]]
    /\ stage' = [stage EXCEPT ![w] = "failing"]
    /\ UNCHANGED <<rows, locked, claim, history, bounds>>

MarkFailedForgets(w) ==
    /\ stage[w] = "failing"
    /\ \E e \in Event :
         /\ IsCurrent(w, e) /\ Unlocked(e)
         /\ status' = [status EXCEPT ![e] = "pending"]
         /\ due' = [due EXCEPT ![e] = FALSE]
         /\ Advance(w, e)
    /\ UNCHANGED <<attempts, locked, history, bounds>>

MarkFailed(w) ==
    /\ stage[w] = "failing"
    /\ \E e \in Event :
         /\ IsCurrent(w, e) /\ Unlocked(e)
         /\ attempts' = [attempts EXCEPT ![e] = read[w] + 1]
         /\ \/ /\ read[w] + 1 >= MaxAttempts
               /\ status' = [status EXCEPT ![e] = "dead"]
               /\ UNCHANGED due
            \/ /\ read[w] + 1 < MaxAttempts
               /\ status' = [status EXCEPT ![e] = "pending"]
               /\ due' = [due EXCEPT ![e] = FALSE]
         /\ Advance(w, e)
    /\ UNCHANGED <<locked, history, bounds>>

(* MarkDone or MarkFailed returns an error: logged or dropped, never retried. *)
MarkLost(w) ==
    /\ stage[w] \in {"ok", "err", "failing"}
    /\ dbErrors < MaxDbErrors
    /\ \E e \in Event : IsCurrent(w, e) /\ Advance(w, e)
    /\ dbErrors' = dbErrors + 1
    /\ UNCHANGED <<rows, locked, history, crashes, revives>>

-----------------------------------------------------------------------------

BackoffElapsed(e) ==
    /\ status[e] = "pending"
    /\ ~due[e]
    /\ due' = [due EXCEPT ![e] = TRUE]
    /\ UNCHANGED <<status, attempts, locked, claim, stage, read, history, bounds>>

(***************************************************************************)
(* The process of w dies (or is stopped: nobody waits for the worker) and  *)
(* is started again.  An open transaction rolls back; the batch is gone.   *)
(***************************************************************************)
Crash(w) ==
    /\ crashes < MaxCrashes
    /\ stage[w] # "idle"
    /\ locked' = [locked EXCEPT ![w] = {}]
    /\ claim' = [claim EXCEPT ![w] = {}]
    /\ stage' = [stage EXCEPT ![w] = "idle"]
    /\ read' = [read EXCEPT ![w] = 0]
    /\ crashes' = crashes + 1
    /\ UNCHANGED <<rows, history, dbErrors, revives>>

(***************************************************************************)
(* The operator's UPDATE that puts unfinished events back, with whatever   *)
(* is in the hands of a worker: who holds a row, the table does not say.   *)
(***************************************************************************)
Reset(S) ==
    /\ revives < MaxRevives
    /\ S # {}
    /\ status' = [e \in Event |-> IF e \in S THEN "pending" ELSE status[e]]
    /\ attempts' = [e \in Event |-> IF e \in S THEN 0 ELSE attempts[e]]
    /\ due' = [e \in Event |-> e \in S \/ due[e]]
    /\ tries' = [e \in Event |-> IF e \in S THEN 0 ELSE tries[e]]
    /\ met' = [e \in Event |-> IF e \notin S THEN met[e]
                               ELSE IF Held(e) THEN met[e] + 1 ELSE 0]
    /\ revives' = revives + 1
    /\ UNCHANGED <<locked, claim, stage, read, shared, crashes, dbErrors>>

Revive ==
    Reset({e \in Revivable : status[e] \in {"processing", "dead"}})

-----------------------------------------------------------------------------

WorkerStep(w) ==
    \/ FetchSelect(w)
    \/ FetchCommit(w)
    \/ Dispatch(w)
    \/ \E verdict \in {"ok", "err"} : HandlerReturns(w, verdict)
    \/ MarkDone(w)
    \/ ReadAttempts(w)
    \/ MarkFailed(w)

WorkerFault(w) ==
    \/ FetchAbort(w)
    \/ FetchInDoubt(w)
    \/ MarkLost(w)
    \/ Crash(w)

Next ==
    \/ \E S \in SUBSET Event : Publish(S)
    \/ \E w \in Worker : WorkerStep(w) \/ WorkerFault(w)
    \/ \E e \in Event : BackoffElapsed(e)
    \/ Revive

Spec == Init /\ [][Next]_vars

(***************************************************************************)
(* The ticker fires for ever and every call a worker makes returns: the    *)
(* HTTP clients have timeouts, ffmpeg runs under one.  Time passes.  No    *)
(* fairness for publishers, faults or the operator.                        *)
(***************************************************************************)
Fairness ==
    /\ \A w \in Worker : WF_vars(WorkerStep(w))
    /\ \A e \in Event : WF_vars(BackoffElapsed(e))

FairSpec == Spec /\ Fairness

-----------------------------------------------------------------------------

TypeOK ==
    /\ status \in [Event -> Status]
    /\ attempts \in [Event -> Nat]
    /\ due \in [Event -> BOOLEAN]
    /\ locked \in [Worker -> SUBSET Event]
    /\ claim \in [Worker -> SUBSET Event]
    /\ stage \in [Worker -> Stage]
    /\ read \in [Worker -> Nat]
    /\ tries \in [Event -> Nat]
    /\ met \in [Event -> 0..MaxRevives]
    /\ shared \subseteq Event
    /\ crashes \in 0..MaxCrashes
    /\ dbErrors \in 0..MaxDbErrors
    /\ revives \in 0..MaxRevives

(***************************************************************************)
(* "Multiple workers won't grab the same event" (outbox_repo.go,           *)
(* FetchPending): no event is in the hands of two workers, and one that is *)
(* in anybody's hands is marked 'processing'.  Each time the operator puts *)
(* back an event that is in hand costs one hand more, and no more.         *)
(***************************************************************************)
ExclusiveClaim ==
    \A e \in Event :
        Cardinality(Holders(e)) <= met[e] + (IF status[e] = "processing" THEN 1 ELSE 0)

(***************************************************************************)
(* The attempts column accounts for every execution, in every order of     *)
(* failures, crashes and lost updates: an event goes to the dead-letter    *)
(* state after exactly MaxAttempts executions and never before, is done    *)
(* only if it was executed, and one that waits has executions to spare.    *)
(* What the operator put back in somebody's hands is left out: the attempt *)
(* under way then counts against the new ones, or even takes the old       *)
(* number back into the row, until he puts it back with nobody holding it. *)
(***************************************************************************)
AttemptsAccounted ==
    \A e \in Event : met[e] = 0 =>
        /\ status[e] = "dead" => tries[e] = MaxAttempts
        /\ status[e] = "done" => tries[e] = attempts[e] + 1
        /\ status[e] = "pending" => tries[e] = attempts[e] /\ tries[e] < MaxAttempts

(***************************************************************************)
(* What faults cost: a crash or a failed database call strands at most one *)
(* batch, and without faults nothing is stranded, whoever holds what.      *)
(***************************************************************************)
StrandedBound == Cardinality(Stranded) <= BatchSize * (crashes + dbErrors)

(***************************************************************************)
(* A delivered event is never delivered again, whatever fails, crashes or  *)
(* is revived: 'done' is final, unless two workers had the event at once.  *)
(***************************************************************************)
DoneIsFinal ==
    [][\A e \in Event \ shared : status[e] = "done" => status'[e] = "done"]_vars

(***************************************************************************)
(* Without faults every published event is delivered or buried.            *)
(***************************************************************************)
EveryEventSettles ==
    \A e \in Event : status[e] = "pending" ~> status[e] \in {"done", "dead"}

(***************************************************************************)
(* The implementation of JobQueue: 'held' and 'trying' are derived from    *)
(* the batches in the workers' memory, 'stranded' from their absence.      *)
(***************************************************************************)
Phase(e) ==
    CASE met[e] > 0           -> "contested"
      [] met[e] = 0 /\ status[e] = "absent"  -> "new"
      [] met[e] = 0 /\ status[e] = "pending" -> "waiting"
      [] met[e] = 0 /\ status[e] = "done"    -> "done"
      [] met[e] = 0 /\ status[e] = "dead"    -> "buried"
      [] OTHER -> IF Trying(e) THEN "trying"
                  ELSE IF Held(e) THEN "held" ELSE "stranded"

Counted(e) == IF met[e] > 0 THEN 0 ELSE tries[e]

JQ == INSTANCE JobQueue WITH
        Job <- Event, MaxTries <- MaxAttempts,
        phase <- [e \in Event |-> Phase(e)], tries <- [e \in Event |-> Counted(e)]

(***************************************************************************)
(* Every behaviour of table and workers is one of the abstract job queue.  *)
(***************************************************************************)
JobQueueSpec == JQ!Spec
=============================================================================
