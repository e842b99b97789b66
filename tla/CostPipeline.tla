----------------------------- MODULE CostPipeline -----------------------------
(***************************************************************************)
(* The recording of what every paid call costs: Recorder.Record puts an    *)
(* event into a bounded channel (server/internal/service/cost/recorder.go) *)
(* and the Flusher inserts batches into cost_events every minute           *)
(* (flusher.go).  The table has a unique event_id, which the callers       *)
(* build, and the INSERT says ON CONFLICT DO NOTHING.  main.go starts the  *)
(* flusher, cancels it on the way out and does not wait for it.            *)
(***************************************************************************)
EXTENDS Naturals, FiniteSets, Sequences

CONSTANTS
    Call,            \* the paid calls: records of their work, stage and attempt
    Request,         \* the works that are HTTP requests; the worker's are not
    NoTrace,         \* the trace "00000000"
    Priced,          \* the calls whose model has an entry in the price book
    QueueCapacity,   \* queueCapacity
    MaxBatch,        \* maxBatch
    MaxDbFailures,   \* bound on INSERTs that fail
    MaxStops         \* bound on shutdowns and crashes

ASSUME CostAssumption ==
    /\ IsFiniteSet(Call) /\ Priced \subseteq Call
    /\ Call \subseteq [work : {c.work : c \in Call}, stage : {c.stage : c \in Call},
                       attempt : Nat]
    /\ NoTrace \notin Request
    /\ QueueCapacity \in Nat /\ MaxBatch \in Nat \ {0}
    /\ MaxDbFailures \in Nat /\ MaxStops \in Nat

VARIABLES
    recorded,   \* the calls added to the Prometheus total
    queue,      \* the channel
    batch,      \* the events the flusher holds
    rows,       \* the calls that have a row in cost_events
    flusher,    \* where the flusher is
    stopping,   \* its context is cancelled
    tickLeft,   \* the ticker may still fire once after that
    queueFull, dbWrite,   \* record_failed_total by these reasons
    ticks,      \* ticks[c]: the ticks c has seen since it was put into the queue
    failures, stops       \* the bounded events so far

metrics == <<queueFull, dbWrite>>
vars == <<recorded, queue, batch, rows, flusher, stopping, tickLeft,
          queueFull, dbWrite, ticks, failures, stops>>

(***************************************************************************)
(* The id the caller gives the event.  A request has its own trace; the    *)
(* context of the worker has none, and its handlers do not count attempts. *)
(***************************************************************************)
EventId(c) ==
    IF c.work \in Request THEN <<c.work, c.stage, c.attempt>> ELSE <<NoTrace, c.stage, 1>>

Queued == {queue[i] : i \in DOMAIN queue}
Batched == {batch[i] : i \in DOMAIN batch}

Init ==
    /\ recorded = {}
    /\ queue = <<>> /\ batch = <<>>
    /\ rows = {}
    /\ flusher = "waiting"
    /\ stopping = FALSE /\ tickLeft = TRUE
    /\ queueFull = 0 /\ dbWrite = 0 /\ ticks = [c \in Call |-> 0]
    /\ failures = 0 /\ stops = 0

-----------------------------------------------------------------------------

(***************************************************************************)
(* Record never blocks: a full channel drops the event.  A call without a  *)
(* price is counted as price_miss and leaves nothing, so it is no step.    *)
(* The attempts of a stage of one work follow one another.                 *)
(***************************************************************************)
Record(c) ==
    /\ c \in Priced \ recorded
    /\ \A d \in recorded :
         d.work = c.work /\ d.stage = c.stage => d.attempt < c.attempt
    /\ recorded' = recorded \cup {c}
    /\ \/ /\ Len(queue) < QueueCapacity
          /\ queue' = Append(queue, c)
          /\ UNCHANGED queueFull
       \/ /\ Len(queue) >= QueueCapacity
          /\ queueFull' = queueFull + 1
          /\ UNCHANGED queue
    /\ UNCHANGED <<batch, rows, flusher, stopping, tickLeft, dbWrite, ticks, failures, stops>>

(***************************************************************************)
(* The ticker, or, when the context is cancelled, the final drain: select  *)
(* takes either when both are ready.  One tick may wait in the ticker; the *)
(* next is a minute away, and the process is gone by then.                 *)
(***************************************************************************)
Tick ==
    /\ flusher = "waiting"
    /\ stopping => tickLeft
    /\ flusher' = "collecting"
    /\ tickLeft' = ~stopping
    /\ ticks' = [c \in Call |-> IF c \in Queued THEN ticks[c] + 1 ELSE 0]
    /\ UNCHANGED <<recorded, queue, batch, rows, stopping, metrics, failures, stops>>

StartDrain ==
    /\ flusher = "waiting" /\ stopping
    /\ flusher' = "draining"
    /\ UNCHANGED <<recorded, queue, batch, rows, stopping, tickLeft, metrics, ticks, failures,
                   stops>>

CollectOne ==
    /\ flusher \in {"collecting", "draining"}
    /\ Len(batch) < MaxBatch /\ queue # <<>>
    /\ batch' = Append(batch, Head(queue))
    /\ queue' = Tail(queue)
    /\ ticks' = [ticks EXCEPT ![Head(queue)] = 0]
    /\ UNCHANGED <<recorded, rows, flusher, stopping, tickLeft, metrics, failures, stops>>

CollectEndsEarly ==
    /\ flusher \in {"collecting", "draining"}
    /\ flusher' = CASE batch # <<>> /\ flusher = "collecting" -> "flushing"
                    [] batch # <<>> /\ flusher = "draining"   -> "drain_flushing"
                    [] batch = <<>> /\ flusher = "collecting" -> "waiting"
                    [] OTHER -> "gone"
    /\ UNCHANGED <<recorded, queue, batch, rows, stopping, tickLeft, metrics, ticks, failures,
                   stops>>

(* collect ends when the batch is full or the channel was seen empty.      *)
CollectEnds ==
    /\ flusher \in {"collecting", "draining"}
    /\ Len(batch) = MaxBatch \/ queue = <<>>
    /\ flusher' = CASE batch # <<>> /\ flusher = "collecting" -> "flushing"
                    [] batch # <<>> /\ flusher = "draining"   -> "drain_flushing"
                    [] batch = <<>> /\ flusher = "collecting" -> "waiting"
                    [] OTHER -> "gone"
    /\ UNCHANGED <<recorded, queue, batch, rows, stopping, tickLeft, metrics, ticks, failures,
                   stops>>

-----------------------------------------------------------------------------

(* INSERT ... ON CONFLICT DO NOTHING: the first event of an id gets the row. *)
FirstOfId(i) ==
    /\ \A r \in rows : EventId(r) # EventId(batch[i])
    /\ \A j \in 1..(i - 1) : EventId(batch[j]) # EventId(batch[i])

InsertBatch == rows' = rows \cup {batch[i] : i \in {k \in DOMAIN batch : FirstOfId(k)}}

AfterFlushReturns == flusher' = "gone"

AfterFlush == flusher' = IF flusher = "flushing" THEN "waiting" ELSE "draining"

Flush ==
    /\ flusher \in {"flushing", "drain_flushing"}
    /\ InsertBatch
    /\ batch' = <<>>
    /\ AfterFlush
    /\ UNCHANGED <<recorded, queue, stopping, tickLeft, metrics, ticks, failures, stops>>

FlushFailsQuietly ==
    /\ flusher \in {"flushing", "drain_flushing"}
    /\ failures < MaxDbFailures
    /\ InsertBatch \/ UNCHANGED rows
    /\ batch' = <<>>
    /\ failures' = failures + 1
    /\ AfterFlush
    /\ UNCHANGED <<recorded, queue, stopping, tickLeft, metrics, ticks, stops>>

(* The batch is dropped and counted once, also when only the reply is lost. *)
FlushFails ==
    /\ flusher \in {"flushing", "drain_flushing"}
    /\ failures < MaxDbFailures
    /\ InsertBatch \/ UNCHANGED rows
    /\ batch' = <<>>
    /\ dbWrite' = dbWrite + 1
    /\ failures' = failures + 1
    /\ AfterFlush
    /\ UNCHANGED <<recorded, queue, stopping, tickLeft, queueFull, ticks, stops>>

(* The cancellation interrupts a flush: context.Canceled is not counted.   *)
FlushCancelled ==
    /\ flusher = "flushing" /\ stopping
    /\ InsertBatch \/ UNCHANGED rows
    /\ batch' = <<>>
    /\ AfterFlush
    /\ UNCHANGED <<recorded, queue, stopping, tickLeft, metrics, ticks, failures, stops>>

-----------------------------------------------------------------------------

(* main returns: the deferred costCancel runs and the process is about to end. *)
Stop ==
    /\ ~stopping /\ stops < MaxStops
    /\ stopping' = TRUE
    /\ stops' = stops + 1
    /\ UNCHANGED <<recorded, queue, batch, rows, flusher, tickLeft, metrics, ticks, failures>>

(* The process ends, drained or not, and the next one starts afresh.       *)
Exit ==
    /\ stopping
    /\ queue' = <<>> /\ batch' = <<>>
    /\ flusher' = "waiting"
    /\ stopping' = FALSE /\ tickLeft' = TRUE
    /\ ticks' = [c \in Call |-> 0]
    /\ UNCHANGED <<recorded, rows, metrics, failures, stops>>

FlusherStep ==
    \/ Tick \/ StartDrain
    \/ CollectOne \/ CollectEnds
    \/ Flush \/ FlushFails \/ FlushCancelled

Next == Stop \/ Exit \/ FlusherStep \/ \E c \in Call : Record(c)

Spec == Init /\ [][Next]_vars

(* The ticker fires for ever, an INSERT returns, and an ending process ends. *)
FairSpec == Spec /\ WF_vars(FlusherStep) /\ WF_vars(Exit)

-----------------------------------------------------------------------------

TypeOK ==
    /\ recorded \subseteq Priced
    /\ queue \in Seq(Priced) /\ Len(queue) <= QueueCapacity
    /\ batch \in Seq(Priced) /\ Len(batch) <= MaxBatch
    /\ rows \subseteq recorded
    /\ flusher \in {"waiting", "collecting", "flushing", "draining", "drain_flushing", "gone"}
    /\ stopping \in BOOLEAN /\ tickLeft \in BOOLEAN
    /\ queueFull \in Nat /\ dbWrite \in Nat /\ ticks \in [Call -> Nat]
    /\ failures \in 0..MaxDbFailures /\ stops \in 0..MaxStops

Missing == recorded \ (rows \cup Queued \cup Batched)

(* The events of the worker have no trace and no attempt in their ids, so  *)
(* of the calls of one stage the table keeps the first.                    *)
Shadowed ==
    {c \in recorded \ rows : /\ c.work \notin Request
                             /\ \E r \in rows : r.work \notin Request /\ r.stage = c.stage}

(***************************************************************************)
(* The table is the source of facts: what the Prometheus total has and the *)
(* table has not is accounted for by the failure counters, where one count *)
(* of db_write stands for a batch, by the ends of processes, which cost a  *)
(* full queue and three batches (the one of a cancelled INSERT, that of    *)
(* the tick that was waiting, and the one of a drain cut short), and by    *)
(* the calls of the worker of whose stage the table has another.           *)
(***************************************************************************)
LossIsAccounted ==
    Cardinality(Missing \ Shadowed) <= queueFull + MaxBatch * dbWrite
                                       + (QueueCapacity + 3 * MaxBatch) * stops

(***************************************************************************)
(* How long a call may wait in memory, where a crash finds it: each tick   *)
(* takes a whole batch from before a call it leaves, whatever is recorded  *)
(* meanwhile, so after k ticks at least k batches of the queue are behind  *)
(* it and it is gone after QueueCapacity / MaxBatch of them (flusher.go    *)
(* grants one: "worst-case data loss on crash is one tick").               *)
(***************************************************************************)
WaitIsBounded ==
    \A i \in DOMAIN queue : flusher # "collecting" =>
        MaxBatch * ticks[queue[i]] + i <= QueueCapacity

(***************************************************************************)
(* What is queued leaves the queue, under every load (flusher.go).         *)
(***************************************************************************)
QueueDrains == \A c \in Priced : c \in Queued ~> c \notin Queued
=============================================================================
