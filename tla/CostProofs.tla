------------------------------ MODULE CostProofs ------------------------------
(***************************************************************************)
(* Proofs about CostPipeline, for any calls, capacities, batches and       *)
(* numbers of failures and stops.  The accounting is an invariant with a   *)
(* reserve: what the process that is ending may still lose is charged when *)
(* it is told to stop, and handed back as it gets on with it.              *)
(***************************************************************************)
EXTENDS CostPipeline, FiniteSetTheorems, WellFoundedInduction, TLAPS

Lost == Missing \ Shadowed

(* What one stop may cost, and what of it is still to come.                *)
StopCost == QueueCapacity + 3 * MaxBatch

Reserve ==
    IF ~stopping THEN 0
    ELSE QueueCapacity + MaxBatch
         + (IF flusher \in {"collecting", "flushing"} THEN MaxBatch ELSE 0)
         + (IF tickLeft THEN MaxBatch ELSE 0)

Charged == queueFull + MaxBatch * dbWrite + StopCost * stops

LossOK == Cardinality(Lost) + Reserve <= Charged

HeldOK == Queued \cup Batched \subseteq recorded

IInv == TypeOK /\ HeldOK /\ LossOK

LEMMA Bounds ==
    /\ Priced \subseteq Call /\ IsFiniteSet(Call)
    /\ QueueCapacity \in Nat /\ MaxBatch \in Nat /\ MaxBatch > 0
    /\ MaxDbFailures \in Nat /\ MaxStops \in Nat
  BY CostAssumption

-----------------------------------------------------------------------------
(* Sequences as sets *)

Elements(s) == {s[i] : i \in DOMAIN s}

LEMMA AppendRange ==
    ASSUME NEW S, NEW s \in Seq(S), NEW x \in S
    PROVE  Elements(Append(s, x)) = Elements(s) \cup {x}
  <1> DEFINE t == Append(s, x)
  <1>1. /\ Len(s) \in Nat /\ DOMAIN s = 1..Len(s) /\ DOMAIN t = 1..(Len(s) + 1)
        /\ \A i \in 1..Len(s) : t[i] = s[i]
        /\ t[Len(s) + 1] = x
    OBVIOUS
  <1>2. 1..(Len(s) + 1) = (1..Len(s)) \cup {Len(s) + 1}
    BY <1>1
  <1> QED BY <1>1, <1>2 DEF Elements

LEMMA TailRange ==
    ASSUME NEW S, NEW s \in Seq(S), s # <<>>
    PROVE  /\ Head(s) \in S /\ Tail(s) \in Seq(S)
           /\ Elements(s) = {Head(s)} \cup Elements(Tail(s))
  <1> DEFINE t == Tail(s)
             n == Len(s) - 1
  <1>1. /\ n \in Nat /\ DOMAIN s = 1..(n + 1) /\ DOMAIN t = 1..n
        /\ Head(s) = s[1] /\ \A i \in 1..n : t[i] = s[i + 1]
        /\ Head(s) \in S /\ t \in Seq(S)
    OBVIOUS
  <1> HIDE DEF n, t
  <1>2. ASSUME NEW i \in 1..(n + 1)
        PROVE  s[i] = Head(s) \/ \E j \in 1..n : s[i] = t[j]
    <2>1. CASE i = 1
      BY <1>1, <2>1
    <2>2. CASE i # 1
      <3>1. i - 1 \in 1..n /\ t[i - 1] = s[i]
        BY <1>1, <1>2, <2>2
      <3> QED BY <3>1
    <2> QED BY <2>1, <2>2
  <1>3. 1 \in 1..(n + 1) /\ \A j \in 1..n : j + 1 \in 1..(n + 1)
    BY <1>1
  <1>4. ASSUME NEW x \in Elements(s) PROVE x = Head(s) \/ x \in Elements(t)
    <2>1. PICK i \in 1..(n + 1) : x = s[i]
      BY <1>1, <1>4 DEF Elements
    <2>2. x = Head(s) \/ \E j \in 1..n : x = t[j]
      BY <1>2, <2>1
    <2> QED BY <1>1, <2>2 DEF Elements
  <1>5. Head(s) \in Elements(s)
    BY <1>1, <1>3 DEF Elements
  <1>6. ASSUME NEW x \in Elements(t) PROVE x \in Elements(s)
    BY SMTT(30), <1>1, <1>3 DEF Elements
  <1>7. Elements(s) = {Head(s)} \cup Elements(t)
    BY <1>4, <1>5, <1>6
  <1> QED BY <1>1, <1>7 DEF t

LEMMA Smallest ==
    ASSUME NEW K, K \subseteq Nat, K # {}
    PROVE  \E k \in K : \A j \in K : k <= j
  <1> DEFINE R == OpToRel(<, Nat)
  <1>1. \A j, k \in Nat : j < k => <<j, k>> \in R
    BY DEF OpToRel
  <1>2. IsWellFoundedOn(R, Nat)
    BY NatLessThanWellFounded
  <1> HIDE DEF R
  <1>3. \E k \in K : \A j \in K : <<j, k>> \notin R
    BY <1>2, WFMin
  <1>4. PICK k \in K : \A j \in K : <<j, k>> \notin R
    BY <1>3
  <1>5. ASSUME NEW j \in K PROVE k <= j
    <2>1. j \in Nat /\ k \in Nat /\ ~(j < k)
      BY <1>1, <1>4
    <2> QED BY <2>1
  <1> QED BY <1>5

LEMMA RangeIsSmall ==
    ASSUME NEW S, NEW s \in Seq(S)
    PROVE  /\ IsFiniteSet(Elements(s))
           /\ Cardinality(Elements(s)) \in Nat
           /\ Cardinality(Elements(s)) <= Len(s)
  <1> DEFINE n == Len(s)
             T == Elements(s)
  <1>1. n \in Nat /\ DOMAIN s = 1..n
    OBVIOUS
  <1>2. s \in Surjection(1..n, T)
    <2>1. s \in [1..n -> T]
      BY <1>1 DEF Elements
    <2> QED BY <1>1, <2>1 DEF Surjection, Elements
  <1>3. IsFiniteSet(1..n) /\ Cardinality(1..n) = n
    BY <1>1, FS_Interval
  <1> QED BY <1>2, <1>3, FS_Surjection, FS_CardinalityType

LEMMA LostIsFinite == TypeOK => IsFiniteSet(Lost) /\ Cardinality(Lost) \in Nat
  <1>1. TypeOK => Lost \subseteq Call
    BY Bounds DEF TypeOK, Lost, Missing
  <1> QED BY <1>1, Bounds, FS_Subset, FS_CardinalityType

(***************************************************************************)
(* A step that loses the calls of X, at most n of them, and leaves the     *)
(* rows it finds, adds at most n to what is lost.                          *)
(***************************************************************************)
LEMMA LossOfStep ==
    ASSUME TypeOK, NEW X, IsFiniteSet(X), NEW n \in Nat, Cardinality(X) <= n,
           TypeOK', rows \subseteq rows', recorded \subseteq recorded',
           Lost' \subseteq Lost \cup X
    PROVE  Cardinality(Lost') \in Nat /\ Cardinality(Lost') <= Cardinality(Lost) + n
  <1>1. IsFiniteSet(Lost) /\ Cardinality(Lost) \in Nat
    BY LostIsFinite
  <1>2. IsFiniteSet(Lost \cup X)
        /\ Cardinality(Lost \cup X)
              = Cardinality(Lost) + Cardinality(X) - Cardinality(Lost \cap X)
    BY <1>1, FS_Union
  <1>3. IsFiniteSet(Lost \cap X)
    BY <1>1, FS_Intersection
  <1>4. Cardinality(X) \in Nat /\ Cardinality(Lost \cap X) \in Nat
    BY <1>3, FS_CardinalityType
  <1>5. IsFiniteSet(Lost') /\ Cardinality(Lost') <= Cardinality(Lost \cup X)
    BY <1>2, FS_Subset
  <1> QED BY <1>1, <1>2, <1>4, <1>5, FS_CardinalityType

LEMMA NothingShadowedIsFound ==
    ASSUME rows \subseteq rows', recorded \subseteq recorded'
    PROVE  \A c \in Missing' : c \in Shadowed => c \in Shadowed'
  BY DEF Missing, Shadowed

(* The same, for what leaves the queue and the batch.                      *)
LEMMA LossOfDropped ==
    ASSUME rows \subseteq rows', recorded \subseteq recorded', NEW X,
           Missing' \subseteq Missing \cup X
    PROVE  Lost' \subseteq Lost \cup X
  BY NothingShadowedIsFound DEF Lost

-----------------------------------------------------------------------------
(* The arithmetic of the charge *)

LEMMA Numbers ==
    ASSUME TypeOK
    PROVE  /\ QueueCapacity \in Nat /\ MaxBatch \in Nat /\ StopCost \in Nat
           /\ queueFull \in Nat /\ dbWrite \in Nat /\ stops \in Nat
           /\ MaxBatch * dbWrite \in Nat /\ StopCost * stops \in Nat
           /\ Reserve \in Nat /\ Charged \in Nat
  <1>1. /\ QueueCapacity \in Nat /\ MaxBatch \in Nat
        /\ queueFull \in Nat /\ dbWrite \in Nat /\ stops \in Nat
    BY Bounds DEF TypeOK
  <1>2. StopCost \in Nat
    BY <1>1 DEF StopCost
  <1>3. MaxBatch * dbWrite \in Nat /\ StopCost * stops \in Nat
    BY <1>1, <1>2
  <1>4. Reserve \in Nat
    BY <1>1 DEF Reserve
  <1> QED BY <1>1, <1>2, <1>3, <1>4 DEF Charged

LEMMA OneMore ==
    ASSUME NEW a \in Nat, NEW b \in Nat
    PROVE  a * (b + 1) = a * b + a
  OBVIOUS

-----------------------------------------------------------------------------
(* The steps *)

LEMMA InitIInv == Init => IInv
  <1> SUFFICES ASSUME Init PROVE IInv
    OBVIOUS
  <1>1. TypeOK
    <2>1. <<>> \in Seq(Priced) /\ Len(<<>>) = 0
      OBVIOUS
    <2>2. /\ recorded \subseteq Priced /\ rows \subseteq recorded
          /\ queue \in Seq(Priced) /\ batch \in Seq(Priced)
          /\ Len(queue) <= QueueCapacity /\ Len(batch) <= MaxBatch
      BY <2>1, Bounds DEF Init
    <2>3. /\ flusher \in {"waiting", "collecting", "flushing", "draining", "drain_flushing", "gone"}
          /\ stopping \in BOOLEAN /\ tickLeft \in BOOLEAN
          /\ queueFull \in Nat /\ dbWrite \in Nat
          /\ failures \in 0..MaxDbFailures /\ stops \in 0..MaxStops
          /\ ticks \in [Call -> Nat]
      <3>1. flusher = "waiting" /\ stopping \in BOOLEAN /\ tickLeft \in BOOLEAN
        BY Zenon DEF Init
      <3>2. queueFull = 0 /\ dbWrite = 0 /\ failures = 0 /\ stops = 0
        BY DEF Init
      <3>3. ticks \in [Call -> Nat]
        BY DEF Init
      <3> QED BY <3>1, <3>2, <3>3, Bounds
    <2> QED BY <2>2, <2>3 DEF TypeOK
  <1>3. Lost = {} /\ Reserve = 0
    BY DEF Init, Lost, Missing, Reserve
  <1>4. Cardinality(Lost) = 0
    BY <1>3, FS_EmptySet
  <1>5. LossOK
    BY <1>1, <1>3, <1>4, Numbers DEF LossOK
  <1>6. HeldOK
    BY DEF Init, HeldOK, Queued, Batched
  <1> QED BY <1>1, <1>5, <1>6 DEF IInv

LEMMA RecordStep == ASSUME IInv, NEW c \in Call, Record(c) PROVE IInv'
  <1>1. TypeOK
    BY DEF IInv
  <1>2. c \in Priced /\ recorded' = recorded \cup {c} /\ queue \in Seq(Priced)
    BY <1>1 DEF Record, TypeOK
  <1>3. TypeOK'
    <2>1. queue' \in Seq(Priced) /\ Len(queue') <= QueueCapacity /\ queueFull' \in Nat
      <3>1. CASE Len(queue) < QueueCapacity /\ queue' = Append(queue, c) /\ UNCHANGED queueFull
        <4>1. queue' \in Seq(Priced) /\ Len(queue') = Len(queue) + 1 /\ Len(queue) \in Nat
          BY <1>2, <3>1
        <4> QED BY <1>1, <3>1, <4>1, Bounds DEF TypeOK
      <3>2. CASE queueFull' = queueFull + 1 /\ UNCHANGED queue
        BY <1>1, <3>2 DEF TypeOK
      <3> QED BY <3>1, <3>2 DEF Record
    <2>2. recorded' \subseteq Priced /\ rows' \subseteq recorded'
      BY <1>1, <1>2 DEF Record, TypeOK
    <2>3. UNCHANGED <<batch, flusher, stopping, tickLeft, dbWrite, ticks, failures, stops>>
      BY DEF Record
    <2> QED BY <1>1, <2>1, <2>2, <2>3 DEF TypeOK
  <1>5. CASE queue' = Append(queue, c) /\ UNCHANGED queueFull
    <2>1. Queued' = Queued \cup {c}
      BY <1>2, <1>5, AppendRange DEF Queued, Elements
    <2>2. Missing' \subseteq Missing \cup {}
      BY <1>2, <2>1 DEF Record, Missing, Batched
    <2>3. Lost' \subseteq Lost \cup {}
      BY <1>2, <2>2, LossOfDropped DEF Record
    <2>4. Cardinality(Lost') \in Nat /\ Cardinality(Lost') <= Cardinality(Lost) + 0
      BY <1>1, <1>2, <1>3, <2>3, LossOfStep, FS_EmptySet DEF Record
    <2>5. Reserve' = Reserve /\ Charged' = Charged
      BY <1>5 DEF Record, Reserve, Charged, StopCost
    <2>6. LossOK'
      BY <1>1, <2>4, <2>5, Numbers, LostIsFinite DEF IInv, LossOK
    <2>7. HeldOK'
      BY <1>2, <2>1 DEF IInv, HeldOK, Record, Batched
    <2> QED BY <1>3, <2>6, <2>7 DEF IInv
  <1>6. CASE queueFull' = queueFull + 1 /\ UNCHANGED queue
    <2>2. Missing' \subseteq Missing \cup {c}
      BY <1>2, <1>6 DEF Record, Missing, Batched, Queued
    <2>3. Lost' \subseteq Lost \cup {c}
      BY <1>2, <2>2, LossOfDropped DEF Record
    <2>4. Cardinality(Lost') \in Nat /\ Cardinality(Lost') <= Cardinality(Lost) + 1
      <3>1. IsFiniteSet({c}) /\ Cardinality({c}) <= 1 /\ 1 \in Nat
        BY FS_Singleton
      <3>2. rows \subseteq rows' /\ recorded \subseteq recorded'
        BY <1>2 DEF Record
      <3> QED BY <1>1, <1>3, <2>3, <3>1, <3>2, LossOfStep
    <2>5. Reserve' = Reserve /\ Charged' = Charged + 1
      <3>1. UNCHANGED <<dbWrite, stops, stopping, flusher, tickLeft>>
        BY DEF Record
      <3>2. Reserve' = Reserve
        BY <3>1 DEF Reserve
      <3> QED BY <1>1, <1>6, <3>1, <3>2, Numbers DEF Charged
    <2>6. LossOK'
      BY <1>1, <2>4, <2>5, Numbers, LostIsFinite DEF IInv, LossOK
    <2>7. HeldOK'
      BY <1>2, <1>6 DEF IInv, HeldOK, Record, Batched, Queued
    <2> QED BY <1>3, <2>6, <2>7 DEF IInv
  <1> QED BY <1>5, <1>6 DEF Record

(* The steps of the flusher before it inserts, and the end it comes to.    *)
LEMMA CollectStep ==
    ASSUME IInv, Tick \/ StartDrain \/ CollectOne \/ CollectEnds
    PROVE  IInv'
  <1>1. /\ TypeOK
        /\ UNCHANGED <<recorded, rows, stopping, metrics, failures, stops>>
    BY DEF IInv, Tick, StartDrain, CollectOne, CollectEnds
  <1>2. CollectOne =>
          /\ batch' \in Seq(Priced) /\ Len(batch') <= MaxBatch
          /\ queue' \in Seq(Priced) /\ Len(queue') <= QueueCapacity
          /\ Queued = {Head(queue)} \cup Queued'
          /\ Batched' = Batched \cup {Head(queue)}
    <2> SUFFICES ASSUME CollectOne
                 PROVE  /\ batch' \in Seq(Priced) /\ Len(batch') <= MaxBatch
                        /\ queue' \in Seq(Priced) /\ Len(queue') <= QueueCapacity
                        /\ Queued = {Head(queue)} \cup Queued'
                        /\ Batched' = Batched \cup {Head(queue)}
      OBVIOUS
    <2>1. /\ queue \in Seq(Priced) /\ queue # <<>> /\ batch \in Seq(Priced)
          /\ Len(batch) < MaxBatch /\ Len(queue) <= QueueCapacity
          /\ batch' = Append(batch, Head(queue)) /\ queue' = Tail(queue)
      BY <1>1 DEF CollectOne, TypeOK
    <2>2. /\ Head(queue) \in Priced /\ Tail(queue) \in Seq(Priced)
          /\ Queued = {Head(queue)} \cup Queued'
      <3>1. Queued' = Elements(Tail(queue)) /\ Queued = Elements(queue)
        BY <2>1 DEF Queued, Elements
      <3> QED BY <2>1, <3>1, TailRange
    <2>3. Batched' = Batched \cup {Head(queue)}
      <3>1. Batched' = Elements(Append(batch, Head(queue))) /\ Batched = Elements(batch)
        BY <2>1 DEF Batched, Elements
      <3> QED BY <2>1, <2>2, <3>1, AppendRange
    <2>4. Len(Tail(queue)) <= QueueCapacity
      <3>1. Len(queue) \in Nat /\ Len(queue) > 0 /\ Len(Tail(queue)) = Len(queue) - 1
        BY <2>1
      <3> QED BY <2>1, <3>1, Bounds
    <2>5. Len(Append(batch, Head(queue))) <= MaxBatch
      <3>1. Len(batch) \in Nat /\ Len(Append(batch, Head(queue))) = Len(batch) + 1
        BY <2>1
      <3> QED BY <2>1, <3>1, Bounds
    <2> QED BY <2>1, <2>2, <2>3, <2>4, <2>5
  <1>3. ~CollectOne => UNCHANGED <<queue, batch>>
    BY DEF Tick, StartDrain, CollectEnds
  <1>4. /\ flusher' \in {"waiting", "collecting", "flushing", "draining",
                         "drain_flushing", "gone"}
        /\ tickLeft' \in BOOLEAN
    BY <1>1 DEF Tick, StartDrain, CollectOne, CollectEnds, TypeOK
  <1> DEFINE n == [c \in Call |-> IF c \in Queued THEN ticks[c] + 1 ELSE 0]
  <1>6. ticks' \in [Call -> Nat]
    <2>1. ticks \in [Call -> Nat] /\ n \in [Call -> Nat]
      BY <1>1 DEF TypeOK
    <2>2. [ticks EXCEPT ![Head(queue)] = 0] \in [Call -> Nat]
      BY <2>1
    <2>3. UNCHANGED ticks \/ ticks' = n \/ ticks' = [ticks EXCEPT ![Head(queue)] = 0]
      BY DEF Tick, StartDrain, CollectOne, CollectEnds
    <2> HIDE DEF n
    <2> QED BY <2>1, <2>2, <2>3
  <1>5. TypeOK'
    BY <1>1, <1>2, <1>3, <1>4, <1>6 DEF TypeOK, metrics
  <1>7. Missing' \subseteq Missing \cup {}
    BY <1>1, <1>2, <1>3 DEF Missing, Queued, Batched
  <1>8. Cardinality(Lost') \in Nat /\ Cardinality(Lost') <= Cardinality(Lost) + 0
    BY <1>1, <1>5, <1>7, LossOfDropped, LossOfStep, FS_EmptySet
  <1>9. Reserve' <= Reserve
    <2>1. MaxBatch \in Nat /\ QueueCapacity \in Nat
      BY Bounds
    <2>2. CASE Tick
      <3>1. CASE stopping
        <4>1. flusher = "waiting" /\ flusher' = "collecting" /\ tickLeft /\ ~tickLeft' /\ stopping'
          BY <1>1, <2>2, <3>1 DEF Tick
        <4>2. Reserve = QueueCapacity + MaxBatch + 0 + MaxBatch
          BY <3>1, <4>1 DEF Reserve
        <4>3. Reserve' = QueueCapacity + MaxBatch + MaxBatch + 0
          BY <4>1 DEF Reserve
        <4> QED BY <2>1, <4>2, <4>3
      <3>2. CASE ~stopping
        BY <1>1, <3>2 DEF Reserve
      <3> QED BY <3>1, <3>2
    <2>3. CASE StartDrain \/ CollectOne \/ CollectEnds
      <3>1. /\ UNCHANGED tickLeft
            /\ flusher' \in {"collecting", "flushing"} => flusher \in {"collecting", "flushing"}
        BY <2>3 DEF StartDrain, CollectOne, CollectEnds
      <3>2. (IF flusher' \in {"collecting", "flushing"} THEN MaxBatch ELSE 0)
              <= (IF flusher \in {"collecting", "flushing"} THEN MaxBatch ELSE 0)
        BY <2>1, <3>1
      <3>3. CASE stopping
        <4>1. Reserve = QueueCapacity + MaxBatch
                + (IF flusher \in {"collecting", "flushing"} THEN MaxBatch ELSE 0)
                + (IF tickLeft THEN MaxBatch ELSE 0)
          BY <3>3 DEF Reserve
        <4>2. Reserve' = QueueCapacity + MaxBatch
                + (IF flusher' \in {"collecting", "flushing"} THEN MaxBatch ELSE 0)
                + (IF tickLeft THEN MaxBatch ELSE 0)
          BY <1>1, <3>1, <3>3 DEF Reserve
        <4> QED BY <2>1, <3>2, <4>1, <4>2
      <3>4. CASE ~stopping
        BY <1>1, <3>4 DEF Reserve
      <3> QED BY <3>3, <3>4
    <2> QED BY <2>2, <2>3
  <1>10. Charged' = Charged
    BY <1>1 DEF Charged, StopCost, metrics
  <1>11. Reserve' \in Nat
    BY Bounds DEF Reserve
  <1>12. LossOK'
    BY <1>1, <1>8, <1>9, <1>10, <1>11, Numbers, LostIsFinite DEF IInv, LossOK
  <1>13. HeldOK'
    BY <1>1, <1>2, <1>3 DEF IInv, HeldOK, Queued, Batched
  <1> QED BY <1>5, <1>12, <1>13 DEF IInv

-----------------------------------------------------------------------------
(* The INSERT *)

LEMMA InsertAddsOnly ==
    ASSUME InsertBatch
    PROVE  rows \subseteq rows' /\ rows' \subseteq rows \cup Batched
  BY DEF InsertBatch, Batched

(* An event is not inserted because its id has a row: its own, or that of  *)
(* another call of the worker.                                             *)
LEMMA InsertLosesNothing ==
    ASSUME IInv, InsertBatch, UNCHANGED recorded, NEW c \in Batched, c \in recorded
    PROVE  c \in rows' \/ c \in Shadowed'
  <1>1. batch \in Seq(Priced) /\ rows \subseteq recorded /\ recorded \subseteq Priced
    BY DEF IInv, TypeOK
  <1> DEFINE Same(k) == k \in DOMAIN batch /\ EventId(batch[k]) = EventId(c)
  <1>2. PICK n \in DOMAIN batch : batch[n] = c
    BY DEF Batched
  <1>3. \E r \in rows' : EventId(r) = EventId(c)
    <2>1. CASE \E r \in rows : EventId(r) = EventId(c)
      BY <2>1, InsertAddsOnly
    <2>2. CASE \A r \in rows : EventId(r) # EventId(c)
      <3>1. \E k \in DOMAIN batch : Same(k) /\ \A j \in 1..(k - 1) : ~Same(j)
        <4>1. DOMAIN batch \subseteq Nat
          BY <1>1
        <4> DEFINE K == {k \in Nat : Same(k)}
        <4>2. n \in K
          BY <1>2, <4>1
        <4>3. PICK k \in K : \A j \in K : k <= j
          <5>1. K \subseteq Nat /\ K # {}
            BY <4>2
          <5> HIDE DEF K
          <5> QED BY <5>1, Smallest
        <4>4. \A j \in 1..(k - 1) : ~Same(j)
          BY <4>3
        <4> QED BY <4>3, <4>4
      <3>2. PICK k \in DOMAIN batch : Same(k) /\ \A j \in 1..(k - 1) : ~Same(j)
        BY <3>1
      <3>3. \A j \in 1..(k - 1) : j \in DOMAIN batch
        BY <1>1, <3>2
      <3>4. FirstOfId(k)
        BY <2>2, <3>2, <3>3 DEF FirstOfId
      <3>5. batch[k] \in rows'
        BY <3>2, <3>4 DEF InsertBatch
      <3> QED BY <3>2, <3>5
    <2> QED BY <2>1, <2>2
  <1>4. PICK r \in rows' : EventId(r) = EventId(c)
    BY <1>3
  <1>5. r \in Call /\ c \in Call
    BY <1>1, InsertAddsOnly, Bounds DEF Batched
  <1>6. CASE c.work \in Request
    <2>1. r.work = c.work /\ r.stage = c.stage /\ r.attempt = c.attempt
      BY <1>4, <1>6, CostAssumption DEF EventId
    <2>2. r = c
      <3> DEFINE W == {d.work : d \in Call}
                 T == {d.stage : d \in Call}
      <3>1. r \in [work : W, stage : T, attempt : Nat] /\ c \in [work : W, stage : T, attempt : Nat]
        BY <1>5, CostAssumption
      <3> HIDE DEF W, T
      <3> QED BY <2>1, <3>1
    <2> QED BY <2>2
  <1>7. CASE c.work \notin Request
    <2>1. r.work \notin Request /\ r.stage = c.stage
      BY <1>4, <1>7, CostAssumption DEF EventId
    <2> QED BY <1>7, <2>1 DEF Shadowed
  <1> QED BY <1>6, <1>7

LEMMA BatchIsSmall ==
    ASSUME TypeOK
    PROVE  /\ IsFiniteSet(Batched) /\ Cardinality(Batched) \in Nat
           /\ Cardinality(Batched) <= MaxBatch
           /\ IsFiniteSet(Queued) /\ Cardinality(Queued) \in Nat
           /\ Cardinality(Queued) <= QueueCapacity
  <1>1. Batched = Elements(batch) /\ Queued = Elements(queue)
    BY DEF Batched, Queued, Elements
  <1>2. /\ batch \in Seq(Priced) /\ Len(batch) \in Nat /\ Len(batch) <= MaxBatch
        /\ queue \in Seq(Priced) /\ Len(queue) \in Nat /\ Len(queue) <= QueueCapacity
    BY DEF TypeOK
  <1>3. /\ IsFiniteSet(Batched) /\ Cardinality(Batched) \in Nat
        /\ Cardinality(Batched) <= Len(batch)
    BY <1>1, <1>2, RangeIsSmall
  <1>4. /\ IsFiniteSet(Queued) /\ Cardinality(Queued) \in Nat
        /\ Cardinality(Queued) <= Len(queue)
    BY <1>1, <1>2, RangeIsSmall
  <1> QED BY <1>2, <1>3, <1>4, Bounds

(* What the three ends of a flush have in common.                          *)
LEMMA FlushFrame ==
    ASSUME IInv, Flush \/ FlushFails \/ FlushCancelled
    PROVE  /\ TypeOK' /\ HeldOK' /\ rows \subseteq rows'
           /\ UNCHANGED <<recorded, queue, stopping, tickLeft, queueFull, stops>>
           /\ Lost' \subseteq Lost \cup Batched
           /\ InsertBatch => Lost' \subseteq Lost
  <1>1. /\ TypeOK /\ (InsertBatch \/ UNCHANGED rows)
        /\ flusher \in {"flushing", "drain_flushing"} /\ batch' = <<>> /\ AfterFlush
        /\ UNCHANGED <<recorded, queue, stopping, tickLeft, queueFull, ticks, stops>>
        /\ failures' \in 0..MaxDbFailures /\ dbWrite' \in Nat
    <2>1. CASE Flush \/ FlushCancelled
      BY <2>1 DEF IInv, TypeOK, Flush, FlushCancelled, metrics
    <2>2. CASE FlushFails
      BY <2>2, Bounds DEF IInv, TypeOK, FlushFails
    <2> QED BY <2>1, <2>2
  <1>2. /\ rows \subseteq rows' /\ rows' \subseteq rows \cup Batched
    <2>1. CASE InsertBatch
      BY <2>1, InsertAddsOnly
    <2>2. CASE UNCHANGED rows
      BY <2>2
    <2> QED BY <1>1, <2>1, <2>2
  <1>3. Batched' = {} /\ Queued' = Queued
    BY <1>1 DEF Batched, Queued
  <1>4. Missing' \subseteq Missing \cup Batched
    BY <1>1, <1>2, <1>3 DEF Missing
  <1>5. Lost' \subseteq Lost \cup Batched
    BY <1>1, <1>2, <1>4, LossOfDropped
  <1>6. InsertBatch => Lost' \subseteq Lost
    <2> SUFFICES ASSUME InsertBatch, NEW c \in Lost' PROVE c \in Lost
      OBVIOUS
    <2>1. c \in Missing' /\ c \notin Shadowed'
      BY DEF Lost
    <2>2. c \notin rows' /\ c \in recorded
      BY <1>1, <2>1 DEF Missing
    <2>3. c \notin Batched
      BY <1>1, <2>1, <2>2, InsertLosesNothing
    <2> QED BY <1>5, <2>3
  <1>7. TypeOK'
    <2>1. recorded \subseteq Priced /\ rows' \subseteq recorded'
      <3>1. Batched \subseteq recorded
        BY DEF IInv, HeldOK
      <3> QED BY <1>1, <1>2, <3>1 DEF TypeOK
    <2>2. batch' \in Seq(Priced) /\ Len(batch') <= MaxBatch
      <3>1. <<>> \in Seq(Priced) /\ Len(<<>>) = 0
        OBVIOUS
      <3> QED BY <1>1, <3>1, Bounds
    <2>3. flusher' \in {"waiting", "draining"}
      BY <1>1 DEF AfterFlush
    <2> QED BY <1>1, <2>1, <2>2, <2>3 DEF TypeOK
  <1>8. HeldOK'
    BY <1>1, <1>3 DEF IInv, HeldOK
  <1> QED BY <1>1, <1>2, <1>5, <1>6, <1>7, <1>8

LEMMA FlushStep ==
    ASSUME IInv, Flush \/ FlushFails \/ FlushCancelled
    PROVE  IInv'
  <1> USE FlushFrame
  <1>1. TypeOK /\ TypeOK'
    BY DEF IInv
  <1>2. /\ IsFiniteSet(Batched) /\ Cardinality(Batched) <= MaxBatch /\ MaxBatch \in Nat
    BY <1>1, BatchIsSmall, Bounds
  <1>3. Reserve' \in Nat /\ Reserve \in Nat /\ Cardinality(Lost) \in Nat
        /\ Cardinality(Lost) + Reserve <= Charged /\ Charged \in Nat
    BY <1>1, Numbers, LostIsFinite, Bounds DEF Reserve, IInv, LossOK
  <1>4. Reserve' <= Reserve
    <2>1. flusher' \in {"waiting", "draining"}
      BY DEF Flush, FlushFails, FlushCancelled, AfterFlush
    <2>2. CASE stopping
      <3>1. stopping' = stopping /\ tickLeft' = tickLeft
        BY DEF Flush, FlushFails, FlushCancelled
      <3>2. Reserve' = QueueCapacity + MaxBatch + 0 + (IF tickLeft THEN MaxBatch ELSE 0)
        BY <2>1, <2>2, <3>1 DEF Reserve
      <3>3. Reserve = QueueCapacity + MaxBatch
              + (IF flusher \in {"collecting", "flushing"} THEN MaxBatch ELSE 0)
              + (IF tickLeft THEN MaxBatch ELSE 0)
        BY <2>2 DEF Reserve
      <3> QED BY <3>2, <3>3, Bounds
    <2>3. CASE ~stopping
      BY <2>3 DEF Reserve
    <2> QED BY <2>2, <2>3
  <1>5. CASE Flush
    <2>1. Lost' \subseteq Lost \cup {}
      BY <1>5 DEF Flush
    <2>2. Cardinality(Lost') \in Nat /\ Cardinality(Lost') <= Cardinality(Lost) + 0
      BY <1>1, <2>1, LossOfStep, FS_EmptySet
    <2>3. Charged' = Charged
      BY <1>5 DEF Flush, Charged, StopCost, metrics
    <2>4. LossOK'
      BY <1>3, <1>4, <2>2, <2>3 DEF LossOK
    <2> QED BY <2>4 DEF IInv
  <1>6. Cardinality(Lost') \in Nat /\ Cardinality(Lost') <= Cardinality(Lost) + MaxBatch
    BY <1>1, <1>2, LossOfStep
  <1>7. CASE FlushFails
    <2>1. dbWrite' = dbWrite + 1
      BY <1>7 DEF FlushFails
    <2>2. MaxBatch * dbWrite' = MaxBatch * dbWrite + MaxBatch
      BY <1>1, <2>1, Numbers, OneMore
    <2>3. Charged' = Charged + MaxBatch
      BY <1>1, <2>2, Numbers DEF Charged, StopCost
    <2>4. LossOK'
      BY <1>2, <1>3, <1>4, <1>6, <2>3 DEF LossOK
    <2> QED BY <2>4 DEF IInv
  <1>8. CASE FlushCancelled
    <2>1. /\ stopping /\ stopping' = stopping /\ tickLeft' = tickLeft
          /\ flusher = "flushing" /\ flusher' = "waiting"
      BY <1>8 DEF FlushCancelled, AfterFlush
    <2>2. Reserve' = QueueCapacity + MaxBatch + 0 + (IF tickLeft THEN MaxBatch ELSE 0)
      BY <2>1 DEF Reserve
    <2>3. Reserve = QueueCapacity + MaxBatch + MaxBatch + (IF tickLeft THEN MaxBatch ELSE 0)
      BY <2>1 DEF Reserve
    <2>4. Reserve = Reserve' + MaxBatch
      BY <2>2, <2>3, Bounds
    <2>5. Charged' = Charged
      BY <1>8 DEF FlushCancelled, Charged, StopCost, metrics
    <2>6. LossOK'
      BY <1>2, <1>3, <1>6, <2>4, <2>5 DEF LossOK
    <2> QED BY <2>6 DEF IInv
  <1> QED BY <1>5, <1>7, <1>8

LEMMA StopStep == ASSUME IInv, Stop PROVE IInv'
  <1>1. /\ TypeOK /\ ~stopping /\ stopping' /\ stops' = stops + 1
        /\ UNCHANGED <<recorded, queue, batch, rows, flusher, tickLeft, queueFull, dbWrite,
                       ticks, failures>>
        /\ stops' \in 0..MaxStops
    BY Bounds DEF IInv, Stop, metrics, TypeOK
  <1>2. TypeOK'
    BY <1>1 DEF TypeOK, Stop
  <1>3. HeldOK'
    BY <1>1 DEF IInv, HeldOK, Queued, Batched
  <1>4. Lost' = Lost
    BY <1>1 DEF Lost, Missing, Shadowed, Queued, Batched
  <1>5. Reserve = 0 /\ Reserve' \in Nat /\ Reserve' <= StopCost
    <2>1. Reserve = 0 /\ Reserve' \in Nat
      BY <1>1, Bounds DEF Reserve
    <2>2. Reserve' <= StopCost
      BY <1>1, Bounds DEF Reserve, StopCost
    <2> QED BY <2>1, <2>2
  <1>6. Charged' = Charged + StopCost
    <2>1. StopCost * stops' = StopCost * stops + StopCost
      BY <1>1, Numbers, OneMore
    <2> QED BY <1>1, <2>1, Numbers DEF Charged
  <1>7. LossOK'
    BY <1>1, <1>4, <1>5, <1>6, Numbers, LostIsFinite DEF IInv, LossOK
  <1> QED BY <1>2, <1>3, <1>7 DEF IInv

(* The process ends with what is in its queue and in its batch.            *)
LEMMA ExitStep == ASSUME IInv, Exit PROVE IInv'
  <1>1. /\ TypeOK /\ stopping /\ ~stopping' /\ queue' = <<>> /\ batch' = <<>>
        /\ UNCHANGED <<recorded, rows, queueFull, dbWrite, failures, stops>>
        /\ flusher' = "waiting" /\ stopping' \in BOOLEAN /\ tickLeft' \in BOOLEAN
        /\ ticks' \in [Call -> Nat]
    BY DEF IInv, Exit, metrics
  <1>2. TypeOK'
    <2>1. <<>> \in Seq(Priced) /\ Len(<<>>) = 0
      OBVIOUS
    <2> QED BY <1>1, <2>1, Bounds DEF TypeOK
  <1>3. HeldOK'
    BY <1>1 DEF IInv, HeldOK, Queued, Batched
  <1> DEFINE X == Queued \cup Batched
  <1>4. IsFiniteSet(X) /\ Cardinality(X) <= QueueCapacity + MaxBatch
    <2>1. /\ Cardinality(X) = Cardinality(Queued) + Cardinality(Batched)
                                - Cardinality(Queued \cap Batched)
          /\ IsFiniteSet(X)
      BY <1>1, BatchIsSmall, FS_Union
    <2>2. Cardinality(Queued \cap Batched) \in Nat
      BY <1>1, BatchIsSmall, FS_Intersection, FS_CardinalityType
    <2> QED BY <1>1, <2>1, <2>2, BatchIsSmall, Bounds
  <1>5. Missing' \subseteq Missing \cup X
    BY <1>1 DEF Missing
  <1>6. Lost' \subseteq Lost \cup X
    BY <1>1, <1>5, LossOfDropped
  <1>7. QueueCapacity + MaxBatch \in Nat
    BY Bounds
  <1> HIDE DEF X
  <1>8. Cardinality(Lost') \in Nat
        /\ Cardinality(Lost') <= Cardinality(Lost) + (QueueCapacity + MaxBatch)
    BY <1>1, <1>2, <1>4, <1>6, <1>7, LossOfStep
  <1>9. Reserve' = 0 /\ Reserve \in Nat /\ QueueCapacity + MaxBatch <= Reserve
    BY <1>1, Bounds DEF Reserve
  <1>10. Charged' = Charged
    BY <1>1 DEF Charged, StopCost
  <1>11. LossOK'
    BY SMTT(30), <1>1, <1>7, <1>8, <1>9, <1>10, Numbers, LostIsFinite DEF IInv, LossOK
  <1> QED BY <1>2, <1>3, <1>11 DEF IInv

LEMMA NextPreservesIInv == IInv /\ [Next]_vars => IInv'
  <1>1. IInv /\ UNCHANGED vars => IInv'
    BY DEF vars, IInv, TypeOK, HeldOK, LossOK, Lost, Missing, Shadowed,
           Queued, Batched, Reserve, Charged, StopCost
  <1> QED BY <1>1, RecordStep, CollectStep, FlushStep, StopStep, ExitStep
       DEF Next, FlusherStep

-----------------------------------------------------------------------------
(* The theorems *)

(***************************************************************************)
(* The invariant holds of every run.                                       *)
(***************************************************************************)
THEOREM Inductive == Spec => []IInv
  BY InitIInv, NextPreservesIInv, PTL DEF Spec

(***************************************************************************)
(* The variables keep their types; the channel and the batch keep within   *)
(* their capacities, and the table has only calls that were recorded.      *)
(***************************************************************************)
THEOREM TypeCorrect == Spec => []TypeOK
  <1>1. IInv => TypeOK
    BY DEF IInv
  <1> QED BY <1>1, Inductive, PTL

(***************************************************************************)
(* What the table misses is explained by the failure counters, by the ends *)
(* of processes and by the ids the calls of the worker share.              *)
(***************************************************************************)
THEOREM EveryLossIsCharged == Spec => []LossIsAccounted
  <1>1. IInv => LossIsAccounted
    <2> SUFFICES ASSUME IInv PROVE LossIsAccounted
      OBVIOUS
    <2>1. /\ Cardinality(Lost) + Reserve <= Charged /\ TypeOK
          /\ Cardinality(Lost) \in Nat /\ Reserve \in Nat /\ Charged \in Nat
      BY Numbers, LostIsFinite DEF IInv, LossOK
    <2>2. Cardinality(Lost) <= Charged
      BY <2>1
    <2> QED BY <2>2 DEF LossIsAccounted, Charged, StopCost, Lost
  <1> QED BY <1>1, Inductive, PTL

-----------------------------------------------------------------------------
(* How long a call waits *)

(***************************************************************************)
(* While a batch is being collected, the last tick has counted but has not *)
(* moved a call that stays by more than what was taken so far.             *)
(***************************************************************************)
MovedUp(i) ==
    IF flusher = "collecting"
    THEN \/ ticks[queue[i]] = 0
         \/ MaxBatch * (ticks[queue[i]] - 1) + Len(batch) + i <= QueueCapacity
    ELSE MaxBatch * ticks[queue[i]] + i <= QueueCapacity

Fresh == \A c \in Call \ recorded : ticks[c] = 0

EmptyHanded == flusher \in {"waiting", "gone"} => batch = <<>>

AllMovedUp == \A i \in DOMAIN queue : MovedUp(i)

WaitInv == IInv /\ Fresh /\ EmptyHanded /\ AllMovedUp

LEMMA Places ==
    ASSUME TypeOK
    PROVE  /\ Len(queue) \in Nat /\ DOMAIN queue = 1..Len(queue) /\ Len(queue) <= QueueCapacity
           /\ Len(batch) \in Nat /\ Len(batch) <= MaxBatch
           /\ \A i \in DOMAIN queue :
                i \in 1..QueueCapacity /\ queue[i] \in Priced /\ ticks[queue[i]] \in Nat
  <1>1. queue \in Seq(Priced) /\ batch \in Seq(Priced) /\ Priced \subseteq Call
    BY Bounds DEF TypeOK
  <1>2. \A i \in DOMAIN queue : queue[i] \in Priced
    BY <1>1
  <1> QED BY <1>1, <1>2, Bounds DEF TypeOK

LEMMA InitWaits == Init => WaitInv
  <1>1. Init => IInv
    BY InitIInv
  <1> QED BY <1>1 DEF Init, WaitInv, Fresh, EmptyHanded, AllMovedUp

(* The new call is the last, and has seen no tick.                         *)
LEMMA RecordWaits ==
    ASSUME WaitInv, NEW c \in Call, Record(c)
    PROVE  AllMovedUp'
  <1>1. TypeOK /\ TypeOK' /\ ticks[c] = 0 /\ UNCHANGED <<batch, flusher, ticks>>
    BY RecordStep DEF WaitInv, Fresh, IInv, Record
  <1>2. CASE UNCHANGED queue
    BY <1>1, <1>2 DEF WaitInv, AllMovedUp, MovedUp
  <1>3. CASE queue' = Append(queue, c)
    <2> SUFFICES ASSUME NEW i \in DOMAIN queue' PROVE MovedUp(i)'
      BY DEF AllMovedUp
    <2>1. queue \in Seq(Priced) /\ c \in Priced
      BY <1>1 DEF TypeOK, Record
    <2>2. /\ i \in 1..QueueCapacity
          /\ \/ i \in DOMAIN queue /\ queue'[i] = queue[i]
             \/ queue'[i] = c
      <3>1. /\ DOMAIN queue' = 1..Len(queue') /\ Len(queue') <= QueueCapacity
            /\ Len(queue) \in Nat /\ Len(queue') = Len(queue) + 1
            /\ DOMAIN queue = 1..Len(queue)
            /\ \A j \in 1..Len(queue) : queue'[j] = queue[j]
            /\ queue'[Len(queue) + 1] = c
        BY <1>1, <1>3, <2>1 DEF TypeOK
      <3>2. i \in 1..(Len(queue) + 1) /\ Len(queue) + 1 <= QueueCapacity
        BY <3>1
      <3> QED BY <3>1, <3>2, Bounds
    <2>3. CASE i \in DOMAIN queue /\ queue'[i] = queue[i]
      BY <1>1, <2>3 DEF WaitInv, AllMovedUp, MovedUp
    <2>4. CASE queue'[i] = c
      BY <1>1, <2>2, <2>4, Bounds DEF MovedUp
    <2> QED BY <2>2, <2>3, <2>4
  <1> QED BY <1>2, <1>3 DEF Record

LEMMA TickWaits ==
    ASSUME WaitInv, Tick
    PROVE  AllMovedUp'
  <1> SUFFICES ASSUME NEW i \in DOMAIN queue PROVE MovedUp(i)'
    BY DEF AllMovedUp, Tick
  <1>1. TypeOK /\ flusher = "waiting" /\ flusher' = "collecting" /\ UNCHANGED <<queue, batch>>
        /\ batch = <<>>
    BY DEF WaitInv, EmptyHanded, IInv, Tick
  <1>2. ticks'[queue[i]] = ticks[queue[i]] + 1 /\ ticks[queue[i]] \in Nat /\ i \in Nat
    BY <1>1, Places, Bounds DEF Tick, Queued
  <1>3. MaxBatch * ticks[queue[i]] + i <= QueueCapacity
    BY <1>1 DEF WaitInv, AllMovedUp, MovedUp
  <1>4. ticks'[queue[i]] - 1 = ticks[queue[i]] /\ Len(batch) = 0
    BY <1>1, <1>2
  <1>5. MaxBatch * ticks[queue[i]] \in Nat
    BY <1>2, Bounds
  <1> QED BY <1>1, <1>2, <1>3, <1>4, <1>5 DEF MovedUp

(* What is taken moves the others up by one; it need not be counted again. *)
LEMMA CollectWaits ==
    ASSUME WaitInv, CollectOne
    PROVE  AllMovedUp'
  <1> SUFFICES ASSUME NEW i \in DOMAIN queue' PROVE MovedUp(i)'
    BY DEF AllMovedUp
  <1>1. /\ TypeOK /\ queue \in Seq(Priced) /\ queue # <<>> /\ batch \in Seq(Priced)
        /\ queue' = Tail(queue) /\ batch' = Append(batch, Head(queue))
        /\ ticks' = [ticks EXCEPT ![Head(queue)] = 0] /\ UNCHANGED flusher
    BY DEF WaitInv, IInv, CollectOne, TypeOK
  <1>2. /\ i \in Nat /\ i + 1 \in DOMAIN queue /\ queue'[i] = queue[i + 1]
        /\ Len(batch) \in Nat /\ Len(batch') = Len(batch) + 1
    BY <1>1
  <1>3. MovedUp(i + 1) /\ ticks[queue[i + 1]] \in Nat /\ i + 1 <= QueueCapacity
    BY <1>1, <1>2, Places, Bounds DEF WaitInv, AllMovedUp
  <1>4. ticks'[queue'[i]] = 0 \/ ticks'[queue'[i]] = ticks[queue[i + 1]]
    BY <1>1, <1>2, Places, Bounds DEF TypeOK
  <1>5. CASE ticks'[queue'[i]] = 0
    BY <1>2, <1>3, <1>5, Bounds DEF MovedUp
  <1>6. CASE ticks'[queue'[i]] = ticks[queue[i + 1]]
    <2> DEFINE n == ticks[queue[i + 1]]
    <2>1. MaxBatch * n \in Nat /\ MaxBatch * (n - 1) \in Int /\ n \in Nat
      BY <1>3, Bounds
    <2> HIDE DEF n
    <2>2. ticks'[queue'[i]] = n /\ ticks[queue[i + 1]] = n
      BY <1>6 DEF n
    <2> DEFINE taken == MaxBatch * (n - 1)
               moved == MaxBatch * n
    <2>3. CASE flusher = "collecting"
      <3>1. n = 0 \/ taken + Len(batch) + (i + 1) <= QueueCapacity
        BY <1>3, <2>2, <2>3 DEF MovedUp
      <3>2. taken \in Int
        BY <2>1
      <3> HIDE DEF taken
      <3>3. n = 0 \/ taken + Len(batch') + i <= QueueCapacity
        BY <1>2, <3>1, <3>2, Bounds
      <3> QED BY <1>1, <2>2, <2>3, <3>3 DEF MovedUp, taken
    <2>4. CASE flusher # "collecting"
      <3>1. moved + (i + 1) <= QueueCapacity
        BY <1>3, <2>2, <2>4 DEF MovedUp
      <3>2. moved \in Nat
        BY <2>1
      <3> HIDE DEF moved
      <3>3. moved + i <= QueueCapacity
        BY <1>2, <3>1, <3>2, Bounds
      <3> QED BY <1>1, <2>2, <2>4, <3>3 DEF MovedUp, moved
    <2> QED BY <2>3, <2>4
  <1> QED BY <1>4, <1>5, <1>6

(* A batch that ends full has moved the rest up by its whole length.       *)
LEMMA CollectEndsWaits ==
    ASSUME WaitInv, CollectEnds
    PROVE  AllMovedUp'
  <1> SUFFICES ASSUME NEW i \in DOMAIN queue PROVE MovedUp(i)'
    BY DEF AllMovedUp, CollectEnds
  <1>1. TypeOK /\ UNCHANGED <<queue, batch, ticks>> /\ flusher' # "collecting" /\ MovedUp(i)
    BY DEF WaitInv, AllMovedUp, IInv, CollectEnds
  <1>2. i \in Nat /\ i <= QueueCapacity /\ ticks[queue[i]] \in Nat /\ queue # <<>>
    BY <1>1, Places, Bounds
  <1>3. Len(batch) = MaxBatch
    BY <1>2 DEF CollectEnds
  <1> DEFINE n == ticks[queue[i]]
  <1>4. MaxBatch * (n - 1) + MaxBatch = MaxBatch * n /\ (n = 0 => MaxBatch * n = 0)
    BY <1>2, Bounds
  <1>5. MaxBatch * n \in Nat /\ MaxBatch * (n - 1) \in Int
    BY <1>2, Bounds
  <1> HIDE DEF n
  <1>6. ticks[queue[i]] = n /\ ticks'[queue'[i]] = n
    BY <1>1 DEF n
  <1>7. MaxBatch * n + i <= QueueCapacity
    <2>1. CASE flusher = "collecting"
      BY <1>1, <1>2, <1>3, <1>4, <1>5, <1>6, <2>1, Bounds DEF MovedUp
    <2>2. CASE flusher # "collecting"
      BY <1>1, <1>6, <2>2 DEF MovedUp
    <2> QED BY <2>1, <2>2
  <1> QED BY <1>1, <1>6, <1>7 DEF MovedUp

LEMMA NextKeepsWaits == WaitInv /\ [Next]_vars => WaitInv'
  <1> SUFFICES ASSUME WaitInv, [Next]_vars PROVE WaitInv'
    OBVIOUS
  <1>1. IInv /\ IInv'
    BY NextPreservesIInv DEF WaitInv
  <1>2. TypeOK /\ HeldOK
    BY <1>1 DEF IInv
  <1>3. Fresh /\ EmptyHanded /\ AllMovedUp
    BY DEF WaitInv
  <1> SUFFICES Fresh' /\ EmptyHanded' /\ AllMovedUp'
    BY <1>1 DEF WaitInv
  <1>4. ASSUME NEW c \in Call, Record(c) PROVE Fresh' /\ EmptyHanded' /\ AllMovedUp'
    BY <1>3, <1>4, RecordWaits DEF Record, Fresh, EmptyHanded
  <1>5. CASE Tick
    <2>1. Fresh'
      BY <1>2, <1>3, <1>5 DEF Tick, HeldOK, Fresh
    <2> QED BY <1>5, <2>1, TickWaits DEF Tick, EmptyHanded
  <1>6. CASE CollectOne
    <2>1. Fresh'
      BY <1>2, <1>3, <1>6 DEF CollectOne, TypeOK, Fresh
    <2>2. EmptyHanded'
      BY <1>6 DEF CollectOne, EmptyHanded
    <2> QED BY <1>6, <2>1, <2>2, CollectWaits
  <1>7. CASE CollectEnds
    <2>1. Fresh' /\ EmptyHanded'
      BY <1>3, <1>7 DEF CollectEnds, Fresh, EmptyHanded
    <2> QED BY <1>7, <2>1, CollectEndsWaits
  <1>8. CASE StartDrain
    BY <1>3, <1>8 DEF StartDrain, Fresh, EmptyHanded, AllMovedUp, MovedUp
  <1>9. CASE Flush \/ FlushFails \/ FlushCancelled
    <2>1. /\ UNCHANGED <<recorded, queue, ticks>> /\ batch' = <<>>
          /\ flusher # "collecting" /\ flusher' # "collecting"
      BY <1>9 DEF Flush, FlushFails, FlushCancelled, AfterFlush
    <2> QED BY <1>3, <2>1 DEF Fresh, EmptyHanded, AllMovedUp, MovedUp
  <1>10. CASE Stop \/ UNCHANGED vars
    BY <1>3, <1>10 DEF Stop, vars, Fresh, EmptyHanded, AllMovedUp, MovedUp
  <1>11. CASE Exit
    <2>1. queue' = <<>> /\ batch' = <<>> /\ ticks' = [c \in Call |-> 0]
      BY <1>11 DEF Exit
    <2> QED BY <2>1 DEF Fresh, EmptyHanded, AllMovedUp
  <1> QED BY <1>4, <1>5, <1>6, <1>7, <1>8, <1>9, <1>10, <1>11 DEF Next, FlusherStep

(***************************************************************************)
(* A recorded call waits in memory no longer than the queue is long in     *)
(* batches, whatever is recorded behind it and however flushes end.        *)
(***************************************************************************)
THEOREM NoCallWaitsLong == Spec => []WaitIsBounded
  <1>1. WaitInv => WaitIsBounded
    BY DEF WaitInv, AllMovedUp, WaitIsBounded, MovedUp
  <1> QED BY <1>1, InitWaits, NextKeepsWaits, PTL DEF Spec
=============================================================================
