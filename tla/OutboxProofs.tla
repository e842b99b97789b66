---------------------------- MODULE OutboxProofs ----------------------------
(***************************************************************************)
(* Proofs about Outbox for every set of events and workers, every batch    *)
(* size, attempt limit and number of faults.                               *)
(***************************************************************************)
EXTENDS Outbox, FiniteSetTheorems, TLAPS

(***************************************************************************)
(* The invariants of Outbox are not inductive: that no event is claimed    *)
(* twice rests on the row locks of open transactions, and that the attempt *)
(* counter accounts for the executions rests on where each worker is in    *)
(* processOne.  IInv adds both, and says what the operator cannot spoil:   *)
(* an event he never put back in somebody's hands has one holder at most   *)
(* (Alone), and so has one that never had two (Unshared).                  *)
(***************************************************************************)
Types ==
    /\ status \in [Event -> Status]
    /\ attempts \in [Event -> Nat]
    /\ due \in [Event -> BOOLEAN]
    /\ locked \in [Worker -> SUBSET Event]
    /\ claim \in [Worker -> SUBSET Event]
    /\ stage \in [Worker -> Stage]
    /\ read \in [Worker -> Nat]
    /\ tries \in [Event -> Nat]
    /\ met \in [Event -> 0..revives]
    /\ shared \in SUBSET Event
    /\ crashes \in 0..MaxCrashes
    /\ dbErrors \in 0..MaxDbErrors
    /\ revives \in 0..MaxRevives

StagesOK ==
    \A w \in Worker :
        /\ stage[w] # "fetching" => locked[w] = {}
        /\ stage[w] \in {"idle", "fetching"} => claim[w] = {}

LocksOK ==
    /\ \A v, w \in Worker : v # w => locked[v] \cap locked[w] = {}
    /\ \A w \in Worker : \A e \in locked[w] : status[e] = "pending"

OneHolderOf(e) == \A v, w \in Worker : e \in claim[v] /\ e \in claim[w] => v = w

Alone ==
    \A e \in Event : met[e] = 0 =>
        OneHolderOf(e) /\ (Held(e) => status[e] = "processing")

Unshared ==
    \A e \in Event \ shared :
        OneHolderOf(e) /\ (Held(e) => status[e] \in {"pending", "processing"})

RowsOK ==
    \A e \in Event : met[e] = 0 =>
        /\ status[e] = "absent" => attempts[e] = 0 /\ tries[e] = 0
        /\ status[e] = "pending" => attempts[e] < MaxAttempts /\ tries[e] = attempts[e]
        /\ status[e] = "processing" =>
              attempts[e] < MaxAttempts /\ tries[e] \in {attempts[e], attempts[e] + 1}
        /\ status[e] = "done" => attempts[e] < MaxAttempts /\ tries[e] = attempts[e] + 1
        /\ status[e] = "dead" => attempts[e] = MaxAttempts /\ tries[e] = MaxAttempts

ClaimsOK ==
    \A w \in Worker : \A e \in claim[w] : met[e] = 0 =>
        /\ IsCurrent(w, e) /\ InFlight(w) => tries[e] = attempts[e] + 1
        /\ ~(IsCurrent(w, e) /\ InFlight(w)) => tries[e] = attempts[e]
        /\ IsCurrent(w, e) /\ stage[w] = "failing" => read[w] = attempts[e]

IInv ==
    /\ Types
    /\ StagesOK
    /\ LocksOK
    /\ Alone
    /\ Unshared
    /\ RowsOK
    /\ ClaimsOK
    /\ ExclusiveClaim

-----------------------------------------------------------------------------

(* A batch has at most one current event.                                  *)
LEMMA CurrentIsUnique ==
    ASSUME NEW w \in Worker, NEW e \in Event, NEW f \in Event,
           IsCurrent(w, e), IsCurrent(w, f)
    PROVE  e = f
  BY OutboxAssumption DEF IsCurrent

LEMMA Finite ==
    ASSUME NEW S \in SUBSET Event
    PROVE  /\ IsFiniteSet(S) /\ Cardinality(S) \in Nat
           /\ \A T \in SUBSET S : Cardinality(T) \in Nat /\ Cardinality(T) <= Cardinality(S)
  BY OutboxAssumption, FS_Subset, FS_CardinalityType

LEMMA HoldersAreFew ==
    ASSUME NEW e \in Event
    PROVE  /\ IsFiniteSet(Holders(e)) /\ Cardinality(Holders(e)) \in Nat
           /\ (\A w \in Worker : e \notin claim[w]) => Cardinality(Holders(e)) = 0
  <1>1. Holders(e) \subseteq Worker
    BY DEF Holders
  <1>2. (\A w \in Worker : e \notin claim[w]) => Holders(e) = {}
    BY DEF Holders
  <1> QED BY <1>1, <1>2, OutboxAssumption, FS_Subset, FS_CardinalityType, FS_EmptySet

LEMMA InitIInv == Init => IInv
  <1> SUFFICES ASSUME Init PROVE IInv
    OBVIOUS
  <1>1. \A e \in Event : ~Held(e) /\ Cardinality(Holders(e)) = 0
    BY HoldersAreFew DEF Init, Held, Holders
  <1>2. Types /\ StagesOK /\ LocksOK /\ RowsOK /\ ClaimsOK
    BY OutboxAssumption DEF Init, Types, StagesOK, LocksOK, RowsOK, ClaimsOK, Status, Stage
  <1>3. Alone /\ Unshared
    BY <1>1 DEF Init, Alone, Unshared, OneHolderOf
  <1>4. ExclusiveClaim
    BY <1>1 DEF Init, ExclusiveClaim
  <1> QED BY <1>2, <1>3, <1>4 DEF IInv

(* The inductive invariant implies the invariants that TLC checks.         *)
LEMMA IInvImplies == IInv => TypeOK /\ ExclusiveClaim /\ AttemptsAccounted
  <1> SUFFICES ASSUME IInv PROVE TypeOK /\ AttemptsAccounted
    BY DEF IInv
  <1>1. TypeOK
    BY OutboxAssumption DEF IInv, Types, TypeOK
  <1>2. AttemptsAccounted
    BY OutboxAssumption DEF IInv, Types, RowsOK, AttemptsAccounted
  <1> QED BY <1>1, <1>2

-----------------------------------------------------------------------------

Few(e) == Cardinality(Holders(e)) <= met[e] + (IF status[e] = "processing" THEN 1 ELSE 0)

(* The steps that give nobody a row and let no holder settle one.          *)
LEMMA NoNewHolders ==
    ASSUME IInv, Types', UNCHANGED <<met, shared>>,
           \A w \in Worker : claim'[w] \subseteq claim[w],
           \A e \in Event : \/ status'[e] = status[e]
                            \/ status[e] = "absent"
                            \/ status'[e] = "processing"
    PROVE  Alone' /\ Unshared' /\ ExclusiveClaim'
  <1> USE DEF IInv
  <1>1. ASSUME NEW e \in Event PROVE (Held(e)' => Held(e)) /\ (OneHolderOf(e) => OneHolderOf(e)')
    BY DEF Held, Holders, OneHolderOf
  <1>2. Alone'
    BY <1>1 DEF Alone
  <1>3. Unshared'
    BY <1>1 DEF Unshared
  <1>4. ASSUME NEW e \in Event PROVE Few(e)'
    <2>1. Few(e) /\ IsFiniteSet(Holders(e)) /\ Cardinality(Holders(e)) \in Nat
      BY HoldersAreFew DEF ExclusiveClaim, Few
    <2>2. Holders(e)' \subseteq Holders(e)
      BY DEF Holders
    <2>3. Cardinality(Holders(e)') \in Nat /\ Cardinality(Holders(e)') <= Cardinality(Holders(e))
      BY <2>1, <2>2, FS_Subset, FS_CardinalityType
    <2>4. met[e] \in Nat /\ met'[e] = met[e]
      BY DEF Types
    <2>5. status[e] = "processing" => status'[e] = "processing"
      OBVIOUS
    <2> QED BY <2>1, <2>3, <2>4, <2>5 DEF Few
  <1>5. ExclusiveClaim'
    BY <1>4 DEF Few, ExclusiveClaim
  <1> QED BY <1>2, <1>3, <1>5

(* A worker that settles an event gives it up, whatever it makes of it.    *)
LEMMA SettledIsReleased ==
    ASSUME IInv, Types', UNCHANGED <<met, shared>>, NEW w \in Worker, NEW e \in Event,
           e \in claim[w], claim' = [claim EXCEPT ![w] = @ \ {e}],
           \A f \in Event \ {e} : status'[f] = status[f]
    PROVE  Alone' /\ Unshared' /\ ExclusiveClaim'
  <1> USE DEF IInv
  <1>1. \A v \in Worker : claim'[v] = IF v = w THEN claim[v] \ {e} ELSE claim[v]
    BY DEF Types
  <1>2. ASSUME NEW f \in Event PROVE (Held(f)' => Held(f)) /\ (OneHolderOf(f) => OneHolderOf(f)')
    BY <1>1 DEF Held, Holders, OneHolderOf
  <1>3. OneHolderOf(e) => ~Held(e)'
    BY <1>1 DEF Held, Holders, OneHolderOf
  <1>4. Alone'
    BY <1>2, <1>3 DEF Alone
  <1>5. Unshared'
    BY <1>2, <1>3 DEF Unshared
  <1>6. ASSUME NEW f \in Event PROVE Few(f)'
    <2>1. Few(f) /\ IsFiniteSet(Holders(f)) /\ Cardinality(Holders(f)) \in Nat
      BY HoldersAreFew DEF ExclusiveClaim, Few
    <2>2. met[f] \in Nat /\ met'[f] = met[f]
      BY DEF Types
    <2>3. CASE f = e
      <3>1. w \in Holders(e) /\ Holders(e)' = Holders(e) \ {w}
        BY <1>1 DEF Holders
      <3>2. Cardinality(Holders(e)') = Cardinality(Holders(e)) - 1
        BY <2>1, <2>3, <3>1, FS_RemoveElement
      <3> QED BY <2>1, <2>2, <2>3, <3>2 DEF Few
    <2>4. CASE f # e
      <3>1. Holders(f)' = Holders(f)
        BY <1>1, <2>4 DEF Holders
      <3> QED BY <2>1, <2>2, <2>4, <3>1 DEF Few
    <2> QED BY <2>3, <2>4
  <1>7. ExclusiveClaim'
    BY <1>6 DEF Few, ExclusiveClaim
  <1> QED BY <1>4, <1>5, <1>7

LEMMA PublishStep ==
    ASSUME IInv, NEW S \in SUBSET Event, Publish(S) PROVE IInv'
  <1> USE DEF IInv
  <1>1. Types' /\ StagesOK'
    BY DEF Publish, history, bounds, Types, Status, StagesOK
  <1>2. LocksOK' /\ RowsOK'
    BY OutboxAssumption DEF Publish, history, Types, LocksOK, RowsOK
  <1>3. ClaimsOK'
    BY DEF Publish, history, ClaimsOK, IsCurrent, InFlight
  <1>4. Alone' /\ Unshared' /\ ExclusiveClaim'
    BY <1>1, NoNewHolders DEF Publish, history
  <1> QED BY <1>1, <1>2, <1>3, <1>4

LEMMA FetchSelectStep ==
    ASSUME IInv, NEW w \in Worker, FetchSelect(w) PROVE IInv'
  <1> USE DEF IInv
  <1>1. PICK S \in SUBSET Event : S \subseteq Ready /\ locked' = [locked EXCEPT ![w] = S]
    BY DEF FetchSelect, FirstBatch
  <1>2. \A e \in S : status[e] = "pending" /\ \A v \in Worker : e \notin locked[v]
    BY <1>1 DEF Ready, Unlocked
  <1>3. /\ UNCHANGED <<status, attempts, due, claim, read, tries, met, shared,
                       crashes, dbErrors, revives>>
        /\ stage' = [stage EXCEPT ![w] = "fetching"]
        /\ stage[w] = "idle"
    BY DEF FetchSelect, rows, history, bounds
  <1>4. Types' /\ StagesOK'
    BY <1>1, <1>3 DEF Types, Stage, StagesOK
  <1>5. LocksOK'
    <2>1. ASSUME NEW u \in Worker, NEW v \in Worker, u # v
          PROVE  (locked[u] \cap locked[v] = {})'
      BY <1>1, <1>2, <2>1 DEF Types, LocksOK
    <2>2. ASSUME NEW v \in Worker, NEW e \in locked'[v] PROVE status'[e] = "pending"
      BY <1>1, <1>2, <1>3, <2>2 DEF Types, LocksOK
    <2> QED BY <2>1, <2>2 DEF LocksOK
  <1>6. Alone' /\ Unshared' /\ ExclusiveClaim'
    BY <1>3, <1>4, NoNewHolders
  <1>7. RowsOK'
    BY <1>3 DEF RowsOK
  <1>8. ClaimsOK'
    BY <1>3 DEF Types, StagesOK, ClaimsOK, IsCurrent, InFlight
  <1> QED BY <1>4, <1>5, <1>6, <1>7, <1>8

(* The two ways a fetch ends with its rows in 'processing': held by w, or  *)
(* by nobody new.                                                          *)
LEMMA FetchTakesRows ==
    ASSUME IInv, NEW w \in Worker,
           status' = [e \in Event |-> IF e \in locked[w] THEN "processing" ELSE status[e]],
           locked' = [locked EXCEPT ![w] = {}],
           UNCHANGED <<attempts, due, tries, met>>
    PROVE  LocksOK' /\ RowsOK'
  <1> USE DEF IInv
  <1>1. LocksOK'
    <2>1. ASSUME NEW u \in Worker, NEW v \in Worker, u # v
          PROVE  (locked[u] \cap locked[v] = {})'
      BY <2>1 DEF Types, LocksOK
    <2>2. ASSUME NEW v \in Worker, NEW e \in locked'[v] PROVE status'[e] = "pending"
      <3>1. v # w /\ e \in locked[v]
        BY <2>2 DEF Types
      <3>2. e \in Event /\ e \notin locked[w] /\ status[e] = "pending"
        BY <3>1 DEF Types, LocksOK
      <3> QED BY <3>2
    <2> QED BY <2>1, <2>2 DEF LocksOK
  <1>2. RowsOK'
    BY OutboxAssumption DEF Types, Status, LocksOK, RowsOK
  <1> QED BY <1>1, <1>2

LEMMA FetchCommitStep ==
    ASSUME IInv, NEW w \in Worker, FetchCommit(w) PROVE IInv'
  <1> USE DEF IInv
  <1>1. /\ stage[w] = "fetching" /\ claim[w] = {}
        /\ status' = [e \in Event |-> IF e \in locked[w] THEN "processing" ELSE status[e]]
        /\ claim' = [claim EXCEPT ![w] = locked[w]]
        /\ shared' = shared \cup {e \in locked[w] : Held(e)}
        /\ UNCHANGED <<met, tries, attempts>>
    BY DEF FetchCommit, StagesOK
  <1>2. LocksOK' /\ RowsOK'
    BY FetchTakesRows DEF FetchCommit
  <1>3. Types' /\ StagesOK'
    BY DEF FetchCommit, bounds, Types, Status, Stage, StagesOK
  <1>4. /\ locked[w] \in SUBSET Event
        /\ \A e \in locked[w] : status[e] = "pending" /\ (met[e] = 0 => ~Held(e))
    BY DEF Types, LocksOK, Alone
  <1>5. \A v \in Worker : claim'[v] = IF v = w THEN locked[w] ELSE claim[v]
    BY <1>1 DEF Types
  <1>6. ASSUME NEW e \in Event, e \in locked[w], ~Held(e) PROVE OneHolderOf(e)'
    BY <1>5, <1>6 DEF Held, Holders, OneHolderOf
  <1>7. ASSUME NEW e \in Event, e \notin locked[w]
        PROVE  /\ OneHolderOf(e) => OneHolderOf(e)'
               /\ Held(e)' => Held(e)
               /\ Holders(e)' = Holders(e) /\ status'[e] = status[e]
    BY <1>1, <1>5, <1>7 DEF Held, Holders, OneHolderOf
  <1>8. Alone'
    BY <1>1, <1>4, <1>6, <1>7 DEF Alone
  <1>9. Unshared'
    BY <1>1, <1>4, <1>6, <1>7 DEF Unshared
  <1>10. ASSUME NEW e \in Event PROVE Few(e)'
    <2>1. Few(e) /\ IsFiniteSet(Holders(e)) /\ Cardinality(Holders(e)) \in Nat
      BY HoldersAreFew DEF ExclusiveClaim, Few
    <2>2. met[e] \in Nat /\ met'[e] = met[e]
      BY <1>1 DEF Types
    <2>3. CASE e \in locked[w]
      <3>1. Holders(e)' = Holders(e) \cup {w} /\ w \notin Holders(e)
        BY <1>1, <1>5, <2>3 DEF Holders
      <3>2. Cardinality(Holders(e)') = Cardinality(Holders(e)) + 1
        BY <2>1, <3>1, FS_AddElement
      <3>3. status[e] = "pending" /\ status'[e] = "processing"
        BY <1>1, <1>4, <2>3
      <3> QED BY <2>1, <2>2, <3>2, <3>3 DEF Few
    <2>4. CASE e \notin locked[w]
      BY <1>7, <2>1, <2>2, <2>4 DEF Few
    <2> QED BY <2>3, <2>4
  <1>11. ExclusiveClaim'
    BY <1>10 DEF Few, ExclusiveClaim
  <1>12. ASSUME NEW v \in Worker, NEW e \in claim'[v], met'[e] = 0
         PROVE  /\ (IsCurrent(v, e) /\ InFlight(v))' => tries'[e] = attempts'[e] + 1
                /\ ~(IsCurrent(v, e) /\ InFlight(v))' => tries'[e] = attempts'[e]
                /\ (IsCurrent(v, e) /\ stage[v] = "failing")' => read'[v] = attempts'[e]
    <2>1. CASE v = w
      BY <1>1, <1>4, <1>12, <2>1 DEF FetchCommit, Types, RowsOK, InFlight
    <2>2. CASE v # w
      BY <1>12, <2>2 DEF FetchCommit, Types, ClaimsOK, IsCurrent, InFlight
    <2> QED BY <2>1, <2>2
  <1>13. ClaimsOK'
    BY <1>12 DEF ClaimsOK
  <1> QED BY <1>2, <1>3, <1>8, <1>9, <1>11, <1>13

LEMMA FetchFaultStep ==
    ASSUME IInv, NEW w \in Worker, FetchAbort(w) \/ FetchInDoubt(w) PROVE IInv'
  <1> USE DEF IInv
  <1>1. Types' /\ StagesOK'
    <2>1. /\ UNCHANGED <<attempts, due, claim, read, tries, met, shared, crashes, revives>>
          /\ locked' = [locked EXCEPT ![w] = {}] /\ stage' = [stage EXCEPT ![w] = "idle"]
          /\ stage[w] = "fetching" /\ dbErrors' \in 0..MaxDbErrors
      BY OutboxAssumption DEF FetchAbort, FetchInDoubt, rows, history, Types
    <2>2. status' \in [Event -> Status]
      BY DEF FetchAbort, FetchInDoubt, rows, Types, Status
    <2> QED BY <2>1, <2>2 DEF Types, Stage, StagesOK
  <1>2. UNCHANGED <<claim, met, shared>>
    BY DEF FetchAbort, FetchInDoubt, history
  <1>3. \A e \in Event : status'[e] = status[e] \/ status'[e] = "processing"
    BY DEF FetchAbort, FetchInDoubt, rows, Types
  <1>4. Alone' /\ Unshared' /\ ExclusiveClaim'
    BY <1>1, <1>2, <1>3, NoNewHolders
  <1>5. LocksOK' /\ RowsOK'
    <2>1. CASE FetchAbort(w)
      BY <2>1 DEF FetchAbort, rows, history, Types, LocksOK, RowsOK
    <2>2. CASE FetchInDoubt(w)
      BY <2>2, FetchTakesRows DEF FetchInDoubt, history
    <2> QED BY <2>1, <2>2
  <1>6. ClaimsOK'
    BY <1>2 DEF FetchAbort, FetchInDoubt, rows, history, Types, StagesOK, ClaimsOK,
                IsCurrent, InFlight
  <1> QED BY <1>1, <1>4, <1>5, <1>6

(* A worker's own step on its current event is nobody else's business.     *)
LEMMA DispatchStep ==
    ASSUME IInv, NEW w \in Worker, Dispatch(w) PROVE IInv'
  <1> USE DEF IInv
  <1>1. PICK e \in Event :
          /\ IsCurrent(w, e)
          /\ tries' = [tries EXCEPT ![e] = @ + 1]
          /\ stage' = [stage EXCEPT ![w] = IF e \in Registered THEN "handling" ELSE "err"]
    BY DEF Dispatch
  <1>2. stage[w] = "next"
        /\ UNCHANGED <<status, attempts, due, locked, claim, read, met, shared,
                       crashes, dbErrors, revives>>
    BY DEF Dispatch, rows, bounds
  <1>3. Types' /\ StagesOK'
    BY <1>1, <1>2 DEF Types, Stage, StagesOK
  <1>4. Alone' /\ Unshared' /\ ExclusiveClaim'
    BY <1>2, <1>3, NoNewHolders
  <1>5. e \in claim[w] /\ ~InFlight(w) /\ InFlight(w)' /\ stage'[w] # "failing"
    BY <1>1, <1>2 DEF IsCurrent, InFlight, Types
  <1>6. LocksOK' /\ RowsOK'
    BY <1>1, <1>2, <1>5 DEF Types, LocksOK, Alone, Held, Holders, RowsOK, ClaimsOK
  <1>7. ASSUME NEW v \in Worker, NEW f \in claim'[v], met'[f] = 0
        PROVE  /\ (IsCurrent(v, f) /\ InFlight(v))' => tries'[f] = attempts'[f] + 1
               /\ ~(IsCurrent(v, f) /\ InFlight(v))' => tries'[f] = attempts'[f]
               /\ (IsCurrent(v, f) /\ stage[v] = "failing")' => read'[v] = attempts'[f]
    <2>1. f \in Event /\ f \in claim[v] /\ met[f] = 0 /\ (IsCurrent(v, f)' <=> IsCurrent(v, f))
      BY <1>2, <1>7 DEF Types, IsCurrent
    <2>2. CASE v = w
      <3>1. IsCurrent(w, f) => f = e
        BY <1>1, CurrentIsUnique, <2>1
      <3>2. f # e => tries'[f] = tries[f]
        BY <1>1, <2>1 DEF Types
      <3>3. tries[f] = attempts[f]
        BY <1>5, <2>1, <2>2 DEF ClaimsOK
      <3>4. tries'[e] = tries[e] + 1
        BY <1>1 DEF Types
      <3> QED BY <1>1, <1>2, <1>5, <2>1, <2>2, <3>1, <3>2, <3>3, <3>4
    <2>3. CASE v # w
      <3>1. f # e
        BY <1>5, <2>1, <2>3 DEF Alone, OneHolderOf
      <3>2. tries'[f] = tries[f] /\ (InFlight(v)' <=> InFlight(v)) /\ stage'[v] = stage[v]
        BY <1>1, <2>1, <2>3, <3>1 DEF Types, InFlight
      <3> QED BY <1>2, <2>1, <3>2 DEF ClaimsOK
    <2> QED BY <2>2, <2>3
  <1>8. ClaimsOK'
    BY <1>7 DEF ClaimsOK
  <1> QED BY <1>3, <1>4, <1>6, <1>8

LEMMA VerdictStep ==
    ASSUME IInv, NEW w \in Worker,
           ReadAttempts(w) \/ \E verdict \in {"ok", "err"} : HandlerReturns(w, verdict)
    PROVE  IInv'
  <1> USE DEF IInv
  <1>1. /\ UNCHANGED <<status, attempts, due, locked, claim, tries, met, shared,
                       crashes, dbErrors, revives>>
        /\ \A v \in Worker : InFlight(v)' <=> InFlight(v)
    BY DEF ReadAttempts, HandlerReturns, rows, history, bounds, Types, InFlight
  <1>2. Types' /\ StagesOK'
    BY DEF ReadAttempts, HandlerReturns, rows, history, bounds, Types, Stage, StagesOK
  <1>3. Alone' /\ Unshared' /\ ExclusiveClaim'
    BY <1>1, <1>2, NoNewHolders
  <1>4. LocksOK' /\ RowsOK'
    BY <1>1 DEF LocksOK, RowsOK
  <1>5. ASSUME NEW v \in Worker, NEW f \in claim[v], met[f] = 0,
               IsCurrent(v, f), stage'[v] = "failing"
        PROVE  read'[v] = attempts[f]
    <2>1. f \in Event
      BY DEF Types
    <2>2. CASE v = w
      <3>1. ReadAttempts(w)
        BY <1>5, <2>2 DEF HandlerReturns, Types
      <3>2. PICK e \in Event : IsCurrent(w, e) /\ read' = [read EXCEPT ![w] = attempts[e]]
        BY <3>1 DEF ReadAttempts
      <3> QED BY <1>5, <2>1, <2>2, <3>2, CurrentIsUnique DEF Types
    <2>3. CASE v # w
      <3>1. stage'[v] = stage[v] /\ read'[v] = read[v]
        BY <2>3 DEF ReadAttempts, HandlerReturns, Types
      <3> QED BY <1>5, <3>1 DEF ClaimsOK
    <2> QED BY <2>2, <2>3
  <1>6. ClaimsOK'
    BY <1>1, <1>5 DEF ClaimsOK, IsCurrent
  <1> QED BY <1>2, <1>3, <1>4, <1>6

(* Going on in the batch leaves what is known of its other events.         *)
LEMMA AdvanceClaims ==
    ASSUME IInv, NEW w \in Worker, NEW e \in Event, IsCurrent(w, e), Advance(w, e),
           UNCHANGED <<tries, met>>, \A f \in Event \ {e} : attempts'[f] = attempts[f]
    PROVE  ClaimsOK'
  <1> USE DEF IInv
  <1>1. \A v \in Worker : claim'[v] = IF v = w THEN claim[v] \ {e} ELSE claim[v]
    BY DEF Advance, Types
  <1>2. ASSUME NEW v \in Worker, NEW f \in claim'[v], met'[f] = 0
        PROVE  /\ (IsCurrent(v, f) /\ InFlight(v))' => tries'[f] = attempts'[f] + 1
               /\ ~(IsCurrent(v, f) /\ InFlight(v))' => tries'[f] = attempts'[f]
               /\ (IsCurrent(v, f) /\ stage[v] = "failing")' => read'[v] = attempts'[f]
    <2>1. f \in claim[v] /\ f \in Event /\ met[f] = 0
      BY <1>1, <1>2 DEF Types
    <2>2. f # e
      <3>1. e \in claim[w] /\ OneHolderOf(f)
        BY <2>1 DEF IsCurrent, Alone
      <3>2. v = w => f # e
        BY <1>1, <1>2
      <3>3. v # w => f # e
        BY <2>1, <3>1 DEF OneHolderOf
      <3> QED BY <3>2, <3>3
    <2>3. attempts'[f] = attempts[f] /\ tries'[f] = tries[f]
      BY <2>1, <2>2
    <2>4. CASE v = w
      <3>1. ~InFlight(v)' /\ stage'[v] # "failing"
        BY <2>4 DEF Advance, Types, InFlight
      <3>2. ~IsCurrent(w, f)
        BY <2>1, <2>2, CurrentIsUnique
      <3> QED BY <2>1, <2>3, <2>4, <3>1, <3>2 DEF ClaimsOK
    <2>5. CASE v # w
      <3>1. claim'[v] = claim[v] /\ stage'[v] = stage[v] /\ read'[v] = read[v]
        BY <1>1, <2>5 DEF Advance, Types
      <3> QED BY <2>1, <2>3, <3>1 DEF ClaimsOK, IsCurrent, InFlight
    <2> QED BY <2>4, <2>5
  <1> QED BY <1>2 DEF ClaimsOK

LEMMA AdvanceTypes ==
    ASSUME IInv, NEW w \in Worker, NEW e \in Event, Advance(w, e), UNCHANGED locked,
           stage[w] # "fetching"
    PROVE  /\ claim' \in [Worker -> SUBSET Event] /\ stage' \in [Worker -> Stage]
           /\ read' \in [Worker -> Nat] /\ StagesOK'
  <1> USE DEF IInv
  <1>1. claim' \in [Worker -> SUBSET Event] /\ stage' \in [Worker -> Stage]
        /\ read' \in [Worker -> Nat]
    BY DEF Advance, Types, Stage
  <1>2. StagesOK'
    BY DEF Advance, Types, StagesOK
  <1> QED BY <1>1, <1>2

LEMMA MarkDoneStep ==
    ASSUME IInv, NEW w \in Worker, MarkDone(w) PROVE IInv'
  <1> USE DEF IInv
  <1>1. PICK e \in Event : /\ IsCurrent(w, e) /\ Unlocked(e)
                           /\ status' = [status EXCEPT ![e] = "done"]
                           /\ Advance(w, e)
    BY DEF MarkDone
  <1>2. stage[w] = "ok" /\ UNCHANGED <<attempts, due, locked, tries, met, shared,
                                       crashes, dbErrors, revives>>
    BY DEF MarkDone, history, bounds
  <1>3. Types' /\ StagesOK'
    BY <1>1, <1>2, AdvanceTypes DEF Types, Status
  <1>4. e \in claim[w] /\ claim' = [claim EXCEPT ![w] = @ \ {e}]
    BY <1>1 DEF IsCurrent, Advance
  <1>5. Alone' /\ Unshared' /\ ExclusiveClaim'
    BY <1>1, <1>2, <1>3, <1>4, SettledIsReleased DEF Types
  <1>6. LocksOK'
    BY <1>1, <1>2 DEF Types, Unlocked, LocksOK
  <1>7. met[e] = 0 => status[e] = "processing" /\ tries[e] = attempts[e] + 1
    BY <1>1, <1>2, <1>4 DEF Alone, Held, Holders, ClaimsOK, InFlight
  <1>8. RowsOK'
    BY <1>1, <1>2, <1>7 DEF Types, RowsOK
  <1>9. ClaimsOK'
    BY <1>1, <1>2, AdvanceClaims
  <1> QED BY <1>3, <1>5, <1>6, <1>8, <1>9

LEMMA MarkFailedStep ==
    ASSUME IInv, NEW w \in Worker, MarkFailed(w) PROVE IInv'
  <1> USE DEF IInv
  <1>1. PICK e \in Event :
          /\ IsCurrent(w, e) /\ Unlocked(e)
          /\ attempts' = [attempts EXCEPT ![e] = read[w] + 1]
          /\ \/ /\ read[w] + 1 >= MaxAttempts
                /\ status' = [status EXCEPT ![e] = "dead"]
                /\ UNCHANGED due
             \/ /\ read[w] + 1 < MaxAttempts
                /\ status' = [status EXCEPT ![e] = "pending"]
                /\ due' = [due EXCEPT ![e] = FALSE]
          /\ Advance(w, e)
    BY DEF MarkFailed
  <1>2. /\ stage[w] = "failing"
        /\ UNCHANGED <<locked, tries, met, shared, crashes, dbErrors, revives>>
    BY DEF MarkFailed, history, bounds
  <1>3. e \in claim[w] /\ claim' = [claim EXCEPT ![w] = @ \ {e}] /\ read[w] \in Nat
    BY <1>1 DEF IsCurrent, Advance, Types
  <1>4. met[e] = 0 => /\ status[e] = "processing" /\ tries[e] = attempts[e] + 1
                      /\ read[w] = attempts[e] /\ attempts[e] < MaxAttempts
    BY <1>1, <1>2, <1>3 DEF Alone, Held, Holders, ClaimsOK, RowsOK, InFlight
  <1>5. status' \in [Event -> Status] /\ \A f \in Event \ {e} : status'[f] = status[f]
    <2>1. status' = [status EXCEPT ![e] = "dead"] \/ status' = [status EXCEPT ![e] = "pending"]
      BY <1>1
    <2> QED BY <2>1 DEF Types, Status
  <1>6. attempts' \in [Event -> Nat] /\ due' \in [Event -> BOOLEAN]
        /\ \A f \in Event \ {e} : attempts'[f] = attempts[f]
    <2>1. due' = due \/ due' = [due EXCEPT ![e] = FALSE]
      BY <1>1
    <2>2. attempts' = [attempts EXCEPT ![e] = read[w] + 1]
      BY <1>1
    <2>3. due' \in [Event -> BOOLEAN]
      BY <2>1 DEF Types
    <2>4. attempts \in [Event -> Nat] /\ read[w] + 1 \in Nat
      BY <1>3 DEF Types
    <2> QED BY <2>2, <2>3, <2>4
  <1>7. Types' /\ StagesOK'
    <2>1. /\ claim' \in [Worker -> SUBSET Event] /\ stage' \in [Worker -> Stage]
          /\ read' \in [Worker -> Nat] /\ StagesOK'
      BY <1>1, <1>2, AdvanceTypes
    <2> QED BY <1>2, <1>5, <1>6, <2>1 DEF Types
  <1>8. Alone' /\ Unshared' /\ ExclusiveClaim'
    <2>1. UNCHANGED <<met, shared>>
      BY <1>2
    <2> QED BY <1>3, <1>5, <1>7, <2>1, SettledIsReleased
  <1>9. LocksOK'
    BY <1>1, <1>2, <1>5 DEF Types, Unlocked, LocksOK
  <1>10. RowsOK'
    <2> SUFFICES ASSUME NEW f \in Event, met[f] = 0
                 PROVE  (/\ status[f] = "absent" => attempts[f] = 0 /\ tries[f] = 0
                         /\ status[f] = "pending" => attempts[f] < MaxAttempts /\ tries[f] = attempts[f]
                         /\ status[f] = "processing" =>
                               attempts[f] < MaxAttempts /\ tries[f] \in {attempts[f], attempts[f] + 1}
                         /\ status[f] = "done" => attempts[f] < MaxAttempts /\ tries[f] = attempts[f] + 1
                         /\ status[f] = "dead" => attempts[f] = MaxAttempts /\ tries[f] = MaxAttempts)'
      BY <1>2 DEF RowsOK
    <2>1. CASE f = e
      BY <1>1, <1>2, <1>3, <1>4, <2>1, OutboxAssumption DEF Types
    <2>2. CASE f # e
      BY <1>2, <1>5, <1>6, <2>2 DEF RowsOK
    <2> QED BY <2>1, <2>2
  <1>11. ClaimsOK'
    <2>1. UNCHANGED <<tries, met>>
      BY <1>2
    <2> QED BY <1>1, <1>6, <2>1, AdvanceClaims
  <1> QED BY <1>7, <1>8, <1>9, <1>10, <1>11

LEMMA MarkLostStep ==
    ASSUME IInv, NEW w \in Worker, MarkLost(w) PROVE IInv'
  <1> USE DEF IInv
  <1>1. PICK e \in Event : IsCurrent(w, e) /\ Advance(w, e)
    BY DEF MarkLost
  <1>2. /\ stage[w] # "fetching" /\ dbErrors < MaxDbErrors /\ dbErrors' = dbErrors + 1
        /\ UNCHANGED <<status, attempts, due, locked, tries, met, shared, crashes, revives>>
    BY DEF MarkLost, rows, history
  <1>3. Types' /\ StagesOK'
    BY <1>1, <1>2, AdvanceTypes, OutboxAssumption DEF Types
  <1>4. \A v \in Worker : claim'[v] \subseteq claim[v]
    BY <1>1 DEF Advance, Types
  <1>5. Alone' /\ Unshared' /\ ExclusiveClaim'
    BY <1>2, <1>3, <1>4, NoNewHolders
  <1>6. LocksOK' /\ RowsOK'
    BY <1>2 DEF LocksOK, RowsOK
  <1>7. ClaimsOK'
    BY <1>1, <1>2, AdvanceClaims
  <1> QED BY <1>3, <1>5, <1>6, <1>7

LEMMA BackoffElapsedStep ==
    ASSUME IInv, NEW e \in Event, BackoffElapsed(e) PROVE IInv'
  <1> USE DEF IInv
  <1>1. UNCHANGED <<status, attempts, locked, claim, stage, read, tries, met, shared,
                    crashes, dbErrors, revives>>
    BY DEF BackoffElapsed, history, bounds
  <1>2. Types' /\ StagesOK' /\ LocksOK' /\ RowsOK'
    BY <1>1 DEF BackoffElapsed, Types, StagesOK, LocksOK, RowsOK
  <1>3. Alone' /\ Unshared' /\ ExclusiveClaim'
    BY <1>1, <1>2, NoNewHolders
  <1>4. ClaimsOK'
    BY <1>1 DEF ClaimsOK, IsCurrent, InFlight
  <1> QED BY <1>2, <1>3, <1>4

LEMMA CrashStep ==
    ASSUME IInv, NEW w \in Worker, Crash(w) PROVE IInv'
  <1> USE DEF IInv
  <1>1. /\ UNCHANGED <<status, attempts, due, tries, met, shared, dbErrors, revives>>
        /\ claim' = [claim EXCEPT ![w] = {}] /\ locked' = [locked EXCEPT ![w] = {}]
        /\ stage' = [stage EXCEPT ![w] = "idle"] /\ read' = [read EXCEPT ![w] = 0]
    BY DEF Crash, rows, history
  <1>2. Types' /\ StagesOK'
    BY <1>1, OutboxAssumption DEF Crash, Types, Stage, StagesOK
  <1>3. Alone' /\ Unshared' /\ ExclusiveClaim'
    BY <1>1, <1>2, NoNewHolders DEF Types
  <1>4. LocksOK' /\ RowsOK'
    BY <1>1 DEF Types, LocksOK, RowsOK
  <1>5. ASSUME NEW v \in Worker, NEW f \in claim'[v]
        PROVE  v # w /\ claim'[v] = claim[v] /\ stage'[v] = stage[v] /\ read'[v] = read[v]
    BY <1>1 DEF Types
  <1>6. ClaimsOK'
    BY <1>1, <1>5 DEF ClaimsOK, IsCurrent, InFlight
  <1> QED BY <1>2, <1>3, <1>4, <1>6

LEMMA ReviveStep ==
    ASSUME IInv, Revive PROVE IInv'
  <1> USE DEF IInv
  <1>1. PICK S \in SUBSET Event :
            Reset(S) /\ \A e \in S : status[e] \in {"processing", "dead"}
    BY OutboxAssumption DEF Revive
  <1>2. UNCHANGED <<locked, claim, stage, read, shared, crashes, dbErrors>>
        /\ revives' = revives + 1 /\ revives < MaxRevives
    BY <1>1 DEF Reset
  <1>3. ASSUME NEW e \in S
        PROVE  /\ status'[e] = "pending" /\ attempts'[e] = 0 /\ tries'[e] = 0
               /\ met'[e] = IF Held(e) THEN met[e] + 1 ELSE 0
    BY <1>1 DEF Reset
  <1>4. ASSUME NEW e \in Event \ S
        PROVE  /\ status'[e] = status[e] /\ attempts'[e] = attempts[e] /\ tries'[e] = tries[e]
               /\ met'[e] = met[e]
    BY <1>1 DEF Reset
  <1>5. Types' /\ StagesOK'
    <2>1. met' \in [Event -> 0..revives']
      <3>1. met' = [e \in Event |-> met'[e]]
        BY <1>1 DEF Reset
      <3>2. \A e \in Event : met'[e] \in 0..revives'
        BY <1>2, <1>3, <1>4, OutboxAssumption DEF Types
      <3> QED BY <3>1, <3>2
    <2>2. status' \in [Event -> Status] /\ attempts' \in [Event -> Nat]
          /\ due' \in [Event -> BOOLEAN] /\ tries' \in [Event -> Nat]
      BY <1>1 DEF Reset, Types, Status
    <2> QED BY <1>2, <2>1, <2>2, OutboxAssumption DEF Types, StagesOK
  <1>6. LocksOK'
    BY <1>1, <1>2, <1>4 DEF Types, LocksOK
  <1>7. \A e \in Event : /\ Holders(e)' = Holders(e) /\ (Held(e)' <=> Held(e))
                         /\ (OneHolderOf(e)' <=> OneHolderOf(e))
    BY <1>2 DEF Held, Holders, OneHolderOf
  <1>8. Alone'
    <2> SUFFICES ASSUME NEW e \in Event, met'[e] = 0
                 PROVE  OneHolderOf(e)' /\ (Held(e)' => status'[e] = "processing")
      BY DEF Alone
    <2>1. CASE e \in S
      <3>1. ~Held(e)
        BY <1>3, <2>1 DEF Types
      <3> QED BY <1>7, <3>1 DEF Held, Holders, OneHolderOf
    <2>2. CASE e \notin S
      BY <1>4, <1>7, <2>2 DEF Alone
    <2> QED BY <2>1, <2>2
  <1>9. Unshared'
    BY <1>1, <1>2, <1>3, <1>4, <1>7 DEF Unshared
  <1>10. ASSUME NEW e \in Event PROVE Few(e)'
    <2>1. Few(e) /\ Cardinality(Holders(e)) \in Nat /\ met[e] \in Nat
          /\ (~Held(e) => Cardinality(Holders(e)) = 0)
      <3>1. Cardinality(Holders(e)) \in Nat /\ (~Held(e) => Cardinality(Holders(e)) = 0)
        BY HoldersAreFew DEF Held, Holders
      <3> QED BY <3>1 DEF ExclusiveClaim, Few, Types
    <2>2. CASE e \in S
      BY <1>3, <1>7, <2>1, <2>2 DEF Few
    <2>3. CASE e \notin S
      BY <1>4, <1>7, <2>1, <2>3 DEF Few
    <2> QED BY <2>2, <2>3
  <1>11. ExclusiveClaim'
    BY <1>10 DEF Few, ExclusiveClaim
  <1>12. RowsOK'
    <2>1. ASSUME NEW e \in S
          PROVE status'[e] = "pending" /\ attempts'[e] < MaxAttempts /\ tries'[e] = attempts'[e]
      BY <1>3, <2>1, OutboxAssumption
    <2> QED BY <1>4, <2>1 DEF RowsOK
  <1>13. ASSUME NEW w \in Worker, NEW e \in claim'[w], met'[e] = 0
         PROVE  e \in claim[w] /\ e \in Event \ S
    <2>1. e \in claim[w] /\ e \in Event
      BY <1>2, <1>13 DEF Types
    <2>2. Held(e) /\ met[e] \in Nat
      BY <2>1 DEF Held, Holders, Types
    <2> QED BY <1>3, <1>13, <2>1, <2>2
  <1>14. ClaimsOK'
    BY <1>2, <1>4, <1>13 DEF ClaimsOK, IsCurrent, InFlight
  <1> QED BY <1>5, <1>6, <1>8, <1>9, <1>11, <1>12, <1>14
-----------------------------------------------------------------------------

LEMMA NextPreservesIInv == IInv /\ [Next]_vars => IInv'
  <1> SUFFICES ASSUME IInv, [Next]_vars PROVE IInv'
    OBVIOUS
  <1>1. ASSUME NEW S \in SUBSET Event, Publish(S) PROVE IInv'
    BY <1>1, PublishStep
  <1>2. ASSUME NEW w \in Worker, WorkerStep(w) PROVE IInv'
    BY <1>2, FetchSelectStep, FetchCommitStep, DispatchStep, VerdictStep,
       MarkDoneStep, MarkFailedStep DEF WorkerStep
  <1>3. ASSUME NEW w \in Worker, WorkerFault(w) PROVE IInv'
    BY <1>3, FetchFaultStep, MarkLostStep, CrashStep DEF WorkerFault
  <1>4. ASSUME NEW e \in Event, BackoffElapsed(e) PROVE IInv'
    BY <1>4, BackoffElapsedStep
  <1>5. CASE Revive
    BY <1>5, ReviveStep
  <1>6. CASE UNCHANGED vars
    BY <1>6 DEF vars, IInv, Types, StagesOK, LocksOK, Alone, Unshared, RowsOK,
                ClaimsOK, ExclusiveClaim, OneHolderOf, Held, Holders, IsCurrent, InFlight,
                rows, history, bounds
  <1> QED BY <1>1, <1>2, <1>3, <1>4, <1>5, <1>6 DEF Next

THEOREM Inductive == Spec => []IInv
  <1> QED BY InitIInv, NextPreservesIInv, PTL DEF Spec

(***************************************************************************)
(* Every variable keeps its type.                                          *)
(***************************************************************************)
THEOREM TypeCorrect == Spec => []TypeOK
  <1> QED BY Inductive, IInvImplies, PTL

(***************************************************************************)
(* No event is ever in the hands of two workers, and a held event is       *)
(* marked 'processing': each time the operator puts a held event back      *)
(* costs one hand more, and no more.                                       *)
(***************************************************************************)
THEOREM ClaimsAreExclusive == Spec => []ExclusiveClaim
  <1> QED BY Inductive, IInvImplies, PTL

(***************************************************************************)
(* The attempts column accounts for every execution: dead after exactly    *)
(* MaxAttempts of them, done only after one, waiting only with one to go,  *)
(* of every event that was not put back in somebody's hands.               *)
(***************************************************************************)
THEOREM AttemptsAreAccounted == Spec => []AttemptsAccounted
  <1> QED BY Inductive, IInvImplies, PTL

(***************************************************************************)
(* A delivered event is never taken out of 'done', unless two workers had  *)
(* it at once.                                                             *)
(***************************************************************************)
THEOREM DoneStaysDone == Spec => DoneIsFinal
  <1> DEFINE Stays == \A e \in Event \ shared : status[e] = "done" => status'[e] = "done"
  <1>1. IInv /\ [Next]_vars => [Stays]_vars
    <2> SUFFICES ASSUME IInv, Next PROVE Stays
      OBVIOUS
    <2> USE DEF IInv, Types
    <2>1. ASSUME NEW S \in SUBSET Event, Publish(S) PROVE Stays
      BY <2>1 DEF Publish
    <2>2. ASSUME NEW w \in Worker, WorkerStep(w) PROVE Stays
      <3>1. CASE FetchSelect(w) \/ Dispatch(w) \/ ReadAttempts(w)
                 \/ \E v \in {"ok", "err"} : HandlerReturns(w, v)
        BY <3>1 DEF FetchSelect, Dispatch, ReadAttempts, HandlerReturns, rows
      <3>2. CASE FetchCommit(w)
        BY <3>2 DEF FetchCommit, LocksOK
      <3>3. CASE MarkDone(w) \/ MarkFailed(w)
        BY <3>3 DEF MarkDone, MarkFailed, IsCurrent, Unshared, Held, Holders
      <3> QED BY <2>2, <3>1, <3>2, <3>3 DEF WorkerStep
    <2>3. ASSUME NEW w \in Worker, WorkerFault(w) PROVE Stays
      BY <2>3 DEF WorkerFault, FetchAbort, FetchInDoubt, MarkLost, Crash, rows, LocksOK
    <2>4. ASSUME NEW e \in Event, BackoffElapsed(e) PROVE Stays
      BY <2>4 DEF BackoffElapsed
    <2>5. CASE Revive
      BY <2>5 DEF Revive, Reset
    <2> QED BY <2>1, <2>2, <2>3, <2>4, <2>5 DEF Next
  <1> QED BY <1>1, Inductive, PTL DEF Spec, DoneIsFinal
-----------------------------------------------------------------------------
(***************************************************************************)
(* Outbox implements JobQueue.                                             *)
(***************************************************************************)
Phases == [e \in Event |-> Phase(e)]
Counts == [e \in Event |-> Counted(e)]

(* The phase of an event depends on its row and on who holds it; that of a *)
(* contested one on neither.                                               *)
LEMMA SamePhase ==
    ASSUME NEW e \in Event, met[e] \in Nat, met'[e] = met[e],
           \/ met[e] # 0
           \/ status'[e] = status[e] /\ (Held(e)' <=> Held(e)) /\ (Trying(e)' <=> Trying(e))
    PROVE  Phase(e)' = Phase(e)
  <1>1. CASE met[e] # 0
    BY <1>1 DEF Phase
  <1>2. CASE met[e] = 0
    BY <1>2 DEF Phase
  <1> QED BY <1>1, <1>2

LEMMA SamePhases ==
    ASSUME IInv, UNCHANGED <<status, claim, met>>,
           \A w \in Worker : InFlight(w)' <=> InFlight(w)
    PROVE  Phases' = Phases
  <1>1. ASSUME NEW e \in Event PROVE Phase(e)' = Phase(e)
    <2>1. Held(e)' <=> Held(e)
      BY DEF Held, Holders
    <2>2. Trying(e)' <=> Trying(e)
      BY DEF Trying, IsCurrent
    <2> QED BY <2>1, <2>2, SamePhase DEF IInv, Types
  <1> QED BY <1>1 DEF Phases

LEMMA SameCounts ==
    ASSUME IInv, UNCHANGED met, \A e \in Event : met[e] = 0 => tries'[e] = tries[e]
    PROVE  Counts' = Counts
  BY DEF IInv, Types, Counts, Counted

LEMMA TriedIsHeld == \A e \in Event : Trying(e) => Held(e)
  BY DEF Trying, Held, Holders, IsCurrent

(* Advance gives the current event up and leaves all others as they were.  *)
LEMMA AdvanceReleases ==
    ASSUME IInv, NEW w \in Worker, NEW e \in Event,
           IsCurrent(w, e), InFlight(w), Advance(w, e)
    PROVE  /\ met[e] = 0 => /\ status[e] = "processing" /\ Trying(e)
                            /\ ~Held(e)' /\ ~Trying(e)'
           /\ \A f \in Event \ {e} : (Held(f)' <=> Held(f)) /\ (Trying(f)' <=> Trying(f))
  <1> USE DEF IInv
  <1>1. e \in claim[w] /\ \A v \in Worker : claim'[v] = IF v = w THEN claim[v] \ {e} ELSE claim[v]
    BY DEF IsCurrent, Advance, Types
  <1>2. ASSUME met[e] = 0
        PROVE  status[e] = "processing" /\ Trying(e) /\ ~Held(e)' /\ ~Trying(e)'
    <2>1. status[e] = "processing" /\ Trying(e) /\ OneHolderOf(e)
      BY <1>1, <1>2 DEF Alone, Held, Holders, Trying
    <2>2. \A v \in Worker : e \notin claim'[v]
      BY <1>1, <2>1 DEF OneHolderOf
    <2> QED BY <2>1, <2>2 DEF Held, Holders, Trying, IsCurrent
  <1>3. \A v \in Worker : v # w => claim'[v] = claim[v] /\ stage'[v] = stage[v]
    BY <1>1 DEF Advance, Types
  <1>4. ~InFlight(w)'
    BY DEF Advance, Types, InFlight
  <1>5. ASSUME NEW f \in Event \ {e} PROVE (Held(f)' <=> Held(f)) /\ (Trying(f)' <=> Trying(f))
    <2>1. Held(f)' <=> Held(f)
      BY <1>1 DEF Held, Holders
    <2>2. ~IsCurrent(w, f)
      BY CurrentIsUnique
    <2>3. Trying(f)' <=> \E v \in Worker : v # w /\ IsCurrent(v, f)' /\ InFlight(v)'
      BY <1>4 DEF Trying
    <2>4. \A v \in Worker : v # w => (IsCurrent(v, f)' <=> IsCurrent(v, f)) /\ (InFlight(v)' <=> InFlight(v))
      BY <1>3 DEF IsCurrent, InFlight
    <2>5. Trying(f)' <=> Trying(f)
      BY <2>2, <2>3, <2>4 DEF Trying
    <2> QED BY <2>1, <2>5
  <1> QED BY <1>2, <1>5

(* Settling the current event moves it and only it to the phase of its row, *)
(* and a contested one nowhere.                                            *)
LEMMA SettlePhases ==
    ASSUME IInv, NEW w \in Worker, NEW e \in Event,
           IsCurrent(w, e), InFlight(w), Advance(w, e), UNCHANGED <<tries, met>>,
           \A f \in Event \ {e} : status'[f] = status[f]
    PROVE  /\ met[e] = 0 =>
                 /\ Phases[e] = "trying" /\ Counts[e] = tries[e]
                 /\ Phases' = [f \in Event |-> IF f \in {e} THEN Phase(e)' ELSE Phases[f]]
           /\ met[e] # 0 => Phases' = Phases
           /\ Counts' = Counts
  <1>1. \A f \in Event : met[f] \in Nat /\ met'[f] = met[f]
    BY DEF IInv, Types
  <1>2. met[e] = 0 => Phases[e] = "trying" /\ Counts[e] = tries[e]
    BY AdvanceReleases DEF Phases, Phase, Counts, Counted
  <1>3. ASSUME NEW f \in Event \ {e} PROVE Phase(f)' = Phase(f)
    BY <1>1, AdvanceReleases, SamePhase
  <1>4. ASSUME met[e] # 0 PROVE Phases' = Phases
    <2>1. Phase(e)' = Phase(e)
      BY <1>1, <1>4, SamePhase
    <2> QED BY <1>3, <2>1 DEF Phases
  <1> QED BY <1>2, <1>3, <1>4, SameCounts DEF Phases

LEMMA InitRefines == Init => JQ!Init
  <1> SUFFICES ASSUME Init PROVE JQ!Init
    OBVIOUS
  <1>1. \A e \in Event : Phase(e) = "new" /\ Counted(e) = 0
    BY DEF Init, Phase, Counted
  <1> QED BY <1>1 DEF JQ!Init

LEMMA PublishRefines ==
    ASSUME IInv, NEW S \in SUBSET Event, Publish(S) PROVE \E D \in SUBSET Event : JQ!Submit(D)
  <1> DEFINE D == {e \in S : met[e] = 0}
  <1>1. /\ UNCHANGED <<claim, stage, tries, met>>
        /\ \A e \in S : status[e] = "absent" /\ status'[e] = "pending"
        /\ \A e \in Event \ S : status'[e] = status[e]
    BY DEF Publish, history
  <1>2. ASSUME NEW e \in Event PROVE Phase(e)' = IF e \in D THEN "waiting" ELSE Phase(e)
    <2>1. CASE e \in D
      BY <1>1, <2>1 DEF Phase
    <2>2. CASE e \notin D
      <3>1. (Held(e)' <=> Held(e)) /\ (Trying(e)' <=> Trying(e))
        BY <1>1 DEF Held, Holders, Trying, IsCurrent, InFlight
      <3> QED BY <1>1, <2>2, <3>1, SamePhase DEF IInv, Types
    <2> QED BY <2>1, <2>2
  <1>3. \A e \in D : Phases[e] = "new"
    BY <1>1 DEF Phase, Phases
  <1>4. Counts' = Counts
    BY <1>1, SameCounts
  <1>5. D \in SUBSET Event
    OBVIOUS
  <1> HIDE DEF D
  <1> QED BY <1>2, <1>3, <1>4, <1>5 DEF JQ!Submit, JQ!Move, Phases, Counts

(* FetchCommit and FetchInDoubt: the locked rows go to 'held', or are lost. *)
LEMMA FetchPhases ==
    ASSUME IInv, NEW w \in Worker, stage[w] = "fetching", stage'[w] \in {"next", "idle"},
           status' = [e \in Event |-> IF e \in locked[w] THEN "processing" ELSE status[e]],
           claim'[w] \in {locked[w], {}}, UNCHANGED <<tries, met>>,
           \A v \in Worker \ {w} : claim'[v] = claim[v] /\ stage'[v] = stage[v],
           NEW D, D = {e \in locked[w] : met[e] = 0}
    PROVE  /\ D \in SUBSET Event
           /\ \A e \in D : Phases[e] = "waiting"
           /\ Phases' = [e \in Event |-> IF e \in D
                 THEN IF claim'[w] = locked[w] THEN "held" ELSE "stranded" ELSE Phases[e]]
           /\ Counts' = Counts
  <1> USE DEF IInv
  <1>1. locked[w] \in SUBSET Event /\ \A e \in locked[w] : status[e] = "pending"
    BY DEF Types, LocksOK
  <1>2. \A e \in D : Phases[e] = "waiting"
    BY <1>1 DEF Phase, Phases
  <1>3. ~InFlight(w) /\ ~InFlight(w)' /\ claim[w] = {}
    BY DEF InFlight, StagesOK
  <1>4. ASSUME NEW e \in D
        PROVE  Phase(e)' = IF claim'[w] = locked[w] THEN "held" ELSE "stranded"
    <2>1. e \in Event /\ met'[e] = 0 /\ ~Held(e)
      BY <1>1 DEF Alone
    <2>2. \A v \in Worker \ {w} : e \notin claim'[v]
      BY <2>1 DEF Held, Holders
    <2>3. ~Trying(e)' /\ (Held(e)' <=> e \in claim'[w])
      BY <1>3, <2>2 DEF Trying, Held, Holders, IsCurrent
    <2>4. status'[e] = "processing" /\ (e \in claim'[w] <=> claim'[w] = locked[w])
      BY <1>1
    <2> QED BY <2>1, <2>3, <2>4 DEF Phase
  <1>5. ASSUME NEW e \in Event \ D PROVE Phase(e)' = Phase(e)
    <2>1. met[e] \in Nat /\ met'[e] = met[e]
      BY DEF Types
    <2>2. CASE e \in locked[w]
      BY <2>1, <2>2, SamePhase
    <2>3. CASE e \notin locked[w]
      <3>1. Held(e)' <=> Held(e)
        BY <1>3, <2>3 DEF Held, Holders
      <3>2. Trying(e)' <=> Trying(e)
        BY <1>3 DEF Trying, IsCurrent, InFlight
      <3> QED BY <2>1, <2>3, <3>1, <3>2, SamePhase
    <2> QED BY <2>2, <2>3
  <1>6. Counts' = Counts
    BY SameCounts
  <1> QED BY <1>1, <1>2, <1>4, <1>5, <1>6 DEF Phases

LEMMA DispatchRefines ==
    ASSUME IInv, NEW w \in Worker, Dispatch(w)
    PROVE  (\E e \in Event : JQ!Try(e)) \/ UNCHANGED <<Phases, Counts>>
  <1> USE DEF IInv
  <1>1. PICK e \in Event :
          /\ IsCurrent(w, e)
          /\ tries' = [tries EXCEPT ![e] = @ + 1]
          /\ stage' = [stage EXCEPT ![w] = IF e \in Registered THEN "handling" ELSE "err"]
    BY DEF Dispatch
  <1>2. stage[w] = "next" /\ UNCHANGED <<status, claim, met>>
    BY DEF Dispatch, rows
  <1>3. ~InFlight(w) /\ InFlight(w)' /\ e \in claim[w]
    BY <1>1, <1>2 DEF Types, InFlight, IsCurrent
  <1>4. \A v \in Worker \ {w} : InFlight(v)' <=> InFlight(v)
    BY <1>1 DEF Types, InFlight
  <1>5. \A f \in Event : /\ met[f] \in Nat /\ met'[f] = met[f]
                         /\ f # e => tries'[f] = tries[f]
    BY <1>1, <1>2 DEF Types
  <1>6. ASSUME NEW f \in Event \ {e} PROVE Phase(f)' = Phase(f)
    <2>1. ~IsCurrent(w, f)
      BY <1>1, CurrentIsUnique
    <2>2. (Held(f)' <=> Held(f)) /\ (Trying(f)' <=> Trying(f))
      BY <1>2, <1>4, <2>1 DEF Held, Holders, Trying, IsCurrent
    <2> QED BY <1>2, <1>5, <2>2, SamePhase
  <1>7. CASE met[e] # 0
    <2>1. Phase(e)' = Phase(e)
      BY <1>5, <1>7, SamePhase
    <2>2. Counts' = Counts
      BY <1>2, <1>5, <1>7, SameCounts
    <2> QED BY <1>6, <2>1, <2>2 DEF Phases
  <1>8. CASE met[e] = 0
    <2>1. OneHolderOf(e) /\ Held(e) /\ status[e] = "processing"
      BY <1>3, <1>8 DEF Alone, Held, Holders
    <2>2. ~Trying(e)
      BY <1>3, <2>1 DEF Trying, IsCurrent, OneHolderOf
    <2>3. Trying(e)'
      BY <1>1, <1>2, <1>3 DEF Trying, IsCurrent
    <2>4. Phase(e) = "held" /\ Phase(e)' = "trying"
      BY <1>2, <1>5, <1>8, <2>1, <2>2, <2>3 DEF Phase
    <2>5. tries[e] < MaxAttempts /\ tries'[e] = tries[e] + 1
      BY <1>1, <1>3, <1>8, <2>1, OutboxAssumption DEF Types, ClaimsOK, RowsOK
    <2>6. Counts[e] < MaxAttempts
      BY <1>8, <2>5 DEF Counts, Counted
    <2>7. Counts' = [Counts EXCEPT ![e] = @ + 1]
      <3>1. Counted(e)' = Counted(e) + 1
        BY <1>5, <1>8, <2>5 DEF Counted
      <3>2. \A f \in Event \ {e} : Counted(f)' = Counted(f)
        BY <1>5 DEF Counted
      <3> QED BY <3>1, <3>2 DEF Counts
    <2>8. JQ!Try(e)
      BY <1>6, <2>4, <2>6, <2>7 DEF JQ!Try, JQ!Move, Counts
    <2> QED BY <2>8
  <1> QED BY <1>7, <1>8

LEMMA MarkRefines ==
    ASSUME IInv, NEW w \in Worker, MarkDone(w) \/ MarkFailed(w) \/ MarkLost(w)
    PROVE  \/ \E e \in Event : JQ!Finish(e) \/ JQ!GiveBack(e) \/ JQ!Bury(e) \/ JQ!Strand({e})
           \/ UNCHANGED <<Phases, Counts>>
  <1> USE DEF IInv
  <1>1. PICK e \in Event :
          /\ IsCurrent(w, e) /\ Advance(w, e)
          /\ \/ stage[w] = "ok" /\ status' = [status EXCEPT ![e] = "done"]
             \/ /\ stage[w] = "failing"
                /\ \/ read[w] + 1 >= MaxAttempts /\ status' = [status EXCEPT ![e] = "dead"]
                   \/ read[w] + 1 < MaxAttempts /\ status' = [status EXCEPT ![e] = "pending"]
             \/ UNCHANGED status
    BY DEF MarkDone, MarkFailed, MarkLost, rows
  <1>2. InFlight(w) /\ UNCHANGED <<tries, met>>
    BY DEF MarkDone, MarkFailed, MarkLost, InFlight, history
  <1>3. \A f \in Event \ {e} : status'[f] = status[f]
    BY <1>1 DEF Types
  <1>4. /\ met[e] = 0 =>
              /\ Phases[e] = "trying" /\ Counts[e] = tries[e]
              /\ Phases' = [f \in Event |-> IF f \in {e} THEN Phase(e)' ELSE Phases[f]]
        /\ met[e] # 0 => Phases' = Phases
        /\ Counts' = Counts
    <2>1. UNCHANGED tries /\ UNCHANGED met
      BY <1>2
    <2> QED BY <1>1, <1>2, <1>3, <2>1, SettlePhases
  <1>5. CASE met[e] # 0
    BY <1>4, <1>5
  <1>6. CASE met[e] = 0
    <2>1. /\ tries[e] = attempts[e] + 1 /\ attempts[e] \in Nat /\ attempts[e] < MaxAttempts
          /\ stage[w] = "failing" => read[w] = attempts[e]
      <3>1. e \in claim[w] /\ status[e] = "processing"
        BY <1>1, <1>6 DEF IsCurrent, Alone, Held, Holders
      <3> QED BY <1>1, <1>2, <1>6, <3>1 DEF Types, ClaimsOK, RowsOK
    <2>2. met'[e] = 0 /\ ~Held(e)' /\ ~Trying(e)' /\ status[e] = "processing"
      BY <1>1, <1>2, <1>6, AdvanceReleases
    <2>3. \/ Phase(e)' = "done" \/ Phase(e)' = "stranded"
          \/ Phase(e)' = "buried" /\ tries[e] = MaxAttempts
          \/ Phase(e)' = "waiting" /\ tries[e] < MaxAttempts
      <3>1. CASE UNCHANGED status
        BY <2>2, <3>1 DEF Phase
      <3>2. CASE status' = [status EXCEPT ![e] = "done"]
        BY <2>2, <3>2 DEF Phase, Types
      <3>3. CASE read[w] + 1 >= MaxAttempts /\ status' = [status EXCEPT ![e] = "dead"]
                 /\ stage[w] = "failing"
        <4>1. tries[e] = MaxAttempts
          BY <2>1, <3>3, OutboxAssumption
        <4> QED BY <2>2, <3>3, <4>1 DEF Phase, Types
      <3>4. CASE read[w] + 1 < MaxAttempts /\ status' = [status EXCEPT ![e] = "pending"]
                 /\ stage[w] = "failing"
        <4>1. tries[e] < MaxAttempts
          BY <2>1, <3>4, OutboxAssumption
        <4> QED BY <2>2, <3>4, <4>1 DEF Phase, Types
      <3> QED BY <1>1, <3>1, <3>2, <3>3, <3>4
    <2> QED BY <1>4, <1>6, <2>3
            DEF JQ!Finish, JQ!GiveBack, JQ!Bury, JQ!Strand, JQ!Move, Phases, Counts
  <1> QED BY <1>5, <1>6

LEMMA CrashRefines ==
    ASSUME IInv, NEW w \in Worker, Crash(w) PROVE \E D \in SUBSET Event : JQ!Strand(D)
  <1> USE DEF IInv
  <1> DEFINE D == {e \in claim[w] : met[e] = 0}
  <1>1. claim' = [claim EXCEPT ![w] = {}] /\ stage' = [stage EXCEPT ![w] = "idle"]
        /\ UNCHANGED <<status, tries, met>> /\ claim[w] \in SUBSET Event
        /\ \A e \in Event : met[e] \in Nat
    BY DEF Crash, rows, history, Types
  <1>2. ASSUME NEW e \in D PROVE Phase(e) \in {"held", "trying"} /\ Phase(e)' = "stranded"
    <2>1. e \in Event /\ Held(e) /\ status[e] = "processing" /\ OneHolderOf(e)
      BY <1>1 DEF Alone, Held, Holders
    <2>2. \A v \in Worker : e \notin claim'[v]
      BY <1>1, <2>1 DEF Types, OneHolderOf
    <2>3. ~Held(e)' /\ ~Trying(e)'
      BY <2>2 DEF Held, Holders, Trying, IsCurrent
    <2> QED BY <1>1, <2>1, <2>3 DEF Phase
  <1>3. ASSUME NEW e \in Event \ D PROVE Phase(e)' = Phase(e)
    <2>1. CASE e \in claim[w]
      BY <1>1, <2>1, SamePhase
    <2>2. CASE e \notin claim[w]
      <3>1. (Held(e)' <=> Held(e)) /\ (Trying(e)' <=> Trying(e))
        BY <1>1, <2>2 DEF Types, Held, Holders, Trying, IsCurrent, InFlight
      <3> QED BY <1>1, <3>1, SamePhase
    <2> QED BY <2>1, <2>2
  <1>4. Counts' = Counts
    BY <1>1, SameCounts
  <1>5. D \in SUBSET Event
    BY <1>1
  <1> HIDE DEF D
  <1> QED BY <1>2, <1>3, <1>4, <1>5 DEF JQ!Strand, JQ!Move, Phases, Counts

LEMMA ReviveRefines ==
    ASSUME IInv, Revive PROVE \E S, T \in SUBSET Event : JQ!Resubmit(S, T)
  <1> USE DEF IInv
  <1>1. PICK R \in SUBSET Event :
            Reset(R) /\ \A e \in R : status[e] \in {"processing", "dead"}
    BY OutboxAssumption DEF Revive
  <1> DEFINE S == {e \in R : ~Held(e)}
             T == {e \in R : Held(e)}
  <1>2. \A e \in Event : met[e] \in Nat
    BY DEF Types
  <1>3. ASSUME NEW e \in S
        PROVE  /\ Phase(e) \in {"buried", "stranded", "contested"}
               /\ Phase(e)' = "waiting" /\ Counted(e)' = 0
    <2>1. e \in Event /\ ~Held(e) /\ ~Trying(e)
      BY TriedIsHeld
    <2>2. met'[e] = 0 /\ status'[e] = "pending" /\ tries'[e] = 0
      BY <1>1 DEF Reset
    <2> QED BY <1>1, <1>2, <2>1, <2>2 DEF Phase, Counted
  <1>4. ASSUME NEW e \in T
        PROVE  /\ Phase(e) \in JQ!InHand
               /\ Phase(e)' = "contested" /\ Counted(e)' = 0
    <2>1. e \in Event /\ Held(e) /\ (met[e] = 0 => status[e] = "processing")
      BY DEF Alone
    <2>2. met'[e] > 0
      BY <1>1, <1>2, <2>1 DEF Reset
    <2> QED BY <1>2, <2>1, <2>2 DEF Phase, Counted, JQ!InHand
  <1>5. ASSUME NEW e \in Event \ R PROVE Phase(e)' = Phase(e) /\ Counted(e)' = Counted(e)
    <2>1. /\ status'[e] = status[e] /\ tries'[e] = tries[e] /\ met'[e] = met[e]
          /\ UNCHANGED <<claim, stage>>
      BY <1>1 DEF Reset
    <2>2. (Held(e)' <=> Held(e)) /\ (Trying(e)' <=> Trying(e))
      BY <2>1 DEF Held, Holders, Trying, IsCurrent, InFlight
    <2> QED BY <1>2, <2>1, <2>2, SamePhase DEF Counted
  <1>6. S \in SUBSET Event /\ T \in SUBSET Event /\ R = S \cup T /\ S \cap T = {}
    OBVIOUS
  <1> HIDE DEF S, T
  <1>7. Phases' = [e \in Event |-> IF e \in S THEN "waiting"
                                   ELSE IF e \in T THEN "contested" ELSE Phases[e]]
    BY <1>3, <1>4, <1>5, <1>6 DEF Phases
  <1>8. Counts' = [e \in Event |-> IF e \in S \cup T THEN 0 ELSE Counts[e]]
    BY <1>3, <1>4, <1>5, <1>6 DEF Counts
  <1>9. /\ \A e \in S : Phases[e] \in {"buried", "stranded", "contested"}
        /\ \A e \in T \ S : Phases[e] \in JQ!InHand
    BY <1>3, <1>4, <1>6 DEF Phases
  <1>10. JQ!Resubmit(S, T)
    BY <1>7, <1>8, <1>9 DEF JQ!Resubmit, Phases, Counts
  <1> QED BY <1>6, <1>10

(* Every step of table and workers is a step of the job queue or none.     *)
LEMMA NextRefines == IInv /\ [Next]_vars => [JQ!Next]_(JQ!vars)
  <1> SUFFICES ASSUME IInv, [Next]_vars PROVE JQ!Next \/ UNCHANGED JQ!vars
    OBVIOUS
  <1> USE DEF IInv
  <1>1. ASSUME UNCHANGED <<Phases, Counts>> PROVE UNCHANGED JQ!vars
    BY <1>1 DEF JQ!vars, Phases, Counts
  <1>2. ASSUME NEW S \in SUBSET Event, Publish(S) PROVE JQ!Next
    BY <1>2, PublishRefines DEF JQ!Next
  <1>3. ASSUME NEW w \in Worker, FetchCommit(w) \/ FetchInDoubt(w) PROVE JQ!Next
    <2> DEFINE D == {e \in locked[w] : met[e] = 0}
    <2>1. /\ stage[w] = "fetching" /\ stage'[w] \in {"next", "idle"}
          /\ status' = [e \in Event |-> IF e \in locked[w] THEN "processing" ELSE status[e]]
          /\ \A v \in Worker \ {w} : claim'[v] = claim[v] /\ stage'[v] = stage[v]
          /\ UNCHANGED <<tries, met>> /\ claim[w] = {}
      BY <1>3 DEF FetchCommit, FetchInDoubt, history, Types, StagesOK
    <2>2. claim'[w] = locked[w] \/ claim'[w] = {}
      BY <1>3, <2>1 DEF FetchCommit, FetchInDoubt, Types
    <2>3. /\ D \in SUBSET Event
          /\ \A e \in D : Phases[e] = "waiting"
          /\ Phases' = [e \in Event |-> IF e \in D
                THEN IF claim'[w] = locked[w] THEN "held" ELSE "stranded" ELSE Phases[e]]
          /\ Counts' = Counts
      <3>1. UNCHANGED tries /\ UNCHANGED met
        BY <2>1
      <3> QED BY <2>1, <2>2, <3>1, FetchPhases
    <2> HIDE DEF D
    <2>4. CASE claim'[w] = locked[w]
      <3>1. JQ!Take(D)
        BY <2>3, <2>4 DEF JQ!Take, JQ!Move, Phases, Counts
      <3> QED BY <2>3, <3>1 DEF JQ!Next
    <2>5. CASE claim'[w] # locked[w]
      <3>1. JQ!Strand(D)
        BY <2>3, <2>5 DEF JQ!Strand, JQ!Move, Phases, Counts
      <3> QED BY <2>3, <3>1 DEF JQ!Next
    <2> QED BY <2>4, <2>5
  <1>4. ASSUME NEW w \in Worker,
               \/ FetchSelect(w) \/ FetchAbort(w) \/ ReadAttempts(w)
               \/ \E verdict \in {"ok", "err"} : HandlerReturns(w, verdict)
        PROVE  UNCHANGED JQ!vars
    <2>1. \A v \in Worker : InFlight(v)' <=> InFlight(v)
      BY <1>4 DEF FetchSelect, FetchAbort, ReadAttempts, HandlerReturns, Types, InFlight
    <2>2. UNCHANGED <<status, claim, tries, met>>
      BY <1>4 DEF FetchSelect, FetchAbort, ReadAttempts, HandlerReturns, rows, history
    <2> QED BY <1>1, <2>1, <2>2, SamePhases, SameCounts
  <1>5. ASSUME NEW w \in Worker, WorkerStep(w) PROVE JQ!Next \/ UNCHANGED JQ!vars
    <2>1. CASE Dispatch(w)
      BY <1>1, <2>1, DispatchRefines DEF JQ!Next
    <2>2. CASE MarkDone(w) \/ MarkFailed(w)
      BY <1>1, <2>2, MarkRefines DEF JQ!Next
    <2> QED BY <1>3, <1>4, <1>5, <2>1, <2>2 DEF WorkerStep
  <1>6. ASSUME NEW w \in Worker, WorkerFault(w) PROVE JQ!Next \/ UNCHANGED JQ!vars
    <2>1. CASE MarkLost(w)
      BY <1>1, <2>1, MarkRefines DEF JQ!Next
    <2>2. CASE Crash(w)
      BY <2>2, CrashRefines DEF JQ!Next
    <2> QED BY <1>3, <1>4, <1>6, <2>1, <2>2 DEF WorkerFault
  <1>7. ASSUME NEW e \in Event, BackoffElapsed(e) PROVE UNCHANGED JQ!vars
    BY <1>1, <1>7, SamePhases, SameCounts DEF BackoffElapsed, history, InFlight
  <1>8. CASE Revive
    BY <1>8, ReviveRefines DEF JQ!Next
  <1>9. CASE UNCHANGED vars
    BY <1>1, <1>9, SamePhases, SameCounts DEF vars, rows, history, InFlight
  <1> QED BY <1>2, <1>5, <1>6, <1>7, <1>8, <1>9 DEF Next

(***************************************************************************)
(* Whatever fails, crashes or is revived, table and workers behave like    *)
(* the abstract job queue: an event is tried at most MaxAttempts times,    *)
(* only a tried one is finished, given back or buried, and finished ones   *)
(* never come back; only of an event put back in somebody's hands nothing  *)
(* is promised, until it is put back in nobody's.                          *)
(***************************************************************************)
THEOREM OutboxImplementsJobQueue == Spec => JobQueueSpec
  <1> QED BY InitRefines, NextRefines, Inductive, PTL DEF Spec, JobQueueSpec, JQ!Spec

-----------------------------------------------------------------------------
(* What faults cost *)

(* No transaction and no worker has more rows than a batch.                *)
SizesOK ==
    \A w \in Worker :
        Cardinality(locked[w]) <= BatchSize /\ Cardinality(claim[w]) <= BatchSize

CostInv == IInv /\ SizesOK /\ StrandedBound

LEMMA Numbers ==
    ASSUME IInv
    PROVE  /\ BatchSize \in Nat /\ BatchSize >= 1 /\ crashes \in Nat /\ dbErrors \in Nat
           /\ Stranded \in SUBSET Event /\ Cardinality(Stranded) \in Nat
  BY OutboxAssumption, Finite DEF IInv, Types, Stranded

(* A step that strands nothing costs nothing.                              *)
LEMMA NothingStranded ==
    ASSUME CostInv, Stranded' \subseteq Stranded, UNCHANGED <<crashes, dbErrors>>
    PROVE  StrandedBound'
  <1>1. Cardinality(Stranded') <= Cardinality(Stranded) /\ Cardinality(Stranded') \in Nat
    BY Numbers, Finite DEF CostInv
  <1> QED BY <1>1, Numbers DEF CostInv, StrandedBound

(* A fault pays for one batch.                                             *)
LEMMA BatchStranded ==
    ASSUME CostInv, NEW D \in SUBSET Event, Cardinality(D) <= BatchSize,
           Stranded' \subseteq Stranded \cup D,
           crashes' + dbErrors' = crashes + dbErrors + 1
    PROVE  StrandedBound'
  <1>1. /\ BatchSize \in Nat /\ crashes \in Nat /\ dbErrors \in Nat
        /\ Stranded \in SUBSET Event /\ Cardinality(Stranded) \in Nat
        /\ IsFiniteSet(Stranded) /\ IsFiniteSet(D) /\ Cardinality(D) \in Nat
    BY Numbers, Finite DEF CostInv
  <1>2. Cardinality(Stranded') <= Cardinality(Stranded \cup D) /\ Cardinality(Stranded') \in Nat
    BY <1>1, Finite
  <1>3. /\ Cardinality(Stranded \cup D)
             = Cardinality(Stranded) + Cardinality(D) - Cardinality(Stranded \cap D)
        /\ Cardinality(Stranded \cap D) \in Nat /\ Cardinality(Stranded \cup D) \in Nat
    BY <1>1, FS_Union, Finite
  <1>4. Cardinality(Stranded') <= Cardinality(Stranded) + BatchSize
    BY <1>1, <1>2, <1>3
  <1>5. BatchSize * (crashes + dbErrors + 1) = BatchSize * (crashes + dbErrors) + BatchSize
    BY <1>1
  <1> QED BY <1>1, <1>2, <1>4, <1>5 DEF CostInv, StrandedBound

(* Nobody loses hold of a row but the worker of the step.                  *)
LEMMA HeldByOthers ==
    ASSUME IInv, NEW w \in Worker, \A v \in Worker \ {w} : claim'[v] = claim[v],
           NEW e \in Event, Held(e), e \notin claim[w] \/ e \in claim'[w]
    PROVE  Held(e)'
  BY DEF Held, Holders

LEMMA StepKeepsBound ==
    ASSUME CostInv, Next PROVE StrandedBound'
  <1> USE DEF CostInv, IInv
  <1>1. ASSUME UNCHANGED claim, UNCHANGED <<crashes, dbErrors>>,
               \A e \in Event : status'[e] = "processing" => status[e] = "processing"
        PROVE  StrandedBound'
    <2>1. \A e \in Event : Held(e)' <=> Held(e)
      BY <1>1 DEF Held, Holders
    <2> QED BY <1>1, <2>1, NothingStranded DEF Stranded
  <1>2. ASSUME NEW S \in SUBSET Event, Publish(S) PROVE StrandedBound'
    BY <1>1, <1>2 DEF Publish, bounds
  <1>3. ASSUME NEW e \in Event, BackoffElapsed(e) PROVE StrandedBound'
    BY <1>1, <1>3 DEF BackoffElapsed, bounds
  <1>4. CASE Revive
    BY <1>1, <1>4 DEF Revive, Reset
  <1>5. ASSUME NEW w \in Worker, FetchSelect(w) \/ Dispatch(w) \/ ReadAttempts(w)
                                 \/ \E verdict \in {"ok", "err"} : HandlerReturns(w, verdict)
        PROVE  StrandedBound'
    BY <1>1, <1>5 DEF FetchSelect, Dispatch, ReadAttempts, HandlerReturns, rows, bounds
  <1>6. ASSUME NEW w \in Worker, FetchCommit(w) PROVE StrandedBound'
    <2>1. claim[w] = {} /\ claim'[w] = locked[w]
          /\ \A v \in Worker \ {w} : claim'[v] = claim[v]
      BY <1>6 DEF FetchCommit, StagesOK, Types
    <2>2. ASSUME NEW e \in Event, status'[e] = "processing", ~Held(e)'
          PROVE  status[e] = "processing" /\ ~Held(e)
      <3>1. e \notin locked[w]
        BY <2>1, <2>2 DEF Held, Holders
      <3> QED BY <1>6, <2>1, <2>2, <3>1, HeldByOthers DEF FetchCommit
    <2> QED BY <1>6, <2>2, NothingStranded DEF Stranded, FetchCommit, bounds
  <1>7. ASSUME NEW w \in Worker, NEW e \in Event, IsCurrent(w, e), Advance(w, e)
        PROVE  /\ e \in claim[w]
               /\ \A f \in Event \ {e} : ~Held(f)' => ~Held(f)
    <2>1. claim'[w] = claim[w] \ {e} /\ \A v \in Worker \ {w} : claim'[v] = claim[v]
      BY <1>7 DEF Advance, Types
    <2> QED BY <1>7, <2>1, HeldByOthers DEF IsCurrent
  <1>8. ASSUME NEW w \in Worker, MarkDone(w) \/ MarkFailed(w) PROVE StrandedBound'
    <2>1. PICK e \in Event : /\ IsCurrent(w, e) /\ Advance(w, e)
                             /\ status'[e] # "processing"
                             /\ \A f \in Event \ {e} : status'[f] = status[f]
      BY <1>8 DEF MarkDone, MarkFailed, Types
    <2>2. UNCHANGED <<crashes, dbErrors>>
      BY <1>8 DEF MarkDone, MarkFailed, bounds
    <2>3. Stranded' \subseteq Stranded
      BY <1>7, <2>1 DEF Stranded
    <2> QED BY <2>2, <2>3, NothingStranded
  <1>9. ASSUME NEW w \in Worker, MarkLost(w) PROVE StrandedBound'
    <2>1. PICK e \in Event : IsCurrent(w, e) /\ Advance(w, e)
      BY <1>9 DEF MarkLost
    <2>2. UNCHANGED <<status, crashes>> /\ dbErrors' = dbErrors + 1
      BY <1>9 DEF MarkLost, rows
    <2>3. Stranded' \subseteq Stranded \cup {e}
      BY <1>7, <2>1, <2>2 DEF Stranded
    <2>4. Cardinality({e}) = 1 /\ BatchSize >= 1
      BY FS_Singleton, Numbers
    <2> QED BY <2>2, <2>3, <2>4, BatchStranded, Numbers
  <1>10. ASSUME NEW w \in Worker, Crash(w) PROVE StrandedBound'
    <2>1. /\ UNCHANGED <<status, dbErrors>> /\ crashes' = crashes + 1
          /\ \A v \in Worker \ {w} : claim'[v] = claim[v]
      BY <1>10 DEF Crash, rows, Types
    <2>2. Stranded' \subseteq Stranded \cup claim[w]
      BY <2>1, HeldByOthers DEF Stranded
    <2>3. claim[w] \in SUBSET Event /\ Cardinality(claim[w]) <= BatchSize
      BY DEF Types, SizesOK
    <2> QED BY <2>1, <2>2, <2>3, BatchStranded, Numbers
  <1>11. ASSUME NEW w \in Worker, FetchAbort(w) \/ FetchInDoubt(w) PROVE StrandedBound'
    <2>1. /\ UNCHANGED <<claim, crashes>> /\ dbErrors' = dbErrors + 1
          /\ \A e \in Event \ locked[w] : status'[e] = status[e]
      BY <1>11 DEF FetchAbort, FetchInDoubt, rows
    <2>2. Stranded' \subseteq Stranded \cup locked[w]
      BY <2>1 DEF Stranded, Held, Holders
    <2>3. locked[w] \in SUBSET Event /\ Cardinality(locked[w]) <= BatchSize
      BY DEF Types, SizesOK
    <2> QED BY <2>1, <2>2, <2>3, BatchStranded, Numbers
  <1> QED BY <1>2, <1>3, <1>4, <1>5, <1>6, <1>8, <1>9, <1>10, <1>11
          DEF Next, WorkerStep, WorkerFault

LEMMA StepKeepsSizes ==
    ASSUME CostInv, Next PROVE SizesOK'
  <1> USE DEF CostInv, IInv
  <1>1. BatchSize \in Nat /\ Cardinality({}) = 0
    BY Numbers, FS_EmptySet
  <1>2. ASSUME \A w \in Worker : locked'[w] \in {locked[w], {}}
                                 /\ claim'[w] \in {claim[w], locked[w], {}}
        PROVE  SizesOK'
    <2>1. SUFFICES ASSUME NEW w \in Worker
                   PROVE  Cardinality(locked'[w]) <= BatchSize /\ Cardinality(claim'[w]) <= BatchSize
      BY DEF SizesOK
    <2>2. Cardinality(locked[w]) <= BatchSize /\ Cardinality(claim[w]) <= BatchSize
      BY DEF SizesOK
    <2>3. locked'[w] = locked[w] \/ locked'[w] = {}
      BY <1>2
    <2>4. claim'[w] = claim[w] \/ claim'[w] = locked[w] \/ claim'[w] = {}
      BY <1>2
    <2>5. Cardinality(locked'[w]) <= BatchSize
      BY <1>1, <2>2, <2>3
    <2>6. Cardinality(claim'[w]) <= BatchSize
      BY <1>1, <2>2, <2>4
    <2> QED BY <2>5, <2>6
  <1>3. ASSUME UNCHANGED <<locked, claim>> PROVE SizesOK'
    BY <1>3 DEF SizesOK
  <1>4. ASSUME NEW w \in Worker, FetchSelect(w) PROVE SizesOK'
    <2>1. PICK S \in SUBSET Event : FirstBatch(S, Ready) /\ locked' = [locked EXCEPT ![w] = S]
      BY <1>4 DEF FetchSelect
    <2>2. Cardinality(S) <= BatchSize
      <3>1. Cardinality(Ready) \in Nat
        BY Finite DEF Ready
      <3> QED BY <1>1, <2>1, <3>1 DEF FirstBatch
    <2>3. UNCHANGED claim
      BY <1>4 DEF FetchSelect
    <2> QED BY <2>1, <2>2, <2>3 DEF SizesOK, Types
  <1>5. ASSUME NEW w \in Worker, NEW e \in Event, Advance(w, e), UNCHANGED locked
        PROVE  SizesOK'
    <2>1. Cardinality(claim[w] \ {e}) <= Cardinality(claim[w])
          /\ Cardinality(claim[w] \ {e}) \in Nat /\ Cardinality(claim[w]) \in Nat
      BY Finite DEF Types
    <2>2. \A v \in Worker : claim'[v] = IF v = w THEN claim[w] \ {e} ELSE claim[v]
      BY <1>5 DEF Advance, Types
    <2> QED BY <1>1, <1>5, <2>1, <2>2 DEF SizesOK
  <1>6. ASSUME NEW w \in Worker, MarkDone(w) \/ MarkFailed(w) \/ MarkLost(w) PROVE SizesOK'
    BY <1>5, <1>6 DEF MarkDone, MarkFailed, MarkLost
  <1>7. ASSUME NEW w \in Worker,
               FetchCommit(w) \/ FetchAbort(w) \/ FetchInDoubt(w) \/ Crash(w)
        PROVE  SizesOK'
    <2>1. /\ locked' = [locked EXCEPT ![w] = {}]
          /\ \/ UNCHANGED claim
             \/ claim' = [claim EXCEPT ![w] = locked[w]]
             \/ claim' = [claim EXCEPT ![w] = {}]
      BY <1>7 DEF FetchCommit, FetchAbort, FetchInDoubt, Crash
    <2> QED BY <1>2, <2>1 DEF Types
  <1>8. ASSUME NEW w \in Worker, Dispatch(w) \/ ReadAttempts(w)
                                 \/ \E verdict \in {"ok", "err"} : HandlerReturns(w, verdict)
        PROVE  SizesOK'
    BY <1>3, <1>8 DEF Dispatch, ReadAttempts, HandlerReturns
  <1>9. ASSUME NEW S \in SUBSET Event, Publish(S) PROVE SizesOK'
    BY <1>3, <1>9 DEF Publish
  <1>10. CASE Revive \/ \E e \in Event : BackoffElapsed(e)
    BY <1>3, <1>10 DEF Revive, Reset, BackoffElapsed
  <1> QED BY <1>4, <1>6, <1>7, <1>8, <1>9, <1>10 DEF Next, WorkerStep, WorkerFault

(***************************************************************************)
(* However workers, crashes and errors interleave, each fault strands at   *)
(* most one batch, and without faults every row is in somebody's hands.    *)
(***************************************************************************)
THEOREM FaultsStrandABatch == Spec => []StrandedBound
  <1>1. Init => CostInv
    <2> SUFFICES ASSUME Init PROVE SizesOK /\ StrandedBound
      BY InitIInv DEF CostInv
    <2>1. Stranded = {} /\ Cardinality({}) = 0 /\ BatchSize \in Nat
      BY FS_EmptySet, OutboxAssumption DEF Init, Stranded
    <2> QED BY <2>1 DEF Init, SizesOK, StrandedBound
  <1>2. CostInv /\ [Next]_vars => CostInv'
    <2>1. ASSUME CostInv, Next PROVE CostInv'
      BY <2>1, NextPreservesIInv, StepKeepsSizes, StepKeepsBound DEF CostInv
    <2>2. ASSUME CostInv, UNCHANGED vars PROVE CostInv'
      <3>1. IInv'
        BY <2>2, NextPreservesIInv DEF CostInv
      <3>2. SizesOK' /\ StrandedBound'
        BY <2>2 DEF CostInv, SizesOK, StrandedBound, Stranded, Held, Holders, vars, bounds, rows
      <3> QED BY <3>1, <3>2 DEF CostInv
    <2> QED BY <2>1, <2>2
  <1>3. CostInv => StrandedBound
    BY DEF CostInv
  <1> QED BY <1>1, <1>2, <1>3, PTL DEF Spec

=============================================================================
