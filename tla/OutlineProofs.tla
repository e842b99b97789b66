---------------------------- MODULE OutlineProofs ----------------------------
(***************************************************************************)
(* Proofs about OutlineLifecycle, for any clients, accounts, sweeps,       *)
(* batches and numbers of outlines and faults.  IInv is the inductive      *)
(* invariant.  Its parts speak of the rows of a ticket only through        *)
(* Logged, HasTerminal and LatestOutcome; the lemmas about Append_ say how *)
(* one more row changes these.                                             *)
(***************************************************************************)
EXTENDS OutlineLifecycle, FiniteSetTheorems, TLAPS

(* A parent is older than the ticket, so a variant is at most its number.  *)
VariantsOK == \A o \in Outline : outline[o].variant < o

(* A request that works on a ticket was given it; the one that mints a     *)
(* ticket has it to itself.                                                *)
HandsOK ==
    /\ \A c \in Client : pc[c] = "idle" => hand[c] = None
    /\ \A c \in Client : pc[c] \notin {"idle", "append"} => hand[c] \in issued
    /\ \A c \in Client : pc[c] = "append" =>
         /\ hand[c] \in 1..minted /\ hand[c] \notin issued
         /\ \A o \in Outline : o = hand[c] => ~Logged(o, "pending")
         /\ \A d \in Client : pc[d] = "append" /\ hand[d] = hand[c] => d = c

(* The pending row comes first, and the last outcome is pending as long as *)
(* it is the only one.                                                     *)
RowsOK ==
    \A o \in Outline :
        /\ o > minted => ~Logged(o, "pending")
        /\ o \in issued => Logged(o, "pending")
        /\ HasTerminal(o) => Logged(o, "pending")
        /\ LatestOutcome(o) = "pending" <=> Logged(o, "pending") /\ ~HasTerminal(o)
        /\ ~Logged(o, "pending") => age[o] = 0 /\ started[o] = 0

(* A ticket that a sweep may see is in nobody's hands and out of Redis.    *)
AgesOK ==
    \A o \in Outline : age[o] >= 1 =>
        o \notin cached /\ \A c \in Client : ~UsingTicket(c, o)

Untouched(o) == age[o] >= 1 /\ ~Logged(o, "refreshed") /\ ~Logged(o, "accepted")

SweepsOK ==
    /\ \A s \in Sweep : \A o \in Outline :
         /\ o \in sweep[s].rows => age[o] >= 1
         /\ o = sweep[s].row => Untouched(o)
    /\ \A o \in Outline : Logged(o, "expired") => Untouched(o)

StartsOK == \A o \in Outline : ~Logged(o, "accepted") => started[o] <= faults

(* The parent of a ticket is withdrawn or logged, or both calls failed.    *)
Retired(p) == p \notin cached \/ HasTerminal(p) \/ faults >= 2

RetireOK ==
    /\ \A c \in Client : pc[c] = "refresh" => hand[c] \notin cached \/ faults >= 1
    /\ \A c \in Client : \A p \in Outline : pc[c] = "compose" /\ p = hand[c] => Retired(p)
    /\ \A o, p \in Outline : p = outline[o].parent => Retired(p)

IInv ==
    /\ TypeOK
    /\ VariantsOK
    /\ HandsOK
    /\ RowsOK
    /\ AgesOK
    /\ SweepsOK
    /\ StartsOK
    /\ RetireOK

PC == {"idle", "compose", "append", "invalidate", "refresh", "resolve", "accept"}

-----------------------------------------------------------------------------
(* What a row changes *)

LEMMA AppendRow ==
    ASSUME TypeOK, NEW o \in Outline, NEW x \in Outcome, Append_(o, x), NEW p \in Outline
    PROVE  /\ events' \in [Outline -> Seq(Outcome)]
           /\ \A y \in Outcome : Logged(p, y)' <=> Logged(p, y) \/ (p = o /\ y = x)
           /\ HasTerminal(p)' <=> HasTerminal(p) \/ (p = o /\ x # "pending")
           /\ LatestOutcome(p)' = IF p = o THEN x ELSE LatestOutcome(p)
  <1> DEFINE s == events[o]
             t == Append(s, x)
  <1>1. /\ events \in [Outline -> Seq(Outcome)]
        /\ events' = [events EXCEPT ![o] = t]
    BY DEF TypeOK, Append_
  <1>2. /\ s \in Seq(Outcome) /\ t \in Seq(Outcome)
        /\ Len(s) \in Nat /\ Len(t) = Len(s) + 1
        /\ DOMAIN s = 1..Len(s) /\ DOMAIN t = 1..(Len(s) + 1)
        /\ \A i \in 1..Len(s) : t[i] = s[i]
        /\ t[Len(s) + 1] = x
    BY <1>1
  <1>3. t # <<>>
    BY <1>2
  <1>4. events' \in [Outline -> Seq(Outcome)] /\ events'[p] = IF p = o THEN t ELSE events[p]
    BY <1>1, <1>2
  <1>5. ASSUME NEW y \in Outcome
        PROVE  (\E i \in DOMAIN t : t[i] = y) <=> (\E i \in DOMAIN s : s[i] = y) \/ y = x
    BY <1>2
  <1>6. (\E i \in DOMAIN t : t[i] # "pending")
            <=> (\E i \in DOMAIN s : s[i] # "pending") \/ x # "pending"
    BY <1>2
  <1> HIDE DEF t
  <1>7. ASSUME NEW y \in Outcome
        PROVE  Logged(p, y)' <=> Logged(p, y) \/ (p = o /\ y = x)
    BY <1>4, <1>5 DEF Logged
  <1>8. HasTerminal(p)' <=> HasTerminal(p) \/ (p = o /\ x # "pending")
    BY <1>4, <1>6 DEF HasTerminal
  <1>9. LatestOutcome(p)' = IF p = o THEN x ELSE LatestOutcome(p)
    BY <1>2, <1>3, <1>4 DEF LatestOutcome
  <1> QED BY <1>4, <1>7, <1>8, <1>9

LEMMA SameRows ==
    ASSUME UNCHANGED events, NEW p
    PROVE  /\ \A y \in Outcome : Logged(p, y)' <=> Logged(p, y)
           /\ HasTerminal(p)' <=> HasTerminal(p)
           /\ LatestOutcome(p)' = LatestOutcome(p)
  BY DEF Logged, HasTerminal, LatestOutcome

-----------------------------------------------------------------------------
(* The steps *)

LEMMA InitIInv == Init => IInv
  <1> SUFFICES ASSUME Init PROVE IInv
    OBVIOUS
  <1>1. TypeOK
    BY OutlineAssumption
       DEF Init, TypeOK, NoTicket, IdleSweep, Outline, Owner, None, Outcome
  <1>2. \A o \in Outline : /\ \A y \in Outcome : ~Logged(o, y)
                           /\ ~HasTerminal(o) /\ LatestOutcome(o) = "none"
    BY DEF Init, Logged, HasTerminal, LatestOutcome
  <1> QED BY <1>1, <1>2, OutlineAssumption
       DEF Init, IInv, VariantsOK, HandsOK, RowsOK, AgesOK, SweepsOK, Untouched, StartsOK, RetireOK, Retired,
           NoTicket, IdleSweep, Outline, None, Outcome

LEMMA TicketTypes ==
    ASSUME TypeOK, NEW o \in Outline
    PROVE  /\ outline[o] \in [owner : Owner, parent : 0..minted, group : 0..minted,
                              variant : 0..MaxOutlines]
           /\ outline[o].parent \in 0..minted /\ outline[o].group \in 0..minted
           /\ outline[o].variant \in Nat
  <1>1. outline[o] \in [owner : Owner, parent : 0..minted, group : 0..minted,
                        variant : 0..MaxOutlines]
    BY DEF TypeOK
  <1> QED BY <1>1, OutlineAssumption

LEMMA MintStep == ASSUME IInv, NEW c \in Client, Mint(c) PROVE IInv'
  <1> DEFINE new == [owner |-> Account[c], parent |-> hand[c],
                     group |-> Lineage(hand[c]).group, variant |-> Lineage(hand[c]).variant]
  <1>1. \A p \in Outline : /\ \A y \in Outcome : Logged(p, y)' <=> Logged(p, y)
                           /\ HasTerminal(p)' <=> HasTerminal(p)
                           /\ LatestOutcome(p)' = LatestOutcome(p)
    BY SameRows DEF Mint
  <1>2. /\ MaxOutlines \in Nat /\ minted \in Nat /\ minted + 1 <= MaxOutlines
        /\ hand[c] \in 0..minted /\ cached \subseteq 1..minted /\ issued \subseteq 1..minted
        /\ minted' = minted + 1 /\ cached' = cached \cup {minted + 1}
    BY OutlineAssumption DEF Mint, IInv, TypeOK
  <1>3. minted + 1 \in Outline
    BY <1>2 DEF Outline
  <1>4. new.group \in 0..(minted + 1) /\ new.variant \in 0..minted
    <2>1. CASE hand[c] \in cached
      <3>1. hand[c] \in Outline /\ hand[c] <= minted
        BY <1>2, <2>1 DEF Outline
      <3>2. outline[hand[c]].variant < hand[c]
        BY <3>1 DEF IInv, VariantsOK
      <3>3. outline[hand[c]].variant \in Nat /\ outline[hand[c]].group \in 0..minted
        BY <3>1, TicketTypes DEF IInv
      <3> QED BY <1>2, <2>1, <3>1, <3>2, <3>3 DEF Lineage, Found
    <2>2. CASE hand[c] \notin cached
      BY <1>2, <2>2 DEF Lineage, Found
    <2> QED BY <2>1, <2>2
  <1>5. /\ new \in [owner : Owner, parent : 0..(minted + 1), group : 0..(minted + 1),
                    variant : 0..MaxOutlines]
        /\ new.parent = hand[c]
    <2>1. Account[c] \in Owner
      BY DEF Owner
    <2> QED BY <1>2, <1>4, <2>1
  <1> HIDE DEF new
  <1>6. /\ DOMAIN outline = Outline
        /\ outline = [o \in Outline |-> outline[o]]
        /\ outline' = [outline EXCEPT ![minted + 1] = new]
    BY DEF Mint, IInv, TypeOK, new
  <1>7. \A o \in Outline : outline'[o] = IF o = minted + 1 THEN new ELSE outline[o]
    BY <1>6
  <1>8. outline' \in [Outline -> [owner : Owner, parent : 0..(minted + 1),
                                 group : 0..(minted + 1), variant : 0..MaxOutlines]]
    <2>1. ASSUME NEW o \in Outline
          PROVE  outline'[o] \in [owner : Owner, parent : 0..(minted + 1),
                                  group : 0..(minted + 1), variant : 0..MaxOutlines]
      <3>1. outline[o] \in [owner : Owner, parent : 0..minted, group : 0..minted,
                            variant : 0..MaxOutlines]
        BY TicketTypes DEF IInv
      <3>2. outline[o] \in [owner : Owner, parent : 0..(minted + 1),
                            group : 0..(minted + 1), variant : 0..MaxOutlines]
        BY <1>2, <3>1
      <3> QED BY <1>5, <1>7, <3>2
    <2> QED BY <1>6, <2>1
  <1>9. TypeOK'
    BY SMTT(30), <1>2, <1>3, <1>8 DEF Mint, Step, IInv, TypeOK
  <1>10. VariantsOK'
    BY <1>2, <1>3, <1>4, <1>7 DEF IInv, VariantsOK, Outline
  <1>11. HandsOK'
    BY <1>1, <1>2 DEF Mint, Step, IInv, TypeOK, HandsOK, RowsOK, Outcome, Outline, None
  <1>12. RowsOK' /\ AgesOK'
    <2>1. RowsOK'
      BY <1>1, <1>2 DEF Mint, IInv, RowsOK, Outcome, Outline
    <2>2. age' = age /\ age[minted + 1] = 0
      BY <1>2, <1>3 DEF Mint, IInv, RowsOK
    <2>3. ASSUME NEW o \in Outline, age[o] >= 1, NEW d \in Client, UsingTicket(d, o)'
          PROVE  FALSE
      BY <1>2, <2>2, <2>3 DEF Mint, Step, IInv, TypeOK, AgesOK, UsingTicket
    <2> QED BY <1>2, <2>1, <2>2, <2>3 DEF IInv, AgesOK
  <1>13. SweepsOK' /\ StartsOK'
    BY <1>1 DEF Mint, IInv, SweepsOK, Untouched, StartsOK, Outcome
  <1>14. RetireOK'
    <2>1. \A p \in Outline : p <= minted => (Retired(p) => Retired(p)')
      BY <1>1, <1>2 DEF Mint, Retired
    <2>2. ASSUME NEW d \in Client, pc'[d] = "refresh"
          PROVE  hand'[d] \notin cached' \/ faults' >= 1
      BY <1>2, <2>2 DEF Mint, Step, IInv, TypeOK, HandsOK, RetireOK
    <2>3. ASSUME NEW d \in Client, NEW p \in Outline, pc'[d] = "compose", p = hand'[d]
          PROVE  Retired(p)'
      BY <1>2, <2>1, <2>3 DEF Mint, Step, IInv, TypeOK, RetireOK
    <2>4. ASSUME NEW p \in Outline, p = hand[c] PROVE Retired(p)'
      BY <1>2, <2>1, <2>4 DEF Mint, IInv, HandsOK, RetireOK, Outline, None
    <2>5. ASSUME NEW o \in Outline, NEW p \in Outline, p = outline'[o].parent
          PROVE  Retired(p)'
      <3>1. CASE o = minted + 1
        BY <1>5, <1>7, <2>4, <2>5, <3>1
      <3>2. CASE o # minted + 1
        <4>1. outline'[o] = outline[o] /\ outline[o].parent \in 0..minted
          BY <1>7, <3>2, TicketTypes DEF IInv
        <4> QED BY <1>2, <2>1, <2>5, <4>1 DEF IInv, RetireOK
      <3> QED BY <3>1, <3>2
    <2> QED BY <2>2, <2>3, <2>5 DEF RetireOK
  <1> QED BY <1>9, <1>10, <1>11, <1>12, <1>13, <1>14 DEF IInv
LEMMA GetStep ==
    ASSUME IInv, NEW c \in Client, NEW o \in Outline, RefreshGet(c, o) \/ AcceptGet(c, o)
    PROVE  IInv'
  <1>1. \A p \in Outline : /\ \A y \in Outcome : Logged(p, y)' <=> Logged(p, y)
                           /\ HasTerminal(p)' <=> HasTerminal(p)
                           /\ LatestOutcome(p)' = LatestOutcome(p)
    BY SameRows DEF RefreshGet, AcceptGet
  <1>2. /\ pc[c] = "idle" /\ o \in issued /\ o \in cached
        /\ UNCHANGED <<minted, outline, issued, cached, age, started, sweep, faults, events>>
    BY DEF RefreshGet, AcceptGet, Found, tickets
  <1>3. \A d \in Client : /\ pc'[d] \in IF d = c THEN {"invalidate", "resolve"} ELSE {pc[d]}
                          /\ hand'[d] = IF d = c THEN o ELSE hand[d]
    BY DEF RefreshGet, AcceptGet, Step, IInv, TypeOK
  <1>4. TypeOK'
    <2>1. o \in 0..minted
      BY <1>2, OutlineAssumption DEF IInv, TypeOK
    <2>2. /\ pc' \in [Client -> PC]
          /\ hand' \in [Client -> 0..minted]
      <3>1. PICK label \in PC : Step(c, label, o)
        BY DEF RefreshGet, AcceptGet, PC
      <3> QED BY <2>1, <3>1 DEF Step, IInv, TypeOK, PC
    <2> QED BY <1>2, <2>2 DEF IInv, TypeOK, PC
  <1>5. HandsOK'
    <2>1. \A d \in Client : d # c => pc'[d] = pc[d] /\ hand'[d] = hand[d]
      BY <1>3
    <2>2. pc'[c] \in {"invalidate", "resolve"} /\ hand'[c] = o
      BY <1>3
    <2>3. \A p \in Outline : Logged(p, "pending")' <=> Logged(p, "pending")
      BY <1>1 DEF Outcome
    <2> QED BY <1>2, <2>1, <2>2, <2>3 DEF IInv, HandsOK
  <1>6. VariantsOK' /\ RowsOK' /\ SweepsOK' /\ StartsOK'
    BY <1>1, <1>2 DEF IInv, VariantsOK, RowsOK, SweepsOK, Untouched, StartsOK, Outcome
  <1>7. AgesOK'
    BY <1>2, <1>3 DEF IInv, AgesOK, UsingTicket
  <1>8. RetireOK'
    BY <1>1, <1>2, <1>3 DEF IInv, RetireOK, Retired
  <1> QED BY <1>4, <1>5, <1>6, <1>7, <1>8 DEF IInv

LEMMA AppendPendingStep ==
    ASSUME IInv, NEW c \in Client, AppendPending(c)
    PROVE  IInv'
  <1>1. PICK o \in Outline :
          /\ o = hand[c] /\ o <= minted /\ o \notin issued
          /\ o \in Nat /\ o \in 1..minted /\ minted \in Nat /\ issued \subseteq 1..minted
    <2>1. /\ minted \in Nat /\ minted <= MaxOutlines /\ MaxOutlines \in Nat
          /\ issued \subseteq 1..minted
      BY OutlineAssumption DEF IInv, TypeOK
    <2>2. hand[c] \in 1..minted /\ hand[c] \notin issued
      BY DEF AppendPending, IInv, HandsOK
    <2> QED BY <2>1, <2>2 DEF Outline
  <1>2. /\ Append_(o, "pending") /\ pc[c] = "append"
        /\ issued' = issued \cup {o}
        /\ UNCHANGED <<minted, outline, cached, age, started, sweep, faults>>
    BY <1>1 DEF AppendPending
  <1>3. \A d \in Client : /\ pc'[d] = IF d = c THEN "idle" ELSE pc[d]
                          /\ hand'[d] = IF d = c THEN None ELSE hand[d]
    BY DEF AppendPending, Step, IInv, TypeOK
  <1>4. /\ events' \in [Outline -> Seq(Outcome)]
        /\ \A p \in Outline :
             /\ \A y \in Outcome : Logged(p, y)' <=> Logged(p, y) \/ (p = o /\ y = "pending")
             /\ HasTerminal(p)' <=> HasTerminal(p)
             /\ LatestOutcome(p)' = IF p = o THEN "pending" ELSE LatestOutcome(p)
    BY <1>2, AppendRow DEF IInv, Outcome
  <1>5. TypeOK'
    <2>1. pc' \in [Client -> PC] /\ hand' \in [Client -> 0..minted]
      BY OutlineAssumption DEF AppendPending, Step, IInv, TypeOK, PC, None
    <2>2. issued' \subseteq 1..minted
      BY <1>1, <1>2
    <2> QED BY <1>2, <1>4, <2>1, <2>2 DEF IInv, TypeOK, PC
  <1>6. /\ ~Logged(o, "pending") /\ ~HasTerminal(o)
        /\ \A d \in Client : d # c /\ pc[d] = "append" => hand[d] # o
    BY <1>1, <1>2 DEF IInv, HandsOK, RowsOK
  <1>7. HandsOK'
    BY <1>1, <1>2, <1>3, <1>4, <1>6 DEF IInv, HandsOK, Outcome
  <1>8. VariantsOK' /\ RowsOK'
    <2>1. VariantsOK'
      BY <1>2 DEF IInv, VariantsOK
    <2>2. ASSUME NEW p \in Outline, p # o
          PROVE  /\ Logged(p, "pending")' <=> Logged(p, "pending")
                 /\ HasTerminal(p)' <=> HasTerminal(p)
                 /\ LatestOutcome(p)' = LatestOutcome(p)
      BY <1>4, <2>2 DEF Outcome
    <2>3. /\ Logged(o, "pending")' /\ ~HasTerminal(o)' /\ LatestOutcome(o)' = "pending"
      BY <1>4, <1>6 DEF Outcome
    <2> SUFFICES ASSUME NEW p \in Outline
                 PROVE  /\ p > minted => ~Logged(p, "pending")'
                        /\ p \in issued' => Logged(p, "pending")'
                        /\ HasTerminal(p)' => Logged(p, "pending")'
                        /\ LatestOutcome(p)' = "pending" <=> Logged(p, "pending")' /\ ~HasTerminal(p)'
                        /\ ~Logged(p, "pending")' => age[p] = 0 /\ started[p] = 0
      BY <1>2, <2>1 DEF RowsOK
    <2>4. CASE p = o
      BY <1>1, <2>3, <2>4
    <2>5. CASE p # o
      BY <1>2, <2>2, <2>5 DEF IInv, RowsOK
    <2> QED BY <2>4, <2>5
  <1>9. SweepsOK' /\ StartsOK'
    BY <1>2, <1>4 DEF IInv, SweepsOK, Untouched, StartsOK, Outcome
  <1>10. AgesOK'
    BY <1>2, <1>3 DEF IInv, AgesOK, UsingTicket
  <1>11. RetireOK'
    BY <1>2, <1>3, <1>4 DEF IInv, RetireOK, Retired
  <1> QED BY <1>5, <1>7, <1>8, <1>9, <1>10, <1>11 DEF IInv

LEMMA AppendPendingFailsStep ==
    ASSUME IInv, NEW c \in Client, AppendPendingFails(c)
    PROVE  IInv'
  <1>1. PICK o \in Outline :
          /\ o = hand[c] /\ o <= minted /\ o \notin issued
          /\ o \in Nat /\ o \in 1..minted /\ minted \in Nat /\ issued \subseteq 1..minted
    <2>1. /\ minted \in Nat /\ minted <= MaxOutlines /\ MaxOutlines \in Nat
          /\ issued \subseteq 1..minted
      BY OutlineAssumption DEF IInv, TypeOK
    <2>2. hand[c] \in 1..minted /\ hand[c] \notin issued
      BY DEF AppendPendingFails, IInv, HandsOK
    <2> QED BY <2>1, <2>2 DEF Outline
  <1>2. /\ Append_(o, "pending") \/ UNCHANGED events
        /\ pc[c] = "append" /\ cached' \subseteq cached
        /\ faults' \in 0..MaxFaults /\ faults' >= faults /\ faults \in Nat /\ faults' \in Nat
        /\ UNCHANGED <<minted, outline, issued, age, started, sweep>>
    BY <1>1, OutlineAssumption DEF AppendPendingFails, Fail, tickets, IInv, TypeOK
  <1>3. \A d \in Client : /\ pc'[d] = IF d = c THEN "idle" ELSE pc[d]
                          /\ hand'[d] = IF d = c THEN None ELSE hand[d]
    BY DEF AppendPendingFails, Step, IInv, TypeOK
  <1>4. ~Logged(o, "pending") /\ ~HasTerminal(o)
    BY <1>1, <1>2 DEF IInv, HandsOK, RowsOK
  <1>5. /\ events' \in [Outline -> Seq(Outcome)]
        /\ \A p \in Outline :
             /\ \A y \in Outcome : Logged(p, y)' => Logged(p, y) \/ (p = o /\ y = "pending")
             /\ \A y \in Outcome : Logged(p, y) => Logged(p, y)'
             /\ HasTerminal(p)' <=> HasTerminal(p)
             /\ LatestOutcome(p)' = LatestOutcome(p) \/ p = o
             /\ LatestOutcome(o)' = "pending" <=> Logged(o, "pending")'
    <2>1. CASE Append_(o, "pending")
      BY <2>1, AppendRow DEF IInv, Outcome
    <2>2. CASE UNCHANGED events
      BY <1>4, <2>2, SameRows DEF IInv, TypeOK, Outcome, RowsOK
    <2> QED BY <1>2, <2>1, <2>2
  <1>6. TypeOK'
    <2>1. pc' \in [Client -> PC] /\ hand' \in [Client -> 0..minted]
      BY OutlineAssumption DEF AppendPendingFails, Step, IInv, TypeOK, PC, None
    <2> QED BY <1>2, <1>5, <2>1 DEF IInv, TypeOK, PC
  <1>7. \A d \in Client : d # c /\ pc[d] = "append" => hand[d] # o
    BY <1>1, <1>2 DEF IInv, HandsOK
  <1>8. HandsOK'
    BY <1>1, <1>2, <1>3, <1>5, <1>7 DEF IInv, HandsOK, Outcome
  <1>9. VariantsOK'
    BY <1>2 DEF IInv, VariantsOK
  <1>10. RowsOK'
    <2>1. ASSUME NEW p \in Outline, p # o
          PROVE  /\ Logged(p, "pending")' <=> Logged(p, "pending")
                 /\ HasTerminal(p)' <=> HasTerminal(p)
                 /\ LatestOutcome(p)' = LatestOutcome(p)
      BY <1>5, <2>1 DEF Outcome
    <2>2. /\ ~HasTerminal(o)'
          /\ LatestOutcome(o)' = "pending" <=> Logged(o, "pending")'
          /\ age[o] = 0 /\ started[o] = 0
      BY <1>4, <1>5 DEF IInv, RowsOK
    <2> SUFFICES ASSUME NEW p \in Outline
                 PROVE  /\ p > minted => ~Logged(p, "pending")'
                        /\ p \in issued => Logged(p, "pending")'
                        /\ HasTerminal(p)' => Logged(p, "pending")'
                        /\ LatestOutcome(p)' = "pending" <=> Logged(p, "pending")' /\ ~HasTerminal(p)'
                        /\ ~Logged(p, "pending")' => age[p] = 0 /\ started[p] = 0
      BY <1>2 DEF RowsOK
    <2>4. CASE p = o
      BY <1>1, <2>2, <2>4
    <2>5. CASE p # o
      BY <1>2, <2>1, <2>5 DEF IInv, RowsOK
    <2> QED BY <2>4, <2>5
  <1>11. SweepsOK' /\ StartsOK'
    BY SMTT(30), <1>2, <1>5, OutlineAssumption DEF IInv, TypeOK, SweepsOK, Untouched, StartsOK, Outcome
  <1>12. AgesOK'
    BY <1>2, <1>3 DEF IInv, AgesOK, UsingTicket
  <1>13. RetireOK'
    <2>1. \A p \in Outline : Retired(p) => Retired(p)'
      BY <1>2, <1>5 DEF Retired
    <2> QED BY <1>2, <1>3, <2>1 DEF IInv, RetireOK
  <1> QED BY <1>6, <1>8, <1>9, <1>10, <1>11, <1>12, <1>13 DEF IInv

LEMMA InvalidateStep ==
    ASSUME IInv, NEW c \in Client, RefreshInvalidate(c)
    PROVE  IInv'
  <1>1. \A p \in Outline : /\ \A y \in Outcome : Logged(p, y)' <=> Logged(p, y)
                           /\ HasTerminal(p)' <=> HasTerminal(p)
                           /\ LatestOutcome(p)' = LatestOutcome(p)
    BY SameRows DEF RefreshInvalidate, tickets
  <1>2. /\ pc[c] = "invalidate" /\ hand[c] \in 0..minted
        /\ cached' \subseteq cached
        /\ faults' \in 0..MaxFaults /\ faults' >= faults /\ faults \in Nat /\ faults' \in Nat
        /\ hand[c] \notin cached' \/ faults' >= 1
        /\ UNCHANGED <<minted, outline, issued, age, started, sweep, events>>
    BY OutlineAssumption DEF RefreshInvalidate, Fail, tickets, IInv, TypeOK
  <1>3. \A d \in Client : /\ pc'[d] = IF d = c THEN "refresh" ELSE pc[d]
                          /\ hand'[d] = hand[d]
    BY DEF RefreshInvalidate, Step, IInv, TypeOK
  <1>4. TypeOK'
    <2>1. pc' \in [Client -> PC] /\ hand' \in [Client -> 0..minted]
      BY <1>2 DEF RefreshInvalidate, Step, IInv, TypeOK, PC
    <2> QED BY <1>2, <2>1 DEF IInv, TypeOK, PC
  <1>5. HandsOK'
    BY <1>1, <1>2, <1>3 DEF IInv, HandsOK, Outcome
  <1>6. VariantsOK' /\ RowsOK' /\ SweepsOK'
    BY <1>1, <1>2 DEF IInv, VariantsOK, RowsOK, SweepsOK, Untouched, Outcome
  <1>7. StartsOK'
    BY <1>1, <1>2, OutlineAssumption DEF IInv, TypeOK, StartsOK, Outcome
  <1>8. AgesOK'
    BY <1>2, <1>3 DEF IInv, AgesOK, UsingTicket
  <1>9. RetireOK'
    BY <1>1, <1>2, <1>3 DEF IInv, RetireOK, Retired
  <1> QED BY <1>4, <1>5, <1>6, <1>7, <1>8, <1>9 DEF IInv

LEMMA CheckStep ==
    ASSUME IInv, NEW c \in Client, AcceptCheck(c) \/ Abort(c)
    PROVE  IInv'
  <1>1. \A p \in Outline : /\ \A y \in Outcome : Logged(p, y)' <=> Logged(p, y)
                           /\ HasTerminal(p)' <=> HasTerminal(p)
                           /\ LatestOutcome(p)' = LatestOutcome(p)
    BY SameRows DEF AcceptCheck, Abort
  <1>2. /\ pc[c] # "idle"
        /\ UNCHANGED <<minted, outline, issued, cached, age, started, sweep, faults, events>>
    BY DEF AcceptCheck, Abort, tickets
  <1>3. \A d \in Client :
          IF d = c THEN \/ pc'[d] = "idle" /\ hand'[d] = None
                        \/ pc[d] = "resolve" /\ pc'[d] = "accept" /\ hand'[d] = hand[d]
                   ELSE pc'[d] = pc[d] /\ hand'[d] = hand[d]
    BY DEF AcceptCheck, Abort, Step, IInv, TypeOK
  <1>4. TypeOK'
    <2>1. pc' \in [Client -> PC]
      BY DEF AcceptCheck, Abort, Step, IInv, TypeOK, PC
    <2>2. hand[c] \in 0..minted /\ None \in 0..minted
      BY OutlineAssumption DEF IInv, TypeOK, None
    <2>3. hand' \in [Client -> 0..minted]
      BY <2>2 DEF AcceptCheck, Abort, Step, IInv, TypeOK
    <2> QED BY <1>2, <2>1, <2>3 DEF IInv, TypeOK, PC
  <1>5. HandsOK'
    BY <1>1, <1>2, <1>3 DEF IInv, HandsOK, Outcome
  <1>6. VariantsOK' /\ RowsOK' /\ SweepsOK' /\ StartsOK'
    BY <1>1, <1>2 DEF IInv, VariantsOK, RowsOK, SweepsOK, Untouched, StartsOK, Outcome
  <1>7. AgesOK'
    BY <1>2, <1>3 DEF IInv, AgesOK, UsingTicket
  <1>8. RetireOK'
    BY <1>1, <1>2, <1>3 DEF IInv, RetireOK, Retired
  <1> QED BY <1>4, <1>5, <1>6, <1>7, <1>8 DEF IInv

LEMMA TimeStep ==
    ASSUME IInv, NEW o \in Outline, TimePasses(o)
    PROVE  IInv'
  <1>1. \A p \in Outline : /\ \A y \in Outcome : Logged(p, y)' <=> Logged(p, y)
                           /\ HasTerminal(p)' <=> HasTerminal(p)
                           /\ LatestOutcome(p)' = LatestOutcome(p)
    BY SameRows DEF TimePasses, TtlElapsed, GraceElapsed, ThresholdElapsed
  <1>2. /\ UNCHANGED <<minted, outline, issued, started, pc, hand, sweep, faults, events>>
        /\ cached' \subseteq cached
    BY DEF TimePasses, TtlElapsed, GraceElapsed, ThresholdElapsed, tickets, requestVars
  <1>3. /\ age' \in [Outline -> 0..2]
        /\ \A p \in Outline : age'[p] >= age[p] /\ age[p] \in 0..2
        /\ \A p \in Outline : age'[p] # age[p] =>
             /\ age[p] = 0 => /\ Logged(p, "pending") /\ p \notin cached
                             /\ \A c \in Client : ~UsingTicket(c, p)
             /\ age[p] # 0 => age[p] >= 1
    <2>1. age \in [Outline -> 0..2]
      BY DEF IInv, TypeOK
    <2>2. CASE TtlElapsed(o)
      BY <2>1, <2>2 DEF TtlElapsed
    <2>3. CASE GraceElapsed(o)
      BY <2>1, <2>3 DEF GraceElapsed
    <2>4. CASE ThresholdElapsed(o)
      BY <2>1, <2>4 DEF ThresholdElapsed
    <2> QED BY <2>2, <2>3, <2>4 DEF TimePasses
  <1>4. TypeOK'
    BY <1>2, <1>3 DEF IInv, TypeOK
  <1>5. HandsOK'
    BY <1>1, <1>2 DEF IInv, HandsOK, Outcome
  <1>6. VariantsOK' /\ StartsOK'
    BY <1>1, <1>2 DEF IInv, VariantsOK, StartsOK, Outcome
  <1>7. RowsOK'
    <2>1. \A p \in Outline : age'[p] # age[p] => Logged(p, "pending")
      BY <1>3 DEF IInv, RowsOK
    <2> QED BY <1>1, <1>2, <2>1 DEF IInv, RowsOK, Outcome
  <1>8. SweepsOK'
    BY <1>1, <1>2, <1>3 DEF IInv, SweepsOK, Untouched, Outcome
  <1>9. AgesOK'
    <2> SUFFICES ASSUME NEW p \in Outline, age'[p] >= 1
                 PROVE  p \notin cached /\ \A c \in Client : ~UsingTicket(c, p)
      BY <1>2 DEF AgesOK, UsingTicket
    <2> QED BY <1>3 DEF IInv, AgesOK
  <1>10. RetireOK'
    BY <1>1, <1>2 DEF IInv, RetireOK, Retired
  <1> QED BY <1>4, <1>5, <1>6, <1>7, <1>8, <1>9, <1>10 DEF IInv

(* A row that ends a ticket, or fails to.                                  *)
LEMMA EndRow ==
    ASSUME TypeOK, RowsOK, NEW o \in Outline, Logged(o, "pending"),
           NEW x \in Outcome \ {"pending"}, Append_(o, x) \/ UNCHANGED events,
           UNCHANGED <<minted, issued, age>>,
           \A p \in Outline : p # o => started'[p] = started[p]
    PROVE  /\ events' \in [Outline -> Seq(Outcome)]
           /\ RowsOK'
           /\ \A p \in Outline :
                /\ \A y \in Outcome : Logged(p, y)' => Logged(p, y) \/ (p = o /\ y = x)
                /\ \A y \in Outcome : Logged(p, y) => Logged(p, y)'
                /\ HasTerminal(p) => HasTerminal(p)'
           /\ Append_(o, x) => Logged(o, x)' /\ HasTerminal(o)'
  <1>1. CASE Append_(o, x)
    <2>1. /\ events' \in [Outline -> Seq(Outcome)]
          /\ \A p \in Outline :
               /\ \A y \in Outcome : Logged(p, y)' <=> Logged(p, y) \/ (p = o /\ y = x)
               /\ HasTerminal(p)' <=> HasTerminal(p) \/ p = o
               /\ LatestOutcome(p)' = IF p = o THEN x ELSE LatestOutcome(p)
      BY <1>1, AppendRow
    <2>2. RowsOK'
      <3> SUFFICES ASSUME NEW p \in Outline
                   PROVE  /\ p > minted => ~Logged(p, "pending")'
                          /\ p \in issued => Logged(p, "pending")'
                          /\ HasTerminal(p)' => Logged(p, "pending")'
                          /\ LatestOutcome(p)' = "pending" <=> Logged(p, "pending")' /\ ~HasTerminal(p)'
                          /\ ~Logged(p, "pending")' => age[p] = 0 /\ started'[p] = 0
        BY DEF RowsOK
      <3>1. "pending" \in Outcome /\ x # "pending"
        BY DEF Outcome
      <3>2. CASE p = o
        BY <2>1, <3>1, <3>2 DEF RowsOK
      <3>3. CASE p # o
        BY <2>1, <3>1, <3>3 DEF RowsOK
      <3> QED BY <3>2, <3>3
    <2> QED BY <2>1, <2>2
  <1>2. CASE UNCHANGED events
    <2>1. /\ events' \in [Outline -> Seq(Outcome)]
          /\ \A p \in Outline :
               /\ \A y \in Outcome : Logged(p, y)' <=> Logged(p, y)
               /\ HasTerminal(p)' <=> HasTerminal(p)
               /\ LatestOutcome(p)' = LatestOutcome(p)
      BY <1>2, SameRows DEF TypeOK
    <2>2. RowsOK'
      BY <2>1 DEF RowsOK, Outcome
    <2>3. ~Append_(o, x)
      <3> SUFFICES ASSUME Append_(o, x) PROVE FALSE
        OBVIOUS
      <3>1. events[o] = Append(events[o], x) /\ events[o] \in Seq(Outcome)
        BY <1>2 DEF Append_, TypeOK
      <3>2. Len(events[o]) = Len(events[o]) + 1 /\ Len(events[o]) \in Nat
        BY <3>1
      <3> QED BY <3>2
    <2> QED BY <2>1, <2>2, <2>3
  <1> QED BY <1>1, <1>2

LEMMA AppendRefreshedStep ==
    ASSUME IInv, NEW c \in Client, AppendRefreshed(c)
    PROVE  IInv'
  <1>1. PICK o \in Outline : o = hand[c] /\ o \in issued /\ o \in 0..minted
    <2>1. hand[c] \in issued /\ hand[c] \in 0..minted
      BY DEF AppendRefreshed, IInv, TypeOK, HandsOK
    <2>2. issued \subseteq 1..minted /\ minted \in 0..MaxOutlines
      BY DEF IInv, TypeOK
    <2> QED BY <2>1, <2>2, OutlineAssumption DEF Outline
  <1>2. /\ pc[c] = "refresh"
        /\ \/ Append_(o, "refreshed") /\ UNCHANGED faults
           \/ faults' = faults + 1 /\ UNCHANGED events
        /\ faults' \in 0..MaxFaults /\ faults \in Nat
        /\ UNCHANGED <<minted, outline, issued, cached, age, started, sweep>>
    BY <1>1, OutlineAssumption DEF AppendRefreshed, Fail, tickets, IInv, TypeOK
  <1>3. \A d \in Client : /\ pc'[d] = IF d = c THEN "compose" ELSE pc[d]
                          /\ hand'[d] = hand[d]
    BY DEF AppendRefreshed, Step, IInv, TypeOK
  <1>4. Logged(o, "pending") /\ age[o] = 0
    <2>1. age[o] \in 0..2 /\ ~(age[o] >= 1)
      BY <1>1, <1>2 DEF IInv, TypeOK, AgesOK, UsingTicket
    <2> QED BY <1>1, <2>1 DEF IInv, RowsOK
  <1>5. /\ events' \in [Outline -> Seq(Outcome)]
        /\ RowsOK'
        /\ \A p \in Outline :
             /\ \A y \in Outcome : Logged(p, y)' => Logged(p, y) \/ (p = o /\ y = "refreshed")
             /\ \A y \in Outcome : Logged(p, y) => Logged(p, y)'
             /\ HasTerminal(p) => HasTerminal(p)'
        /\ Append_(o, "refreshed") => HasTerminal(o)'
    BY <1>2, <1>4, EndRow DEF IInv, Outcome
  <1>6. TypeOK'
    <2>1. pc' \in [Client -> PC] /\ hand' \in [Client -> 0..minted]
      BY <1>1 DEF AppendRefreshed, Step, IInv, TypeOK, PC
    <2> QED BY <1>2, <1>5, <2>1 DEF IInv, TypeOK, PC
  <1>7. VariantsOK' /\ HandsOK'
    BY <1>1, <1>2, <1>3, <1>5 DEF IInv, VariantsOK, HandsOK, RowsOK, Outcome
  <1>8. SweepsOK' /\ StartsOK'
    BY SMTT(30), <1>2, <1>4, <1>5, OutlineAssumption
       DEF IInv, TypeOK, SweepsOK, Untouched, StartsOK, Outcome
  <1>9. AgesOK'
    BY <1>2, <1>3 DEF IInv, AgesOK, UsingTicket
  <1>10. RetireOK'
    <2>1. \A p \in Outline : Retired(p) => Retired(p)'
      BY <1>2, <1>5 DEF Retired
    <2>2. Retired(o)'
      BY <1>1, <1>2, <1>5 DEF IInv, RetireOK, Retired
    <2>3. faults' >= faults /\ faults' \in Nat
      BY <1>2
    <2>4. ASSUME NEW d \in Client, pc'[d] = "refresh"
          PROVE  hand'[d] \notin cached' \/ faults' >= 1
      BY <1>2, <1>3, <2>3, <2>4 DEF IInv, RetireOK
    <2>5. ASSUME NEW d \in Client, NEW p \in Outline, pc'[d] = "compose", p = hand'[d]
          PROVE  Retired(p)'
      BY <1>1, <1>3, <2>1, <2>2, <2>5 DEF IInv, RetireOK
    <2> QED BY <1>2, <2>1, <2>4, <2>5 DEF IInv, RetireOK
  <1> QED BY <1>5, <1>6, <1>7, <1>8, <1>9, <1>10 DEF IInv

LEMMA AppendAcceptedStep ==
    ASSUME IInv, NEW c \in Client, AppendAccepted(c)
    PROVE  IInv'
  <1>1. PICK o \in Outline : o = hand[c] /\ o \in issued /\ o \in 0..minted
    <2>1. hand[c] \in issued /\ hand[c] \in 0..minted
      BY DEF AppendAccepted, IInv, TypeOK, HandsOK
    <2>2. issued \subseteq 1..minted /\ minted \in 0..MaxOutlines
      BY DEF IInv, TypeOK
    <2> QED BY <2>1, <2>2, OutlineAssumption DEF Outline
  <1>2. /\ pc[c] = "accept"
        /\ \/ Append_(o, "accepted") /\ UNCHANGED faults
           \/ faults' = faults + 1 /\ UNCHANGED events
        /\ faults' \in 0..MaxFaults /\ faults \in Nat
        /\ UNCHANGED <<minted, outline, issued, cached, age, sweep>>
    BY <1>1, OutlineAssumption DEF AppendAccepted, Fail, tickets, IInv, TypeOK
  <1>3. /\ \A d \in Client : /\ pc'[d] = IF d = c THEN "idle" ELSE pc[d]
                             /\ hand'[d] = IF d = c THEN None ELSE hand[d]
        /\ started' \in [Outline -> Nat]
        /\ \A p \in Outline : /\ started[p] \in Nat
                              /\ started'[p] = IF p = o THEN started[p] + 1 ELSE started[p]
    BY <1>1 DEF AppendAccepted, Step, IInv, TypeOK
  <1>4. Logged(o, "pending") /\ age[o] = 0
    <2>1. age[o] \in 0..2 /\ ~(age[o] >= 1)
      BY <1>1, <1>2 DEF IInv, TypeOK, AgesOK, UsingTicket
    <2> QED BY <1>1, <2>1 DEF IInv, RowsOK
  <1>5. /\ events' \in [Outline -> Seq(Outcome)]
        /\ RowsOK'
        /\ \A p \in Outline :
             /\ \A y \in Outcome : Logged(p, y)' => Logged(p, y) \/ (p = o /\ y = "accepted")
             /\ \A y \in Outcome : Logged(p, y) => Logged(p, y)'
             /\ HasTerminal(p) => HasTerminal(p)'
        /\ Append_(o, "accepted") => Logged(o, "accepted")'
    BY <1>2, <1>3, <1>4, EndRow DEF IInv, Outcome
  <1>6. TypeOK'
    <2>1. pc' \in [Client -> PC] /\ hand' \in [Client -> 0..minted]
      BY OutlineAssumption DEF AppendAccepted, Step, IInv, TypeOK, PC, None
    <2> QED BY <1>2, <1>3, <1>5, <2>1 DEF IInv, TypeOK, PC
  <1>7. VariantsOK' /\ HandsOK'
    <2>1. VariantsOK'
      BY <1>2 DEF IInv, VariantsOK
    <2>2. \A p \in Outline : Logged(p, "pending")' => Logged(p, "pending")
      BY <1>5 DEF Outcome
    <2> QED BY <1>1, <1>2, <1>3, <2>1, <2>2 DEF IInv, HandsOK
  <1>8. SweepsOK'
    BY <1>2, <1>4, <1>5 DEF IInv, SweepsOK, Untouched, Outcome
  <1>9. StartsOK'
    <2> SUFFICES ASSUME NEW p \in Outline, ~Logged(p, "accepted")'
                 PROVE  started'[p] <= faults'
      BY DEF StartsOK
    <2>1. ~Logged(p, "accepted")
      BY <1>5 DEF Outcome
    <2>2. started[p] <= faults
      BY <2>1 DEF IInv, StartsOK
    <2>3. p = o => faults' = faults + 1
      BY <1>2, <1>5 DEF Outcome
    <2> QED BY <1>2, <1>3, <2>2, <2>3
  <1>10. AgesOK'
    BY <1>2, <1>3 DEF IInv, AgesOK, UsingTicket
  <1>11. RetireOK'
    <2>1. \A p \in Outline : Retired(p) => Retired(p)'
      BY <1>2, <1>5 DEF Retired
    <2> QED BY <1>2, <1>3, <2>1 DEF IInv, RetireOK
  <1> QED BY <1>5, <1>6, <1>7, <1>8, <1>9, <1>10, <1>11 DEF IInv

-----------------------------------------------------------------------------
(* The sweeps *)

LEMMA ScanStep ==
    ASSUME IInv, NEW s \in Sweep, HousekeeperScan(s) \/ VisitScan(s) \/ SweepDies(s)
    PROVE  IInv'
  <1>1. \A p \in Outline : /\ \A y \in Outcome : Logged(p, y)' <=> Logged(p, y)
                           /\ HasTerminal(p)' <=> HasTerminal(p)
                           /\ LatestOutcome(p)' = LatestOutcome(p)
    BY SameRows DEF HousekeeperScan, VisitScan, Scan, SweepDies
  <1>2. /\ UNCHANGED <<minted, outline, issued, cached, age, started, pc, hand, events>>
        /\ faults' \in 0..MaxFaults /\ faults' >= faults /\ faults \in Nat /\ faults' \in Nat
    BY OutlineAssumption
       DEF HousekeeperScan, VisitScan, Scan, SweepDies, Fail, tickets, requestVars, IInv, TypeOK
  <1>3. /\ sweep' \in [Sweep -> [rows : SUBSET Outline, row : 0..MaxOutlines]]
        /\ \A t \in Sweep : t # s => sweep'[t] = sweep[t]
        /\ sweep'[s].row \in {None, sweep[s].row}
        /\ \A p \in Outline : p \in sweep'[s].rows => age[p] >= 1
    <2>1. /\ sweep \in [Sweep -> [rows : SUBSET Outline, row : 0..MaxOutlines]]
          /\ age \in [Outline -> 0..2]
      BY DEF IInv, TypeOK
    <2>2. CASE SweepDies(s)
      BY <2>1, <2>2, OutlineAssumption DEF SweepDies, IdleSweep, None
    <2>3. ASSUME NEW R \in SUBSET Outline, \A p \in R : age[p] >= 1,
                 sweep' = [sweep EXCEPT ![s].rows = R]
          PROVE  <1>3!1 /\ <1>3!2 /\ <1>3!3 /\ <1>3!4
      BY <2>1, <2>3
    <2>4. ASSUME NEW p \in Outline, p \in Sweepable(s) PROVE age[p] >= 1
      BY <2>1, <2>4 DEF Sweepable
    <2>5. CASE HousekeeperScan(s)
      <3>1. PICK R \in SUBSET Sweepable(s) : sweep' = [sweep EXCEPT ![s].rows = R]
        BY <2>5 DEF HousekeeperScan, Scan
      <3>2. R \in SUBSET Outline /\ \A p \in R : age[p] >= 1
        BY <2>4, <3>1 DEF Sweepable
      <3> QED BY <2>3, <3>1, <3>2
    <2>6. CASE VisitScan(s)
      <3>1. PICK R \in SUBSET Sweepable(s) : sweep' = [sweep EXCEPT ![s].rows = R]
        BY <2>6 DEF VisitScan, Scan
      <3>2. R \in SUBSET Outline /\ \A p \in R : age[p] >= 1
        BY <2>4, <3>1 DEF Sweepable
      <3> QED BY <2>3, <3>1, <3>2
    <2> QED BY <2>2, <2>5, <2>6
  <1>4. TypeOK'
    BY <1>2, <1>3 DEF IInv, TypeOK
  <1>5. HandsOK' /\ VariantsOK' /\ RowsOK' /\ AgesOK'
    BY <1>1, <1>2 DEF IInv, HandsOK, VariantsOK, RowsOK, AgesOK, UsingTicket, Outcome
  <1>6. SweepsOK'
    <2>1. \A p \in Outline : p # None
      BY DEF Outline, None
    <2> QED BY <1>1, <1>2, <1>3, <2>1 DEF IInv, SweepsOK, Untouched, Outcome
  <1>7. StartsOK'
    BY <1>1, <1>2 DEF IInv, TypeOK, StartsOK, Outcome
  <1>8. RetireOK'
    BY <1>1, <1>2 DEF IInv, RetireOK, Retired
  <1> QED BY <1>4, <1>5, <1>6, <1>7, <1>8 DEF IInv

LEMMA SweepTypes ==
    ASSUME TypeOK, NEW s \in Sweep
    PROVE  /\ sweep[s].rows \subseteq Outline /\ sweep[s].row \in 0..MaxOutlines
           /\ sweep[s].row # None => sweep[s].row \in Outline
  <1>1. sweep[s] \in [rows : SUBSET Outline, row : 0..MaxOutlines]
    BY DEF TypeOK
  <1> QED BY <1>1, OutlineAssumption DEF Outline, None

LEMMA MarkBeginsStep ==
    ASSUME IInv, NEW s \in Sweep, MarkBegins(s)
    PROVE  IInv'
  <1>1. \A p \in Outline : /\ \A y \in Outcome : Logged(p, y)' <=> Logged(p, y)
                           /\ HasTerminal(p)' <=> HasTerminal(p)
                           /\ LatestOutcome(p)' = LatestOutcome(p)
    BY SameRows DEF MarkBegins
  <1>2. UNCHANGED <<minted, outline, issued, cached, age, started, pc, hand, events, faults>>
    BY DEF MarkBegins, tickets, requestVars
  <1>3. PICK o \in sweep[s].rows :
          sweep' = [sweep EXCEPT ![s] = [rows |-> @.rows \ {o},
                                         row |-> IF HasTerminal(o) THEN None ELSE o]]
    BY DEF MarkBegins
  <1>4. o \in Outline /\ None \in 0..MaxOutlines /\ sweep[s].rows \subseteq Outline
    BY <1>3, SweepTypes, OutlineAssumption DEF IInv, None
  <1>5. DOMAIN sweep = Sweep
    BY DEF IInv, TypeOK
  <1>6. /\ \A t \in Sweep : t # s => sweep'[t] = sweep[t]
        /\ sweep'[s].rows = sweep[s].rows \ {o}
        /\ sweep'[s].row = IF HasTerminal(o) THEN None ELSE o
    BY <1>3, <1>5
  <1>7. TypeOK'
    <2>1. (IF HasTerminal(o) THEN None ELSE o) \in 0..MaxOutlines
      BY <1>4, OutlineAssumption DEF Outline
    <2>2. sweep' \in [Sweep -> [rows : SUBSET Outline, row : 0..MaxOutlines]]
      BY <1>3, <1>4, <2>1 DEF IInv, TypeOK
    <2> QED BY <1>2, <2>2 DEF IInv, TypeOK
  <1>8. HandsOK' /\ VariantsOK' /\ RowsOK' /\ AgesOK'
    BY <1>1, <1>2 DEF IInv, HandsOK, VariantsOK, RowsOK, AgesOK, UsingTicket, Outcome
  <1>9. SweepsOK'
    <2>1. age[o] >= 1
      BY <1>3, <1>4 DEF IInv, SweepsOK
    <2>2. ASSUME ~HasTerminal(o) PROVE Untouched(o)
      <3>1. ~Logged(o, "refreshed") /\ ~Logged(o, "accepted")
        BY <2>2 DEF HasTerminal, Logged
      <3> QED BY <2>1, <3>1 DEF Untouched
    <2>3. \A p \in Outline : Untouched(p) => Untouched(p)'
      BY <1>1, <1>2 DEF Untouched, Outcome
    <2>4. \A p \in Outline : p # None
      BY DEF Outline, None
    <2>5. ASSUME NEW t \in Sweep, NEW p \in Outline, p \in sweep'[t].rows PROVE age'[p] >= 1
      BY <1>2, <1>6, <2>5 DEF IInv, SweepsOK
    <2>6. ASSUME NEW t \in Sweep, NEW p \in Outline, p = sweep'[t].row PROVE Untouched(p)'
      BY <1>6, <2>2, <2>3, <2>4, <2>6 DEF IInv, SweepsOK
    <2>7. ASSUME NEW p \in Outline, Logged(p, "expired")' PROVE Untouched(p)'
      BY <1>1, <2>3, <2>7 DEF IInv, SweepsOK, Outcome
    <2> QED BY <2>5, <2>6, <2>7 DEF SweepsOK
  <1>10. StartsOK' /\ RetireOK'
    BY <1>1, <1>2 DEF IInv, StartsOK, RetireOK, Retired, Outcome
  <1> QED BY <1>7, <1>8, <1>9, <1>10 DEF IInv

LEMMA MarkEndsStep ==
    ASSUME IInv, NEW s \in Sweep, MarkEnds(s)
    PROVE  IInv'
  <1> DEFINE o == sweep[s].row
  <1>1. o \in Outline /\ o # None
    BY SweepTypes DEF MarkEnds, IInv
  <1>2. /\ Append_(o, "expired") \/ UNCHANGED events
        /\ faults' \in 0..MaxFaults /\ faults' >= faults /\ faults \in Nat /\ faults' \in Nat
        /\ UNCHANGED <<minted, outline, issued, cached, age, started, pc, hand>>
        /\ sweep' = [sweep EXCEPT ![s].row = None]
    BY OutlineAssumption DEF MarkEnds, Fail, tickets, requestVars, IInv, TypeOK
  <1>3. Untouched(o)
    BY <1>1 DEF IInv, SweepsOK
  <1>4. Logged(o, "pending")
    BY <1>1, <1>3 DEF IInv, RowsOK, Untouched
  <1>5. /\ events' \in [Outline -> Seq(Outcome)]
        /\ RowsOK'
        /\ \A p \in Outline :
             /\ \A y \in Outcome : Logged(p, y)' => Logged(p, y) \/ (p = o /\ y = "expired")
             /\ \A y \in Outcome : Logged(p, y) => Logged(p, y)'
             /\ HasTerminal(p) => HasTerminal(p)'
    <2> HIDE DEF o
    <2> QED BY <1>1, <1>2, <1>4, EndRow DEF IInv, Outcome
  <1>6. /\ sweep' \in [Sweep -> [rows : SUBSET Outline, row : 0..MaxOutlines]]
        /\ \A t \in Sweep : t # s => sweep'[t] = sweep[t]
        /\ sweep'[s].rows = sweep[s].rows /\ sweep'[s].row = None
    <2>1. None \in 0..MaxOutlines
      BY OutlineAssumption DEF None
    <2>2. sweep \in [Sweep -> [rows : SUBSET Outline, row : 0..MaxOutlines]]
      BY DEF IInv, TypeOK
    <2> QED BY <1>2, <2>1, <2>2
  <1>7. TypeOK'
    BY <1>2, <1>5, <1>6 DEF IInv, TypeOK
  <1>8. VariantsOK' /\ HandsOK' /\ AgesOK'
    <2>1. \A p \in Outline : Logged(p, "pending")' => Logged(p, "pending")
      BY <1>5 DEF Outcome
    <2> QED BY <1>2, <2>1 DEF IInv, VariantsOK, HandsOK, AgesOK, UsingTicket
  <1> HIDE DEF o
  <1>9. SweepsOK'
    <2>1. \A p \in Outline : Untouched(p) => Untouched(p)'
      BY <1>2, <1>5 DEF Untouched, Outcome
    <2>2. \A p \in Outline : p # None
      BY DEF Outline, None
    <2>3. ASSUME NEW t \in Sweep, NEW p \in Outline, p \in sweep'[t].rows PROVE age'[p] >= 1
      BY <1>2, <1>6, <2>3 DEF IInv, SweepsOK
    <2>4. ASSUME NEW t \in Sweep, NEW p \in Outline, p = sweep'[t].row PROVE Untouched(p)'
      BY <1>6, <2>1, <2>2, <2>4 DEF IInv, SweepsOK
    <2>5. ASSUME NEW p \in Outline, Logged(p, "expired")' PROVE Untouched(p)'
      BY <1>3, <1>5, <2>1, <2>5 DEF IInv, SweepsOK, Outcome
    <2> QED BY <2>3, <2>4, <2>5 DEF SweepsOK
  <1>10. StartsOK'
    <2> SUFFICES ASSUME NEW p \in Outline, ~Logged(p, "accepted")'
                 PROVE  started[p] <= faults'
      BY <1>2 DEF StartsOK
    <2>1. started[p] <= faults /\ started[p] \in Nat
      BY <1>5 DEF IInv, TypeOK, StartsOK, Outcome
    <2> QED BY <1>2, <2>1
  <1>11. RetireOK'
    <2>1. \A p \in Outline : Retired(p) => Retired(p)'
      BY <1>2, <1>5 DEF Retired
    <2> QED BY <1>2, <2>1 DEF IInv, RetireOK
  <1> QED BY <1>5, <1>7, <1>8, <1>9, <1>10, <1>11 DEF IInv

LEMMA StutterStep == IInv /\ UNCHANGED vars => IInv'
  <1> SUFFICES ASSUME IInv, UNCHANGED vars PROVE IInv'
    OBVIOUS
  <1>1. \A p \in Outline : /\ \A y \in Outcome : Logged(p, y)' <=> Logged(p, y)
                           /\ HasTerminal(p)' <=> HasTerminal(p)
                           /\ LatestOutcome(p)' = LatestOutcome(p)
    BY SameRows DEF vars
  <1> QED BY <1>1
    DEF vars, IInv, TypeOK, VariantsOK, HandsOK, RowsOK, AgesOK, UsingTicket, SweepsOK,
        Untouched, StartsOK, RetireOK, Retired, Outcome

LEMMA NextPreservesIInv == IInv /\ [Next]_vars => IInv'
  <1> SUFFICES ASSUME IInv, [Next]_vars PROVE IInv'
    OBVIOUS
  <1>1. ASSUME NEW c \in Client, RequestStep(c) PROVE IInv'
    BY <1>1, MintStep, AppendPendingStep, AppendPendingFailsStep, GetStep, InvalidateStep,
       AppendRefreshedStep, CheckStep, AppendAcceptedStep
       DEF RequestStep
  <1>2. ASSUME NEW s \in Sweep, SweepStep(s) \/ SweepDies(s) PROVE IInv'
    BY <1>2, ScanStep, MarkBeginsStep, MarkEndsStep DEF SweepStep
  <1>3. ASSUME NEW o \in Outline, TimePasses(o) PROVE IInv'
    BY <1>3, TimeStep
  <1> QED BY <1>1, <1>2, <1>3, StutterStep DEF Next

(***************************************************************************)
(* The strengthening holds of every state of the requests and sweeps.      *)
(***************************************************************************)
THEOREM Inductive == Spec => []IInv
  <1> QED BY InitIInv, NextPreservesIInv, PTL DEF Spec

(***************************************************************************)
(* Tickets, rows, requests and sweeps keep their types: no variant number  *)
(* exceeds the number of outlines.                                         *)
(***************************************************************************)
THEOREM TypeCorrect == Spec => []TypeOK
  <1>1. IInv => TypeOK
    BY DEF IInv
  <1> QED BY <1>1, Inductive, PTL

(***************************************************************************)
(* No sweep expires a ticket that a request uses: who has found the key in *)
(* Redis is done before the row is old enough for userSweepGrace.          *)
(***************************************************************************)
THEOREM ExpiredTicketsAreUnused == Spec => []ExpiredWasUnused
  <1>1. IInv => ExpiredWasUnused
    BY DEF IInv, SweepsOK, Untouched, StartsOK, ExpiredWasUnused
  <1> QED BY <1>1, Inductive, PTL

(***************************************************************************)
(* Refresh retires the ticket it replaces, unless both of its calls fail.  *)
(***************************************************************************)
THEOREM RefreshRetiresTheParent == Spec => []RefreshRetires
  <1>1. IInv => RefreshRetires
    <2> SUFFICES ASSUME IInv, NEW o \in issued, outline[o].parent # None, faults <= 1,
                        outline[o].parent \in cached,
                        LatestOutcome(outline[o].parent) = "pending"
                 PROVE  FALSE
      BY DEF RefreshRetires
    <2>1. PICK p \in Outline : p = outline[o].parent
      <3>1. minted \in 0..MaxOutlines /\ issued \subseteq 1..minted
        BY DEF IInv, TypeOK
      <3>2. o \in Outline /\ outline[o].parent \in 0..minted
        BY <3>1, TicketTypes, OutlineAssumption DEF IInv, Outline
      <3> QED BY <3>1, <3>2, OutlineAssumption DEF Outline, None
    <2>2. o \in Outline
      BY OutlineAssumption DEF IInv, TypeOK, Outline
    <2>3. Retired(p) /\ ~HasTerminal(p)
      BY <2>1, <2>2 DEF IInv, RetireOK, RowsOK
    <2>4. faults \in Nat
      BY OutlineAssumption DEF IInv, TypeOK
    <2> QED BY <2>1, <2>3, <2>4 DEF Retired
  <1> QED BY <1>1, Inductive, PTL

-----------------------------------------------------------------------------

(***************************************************************************)
(* Counting the stories of a ticket.  Until it has an outcome each start   *)
(* is charged to a fault (StartsOK); from then on nobody passes Resolve,   *)
(* and each start takes a request away from those that had.                *)
(***************************************************************************)
Accepting(o) == {c \in Client : pc[c] = "accept" /\ hand[c] = o}

ReplayOK ==
    \A o \in Outline : HasTerminal(o) =>
        started[o] + Cardinality(Accepting(o)) <= Cardinality(Client) + faults

LEMMA AcceptingIsFinite ==
    ASSUME NEW o
    PROVE  /\ IsFiniteSet(Accepting(o)) /\ Cardinality(Accepting(o)) \in Nat
           /\ IsFiniteSet(Accepting(o)') /\ Cardinality(Accepting(o)') \in Nat
           /\ Cardinality(Accepting(o)) <= Cardinality(Client)
           /\ Cardinality(Accepting(o)') <= Cardinality(Client)
           /\ Cardinality(Client) \in Nat
  <1>1. Accepting(o) \subseteq Client /\ Accepting(o)' \subseteq Client
    BY DEF Accepting
  <1> QED BY <1>1, OutlineAssumption, FS_Subset, FS_CardinalityType

(* One request less in S.                                                  *)
LEMMA OneLess ==
    ASSUME NEW S, IsFiniteSet(S), NEW c \in S, NEW T, T \subseteq S \ {c}
    PROVE  IsFiniteSet(T) /\ Cardinality(T) \in Nat /\ Cardinality(T) + 1 <= Cardinality(S)
  <1>1. IsFiniteSet(S \ {c}) /\ Cardinality(S \ {c}) = Cardinality(S) - 1
    BY FS_RemoveElement
  <1>2. IsFiniteSet(T) /\ Cardinality(T) <= Cardinality(S \ {c})
    BY <1>1, FS_Subset
  <1> QED BY <1>1, <1>2, FS_CardinalityType

LEMMA NobodyNewPasses ==
    ASSUME IInv, [Next]_vars, NEW o \in Outline, HasTerminal(o)
    PROVE  Accepting(o)' \subseteq Accepting(o)
  <1> SUFFICES ASSUME NEW c \in Client, pc'[c] = "accept", hand'[c] = o
               PROVE  pc[c] = "accept" /\ hand[c] = o
    BY DEF Accepting
  <1>1. ASSUME NEW d \in Client, RequestStep(d), ~AcceptCheck(d)
        PROVE  pc[c] = "accept" /\ hand[c] = o
    BY <1>1
       DEF RequestStep, Mint, AppendPending, AppendPendingFails, RefreshGet, AcceptGet,
           RefreshInvalidate, AppendRefreshed, AppendAccepted, Abort, Step, IInv, TypeOK
  <1>2. ASSUME NEW d \in Client, AcceptCheck(d)
        PROVE  pc[c] = "accept" /\ hand[c] = o
    <2>1. CASE d = c
      <3>1. hand[c] = o /\ LatestOutcome(hand[c]) = "pending"
        BY <1>2, <2>1 DEF AcceptCheck, Step, IInv, TypeOK
      <3>2. LatestOutcome(o) = "pending"
        BY <3>1
      <3> QED BY <3>2 DEF IInv, RowsOK
    <2>2. CASE d # c
      BY <1>2, <2>2 DEF AcceptCheck, Step, IInv, TypeOK
    <2> QED BY <2>1, <2>2
  <1>3. ASSUME UNCHANGED requestVars
        PROVE  pc[c] = "accept" /\ hand[c] = o
    BY <1>3 DEF requestVars
  <1>4. (\E s \in Sweep : SweepStep(s) \/ SweepDies(s)) => UNCHANGED requestVars
    BY DEF SweepStep, HousekeeperScan, VisitScan, Scan, MarkBegins, MarkEnds, SweepDies
  <1>5. (\E p \in Outline : TimePasses(p)) => UNCHANGED requestVars
    BY DEF TimePasses, TtlElapsed, GraceElapsed, ThresholdElapsed
  <1>6. UNCHANGED vars => UNCHANGED requestVars
    BY DEF vars, requestVars
  <1> QED BY <1>1, <1>2, <1>3, <1>4, <1>5, <1>6 DEF Next

LEMMA StartsAreAccepted ==
    ASSUME IInv, [Next]_vars
    PROVE  /\ faults' >= faults
           /\ \/ UNCHANGED started
              \/ \E c \in Client : \E o \in Outline :
                   /\ c \in Accepting(o) /\ c \notin Accepting(o)'
                   /\ \A p \in Outline :
                        started'[p] = IF p = o THEN started[p] + 1 ELSE started[p]
                   /\ HasTerminal(o)' \/ (faults' = faults + 1 /\ UNCHANGED events)
  <1>1. /\ faults \in Nat /\ started \in [Outline -> Nat]
        /\ minted \in 0..MaxOutlines /\ hand \in [Client -> 0..minted]
    BY OutlineAssumption DEF IInv, TypeOK
  <1>2. ASSUME NEW c \in Client, RequestStep(c), ~AppendAccepted(c)
        PROVE  faults' >= faults /\ UNCHANGED started
    BY <1>1, <1>2
       DEF RequestStep, Mint, AppendPending, AppendPendingFails, RefreshGet, AcceptGet,
           RefreshInvalidate, AppendRefreshed, AcceptCheck, Abort, Fail
  <1>3. ASSUME NEW s \in Sweep, SweepStep(s) \/ SweepDies(s)
        PROVE  faults' >= faults /\ UNCHANGED started
    BY <1>1, <1>3
       DEF SweepStep, HousekeeperScan, VisitScan, Scan, MarkBegins, MarkEnds, SweepDies, Fail
  <1>4. ASSUME NEW o \in Outline, TimePasses(o)
        PROVE  faults' >= faults /\ UNCHANGED started
    BY <1>1, <1>4 DEF TimePasses, TtlElapsed, GraceElapsed, ThresholdElapsed
  <1>5. CASE UNCHANGED vars
    BY <1>1, <1>5 DEF vars
  <1>6. ASSUME NEW c \in Client, AppendAccepted(c)
        PROVE  /\ faults' >= faults
               /\ \E o \in Outline :
                   /\ c \in Accepting(o) /\ c \notin Accepting(o)'
                   /\ \A p \in Outline :
                        started'[p] = IF p = o THEN started[p] + 1 ELSE started[p]
                   /\ HasTerminal(o)' \/ (faults' = faults + 1 /\ UNCHANGED events)
    <2>1. PICK o \in Outline : o = hand[c]
      <3>1. pc[c] = "accept" /\ hand[c] \in issued /\ issued \subseteq 1..minted
        BY <1>6 DEF AppendAccepted, IInv, TypeOK, HandsOK
      <3> QED BY <1>1, <3>1, OutlineAssumption DEF Outline
    <2>2. /\ pc[c] = "accept" /\ pc'[c] = "idle"
          /\ started' = [started EXCEPT ![o] = @ + 1]
          /\ \/ Append_(o, "accepted") /\ UNCHANGED faults
             \/ faults' = faults + 1 /\ UNCHANGED events
      BY <1>6, <2>1 DEF AppendAccepted, Step, Fail, IInv, TypeOK
    <2>3. Append_(o, "accepted") => HasTerminal(o)'
      BY AppendRow DEF IInv, Outcome
    <2>4. c \in Accepting(o) /\ c \notin Accepting(o)'
      BY <2>1, <2>2 DEF Accepting
    <2> QED BY <1>1, <2>2, <2>3, <2>4
  <1> QED BY <1>2, <1>3, <1>4, <1>5, <1>6 DEF Next

LEMMA NextPreservesReplay == IInv /\ ReplayOK /\ [Next]_vars => ReplayOK'
  <1> SUFFICES ASSUME IInv, ReplayOK, [Next]_vars, NEW p \in Outline, HasTerminal(p)'
               PROVE  started'[p] + Cardinality(Accepting(p)') <= Cardinality(Client) + faults'
    BY DEF ReplayOK
  <1> USE AcceptingIsFinite
  <1>1. /\ faults \in Nat /\ faults' \in Nat /\ faults' >= faults
        /\ started[p] \in Nat /\ started'[p] \in Nat
    <2>1. IInv'
      BY NextPreservesIInv
    <2>2. TypeOK /\ TypeOK'
      BY <2>1 DEF IInv
    <2>3. faults' >= faults
      BY StartsAreAccepted
    <2>4. faults \in Nat /\ started[p] \in Nat
      BY <2>2, OutlineAssumption DEF TypeOK
    <2>5. faults' \in Nat /\ started'[p] \in Nat
      BY <2>2, OutlineAssumption DEF TypeOK
    <2> QED BY <2>3, <2>4, <2>5
  <1>2. ~HasTerminal(p) => started[p] <= faults
    <2>1. ~HasTerminal(p) => ~Logged(p, "accepted")
      BY DEF HasTerminal, Logged
    <2> QED BY <2>1 DEF IInv, StartsOK
  <1>3. HasTerminal(p) =>
          /\ started[p] + Cardinality(Accepting(p)) <= Cardinality(Client) + faults
          /\ Accepting(p)' \subseteq Accepting(p)
          /\ Cardinality(Accepting(p)') <= Cardinality(Accepting(p))
    BY NobodyNewPasses, FS_Subset DEF ReplayOK
  <1>4. CASE started'[p] = started[p]
    <2>1. CASE HasTerminal(p)
      BY <1>1, <1>3, <1>4, <2>1
    <2>2. CASE ~HasTerminal(p)
      BY <1>1, <1>2, <1>4, <2>2
    <2> QED BY <2>1, <2>2
  <1>5. ASSUME NEW c \in Client, c \in Accepting(p), c \notin Accepting(p)',
               started'[p] = started[p] + 1
        PROVE  started'[p] + Cardinality(Accepting(p)') <= Cardinality(Client) + faults'
    <2>1. CASE HasTerminal(p)
      <3>1. Accepting(p)' \subseteq Accepting(p) \ {c}
        BY <1>3, <1>5, <2>1
      <3>2. Cardinality(Accepting(p)') + 1 <= Cardinality(Accepting(p))
        BY <1>5, <3>1, OneLess
      <3> QED BY <1>1, <1>3, <1>5, <2>1, <3>2
    <2>2. CASE ~HasTerminal(p)
      <3>1. Accepting(p)' \subseteq Client \ {c}
        BY <1>5 DEF Accepting
      <3>2. Cardinality(Accepting(p)') + 1 <= Cardinality(Client)
        BY <3>1, OneLess, OutlineAssumption
      <3> QED BY <1>1, <1>2, <1>5, <2>2, <3>2
    <2> QED BY <2>1, <2>2
  <1> QED BY <1>4, <1>5, StartsAreAccepted

(***************************************************************************)
(* However its replays race, a ticket starts at most one story for each    *)
(* request under way, and one for each accepted row that was not written.  *)
(***************************************************************************)
THEOREM ReplaysAreBounded == Spec => []ReplayBound
  <1>1. Init => ReplayOK
    <2> SUFFICES ASSUME Init, NEW o \in Outline PROVE ~HasTerminal(o)
      BY DEF ReplayOK
    <2> QED BY DEF Init, HasTerminal
  <1>2. IInv /\ ReplayOK => ReplayBound
    <2> SUFFICES ASSUME IInv, ReplayOK, NEW o \in Outline
                 PROVE  started[o] <= Cardinality(Client) + faults
      BY DEF ReplayBound
    <2>1. faults \in Nat /\ started[o] \in Nat
      BY OutlineAssumption DEF IInv, TypeOK
    <2>2. ~HasTerminal(o) => started[o] <= faults
      <3>1. ~HasTerminal(o) => ~Logged(o, "accepted")
        BY DEF HasTerminal, Logged
      <3> QED BY <3>1 DEF IInv, StartsOK
    <2> QED BY <2>1, <2>2, AcceptingIsFinite DEF ReplayOK
  <1> QED BY <1>1, <1>2, Inductive, NextPreservesReplay, PTL DEF Spec

-----------------------------------------------------------------------------
(***************************************************************************)
(* Counting the rows "expired" of a ticket.  A sweep that is about to      *)
(* insert one counts as one; nobody joins once an outcome is logged.       *)
(***************************************************************************)
Inserting(o) == {s \in Sweep : sweep[s].row = o}

ExpiredOK ==
    \A o \in Outline :
        /\ HasTerminal(o) =>
             Cardinality(ExpiredRows(o)) + Cardinality(Inserting(o)) <= Cardinality(Sweep)
        /\ ~HasTerminal(o) => ExpiredRows(o) = {}

LEMMA SweepIsFinite == IsFiniteSet(Sweep) /\ Cardinality(Sweep) \in Nat
  <1>1. IsFiniteSet(UserSweep \cup {Housekeeper})
    BY OutlineAssumption, FS_AddElement
  <1> QED BY <1>1, FS_CardinalityType DEF Sweep

LEMMA InsertingIsFinite ==
    ASSUME NEW o
    PROVE  /\ IsFiniteSet(Inserting(o)) /\ Cardinality(Inserting(o)) \in Nat
           /\ IsFiniteSet(Inserting(o)') /\ Cardinality(Inserting(o)') \in Nat
           /\ Cardinality(Inserting(o)) <= Cardinality(Sweep)
           /\ Cardinality(Inserting(o)') <= Cardinality(Sweep)
  <1>1. Inserting(o) \subseteq Sweep /\ Inserting(o)' \subseteq Sweep
    BY DEF Inserting
  <1> QED BY <1>1, SweepIsFinite, FS_Subset, FS_CardinalityType

LEMMA ExpiredIsFinite ==
    ASSUME TypeOK, NEW o \in Outline
    PROVE  /\ ExpiredRows(o) \subseteq 1..Len(events[o]) /\ Len(events[o]) \in Nat
           /\ IsFiniteSet(ExpiredRows(o)) /\ Cardinality(ExpiredRows(o)) \in Nat
  <1>1. Len(events[o]) \in Nat /\ DOMAIN events[o] = 1..Len(events[o])
    BY DEF TypeOK
  <1>2. IsFiniteSet(1..Len(events[o]))
    BY <1>1, FS_Interval
  <1>3. ExpiredRows(o) \subseteq 1..Len(events[o])
    BY <1>1 DEF ExpiredRows
  <1> QED BY <1>1, <1>2, <1>3, FS_Subset, FS_CardinalityType

(* A row "expired" is one more; another row is none.                       *)
LEMMA AppendCounts ==
    ASSUME TypeOK, NEW o \in Outline, NEW x \in Outcome, Append_(o, x), NEW p \in Outline
    PROVE  /\ (p # o \/ x # "expired") => ExpiredRows(p)' = ExpiredRows(p)
           /\ (p = o /\ x = "expired") =>
                Cardinality(ExpiredRows(p)') = Cardinality(ExpiredRows(p)) + 1
  <1> DEFINE s == events[o]
             t == Append(s, x)
             n == Len(s) + 1
  <1>1. events \in [Outline -> Seq(Outcome)] /\ events' = [events EXCEPT ![o] = t]
    BY DEF TypeOK, Append_
  <1>2. /\ Len(s) \in Nat /\ DOMAIN s = 1..Len(s) /\ DOMAIN t = 1..n
        /\ \A i \in 1..Len(s) : t[i] = s[i]
        /\ t[n] = x
    BY <1>1
  <1>3. events'[p] = IF p = o THEN t ELSE events[p]
    BY <1>1
  <1>4. 1..n = (1..Len(s)) \cup {n} /\ n \notin 1..Len(s)
    BY <1>2
  <1> HIDE DEF t, n, s
  <1>5. CASE p # o
    BY <1>3, <1>5 DEF ExpiredRows
  <1>6. CASE p = o
    <2>1. ExpiredRows(p) = {i \in 1..Len(s) : s[i] = "expired"}
      BY <1>2, <1>6 DEF ExpiredRows, s
    <2>2. ExpiredRows(p)' = {i \in 1..n : t[i] = "expired"}
      BY <1>2, <1>3, <1>6 DEF ExpiredRows
    <2>3. x # "expired" => ExpiredRows(p)' = ExpiredRows(p)
      BY <1>2, <1>4, <2>1, <2>2
    <2>4. x = "expired" => ExpiredRows(p)' = ExpiredRows(p) \cup {n}
      BY <1>2, <1>4, <2>1, <2>2
    <2>5. n \notin ExpiredRows(p)
      BY <1>4, <2>1
    <2> QED BY <1>6, <2>3, <2>4, <2>5, ExpiredIsFinite, FS_AddElement
  <1> QED BY <1>5, <1>6

(***************************************************************************)
(* What a step does to one ticket: it logs something else or nothing and   *)
(* the sweeps that insert are the same or fewer, or its sweep joins before *)
(* any outcome is logged, or the sweep inserts and leaves.                 *)
(***************************************************************************)
LEMMA ExpiryCases ==
    ASSUME IInv, [Next]_vars, NEW p \in Outline
    PROVE  \/ /\ ExpiredRows(p)' = ExpiredRows(p)
              /\ Inserting(p)' \subseteq Inserting(p)
           \/ /\ ~HasTerminal(p) /\ ~HasTerminal(p)'
              /\ ExpiredRows(p)' = ExpiredRows(p)
           \/ /\ HasTerminal(p)'
              /\ Cardinality(ExpiredRows(p)') = Cardinality(ExpiredRows(p)) + 1
              /\ \E s \in Inserting(p) : Inserting(p)' \subseteq Inserting(p) \ {s}
  <1> DEFINE Other == /\ ExpiredRows(p)' = ExpiredRows(p)
                      /\ Inserting(p)' \subseteq Inserting(p)
             Joins == /\ ~HasTerminal(p) /\ ~HasTerminal(p)'
                      /\ ExpiredRows(p)' = ExpiredRows(p)
             Leaves == /\ HasTerminal(p)'
                       /\ Cardinality(ExpiredRows(p)') = Cardinality(ExpiredRows(p)) + 1
                       /\ \E s \in Inserting(p) : Inserting(p)' \subseteq Inserting(p) \ {s}
  <1> USE DEF None
  <1>1. TypeOK
    BY DEF IInv
  <1>2. UNCHANGED events => ExpiredRows(p)' = ExpiredRows(p)
    BY DEF ExpiredRows
  <1>3. UNCHANGED sweep => Inserting(p)' = Inserting(p)
    BY DEF Inserting
  <1>4. \A o \in Outline : \A x \in Outcome \ {"expired"} :
          Append_(o, x) => ExpiredRows(p)' = ExpiredRows(p)
    BY <1>1, AppendCounts
  <1>5. ASSUME NEW c \in Client, RequestStep(c)
        PROVE  Other
    <2>1. UNCHANGED sweep
      BY <1>5
         DEF RequestStep, Mint, AppendPending, AppendPendingFails, RefreshGet, AcceptGet,
             RefreshInvalidate, AppendRefreshed, AcceptCheck, AppendAccepted, Abort
    <2>2. \/ UNCHANGED events
          \/ pc[c] \in {"append", "refresh", "accept"}
             /\ \E x \in Outcome \ {"expired"} : Append_(hand[c], x)
      BY <1>5
         DEF RequestStep, Mint, AppendPending, AppendPendingFails, RefreshGet, AcceptGet,
             RefreshInvalidate, AppendRefreshed, AcceptCheck, AppendAccepted, Abort, Outcome
    <2>3. pc[c] # "idle" /\ pc[c] # "compose" => \E o \in Outline : o = hand[c]
      BY SMTT(30), OutlineAssumption DEF IInv, TypeOK, HandsOK, Outline
    <2>4. pc[c] \in {"append", "refresh", "accept"} /\
            (\E x \in Outcome \ {"expired"} : Append_(hand[c], x))
              => ExpiredRows(p)' = ExpiredRows(p)
      BY <1>4, <2>3
    <2> QED BY <1>2, <1>3, <2>1, <2>2, <2>4
  <1>6. ASSUME NEW s \in Sweep, HousekeeperScan(s) \/ VisitScan(s) \/ SweepDies(s)
        PROVE  Other
    <2>1. UNCHANGED events
      BY <1>6 DEF HousekeeperScan, VisitScan, Scan, SweepDies
    <2>2. \A r \in Sweep : sweep'[r].row = sweep[r].row \/ sweep'[r].row = None
      <3>1. \A r \in Sweep : sweep[r] \in [rows : SUBSET Outline, row : 0..MaxOutlines]
        BY <1>1 DEF TypeOK
      <3>2. sweep \in [Sweep -> [rows : SUBSET Outline, row : 0..MaxOutlines]]
        BY <1>1 DEF TypeOK
      <3>3. CASE \E S : Scan(s, S)
        <4>1. PICK R : sweep' = [sweep EXCEPT ![s].rows = R]
          BY <3>3 DEF Scan
        <4> QED BY <3>1, <3>2, <4>1
      <3>4. CASE SweepDies(s)
        <4>1. sweep' = [sweep EXCEPT ![s] = IdleSweep] /\ IdleSweep.row = None
          BY <3>4 DEF SweepDies, IdleSweep
        <4> QED BY <3>2, <4>1
      <3> QED BY <1>6, <3>3, <3>4 DEF HousekeeperScan, VisitScan
    <2>3. Inserting(p)' \subseteq Inserting(p)
      BY <2>2, OutlineAssumption DEF Inserting, Outline
    <2> QED BY <1>2, <2>1, <2>3
  <1>7. ASSUME NEW s \in Sweep, MarkBegins(s)
        PROVE  Other \/ Joins
    <2>1. UNCHANGED events
      BY <1>7 DEF MarkBegins
    <2>2. \A r \in Sweep : sweep'[r].row = sweep[r].row \/ sweep'[r].row = None
                           \/ \E o \in Outline : sweep'[r].row = o /\ ~HasTerminal(o)
      BY <1>1, <1>7, SweepTypes DEF MarkBegins, TypeOK
    <2>3. HasTerminal(p) => Inserting(p)' \subseteq Inserting(p)
      BY <2>2, OutlineAssumption DEF Inserting, Outline
    <2>4. HasTerminal(p)' <=> HasTerminal(p)
      BY <2>1, SameRows
    <2> QED BY <1>2, <2>1, <2>3, <2>4
  <1>8. ASSUME NEW s \in Sweep, MarkEnds(s)
        PROVE  Other \/ Leaves
    <2>1. PICK o \in Outline : o = sweep[s].row
      BY <1>1, <1>8, SweepTypes, OutlineAssumption DEF MarkEnds, Outline
    <2>2. /\ \A r \in Sweep : r # s => sweep'[r].row = sweep[r].row
          /\ sweep'[s].row = None
      BY <1>1, <1>8 DEF MarkEnds, TypeOK
    <2>3. Inserting(p)' \subseteq Inserting(p) \ {s}
      BY <2>2, OutlineAssumption DEF Inserting, Outline
    <2>4. UNCHANGED events \/ Append_(o, "expired")
      BY <1>8, <2>1 DEF MarkEnds
    <2>5. Append_(o, "expired") /\ p # o => ExpiredRows(p)' = ExpiredRows(p)
      BY <1>1, AppendCounts DEF Outcome
    <2>6. Append_(o, "expired") /\ p = o =>
            /\ Cardinality(ExpiredRows(p)') = Cardinality(ExpiredRows(p)) + 1
            /\ HasTerminal(p)'
      BY <1>1, AppendCounts, AppendRow DEF Outcome
    <2>7. p = o => s \in Inserting(p)
      BY <2>1 DEF Inserting
    <2> QED BY <1>2, <2>3, <2>4, <2>5, <2>6, <2>7
  <1>9. ASSUME NEW o \in Outline, TimePasses(o)
        PROVE  Other
    BY <1>2, <1>3, <1>9 DEF TimePasses, TtlElapsed, GraceElapsed, ThresholdElapsed
  <1>10. CASE UNCHANGED vars
    BY <1>2, <1>3, <1>10 DEF vars
  <1> QED BY <1>5, <1>6, <1>7, <1>8, <1>9, <1>10 DEF Next, SweepStep

LEMMA NextPreservesExpired == IInv /\ ExpiredOK /\ [Next]_vars => ExpiredOK'
  <1> SUFFICES ASSUME IInv, ExpiredOK, [Next]_vars, NEW p \in Outline
               PROVE  /\ HasTerminal(p)' =>
                           Cardinality(ExpiredRows(p)') + Cardinality(Inserting(p)')
                               <= Cardinality(Sweep)
                      /\ ~HasTerminal(p)' => ExpiredRows(p)' = {}
    BY DEF ExpiredOK
  <1>1. TypeOK /\ TypeOK'
    BY NextPreservesIInv DEF IInv
  <1>2. Cardinality(ExpiredRows(p)) \in Nat /\ Cardinality(Sweep) \in Nat
    BY <1>1, ExpiredIsFinite, SweepIsFinite
  <1>3. /\ HasTerminal(p) =>
             Cardinality(ExpiredRows(p)) + Cardinality(Inserting(p)) <= Cardinality(Sweep)
        /\ ~HasTerminal(p) => ExpiredRows(p) = {} /\ Cardinality(ExpiredRows(p)) = 0
    BY FS_EmptySet DEF ExpiredOK
  <1>4. ~HasTerminal(p)' => ExpiredRows(p)' = {}
    BY DEF HasTerminal, ExpiredRows
  <1>5. CASE ExpiredRows(p)' = ExpiredRows(p) /\ Inserting(p)' \subseteq Inserting(p)
    <2>1. Cardinality(Inserting(p)') <= Cardinality(Inserting(p))
      BY <1>5, InsertingIsFinite, FS_Subset
    <2> QED BY <1>2, <1>3, <1>4, <1>5, <2>1, InsertingIsFinite
  <1>6. ASSUME Cardinality(ExpiredRows(p)') = Cardinality(ExpiredRows(p)) + 1,
               NEW s \in Inserting(p), Inserting(p)' \subseteq Inserting(p) \ {s}
        PROVE  Cardinality(ExpiredRows(p)') + Cardinality(Inserting(p)') <= Cardinality(Sweep)
    <2>1. Cardinality(Inserting(p)') + 1 <= Cardinality(Inserting(p))
      BY <1>6, InsertingIsFinite, OneLess
    <2> QED BY <1>2, <1>3, <1>6, <2>1, InsertingIsFinite
  <1> QED BY <1>3, <1>4, <1>5, <1>6, ExpiryCases

(***************************************************************************)
(* Without a unique key, a ticket gets at most one row "expired" for each  *)
(* sweep that may run.                                                     *)
(***************************************************************************)
THEOREM ExpiryIsLoggedFewTimes == Spec => []ExpiredBound
  <1>1. Init => ExpiredOK
    <2> SUFFICES ASSUME Init, NEW o \in Outline
                 PROVE  ~HasTerminal(o) /\ ExpiredRows(o) = {}
      BY DEF ExpiredOK
    <2> QED BY DEF Init, HasTerminal, ExpiredRows
  <1>2. IInv /\ ExpiredOK => ExpiredBound
    <2> SUFFICES ASSUME IInv, ExpiredOK, NEW o \in Outline
                 PROVE  Cardinality(ExpiredRows(o)) <= Cardinality(Sweep)
      BY DEF ExpiredBound
    <2>1. Cardinality(ExpiredRows(o)) \in Nat /\ Cardinality(Sweep) \in Nat
      BY ExpiredIsFinite, SweepIsFinite DEF IInv
    <2>2. ~HasTerminal(o) => Cardinality(ExpiredRows(o)) = 0
      BY FS_EmptySet DEF ExpiredOK
    <2> QED BY <2>1, <2>2, InsertingIsFinite DEF ExpiredOK
  <1> QED BY <1>1, <1>2, Inductive, NextPreservesExpired, PTL DEF Spec

-----------------------------------------------------------------------------
(***************************************************************************)
(* OutlineLifecycle implements Ticket.  Besides IInv this needs that a     *)
(* request works on a ticket of its own account from one check to the next *)
(* command.                                                                *)
(***************************************************************************)
OwnersOK == \A c \in Client : pc[c] # "idle" => hand[c] \in 1..minted /\ Owns(c, hand[c])

Stages == [o \in Outline |-> Stage(o)]
Owners == [o \in Outline |-> OwnerOf(o)]
Redeemers == [o \in Outline |-> Holders(o)]

LEMMA Minted ==
    ASSUME TypeOK
    PROVE  /\ minted \in Nat /\ minted <= MaxOutlines /\ MaxOutlines \in Nat
           /\ 1..minted \subseteq Outline /\ issued \subseteq 1..minted
           /\ cached \subseteq 1..minted /\ None \notin Outline
  <1>1. minted \in 0..MaxOutlines /\ issued \subseteq 1..minted /\ cached \subseteq 1..minted
    BY DEF TypeOK
  <1> QED BY <1>1, OutlineAssumption DEF Outline, None

LEMMA StageFacts ==
    ASSUME IInv, NEW o \in Outline
    PROVE  /\ Logged(o, "expired") => HasTerminal(o)
           /\ Stage(o) = "new" <=> ~Logged(o, "pending")
           /\ Stage(o) = "open" <=> LatestOutcome(o) = "pending"
           /\ Stage(o) = "spent" <=> HasTerminal(o) /\ ~Logged(o, "expired")
           /\ Stage(o) = "lapsed" <=> Logged(o, "expired")
  <1>1. Logged(o, "expired") => HasTerminal(o)
    BY DEF Logged, HasTerminal
  <1> QED BY <1>1 DEF IInv, RowsOK, Stage

LEMMA StagesKept == ASSUME UNCHANGED events PROVE Stages' = Stages
  <1>1. \A o : Stage(o)' = Stage(o)
    BY SameRows DEF Stage, Outcome
  <1> QED BY <1>1 DEF Stages

LEMMA OwnersKept == ASSUME UNCHANGED <<events, outline>> PROVE Owners' = Owners
  <1>1. \A o : OwnerOf(o)' = OwnerOf(o)
    BY SameRows DEF OwnerOf, Outcome
  <1> QED BY <1>1 DEF Owners

LEMMA RedeemersKept == ASSUME UNCHANGED <<pc, hand>> PROVE Redeemers' = Redeemers
  BY DEF Redeemers, Holders

(* A row moves its ticket and no other.                                    *)
LEMMA StageMoves ==
    ASSUME IInv, NEW o \in Outline, NEW x \in Outcome, Append_(o, x), UNCHANGED outline
    PROVE  /\ Stages' = [Stages EXCEPT ![o] = Stage(o)']
           /\ Stage(o)' = IF Logged(o, "expired") \/ x = "expired" THEN "lapsed"
                          ELSE IF HasTerminal(o) \/ x # "pending" THEN "spent" ELSE "open"
           /\ Owners' = [Owners EXCEPT ![o] = OwnerOf(o)']
           /\ OwnerOf(o)' = IF Logged(o, "pending") \/ x = "pending"
                            THEN outline[o].owner ELSE None
  <1>1. \A p \in Outline :
          /\ \A y \in Outcome : Logged(p, y)' <=> Logged(p, y) \/ (p = o /\ y = x)
          /\ HasTerminal(p)' <=> HasTerminal(p) \/ (p = o /\ x # "pending")
    BY AppendRow DEF IInv
  <1>2. \A p \in Outline : p # o => Stage(p)' = Stage(p) /\ OwnerOf(p)' = OwnerOf(p)
    BY <1>1 DEF Stage, OwnerOf, Outcome
  <1>3. Stages' = [Stages EXCEPT ![o] = Stage(o)']
    BY <1>2 DEF Stages
  <1>4. Owners' = [Owners EXCEPT ![o] = OwnerOf(o)']
    BY <1>2 DEF Owners
  <1>5. /\ Logged(o, "expired")' <=> Logged(o, "expired") \/ x = "expired"
        /\ Logged(o, "pending")' <=> Logged(o, "pending") \/ x = "pending"
        /\ HasTerminal(o)' <=> HasTerminal(o) \/ x # "pending"
    BY <1>1 DEF Outcome
  <1>6. HasTerminal(o) => Logged(o, "pending")
    BY DEF IInv, RowsOK
  <1>7. Stage(o)' = IF Logged(o, "expired") \/ x = "expired" THEN "lapsed"
                   ELSE IF HasTerminal(o) \/ x # "pending" THEN "spent" ELSE "open"
    <2>1. CASE HasTerminal(o)'
      BY <1>5, <2>1 DEF Stage
    <2>2. CASE ~HasTerminal(o)'
      <3>1. x = "pending" /\ ~HasTerminal(o) /\ ~Logged(o, "expired")
        BY <1>5, <2>2, StageFacts
      <3> QED BY <1>5, <2>2, <3>1 DEF Stage
    <2> QED BY <2>1, <2>2
  <1>8. OwnerOf(o)' = IF Logged(o, "pending") \/ x = "pending" THEN outline[o].owner ELSE None
    BY <1>5 DEF OwnerOf
  <1> QED BY <1>3, <1>4, <1>7, <1>8

(* A step of a request takes it out of one ticket's holders, or puts it in. *)
LEMMA RedeemersMove ==
    ASSUME TypeOK, NEW c \in Client, NEW to, NEW h, Step(c, to, h)
    PROVE  Redeemers' = [o \in Outline |-> (Holders(o) \ {c}) \cup
                             (IF to = "accept" /\ h = o THEN {c} ELSE {})]
  <1>1. \A d \in Client : /\ pc'[d] = IF d = c THEN to ELSE pc[d]
                          /\ hand'[d] = IF d = c THEN h ELSE hand[d]
    BY DEF Step, TypeOK
  <1>2. ASSUME NEW o \in Outline
        PROVE  Holders(o)' = (Holders(o) \ {c}) \cup (IF to = "accept" /\ h = o THEN {c} ELSE {})
    BY <1>1 DEF Holders
  <1> QED BY <1>2 DEF Redeemers

(* A request that does not come from acceptance and does not go there.     *)
LEMMA RedeemersStay ==
    ASSUME TypeOK, NEW c \in Client, NEW to, NEW h, Step(c, to, h),
           pc[c] # "accept", to # "accept"
    PROVE  Redeemers' = Redeemers
  <1>1. \A o \in Outline : (Holders(o) \ {c}) \cup {} = Holders(o)
    BY DEF Holders
  <1> QED BY <1>1, RedeemersMove DEF Redeemers

LEMMA InitTicket == Init => Tickets!Init /\ OwnersOK
  <1> SUFFICES ASSUME Init PROVE Tickets!Init /\ OwnersOK
    OBVIOUS
  <1>1. \A o \in Outline : \A y \in Outcome : ~Logged(o, y) /\ ~HasTerminal(o)
    BY DEF Init, Logged, HasTerminal
  <1>2. \A o \in Outline : Stage(o) = "new" /\ OwnerOf(o) = None /\ Holders(o) = {}
    BY <1>1 DEF Init, Stage, OwnerOf, Holders, Outcome
  <1> QED BY <1>2 DEF Init, Tickets!Init, OwnersOK

LEMMA NextPreservesOwners ==
    ASSUME IInv, OwnersOK, [Next]_vars
    PROVE  OwnersOK'
  <1>1. TypeOK
    BY DEF IInv
  <1>2. ASSUME NEW c \in Client, NEW to, NEW h, Step(c, to, h), minted' >= minted,
               \A o \in 1..minted : outline'[o].owner = outline[o].owner,
               to = "idle" \/ (h \in 1..minted' /\ outline'[h].owner = Account[c])
        PROVE  OwnersOK'
    <2>1. \A d \in Client : /\ pc'[d] = IF d = c THEN to ELSE pc[d]
                            /\ hand'[d] = IF d = c THEN h ELSE hand[d]
      BY <1>1, <1>2 DEF Step, TypeOK
    <2>2. minted' \in Nat
      <3>1. TypeOK'
        BY NextPreservesIInv DEF IInv
      <3> QED BY <3>1, OutlineAssumption DEF TypeOK
    <2>3. ASSUME NEW d \in Client, d # c, pc[d] # "idle"
          PROVE  hand[d] \in 1..minted' /\ outline'[hand[d]].owner = Account[d]
      <3>1. hand[d] \in 1..minted /\ outline[hand[d]].owner = Account[d]
        BY <2>3 DEF OwnersOK, Owns
      <3> QED BY <1>1, <1>2, <2>2, <3>1, Minted
    <2> QED BY <1>2, <2>1, <2>3 DEF OwnersOK, Owns
  <1>3. ASSUME NEW c \in Client, Mint(c) PROVE OwnersOK'
    <2>1. /\ Step(c, "append", minted + 1) /\ minted' = minted + 1 /\ minted < MaxOutlines
          /\ outline' = [outline EXCEPT ![minted + 1] =
               [owner |-> Account[c], parent |-> hand[c],
                group |-> Lineage(hand[c]).group, variant |-> Lineage(hand[c]).variant]]
      BY <1>3 DEF Mint
    <2>2. minted + 1 \in Outline /\ minted + 1 \in 1..(minted + 1) /\ minted \in Nat
      BY <1>1, <2>1, Minted DEF Outline
    <2>3. outline'[minted + 1].owner = Account[c]
      BY <1>1, <2>1, <2>2 DEF TypeOK
    <2>4. \A o \in 1..minted : outline'[o].owner = outline[o].owner
      BY <1>1, <2>1, <2>2, Minted DEF TypeOK
    <2>5. minted' >= minted
      BY <2>1, <2>2
    <2> QED BY <1>2, <2>1, <2>2, <2>3, <2>4, <2>5
  <1>4. ASSUME NEW c \in Client, RequestStep(c), ~Mint(c) PROVE OwnersOK'
    <2>1. UNCHANGED <<minted, outline>>
      BY <1>4 DEF RequestStep, AppendPending, AppendPendingFails, RefreshGet, AcceptGet,
                  RefreshInvalidate, AppendRefreshed, AcceptCheck, AppendAccepted, Abort, tickets
    <2>2. \/ Step(c, "idle", None)
          \/ \E o \in issued : Owns(c, o) /\ (Step(c, "invalidate", o) \/ Step(c, "resolve", o))
          \/ /\ pc[c] # "idle"
             /\ \E to \in {"refresh", "compose", "accept"} : Step(c, to, hand[c])
      BY <1>4 DEF RequestStep, AppendPending, AppendPendingFails, RefreshGet, AcceptGet,
                  RefreshInvalidate, AppendRefreshed, AcceptCheck, AppendAccepted, Abort
    <2>3. minted \in Nat /\ issued \subseteq 1..minted
      BY <1>1, Minted
    <2>4. PICK to, h : /\ Step(c, to, h)
                       /\ to = "idle" \/ (h \in 1..minted /\ outline[h].owner = Account[c])
      BY <2>2, <2>3 DEF OwnersOK, Owns
    <2> QED BY <1>2, <2>1, <2>3, <2>4
  <1>5. CASE /\ UNCHANGED <<minted, outline, pc, hand>>
    BY <1>5 DEF OwnersOK, Owns
  <1>6. CASE \/ \E s \in Sweep : SweepStep(s) \/ SweepDies(s)
             \/ \E o \in Outline : TimePasses(o)
             \/ UNCHANGED vars
    <2>1. UNCHANGED <<minted, outline, pc, hand>>
      BY <1>6 DEF SweepStep, HousekeeperScan, VisitScan, Scan, MarkBegins, MarkEnds, SweepDies,
                  TimePasses, TtlElapsed, GraceElapsed, ThresholdElapsed, tickets, requestVars, vars
    <2> QED BY <1>5, <2>1
  <1> QED BY <1>3, <1>4, <1>6 DEF Next

(* What a step must leave alone to be no step of the ticket.               *)
LEMMA TicketStutters ==
    ASSUME Stages' = Stages, Owners' = Owners, Redeemers' = Redeemers, started' = started
    PROVE  /\ UNCHANGED faults => UNCHANGED Tickets!vars
           /\ Fail => Tickets!Fault
  BY DEF Stages, Owners, Redeemers, Tickets!vars, Tickets!Fault, Tickets!Fail, Fail

LEMMA MintRefines ==
    ASSUME IInv, NEW c \in Client, Mint(c)
    PROVE  UNCHANGED Tickets!vars
  <1>1. /\ TypeOK /\ UNCHANGED <<events, started, faults>>
        /\ pc[c] # "accept" /\ Step(c, "append", minted + 1)
    BY DEF Mint, IInv
  <1>2. Stages' = Stages /\ Redeemers' = Redeemers
    BY <1>1, StagesKept, RedeemersStay
  <1>3. ASSUME NEW o \in Outline PROVE OwnerOf(o)' = OwnerOf(o)
    <2>1. Logged(o, "pending")' <=> Logged(o, "pending")
      BY <1>1, SameRows DEF Outcome
    <2>2. Logged(o, "pending") => outline'[o] = outline[o]
      <3>1. minted \in Nat /\ o \in Nat
        BY <1>1, Minted DEF Outline
      <3>2. Logged(o, "pending") => o # minted + 1
        BY <3>1 DEF IInv, RowsOK
      <3> QED BY <1>1, <3>2 DEF Mint, TypeOK
    <2> QED BY <2>1, <2>2 DEF OwnerOf
  <1> QED BY <1>1, <1>2, <1>3, TicketStutters DEF Owners

LEMMA AppendPendingRefines ==
    ASSUME IInv, OwnersOK, NEW c \in Client, AppendPending(c) \/ AppendPendingFails(c)
    PROVE  Tickets!Next
  <1>1. /\ TypeOK /\ UNCHANGED <<outline, started>>
        /\ pc[c] = "append" /\ Step(c, "idle", None)
        /\ \/ Append_(hand[c], "pending") /\ (UNCHANGED faults \/ Fail)
           \/ UNCHANGED events /\ Fail
    BY DEF AppendPending, AppendPendingFails, IInv, tickets
  <1>2. Redeemers' = Redeemers
    BY <1>1, RedeemersStay
  <1>3. CASE UNCHANGED events /\ Fail
    BY <1>1, <1>2, <1>3, StagesKept, OwnersKept, TicketStutters DEF Tickets!Next
  <1>4. CASE Append_(hand[c], "pending") /\ (UNCHANGED faults \/ Fail)
    <2>1. PICK o \in Outline : o = hand[c]
      BY <1>1, Minted DEF OwnersOK
    <2>2. ~Logged(o, "pending") /\ ~HasTerminal(o) /\ outline[o].owner = Account[c]
      BY <1>1, <2>1 DEF IInv, HandsOK, RowsOK, OwnersOK, Owns
    <2>3. Stage(o) = "new" /\ ~Logged(o, "expired")
      BY <2>2, StageFacts
    <2>4. /\ Stages' = [Stages EXCEPT ![o] = "open"]
          /\ Owners' = [Owners EXCEPT ![o] = Account[c]]
      <3>1. "pending" \in Outcome
        BY DEF Outcome
      <3> QED BY <1>1, <1>4, <2>1, <2>2, <2>3, <3>1, StageMoves
    <2>5. Tickets!Open(c, o)
      BY <1>1, <1>2, <1>4, <2>3, <2>4
         DEF Tickets!Open, Tickets!To, Tickets!MayFail, Tickets!Fail, Fail, Stages, Owners, Redeemers
    <2> QED BY <2>5 DEF Tickets!Next
  <1> QED BY <1>1, <1>3, <1>4

(* RefreshGet, AcceptGet and RefreshInvalidate.                            *)
LEMMA QuietRefines ==
    ASSUME IInv, NEW c \in Client,
           RefreshInvalidate(c) \/ \E o \in Outline : RefreshGet(c, o) \/ AcceptGet(c, o)
    PROVE  UNCHANGED Tickets!vars \/ Tickets!Next
  <1>1. /\ TypeOK /\ UNCHANGED <<outline, events, started>> /\ (UNCHANGED faults \/ Fail)
        /\ pc[c] # "accept"
        /\ \E to \in {"invalidate", "resolve", "refresh"} : \E h : Step(c, to, h)
    BY DEF RefreshInvalidate, RefreshGet, AcceptGet, IInv, tickets
  <1>2. Redeemers' = Redeemers
    BY <1>1, RedeemersStay
  <1> QED BY <1>1, <1>2, StagesKept, OwnersKept, TicketStutters DEF Tickets!Next

(* In the hands of a request, a ticket has not lapsed.                     *)
LEMMA InUseIsNotLapsed ==
    ASSUME IInv, NEW c \in Client, NEW o \in Outline, UsingTicket(c, o)
    PROVE  ~Logged(o, "expired")
  BY DEF IInv, AgesOK, SweepsOK, Untouched

LEMMA AppendRefreshedRefines ==
    ASSUME IInv, OwnersOK, NEW c \in Client, AppendRefreshed(c)
    PROVE  Tickets!Next
  <1>1. /\ TypeOK /\ UNCHANGED <<outline, started>>
        /\ pc[c] = "refresh" /\ Step(c, "compose", hand[c])
        /\ \/ Append_(hand[c], "refreshed") /\ UNCHANGED faults
           \/ UNCHANGED events /\ Fail
    BY DEF AppendRefreshed, IInv, tickets
  <1>2. Redeemers' = Redeemers
    BY <1>1, RedeemersStay
  <1>3. CASE UNCHANGED events /\ Fail
    BY <1>1, <1>2, <1>3, StagesKept, OwnersKept, TicketStutters DEF Tickets!Next
  <1>4. CASE Append_(hand[c], "refreshed") /\ UNCHANGED faults
    <2>1. PICK o \in Outline : o = hand[c]
      BY <1>1, Minted DEF OwnersOK
    <2>2. ~Logged(o, "expired")
      BY <1>1, <2>1, InUseIsNotLapsed DEF UsingTicket
    <2>3. Logged(o, "pending") /\ outline[o].owner = Account[c]
      BY <1>1, <2>1 DEF IInv, HandsOK, RowsOK, OwnersOK, Owns
    <2>4. OwnerOf(o) = Account[c] /\ Stage(o) \in {"open", "spent"}
      BY <2>2, <2>3 DEF OwnerOf, Stage
    <2>5. Stages' = [Stages EXCEPT ![o] = "spent"] /\ Owners' = [Owners EXCEPT ![o] = Owners[o]]
      <3>1. "refreshed" \in Outcome
        BY DEF Outcome
      <3>2. /\ Stages' = [Stages EXCEPT ![o] = "spent"]
            /\ Owners' = [Owners EXCEPT ![o] = outline[o].owner]
        BY <1>1, <1>4, <2>1, <2>2, <2>3, <3>1, StageMoves
      <3>3. Owners[o] = outline[o].owner
        BY <2>3 DEF Owners, OwnerOf
      <3> QED BY <3>2, <3>3
    <2>6. Owners' = Owners
      BY <2>5 DEF Owners
    <2>7. Tickets!Replace(c, o)
      BY <1>1, <1>2, <1>4, <2>4, <2>5, <2>6
         DEF Tickets!Replace, Tickets!To, Stages, Owners, Redeemers
    <2> QED BY <2>7 DEF Tickets!Next
  <1> QED BY <1>1, <1>3, <1>4

LEMMA AcceptCheckRefines ==
    ASSUME IInv, OwnersOK, NEW c \in Client, AcceptCheck(c)
    PROVE  UNCHANGED Tickets!vars \/ Tickets!Next
  <1>1. /\ TypeOK /\ UNCHANGED <<outline, events, started, faults>> /\ pc[c] = "resolve"
        /\ \/ LatestOutcome(hand[c]) = "pending" /\ Step(c, "accept", hand[c])
           \/ Step(c, "idle", None)
    BY DEF AcceptCheck, IInv, tickets
  <1>2. Stages' = Stages /\ Owners' = Owners
    BY <1>1, StagesKept, OwnersKept
  <1>3. CASE Step(c, "idle", None)
    BY <1>1, <1>2, <1>3, RedeemersStay, TicketStutters
  <1>4. CASE LatestOutcome(hand[c]) = "pending" /\ Step(c, "accept", hand[c])
    <2>1. PICK o \in Outline : o = hand[c]
      BY <1>1, Minted DEF OwnersOK
    <2>2. Stage(o) = "open" /\ OwnerOf(o) = Account[c]
      <3>1. Stage(o) = "open" /\ outline[o].owner = Account[c]
        BY <1>1, <1>4, <2>1, StageFacts DEF OwnersOK, Owns
      <3>2. Logged(o, "pending")
        BY <3>1, StageFacts
      <3> QED BY <3>1, <3>2 DEF OwnerOf
    <2>3. Redeemers' = [p \in Outline |-> (Holders(p) \ {c}) \cup (IF o = p THEN {c} ELSE {})]
      BY <1>1, <1>4, <2>1, RedeemersMove
    <2>4. \A p \in Outline : c \notin Holders(p)
      BY <1>1 DEF Holders
    <2>5. Redeemers' = [Redeemers EXCEPT ![o] = @ \cup {c}]
      <3>1. \A p \in Outline : (Holders(p) \ {c}) \cup (IF o = p THEN {c} ELSE {})
                                 = IF p = o THEN Holders(p) \cup {c} ELSE Holders(p)
        BY <2>4
      <3>2. Redeemers' = [p \in Outline |-> IF p = o THEN Holders(p) \cup {c} ELSE Holders(p)]
        BY <2>3, <3>1
      <3> QED BY <3>2 DEF Redeemers
    <2>6. Tickets!Redeem(c, o)
      BY <1>1, <1>2, <2>2, <2>5 DEF Tickets!Redeem, Stages, Owners, Redeemers
    <2> QED BY <2>6 DEF Tickets!Next
  <1> QED BY <1>1, <1>3, <1>4

(* Who leaves pc = "accept" leaves one ticket's holders.                   *)
LEMMA RedeemerLeaves ==
    ASSUME TypeOK, NEW c \in Client, NEW o \in Outline, pc[c] = "accept", hand[c] = o,
           Step(c, "idle", None)
    PROVE  c \in Redeemers[o] /\ Redeemers' = [Redeemers EXCEPT ![o] = @ \ {c}]
  <1>1. Redeemers' = [p \in Outline |-> (Holders(p) \ {c}) \cup {}]
    BY RedeemersMove
  <1>2. c \in Holders(o) /\ \A p \in Outline : p # o => c \notin Holders(p)
    BY DEF Holders
  <1>3. \A p \in Outline : (Holders(p) \ {c}) \cup {}
                             = IF p = o THEN Holders(p) \ {c} ELSE Holders(p)
    BY <1>2
  <1>4. Redeemers' = [p \in Outline |-> IF p = o THEN Holders(p) \ {c} ELSE Holders(p)]
    BY <1>1, <1>3
  <1> QED BY <1>2, <1>4 DEF Redeemers

LEMMA AppendAcceptedRefines ==
    ASSUME IInv, OwnersOK, NEW c \in Client, AppendAccepted(c)
    PROVE  Tickets!Next
  <1>1. /\ TypeOK /\ UNCHANGED outline /\ pc[c] = "accept" /\ Step(c, "idle", None)
        /\ \/ Append_(hand[c], "accepted") /\ UNCHANGED faults
           \/ UNCHANGED events /\ Fail
        /\ started' = [started EXCEPT ![hand[c]] = @ + 1]
    BY DEF AppendAccepted, IInv, tickets
  <1>2. PICK o \in Outline : o = hand[c]
    BY <1>1, Minted DEF OwnersOK
  <1>3. c \in Redeemers[o] /\ Redeemers' = [Redeemers EXCEPT ![o] = @ \ {c}]
    BY <1>1, <1>2, RedeemerLeaves
  <1>4. ~Logged(o, "expired") /\ Logged(o, "pending")
    <2>1. ~Logged(o, "expired")
      BY <1>1, <1>2, InUseIsNotLapsed DEF UsingTicket
    <2>2. Logged(o, "pending")
      BY <1>1, <1>2 DEF IInv, HandsOK, RowsOK
    <2> QED BY <2>1, <2>2
  <1>5. Stage(o) \in {"open", "spent"}
    BY <1>4 DEF Stage
  <1>6. /\ Owners' = Owners
        /\ \/ Stages' = [Stages EXCEPT ![o] = "spent"] /\ UNCHANGED faults
           \/ Stages' = Stages /\ Fail
    <2>1. CASE UNCHANGED events /\ Fail
      BY <1>1, <2>1, StagesKept, OwnersKept
    <2>2. CASE Append_(hand[c], "accepted") /\ UNCHANGED faults
      <3>1. "accepted" \in Outcome
        BY DEF Outcome
      <3>2. /\ Stages' = [Stages EXCEPT ![o] = "spent"]
            /\ Owners' = [Owners EXCEPT ![o] = outline[o].owner]
        BY <1>1, <1>2, <1>4, <2>2, <3>1, StageMoves
      <3>3. Owners[o] = outline[o].owner
        BY <1>4 DEF Owners, OwnerOf
      <3>4. [Owners EXCEPT ![o] = Owners[o]] = Owners
        BY DEF Owners
      <3> QED BY <2>2, <3>2, <3>3, <3>4
    <2> QED BY <1>1, <2>1, <2>2
  <1>7. Tickets!Start(c, o)
    BY <1>1, <1>2, <1>3, <1>5, <1>6
       DEF Tickets!Start, Tickets!To, Tickets!Fail, Fail, Stages, Owners, Redeemers
  <1> QED BY <1>7 DEF Tickets!Next

LEMMA AbortRefines ==
    ASSUME IInv, OwnersOK, NEW c \in Client, Abort(c)
    PROVE  UNCHANGED Tickets!vars \/ Tickets!Next
  <1>1. /\ TypeOK /\ UNCHANGED <<outline, events, started, faults>>
        /\ pc[c] # "idle" /\ Step(c, "idle", None)
    BY DEF Abort, IInv, tickets
  <1>2. Stages' = Stages /\ Owners' = Owners
    BY <1>1, StagesKept, OwnersKept
  <1>3. CASE pc[c] # "accept"
    BY <1>1, <1>2, <1>3, RedeemersStay, TicketStutters
  <1>4. CASE pc[c] = "accept"
    <2>1. PICK o \in Outline : o = hand[c]
      BY <1>1, Minted DEF OwnersOK
    <2>2. c \in Redeemers[o] /\ Redeemers' = [Redeemers EXCEPT ![o] = @ \ {c}]
      BY <1>1, <1>4, <2>1, RedeemerLeaves
    <2>3. Tickets!Leave(c, o)
      BY <1>1, <1>2, <2>2 DEF Tickets!Leave, Stages, Owners, Redeemers
    <2> QED BY <2>3 DEF Tickets!Next
  <1> QED BY <1>3, <1>4

LEMMA MarkEndsRefines ==
    ASSUME IInv, NEW s \in Sweep, MarkEnds(s)
    PROVE  UNCHANGED Tickets!vars \/ Tickets!Next
  <1>1. /\ TypeOK /\ UNCHANGED <<outline, started, pc, hand>> /\ sweep[s].row # None
        /\ \/ Append_(sweep[s].row, "expired") /\ (UNCHANGED faults \/ Fail)
           \/ UNCHANGED events /\ Fail
    BY DEF MarkEnds, IInv, tickets, requestVars
  <1>2. Redeemers' = Redeemers
    BY <1>1, RedeemersKept
  <1>3. CASE UNCHANGED events /\ Fail
    BY <1>1, <1>2, <1>3, StagesKept, OwnersKept, TicketStutters DEF Tickets!Next
  <1>4. CASE Append_(sweep[s].row, "expired") /\ (UNCHANGED faults \/ Fail)
    <2>1. PICK o \in Outline : o = sweep[s].row
      BY <1>1, SweepTypes DEF Outline, None
    <2>2. Untouched(o) /\ Logged(o, "pending") /\ Holders(o) = {}
      <3>1. Untouched(o)
        BY <2>1 DEF IInv, SweepsOK
      <3>2. Logged(o, "pending")
        BY <3>1, OutlineAssumption DEF Untouched, IInv, RowsOK
      <3>3. \A c \in Client : ~UsingTicket(c, o)
        BY <3>1 DEF Untouched, IInv, AgesOK
      <3> QED BY <3>1, <3>2, <3>3 DEF Holders, UsingTicket
    <2>3. Stages' = [Stages EXCEPT ![o] = "lapsed"] /\ Owners' = Owners
      <3>1. "expired" \in Outcome
        BY DEF Outcome
      <3>2. /\ Stages' = [Stages EXCEPT ![o] = "lapsed"]
            /\ Owners' = [Owners EXCEPT ![o] = outline[o].owner]
        BY <1>1, <1>4, <2>1, <2>2, <3>1, StageMoves
      <3>3. Owners[o] = outline[o].owner
        BY <2>2 DEF Owners, OwnerOf
      <3>4. [Owners EXCEPT ![o] = Owners[o]] = Owners
        BY DEF Owners
      <3> QED BY <3>2, <3>3, <3>4
    <2>4. CASE Logged(o, "expired")
      <3>1. Stages' = Stages
        <4>1. Stages[o] = "lapsed"
          BY <2>4, StageFacts DEF Stages
        <4> QED BY <2>3, <4>1 DEF Stages
      <3> QED BY <1>1, <1>2, <1>4, <2>3, <3>1, TicketStutters DEF Tickets!Next
    <2>5. CASE ~Logged(o, "expired")
      <3>1. ~HasTerminal(o)
        <4>1. \A y \in Outcome \ {"pending"} : ~Logged(o, y)
          BY <2>2, <2>5 DEF Untouched, Outcome
        <4>2. \A i \in DOMAIN events[o] : events[o][i] \in Outcome
          BY <1>1 DEF TypeOK
        <4> QED BY <4>1, <4>2 DEF HasTerminal, Logged
      <3>2. Stage(o) = "open"
        BY <2>2, <2>5, <3>1 DEF Stage
      <3>3. Tickets!Lapse(o)
        BY <1>1, <1>2, <1>4, <2>2, <2>3, <3>2
           DEF Tickets!Lapse, Tickets!To, Tickets!MayFail, Tickets!Fail, Fail, Stages, Owners,
               Redeemers
      <3> QED BY <3>3 DEF Tickets!Next
    <2> QED BY <2>4, <2>5
  <1> QED BY <1>1, <1>3, <1>4

LEMMA NextImplementsTicket ==
    ASSUME IInv, OwnersOK, [Next]_vars
    PROVE  Tickets!Next \/ UNCHANGED Tickets!vars
  <1>1. ASSUME UNCHANGED <<outline, events, started, pc, hand>>, UNCHANGED faults \/ Fail
        PROVE  Tickets!Next \/ UNCHANGED Tickets!vars
    BY <1>1, StagesKept, OwnersKept, RedeemersKept, TicketStutters DEF Tickets!Next
  <1>2. ASSUME NEW c \in Client, RequestStep(c)
        PROVE  Tickets!Next \/ UNCHANGED Tickets!vars
    BY <1>2, MintRefines, AppendPendingRefines, QuietRefines, AppendRefreshedRefines,
       AcceptCheckRefines, AppendAcceptedRefines, AbortRefines DEF RequestStep
  <1>3. ASSUME NEW s \in Sweep, SweepStep(s) \/ SweepDies(s), ~MarkEnds(s)
        PROVE  Tickets!Next \/ UNCHANGED Tickets!vars
    BY <1>1, <1>3 DEF SweepStep, HousekeeperScan, VisitScan, Scan, MarkBegins, SweepDies, tickets,
                      requestVars
  <1>4. ASSUME NEW o \in Outline, TimePasses(o)
        PROVE  Tickets!Next \/ UNCHANGED Tickets!vars
    BY <1>1, <1>4 DEF TimePasses, TtlElapsed, GraceElapsed, ThresholdElapsed, tickets, requestVars
  <1>5. CASE UNCHANGED vars
    BY <1>1, <1>5 DEF vars
  <1> QED BY <1>2, <1>3, <1>4, <1>5, MarkEndsRefines DEF Next

(* A request works on a ticket of its own account, from Get to the end.    *)
THEOREM RequestsOwnTheirTickets == Spec => []OwnersOK
  <1>1. Init => OwnersOK
    BY InitTicket
  <1>2. IInv /\ OwnersOK /\ [Next]_vars => OwnersOK'
    BY NextPreservesOwners
  <1> QED BY <1>1, <1>2, Inductive, PTL DEF Spec

(***************************************************************************)
(* Whatever fails and however requests, TTL and sweeps interleave, the two *)
(* stores behave like one ticket: only requests of its account redeem it,  *)
(* and only as long as it is open; a story needs a redemption of its own;  *)
(* and what is spent or has lapsed stays so.                               *)
(***************************************************************************)
THEOREM LifecycleImplementsTicket == Spec => TicketSpec
  <1>1. Init => Tickets!Init
    BY InitTicket
  <1>2. IInv /\ OwnersOK /\ [Next]_vars => [Tickets!Next]_(Tickets!vars)
    BY NextImplementsTicket
  <1> QED BY <1>1, <1>2, Inductive, RequestsOwnTheirTickets, PTL
          DEF Spec, TicketSpec, Tickets!Spec
=============================================================================
