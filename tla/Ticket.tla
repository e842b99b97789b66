------------------------------- MODULE Ticket -------------------------------
(***************************************************************************)
(* What an outline ticket promises to story generation and to the parent,  *)
(* with no cache, table, clock or sweep in sight.  A ticket is opened for  *)
(* an account, redeemed by requests of that account as long as it is open, *)
(* and every redemption starts one story or none.  A start spends the      *)
(* ticket, and so does its replacement by a new one; if nobody redeems it, *)
(* it lapses.  One that is spent or has lapsed is never redeemed again.    *)
(*                                                                         *)
(* OutlineLifecycle implements this specification; see its TicketSpec.     *)
(***************************************************************************)
EXTENDS Naturals

CONSTANTS
    Id,          \* the tickets that may ever be opened
    Client,      \* the requests
    Account,     \* Account[c]: the user the request c authenticates
    Nobody,
    MaxFaults    \* bound on failed calls

VARIABLES
    stage,      \* stage[t]: new, open, spent or lapsed
    owner,      \* owner[t]: the account t was opened for
    holders,    \* holders[t]: requests that have redeemed t and not used it yet
    started,    \* started[t]: stories begun with t
    faults      \* failed calls so far

vars == <<stage, owner, holders, started, faults>>

Init ==
    /\ stage = [t \in Id |-> "new"]
    /\ owner = [t \in Id |-> Nobody]
    /\ holders = [t \in Id |-> {}]
    /\ started = [t \in Id |-> 0]
    /\ faults = 0

Fail == faults < MaxFaults /\ faults' = faults + 1
MayFail == UNCHANGED faults \/ Fail

To(t, s) == stage' = [stage EXCEPT ![t] = s]

(* A call that fails may still have taken effect.                          *)
Open(c, t) ==
    /\ stage[t] = "new"
    /\ To(t, "open")
    /\ owner' = [owner EXCEPT ![t] = Account[c]]
    /\ MayFail
    /\ UNCHANGED <<holders, started>>

Redeem(c, t) ==
    /\ stage[t] = "open"
    /\ owner[t] = Account[c]
    /\ holders' = [holders EXCEPT ![t] = @ \cup {c}]
    /\ UNCHANGED <<stage, owner, started, faults>>

(* The ticket stays what it was only if the call that spends it fails.     *)
Start(c, t) ==
    /\ c \in holders[t]
    /\ stage[t] \in {"open", "spent"}
    /\ \/ To(t, "spent") /\ UNCHANGED faults
       \/ UNCHANGED stage /\ Fail
    /\ holders' = [holders EXCEPT ![t] = @ \ {c}]
    /\ started' = [started EXCEPT ![t] = @ + 1]
    /\ UNCHANGED owner

Leave(c, t) ==
    /\ c \in holders[t]
    /\ holders' = [holders EXCEPT ![t] = @ \ {c}]
    /\ UNCHANGED <<stage, owner, started, faults>>

Replace(c, t) ==
    /\ stage[t] \in {"open", "spent"}
    /\ owner[t] = Account[c]
    /\ To(t, "spent")
    /\ UNCHANGED <<owner, holders, started, faults>>

Lapse(t) ==
    /\ stage[t] = "open"
    /\ holders[t] = {}
    /\ To(t, "lapsed")
    /\ MayFail
    /\ UNCHANGED <<owner, holders, started>>

(* A call fails without effect.                                            *)
Fault == Fail /\ UNCHANGED <<stage, owner, holders, started>>

Next ==
    \/ \E t \in Id : \/ Lapse(t)
                     \/ \E c \in Client : \/ Open(c, t) \/ Redeem(c, t) \/ Start(c, t)
                                          \/ Leave(c, t) \/ Replace(c, t)
    \/ Fault

Spec == Init /\ [][Next]_vars
=============================================================================
