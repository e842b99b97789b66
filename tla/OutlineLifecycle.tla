--------------------------- MODULE OutlineLifecycle ---------------------------
(***************************************************************************)
(* The outline ticket: POST /outlines/preview and /outlines/:id/refresh    *)
(* (server/internal/api/outline.go, service/outline/service.go), the       *)
(* acceptance of a ticket by story generation (resolver_impl.go and step 0 *)
(* of service/story/orchestrator.go), and the two sweeps that expire the   *)
(* abandoned ones (housekeeping.go).                                       *)
(*                                                                         *)
(* A ticket lives in two stores no transaction spans: a Redis key with a   *)
(* TTL of five minutes, and the append-only table outline_events.  Time is *)
(* abstracted to age[o]: the age of the pending row in units the sweeps    *)
(* tell apart.  Prompts, titles and the language model are left out.       *)
(***************************************************************************)
EXTENDS Naturals, FiniteSets, Sequences

CONSTANTS
    Client,        \* requests that may be under way at the same time
    Account,       \* Account[c]: the user the request c authenticates
    MaxOutlines,   \* bound on the outlines ever minted
    UserSweep,     \* sweeps under way for GET /stories and GET /heartbeat
    Housekeeper,   \* the background sweep of the server process
    BatchLimit,    \* rows one sweep takes at most
    MaxFaults      \* bound on failed calls to Redis and Postgres

ASSUME OutlineAssumption ==
    /\ IsFiniteSet(Client) /\ IsFiniteSet(UserSweep)
    /\ MaxOutlines \in Nat /\ MaxFaults \in Nat
    /\ BatchLimit \in Nat \ {0}
    /\ Housekeeper \notin UserSweep

Outline == 1..MaxOutlines
None == 0
Sweep == UserSweep \cup {Housekeeper}
Outcome == {"pending", "accepted", "refreshed", "expired"}

VARIABLES
    minted,    \* ids handed out so far: 1..minted (random in the code)
    outline,   \* outline[o]: owner, parent, group and variant of the ticket
    cached,    \* the tickets Redis holds
    events,    \* events[o]: outcomes of the rows of o, in the order of insertion
    age,       \* age[o]: 0 young, 1 past userSweepGrace, 2 past pendingThreshold
    issued,    \* the tickets a client was given
    started,   \* started[o]: story generations that o was accepted for
    pc,        \* pc[c]: where the request c is
    hand,      \* hand[c]: the ticket c works on; in "compose" the parent, if any
    sweep,     \* sweep[s]: rows the sweep s still has, and the one it inserts
    faults     \* failed calls so far

requestVars == <<pc, hand>>
tickets == <<minted, outline, issued>>
vars == <<minted, outline, cached, events, age, issued, started, pc, hand, sweep, faults>>

NoTicket == [owner |-> None, parent |-> None, group |-> None, variant |-> 0]
IdleSweep == [rows |-> {}, row |-> None]

Init ==
    /\ minted = 0
    /\ outline = [o \in Outline |-> NoTicket]
    /\ cached = {}
    /\ events = [o \in Outline |-> <<>>]
    /\ age = [o \in Outline |-> 0]
    /\ issued = {}
    /\ started = [o \in Outline |-> 0]
    /\ pc = [c \in Client |-> "idle"]
    /\ hand = [c \in Client |-> None]
    /\ sweep = [s \in Sweep |-> IdleSweep]
    /\ faults = 0

-----------------------------------------------------------------------------

Logged(o, outcome) == \E i \in DOMAIN events[o] : events[o][i] = outcome

EarliestOutcome(o) == IF events[o] = <<>> THEN "none" ELSE events[o][1]

LatestOutcome(o) == IF events[o] = <<>> THEN "none" ELSE events[o][Len(events[o])]

HasTerminal(o) == \E i \in DOMAIN events[o] : events[o][i] # "pending"

Append_(o, outcome) == events' = [events EXCEPT ![o] = Append(@, outcome)]

Step(c, to, o) ==
    /\ pc' = [pc EXCEPT ![c] = to]
    /\ hand' = [hand EXCEPT ![c] = o]

Fail == faults < MaxFaults /\ faults' = faults + 1

(* Cache.Get                                                               *)
Found(o) == o \in cached

Owns(c, o) == outline[o].owner = Account[c]

-----------------------------------------------------------------------------

(***************************************************************************)
(* Preview: the checks and the calls of the language model change nothing  *)
(* here, and when they fail the request ends with nothing behind it; then  *)
(* the ticket is made and cached.  Refresh comes here with a parent.       *)
(***************************************************************************)
(* The parent is looked up in Redis; a miss and an error start a new group. *)
Lineage(p) ==
    IF Found(p)
    THEN [group |-> outline[p].group, variant |-> outline[p].variant + 1]
    ELSE [group |-> minted + 1, variant |-> 0]

Mint(c) ==
    /\ pc[c] \in {"idle", "compose"}
    /\ minted < MaxOutlines
    /\ minted' = minted + 1
    /\ outline' = [outline EXCEPT ![minted + 1] =
           [owner |-> Account[c], parent |-> hand[c],
            group |-> Lineage(hand[c]).group, variant |-> Lineage(hand[c]).variant]]
    /\ cached' = cached \cup {minted + 1}
    /\ Step(c, "append", minted + 1)
    /\ UNCHANGED <<events, age, issued, started, sweep, faults>>

AppendPending(c) ==
    /\ pc[c] = "append"
    /\ Append_(hand[c], "pending")
    /\ issued' = issued \cup {hand[c]}
    /\ Step(c, "idle", None)
    /\ UNCHANGED <<minted, outline, cached, age, started, sweep, faults>>

(* The INSERT fails, perhaps after it took effect; the ticket is withdrawn *)
(* from Redis, best effort, and the client is not given it.                *)
AppendPendingFails(c) ==
    /\ pc[c] = "append"
    /\ Fail
    /\ Append_(hand[c], "pending") \/ UNCHANGED events
    /\ cached' \in {cached, cached \ {hand[c]}}
    /\ Step(c, "idle", None)
    /\ UNCHANGED <<tickets, age, started, sweep>>

-----------------------------------------------------------------------------

(***************************************************************************)
(* Refresh: find the parent in Redis, withdraw it, log it, both best       *)
(* effort, and preview again.  The table is not consulted.                 *)
(***************************************************************************)
RefreshGet(c, o) ==
    /\ pc[c] = "idle"
    /\ o \in issued
    /\ Found(o)
    /\ Owns(c, o)
    /\ Step(c, "invalidate", o)
    /\ UNCHANGED <<tickets, cached, events, age, started, sweep, faults>>

RefreshInvalidateLater(c) ==
    /\ pc[c] = "invalidate"
    /\ UNCHANGED <<cached, faults>>
    /\ Step(c, "refresh", hand[c])
    /\ UNCHANGED <<tickets, events, age, started, sweep>>

RefreshInvalidate(c) ==
    /\ pc[c] = "invalidate"
    /\ \/ cached' = cached \ {hand[c]} /\ UNCHANGED faults
       \/ Fail /\ UNCHANGED cached
    /\ Step(c, "refresh", hand[c])
    /\ UNCHANGED <<tickets, events, age, started, sweep>>

AppendRefreshed(c) ==
    /\ pc[c] = "refresh"
    /\ \/ Append_(hand[c], "refreshed") /\ UNCHANGED faults
       \/ Fail /\ UNCHANGED events
    /\ Step(c, "compose", hand[c])
    /\ UNCHANGED <<tickets, cached, age, started, sweep>>

-----------------------------------------------------------------------------

(***************************************************************************)
(* Acceptance: Resolve reads Redis, then the table; the orchestrator then  *)
(* logs 'accepted' and generates, whether the INSERT succeeded or not.     *)
(***************************************************************************)
AcceptGet(c, o) ==
    /\ pc[c] = "idle"
    /\ o \in issued
    /\ Found(o)
    /\ Owns(c, o)
    /\ Step(c, "resolve", o)
    /\ UNCHANGED <<tickets, cached, events, age, started, sweep, faults>>

AcceptCheckOnlyRedis(c) ==
    /\ pc[c] = "resolve"
    /\ Step(c, "accept", hand[c])
    /\ UNCHANGED <<tickets, cached, events, age, started, sweep, faults>>

AcceptCheck(c) ==
    /\ pc[c] = "resolve"
    /\ \/ LatestOutcome(hand[c]) = "pending" /\ Step(c, "accept", hand[c])
       \/ LatestOutcome(hand[c]) # "pending" /\ Step(c, "idle", None)
    /\ UNCHANGED <<tickets, cached, events, age, started, sweep, faults>>

AppendAccepted(c) ==
    /\ pc[c] = "accept"
    /\ \/ Append_(hand[c], "accepted") /\ UNCHANGED faults
       \/ Fail /\ UNCHANGED events
    /\ started' = [started EXCEPT ![hand[c]] = @ + 1]
    /\ Step(c, "idle", None)
    /\ UNCHANGED <<tickets, cached, age, sweep>>

(* The client hangs up or the server dies: the request goes no further.    *)
Abort(c) ==
    /\ pc[c] # "idle"
    /\ Step(c, "idle", None)
    /\ UNCHANGED <<tickets, cached, events, age, started, sweep, faults>>

-----------------------------------------------------------------------------

(***************************************************************************)
(* Time.  The pending row is younger than the Redis key, and userSweepGrace *)
(* is thirty seconds longer than the TTL, so the key is gone before a sweep *)
(* may see the row; a request that found the key needs two round trips to  *)
(* log the outcome, and is taken to be done with them in thirty seconds.   *)
(***************************************************************************)
TtlElapsed(o) ==
    /\ o \in cached
    /\ cached' = cached \ {o}
    /\ UNCHANGED <<tickets, events, age, started, requestVars, sweep, faults>>

UsingTicket(c, o) ==
    hand[c] = o /\ pc[c] \in {"append", "invalidate", "refresh", "resolve", "accept"}

GraceTooShort(o) ==
    /\ age[o] = 0 /\ Logged(o, "pending")
    /\ age' = [age EXCEPT ![o] = 1]
    /\ UNCHANGED <<tickets, cached, events, started, requestVars, sweep, faults>>

GraceElapsed(o) ==
    /\ age[o] = 0 /\ Logged(o, "pending")
    /\ o \notin cached
    /\ \A c \in Client : ~UsingTicket(c, o)
    /\ age' = [age EXCEPT ![o] = 1]
    /\ UNCHANGED <<tickets, cached, events, started, requestVars, sweep, faults>>

ThresholdElapsed(o) ==
    /\ age[o] = 1
    /\ age' = [age EXCEPT ![o] = 2]
    /\ UNCHANGED <<tickets, cached, events, started, requestVars, sweep, faults>>

-----------------------------------------------------------------------------

(***************************************************************************)
(* A sweep selects up to BatchLimit rows, then runs MarkExpiredIfPending   *)
(* on each: an INSERT ... WHERE NOT EXISTS whose sub-select sees what was  *)
(* committed when the statement began, hence two steps.                    *)
(***************************************************************************)
SweepableOnVisit(s) ==
    {o \in Outline : Logged(o, "pending") /\ ~HasTerminal(o)
                     /\ age[o] >= 1 /\ s # Housekeeper}

Sweepable(s) ==
    {o \in Outline : Logged(o, "pending") /\ ~HasTerminal(o)
                     /\ age[o] >= IF s = Housekeeper THEN 2 ELSE 1}

Scan(s, S) ==
    /\ sweep[s] = IdleSweep
    /\ \E R \in SUBSET S :
         /\ R # {}
         /\ Cardinality(R) <= BatchLimit
         /\ R = S \/ Cardinality(R) = BatchLimit
         /\ sweep' = [sweep EXCEPT ![s].rows = R]
    /\ UNCHANGED <<tickets, cached, events, age, started, requestVars, faults>>

(* sweepAll, of everybody's rows, and SweepUser, of those of the account   *)
(* whose app asks for its heartbeat or its stories.                        *)
HousekeeperScan(s) == s = Housekeeper /\ Scan(s, Sweepable(s))

VisitScan(s) ==
    /\ s \in UserSweep
    /\ \E c \in Client : Scan(s, {o \in Sweepable(s) : Owns(c, o)})

MarkBegins(s) ==
    /\ sweep[s].row = None
    /\ \E o \in sweep[s].rows :
         sweep' = [sweep EXCEPT ![s] = [rows |-> @.rows \ {o},
                                        row |-> IF HasTerminal(o) THEN None ELSE o]]
    /\ UNCHANGED <<tickets, cached, events, age, started, requestVars, faults>>

MarkEndsAgain(s) ==
    /\ sweep[s].row # None
    /\ Append_(sweep[s].row, "expired")
    /\ \/ sweep' = [sweep EXCEPT ![s].row = None] /\ UNCHANGED faults
       \/ Fail /\ UNCHANGED sweep
    /\ UNCHANGED <<tickets, cached, age, started, requestVars>>

(* An error is logged and the sweep goes on with its next row.             *)
MarkEnds(s) ==
    /\ sweep[s].row # None
    /\ \/ Append_(sweep[s].row, "expired") /\ UNCHANGED faults
       \/ Fail /\ (Append_(sweep[s].row, "expired") \/ UNCHANGED events)
    /\ sweep' = [sweep EXCEPT ![s].row = None]
    /\ UNCHANGED <<tickets, cached, age, started, requestVars>>

SweepDies(s) ==
    /\ sweep[s] # IdleSweep
    /\ Fail
    /\ sweep' = [sweep EXCEPT ![s] = IdleSweep]
    /\ UNCHANGED <<tickets, cached, events, age, started, requestVars>>

-----------------------------------------------------------------------------

RequestStep(c) ==
    \/ Mint(c) \/ AppendPending(c) \/ AppendPendingFails(c)
    \/ \E o \in Outline : RefreshGet(c, o) \/ AcceptGet(c, o)
    \/ RefreshInvalidate(c) \/ AppendRefreshed(c)
    \/ AcceptCheck(c) \/ AppendAccepted(c)
    \/ Abort(c)

TimePasses(o) == TtlElapsed(o) \/ GraceElapsed(o) \/ ThresholdElapsed(o)

SweepStep(s) == HousekeeperScan(s) \/ VisitScan(s) \/ MarkBegins(s) \/ MarkEnds(s)

Next ==
    \/ \E c \in Client : RequestStep(c)
    \/ \E s \in Sweep : SweepStep(s) \/ SweepDies(s)
    \/ \E o \in Outline : TimePasses(o)

Spec == Init /\ [][Next]_vars

(***************************************************************************)
(* Time passes, a request that was received ends, and the ticker of the    *)
(* background sweep fires for ever.  No user needs to come back: nothing   *)
(* is assumed of the sweeps of GET /stories and GET /heartbeat.            *)
(***************************************************************************)
FairSpec ==
    /\ Spec
    /\ \A c \in Client : WF_vars(pc[c] # "idle" /\ RequestStep(c))
    /\ \A o \in Outline : WF_vars(TimePasses(o))
    /\ WF_vars(SweepStep(Housekeeper))

-----------------------------------------------------------------------------

Owner == {None} \cup {Account[c] : c \in Client}

TypeOK ==
    /\ minted \in 0..MaxOutlines
    /\ outline \in [Outline -> [owner : Owner, parent : 0..minted, group : 0..minted,
                               variant : 0..MaxOutlines]]
    /\ cached \subseteq 1..minted
    /\ issued \subseteq 1..minted
    /\ events \in [Outline -> Seq(Outcome)]
    /\ age \in [Outline -> 0..2]
    /\ started \in [Outline -> Nat]
    /\ pc \in [Client -> {"idle", "compose", "append", "invalidate", "refresh",
                          "resolve", "accept"}]
    /\ hand \in [Client -> 0..minted]
    /\ sweep \in [Sweep -> [rows : SUBSET Outline, row : 0..MaxOutlines]]
    /\ faults \in 0..MaxFaults

(***************************************************************************)
(* Replay defence: one ticket starts no more stories than there are        *)
(* requests racing at one moment, plus one for each 'accepted' row that    *)
(* could not be written; sequential replays never pass Resolve.            *)
(***************************************************************************)
ReplayBound == \A o \in Outline : started[o] <= Cardinality(Client) + faults

(***************************************************************************)
(* A ticket the sweeps expired was not used, except where the row that     *)
(* said so could not be written: the margins between the TTL and the two   *)
(* thresholds keep 'expired' apart from every other outcome.               *)
(***************************************************************************)
ExpiredWasUnused ==
    \A o \in Outline : Logged(o, "expired") =>
        /\ started[o] <= faults
        /\ ~Logged(o, "refreshed") /\ ~Logged(o, "accepted")

(***************************************************************************)
(* MarkExpiredIfPending has no unique key to rely on.  A ticket may get    *)
(* more than one row "expired", but no more than there are sweeps that     *)
(* overlap: none of them inserts twice, and none that begins later.        *)
(***************************************************************************)
ExpiredRows(o) == {i \in DOMAIN events[o] : events[o][i] = "expired"}

ExpiredBound == \A o \in Outline : Cardinality(ExpiredRows(o)) <= Cardinality(Sweep)

(***************************************************************************)
(* Refresh replaces: once the new ticket is out, the old one does not pass *)
(* Resolve, even if one of the two best-effort calls that retire it, or    *)
(* any other single call, has failed.                                      *)
(***************************************************************************)
RefreshRetires ==
    \A o \in issued :
        (outline[o].parent # None /\ faults <= 1) =>
            ~(outline[o].parent \in cached /\ LatestOutcome(outline[o].parent) = "pending")

(***************************************************************************)
(* Every ticket that was logged gets an outcome, though nobody comes back. *)
(***************************************************************************)
EveryTicketEnds == \A o \in Outline : Logged(o, "pending") ~> HasTerminal(o)

(***************************************************************************)
(* The implementation of Ticket: the stage is what the rows say, whatever  *)
(* Redis holds, and a request has redeemed the ticket when Resolve has     *)
(* returned it.                                                            *)
(***************************************************************************)
Stage(o) ==
    IF Logged(o, "expired") THEN "lapsed"
    ELSE IF HasTerminal(o) THEN "spent"
    ELSE IF Logged(o, "pending") THEN "open" ELSE "new"

OwnerOf(o) == IF Logged(o, "pending") THEN outline[o].owner ELSE None

Holders(o) == {c \in Client : pc[c] = "accept" /\ hand[c] = o}

Tickets == INSTANCE Ticket WITH
             Id <- Outline, Nobody <- None,
             stage <- [o \in Outline |-> Stage(o)],
             owner <- [o \in Outline |-> OwnerOf(o)],
             holders <- [o \in Outline |-> Holders(o)]

(***************************************************************************)
(* Two stores, a TTL and two sweeps implement the ticket: one that is out  *)
(* of use never comes back, and none lapses in the hands of a request.     *)
(***************************************************************************)
TicketSpec == Tickets!Spec
=============================================================================
