----------------------------- MODULE RateLimit -----------------------------
(***************************************************************************)
(* PerUserRateLimit (server/internal/api/middleware/ratelimit_gen.go): a   *)
(* counter in Redis for each user and bucket, incremented by every call    *)
(* and forgotten when nobody has called for a window.  The calls of one    *)
(* user; INCR and EXPIRE are one transaction, so calls that overlap are    *)
(* told apart by what their INCR returned, and a call is one step.         *)
(***************************************************************************)
EXTENDS Integers, FiniteSets, Sequences

CONSTANTS
    Window,          \* the TTL of the counter
    MaxPerWindow,    \* calls that are let through
    MaxTime,         \* bound on the clock
    MaxCalls,        \* bound on the calls
    MaxRedisFaults   \* bound on the calls of Redis that fail

ASSUME RateAssumption ==
    /\ Window \in Nat \ {0} /\ MaxPerWindow \in Nat \ {0}
    /\ MaxTime \in Nat /\ MaxCalls \in Nat /\ MaxRedisFaults \in Nat

Endpoint == {"generate", "preview", "refresh"}
Buckets == {"gen", "outline"}

(* How the routes are wired: outlines have one bucket.                     *)
Bucket(e) == IF e = "generate" THEN "gen" ELSE "outline"

VARIABLES
    now,
    counter,   \* counter[b]: the value of the key, and when it expires
    calls,     \* the calls so far: endpoint, time and verdict (history)
    redisFaults

rateVars == <<now, counter, calls, redisFaults>>

RateInit ==
    /\ now = 0
    /\ counter = [b \in Buckets |-> [n |-> 0, until |-> 0]]
    /\ calls = <<>>
    /\ redisFaults = 0

Tick ==
    /\ now < MaxTime
    /\ now' = now + 1
    /\ UNCHANGED <<counter, calls, redisFaults>>

(* What INCR returns.                                                      *)
Incremented(b) == 1 + (IF now < counter[b].until THEN counter[b].n ELSE 0)

IncrKeepsTTL(b) ==
    counter' = [counter EXCEPT ![b] =
        [n |-> Incremented(b), until |-> IF now < @.until THEN @.until ELSE now + Window]]

(* The pair as two commands, the second of which may not run.              *)
IncrMayKeepNoTTL(b) ==
    \E ttl \in {Window, MaxTime + 1} :
        counter' = [counter EXCEPT ![b] = [n |-> Incremented(b), until |-> now + ttl]]

IncrWithTTL(b) ==
    counter' = [counter EXCEPT ![b] = [n |-> Incremented(b), until |-> now + Window]]

Respond(e, verdict) ==
    calls' = Append(calls, [endpoint |-> e, time |-> now, verdict |-> verdict])

(***************************************************************************)
(* A call is let through or answered with 429.  When Redis does not answer *)
(* it is let through, counted or not.                                      *)
(***************************************************************************)
Call(e) ==
    /\ Len(calls) < MaxCalls
    /\ \/ /\ IncrWithTTL(Bucket(e))
          /\ Respond(e, IF Incremented(Bucket(e)) > MaxPerWindow THEN "refused" ELSE "passed")
          /\ UNCHANGED redisFaults
       \/ /\ redisFaults < MaxRedisFaults /\ redisFaults' = redisFaults + 1
          /\ IncrWithTTL(Bucket(e)) \/ UNCHANGED counter
          /\ Respond(e, "unchecked")
    /\ UNCHANGED now

RateNext == Tick \/ \E e \in Endpoint : Call(e)

RateSpec == RateInit /\ [][RateNext]_rateVars

-----------------------------------------------------------------------------

RateTypeOK ==
    /\ now \in 0..MaxTime
    /\ counter \in [Buckets -> [n : Nat, until : Nat]]
    /\ calls \in Seq([endpoint : Endpoint, time : Nat,
                      verdict : {"passed", "refused", "unchecked"}])
    /\ redisFaults \in 0..MaxRedisFaults

(* The endpoints that "share a single per-user rate-limit bucket"          *)
(* (api/router.go).                                                        *)
Group == {{"generate"}, {"preview", "refresh"}}

CallsOf(g) == {i \in DOMAIN calls : calls[i].endpoint \in g}

(***************************************************************************)
(* However the calls are placed, no stretch of time shorter than a window  *)
(* has more than MaxPerWindow calls let through, over all the endpoints of *)
(* a bucket and besides those that Redis did not count.                    *)
(***************************************************************************)
WindowIsBounded ==
    \A g \in Group : \A i \in CallsOf(g) :
        Cardinality({j \in CallsOf(g) : /\ calls[j].time <= calls[i].time
                                        /\ calls[i].time < calls[j].time + Window
                                        /\ calls[j].verdict = "passed"}) <= MaxPerWindow

(***************************************************************************)
(* Since every call restarts the window, a user may be refused who calls   *)
(* less often than MaxPerWindow in a window.  But a refusal comes at the   *)
(* end of a chain of MaxPerWindow calls of the bucket, each less than a    *)
(* window after the one before: who pauses for a window is let in.         *)
(***************************************************************************)
RefusalNeedsChain ==
    \A g \in Group : \A i \in CallsOf(g) : calls[i].verdict = "refused" =>
        \E K \in SUBSET {j \in CallsOf(g) : j < i} :
            /\ Cardinality(K) = MaxPerWindow
            /\ LET first == CHOOSE k \in K : \A j \in K : k <= j IN
               \A j \in K \cup {i} : j # first =>
                   \E k \in K : k < j /\ calls[j].time < calls[k].time + Window
=============================================================================
