--------------------------- MODULE StoryGeneration ---------------------------
(***************************************************************************)
(* Orchestrator.Generate (server/internal/service/story/orchestrator.go)   *)
(* after its outline step: the daily budget, the language model with its   *)
(* retry and its length rewrites, the post-check, the fallback story, and  *)
(* the bookkeeping of the series (storyline_context.go and                 *)
(* repository/storyline_repo.go).  Several requests run at the same time   *)
(* and no transaction spans their steps.  The outline step is in           *)
(* OutlineLifecycle, what follows the INSERT of the story is in            *)
(* AudioPipeline.                                                          *)
(*                                                                         *)
(* A text is its length, in steps of the length guard, and what is wrong   *)
(* with it: nothing but soft hits, which are shipped with a warning, hard  *)
(* ones, which must not be, or both.  Money is counted in calls of the     *)
(* model; the hint for the next episode is left out.                       *)
(***************************************************************************)
EXTENDS Naturals, FiniteSets, Sequences

CONSTANTS
    Request,       \* requests that may be under way at the same time
    Line,          \* the storylines that may be created
    Target,        \* the length below which the length guard asks again
    Limit,         \* the daily budget
    MaxEpisodes,   \* bound on the stories written into one storyline
    MaxFaults      \* bound on failed database and Redis calls, and on aborts

None == "none"

ASSUME StoryAssumption ==
    /\ IsFiniteSet(Request) /\ Request # {}
    /\ None \notin Line
    /\ Target \in Nat /\ Limit \in Nat
    /\ MaxEpisodes \in Nat /\ MaxFaults \in Nat

Text == [len : 0..Target, hits : {"harmless", "hard", "both"}]
NoText == [len |-> 0, hits |-> "harmless"]

(* What POST /stories/generate may ask for; it refuses both kinds of series *)
(* in one request, and does not look at the series itself.                 *)
Mode == {"single", "new", "sequel"}

MaxAttempts == 2   \* calls of the model before it is given up
MaxRewrites == 2   \* rewrites of a text that is too short
MaxCalls == 1 + MaxRewrites

VARIABLES
    created,   \* the storylines that have a row
    count,     \* count[l]: storylines.episode_count
    episodes,  \* episodes[l]: episode_no of the stories of l, in commit order
    spent,     \* the bucket of the day, in calls of the model
    pc,        \* pc[r]: where the request r is
    line,      \* line[r]: the storyline r writes for, or None
    number,    \* number[r]: the episode number r will write
    text,      \* text[r]: the text r holds
    tries,     \* tries[r]: calls made in the present loop
    longest,   \* longest[r]: the length of the longest text r was given (history)
    faults

lines == <<created, count, episodes>>
locals == <<pc, line, number, text, tries, longest>>
vars == <<lines, spent, locals, faults>>

Init ==
    /\ created = {}
    /\ count = [l \in Line |-> 0]
    /\ episodes = [l \in Line |-> <<>>]
    /\ spent = 0
    /\ pc = [r \in Request |-> "idle"]
    /\ line = [r \in Request |-> None]
    /\ number = [r \in Request |-> 0]
    /\ text = [r \in Request |-> NoText]
    /\ tries = [r \in Request |-> 0]
    /\ longest = [r \in Request |-> 0]
    /\ faults = 0

-----------------------------------------------------------------------------

Fail == faults < MaxFaults /\ faults' = faults + 1

Goto(r, label) == pc' = [pc EXCEPT ![r] = label]

(* The request ends: its local variables are gone.                         *)
End(r) ==
    /\ Goto(r, "idle")
    /\ line' = [line EXCEPT ![r] = None]
    /\ number' = [number EXCEPT ![r] = 0]
    /\ text' = [text EXCEPT ![r] = NoText]
    /\ tries' = [tries EXCEPT ![r] = 0]
    /\ longest' = [longest EXCEPT ![r] = 0]

(* BudgetGate.PreCheck, of the bucket of the day.                          *)
UnderBudget == spent < Limit

(* The middleware lets a request through when it cannot read the bucket.   *)
BudgetGuard(r) ==
    /\ pc[r] = "idle"
    /\ \/ UnderBudget /\ UNCHANGED faults
       \/ Fail
    /\ Goto(r, "guarded")
    /\ UNCHANGED <<lines, spent, line, number, text, tries, longest>>

AdmitGuarded(r) ==
    /\ pc[r] = "guarded"
    /\ Goto(r, "prepare")
    /\ UNCHANGED <<lines, spent, line, number, text, tries, longest, faults>>

(***************************************************************************)
(* Generate asks again, and takes a failed read for a refusal.             *)
(***************************************************************************)
Admit(r) ==
    /\ pc[r] = "guarded"
    /\ UnderBudget
    /\ Goto(r, "prepare")
    /\ UNCHANGED <<lines, spent, line, number, text, tries, longest, faults>>

Rejected(r) ==
    /\ pc[r] \in {"guarded", "prepare"}
    /\ End(r)
    /\ UNCHANGED <<lines, spent, faults>>

(* StorylineContextBuilder.Build; what it fails to read besides is left out. *)
NextEpisode(l) == count[l] + 1

(***************************************************************************)
(* Single story, first episode of a new series, or sequel: the number of a *)
(* sequel is read here and used after every call of the model.             *)
(***************************************************************************)
PrepareCountsFirst(r) ==
    /\ pc[r] = "prepare"
    /\ \/ UNCHANGED <<created, count, line, number>>
       \/ \E l \in Line \ created :
            /\ created' = created \cup {l}
            /\ count' = [count EXCEPT ![l] = 1]
            /\ line' = [line EXCEPT ![r] = l]
            /\ number' = [number EXCEPT ![r] = 1]
       \/ \E l \in created :
            /\ line' = [line EXCEPT ![r] = l]
            /\ number' = [number EXCEPT ![r] = NextEpisode(l)]
            /\ UNCHANGED <<created, count>>
    /\ Goto(r, "draft")
    /\ UNCHANGED <<episodes, spent, text, tries, longest, faults>>

Prepare(r) ==
    /\ pc[r] = "prepare"
    /\ \E mode \in Mode :
         \/ mode = "single" /\ UNCHANGED <<created, line, number>>
         \/ mode = "new" /\ \E l \in Line \ created :
              /\ created' = created \cup {l}
              /\ line' = [line EXCEPT ![r] = l]
              /\ number' = [number EXCEPT ![r] = 1]
         \/ mode = "sequel" /\ \E l \in created :
              /\ line' = [line EXCEPT ![r] = l]
              /\ number' = [number EXCEPT ![r] = NextEpisode(l)]
              /\ UNCHANGED created
    /\ Goto(r, "draft")
    /\ UNCHANGED <<count, episodes, spent, text, tries, longest, faults>>

(* Budget.Record is best effort.                                           *)
Pay ==
    \/ spent' = spent + 1 /\ UNCHANGED faults
    \/ Fail /\ UNCHANGED spent

Draft(r) ==
    /\ pc[r] = "draft"
    /\ \E t \in Text :
         /\ text' = [text EXCEPT ![r] = t]
         /\ longest' = [longest EXCEPT ![r] = t.len]
    /\ Pay
    /\ tries' = [tries EXCEPT ![r] = 0]
    /\ Goto(r, "rewrite")
    /\ UNCHANGED <<lines, line, number>>

DraftFails(r) ==
    /\ pc[r] = "draft"
    /\ \/ /\ tries[r] + 1 < MaxAttempts
          /\ tries' = [tries EXCEPT ![r] = @ + 1]
          /\ UNCHANGED pc
       \/ /\ tries[r] + 1 >= MaxAttempts
          /\ tries' = [tries EXCEPT ![r] = 0]
          /\ Goto(r, "fallback")
    /\ UNCHANGED <<lines, spent, line, number, text, longest, faults>>

-----------------------------------------------------------------------------

(* The length guard: swap only for a strictly longer text.                 *)
TooShort(r) == text[r].len < Target /\ tries[r] < MaxRewrites

Rewrite(r) ==
    /\ pc[r] = "rewrite" /\ TooShort(r)
    /\ \E t \in Text :
         /\ text' = [text EXCEPT ![r] = IF t.len > @.len THEN t ELSE @]
         /\ longest' = [longest EXCEPT ![r] = IF t.len > @ THEN t.len ELSE @]
    /\ Pay
    /\ tries' = [tries EXCEPT ![r] = @ + 1]
    /\ UNCHANGED <<lines, pc, line, number>>

(***************************************************************************)
(* PostChecker.Check reports the first hit in the order of the rule list,  *)
(* redlines before fears and the protagonist: with hits of both kinds the  *)
(* verdict may be either.                                                  *)
(***************************************************************************)
Passes(t) == t.hits \in {"harmless", "both"}
Drops(t) == t.hits \in {"hard", "both"}

PostCheckDraft(r) ==
    /\ pc[r] = "rewrite"
    /\ \/ (Passes(text[r]) \/ tries[r] > 0) /\ Goto(r, "persist")
       \/ Drops(text[r]) /\ tries[r] = 0 /\ Goto(r, "fallback")
    /\ tries' = [tries EXCEPT ![r] = 0]
    /\ UNCHANGED <<lines, spent, line, number, text, longest, faults>>

(***************************************************************************)
(* The loop ends when the text is long enough, when it was rewritten twice *)
(* or when a rewrite fails, which it may at any time.  What is found hard  *)
(* is replaced by the fallback.                                            *)
(***************************************************************************)
PostCheck(r) ==
    /\ pc[r] = "rewrite"
    /\ \/ Passes(text[r]) /\ Goto(r, "persist")
       \/ Drops(text[r]) /\ Goto(r, "fallback")
    /\ tries' = [tries EXCEPT ![r] = 0]
    /\ UNCHANGED <<lines, spent, line, number, text, longest, faults>>

(* Fallback.Load, which tries the template of the style and length, that of *)
(* the style, and that of last resort: no text of the model.               *)
Curated == NoText

(* A fallback story belongs to no series; without a template the request   *)
(* ends in an error.                                                       *)
Fallback(r) ==
    /\ pc[r] = "fallback"
    /\ \/ /\ Goto(r, "persist")
          /\ line' = [line EXCEPT ![r] = None]
          /\ number' = [number EXCEPT ![r] = 0]
          /\ text' = [text EXCEPT ![r] = Curated]
          /\ longest' = [longest EXCEPT ![r] = Curated.len]
          /\ UNCHANGED tries
       \/ End(r)
    /\ UNCHANGED <<lines, spent, faults>>

-----------------------------------------------------------------------------

(***************************************************************************)
(* CreateWithOutbox, then, for an episode, the hook for the next one and   *)
(* IncrementEpisode.  An error of the former ends the request, though the  *)
(* story may be there; an error of the latter is logged.                   *)
(***************************************************************************)
Insert(l, n) == episodes' = [episodes EXCEPT ![l] = Append(@, n)]

Persist(r) ==
    /\ pc[r] = "persist"
    /\ \/ /\ line[r] = None
          /\ End(r)
          /\ UNCHANGED episodes
       \/ /\ line[r] # None
          /\ Len(episodes[line[r]]) < MaxEpisodes
          /\ Insert(line[r], number[r])
          /\ Goto(r, "hook")
          /\ text' = [text EXCEPT ![r] = NoText]
          /\ longest' = [longest EXCEPT ![r] = 0]
          /\ UNCHANGED <<line, number, tries>>
    /\ UNCHANGED <<created, count, spent, faults>>

PersistFails(r) ==
    /\ pc[r] = "persist"
    /\ Fail
    /\ \/ UNCHANGED episodes
       \/ /\ line[r] # None
          /\ Len(episodes[line[r]]) < MaxEpisodes
          /\ Insert(line[r], number[r])
    /\ End(r)
    /\ UNCHANGED <<created, count, spent>>

(* ExtractForStory, one more call of the model, whose failure gives no hint. *)
ExtractHook(r) ==
    /\ pc[r] = "hook"
    /\ Goto(r, "increment")
    /\ UNCHANGED <<lines, spent, line, number, text, tries, longest, faults>>

SetEpisode(r) ==
    /\ pc[r] = "increment"
    /\ count' = [count EXCEPT ![line[r]] = number[r]]
    /\ End(r)
    /\ UNCHANGED <<created, episodes, spent, faults>>

IncrementEpisode(r) ==
    /\ pc[r] = "increment"
    /\ count' = [count EXCEPT ![line[r]] = @ + 1]
    /\ End(r)
    /\ UNCHANGED <<created, episodes, spent, faults>>

IncrementFails(r) ==
    /\ pc[r] = "increment"
    /\ Fail
    /\ End(r)
    /\ UNCHANGED <<lines, spent>>

(* The client hangs up, which cancels every later call, or the server dies. *)
Abort(r) ==
    /\ pc[r] \notin {"idle", "guarded", "prepare"}
    /\ Fail
    /\ End(r)
    /\ UNCHANGED <<lines, spent>>

(* The bucket is keyed by the day.                                         *)
Midnight ==
    /\ spent > 0
    /\ spent' = 0
    /\ UNCHANGED <<lines, locals, faults>>

-----------------------------------------------------------------------------

Step(r) ==
    \/ BudgetGuard(r) \/ Admit(r) \/ Rejected(r) \/ Prepare(r)
    \/ Draft(r) \/ DraftFails(r)
    \/ Rewrite(r) \/ PostCheck(r) \/ Fallback(r)
    \/ Persist(r) \/ PersistFails(r)
    \/ ExtractHook(r) \/ IncrementEpisode(r) \/ IncrementFails(r)
    \/ Abort(r)

Next == Midnight \/ \E r \in Request : Step(r)

Spec == Init /\ [][Next]_vars

(* Every call a request makes returns: the clients have timeouts.          *)
FairSpec == Spec /\ \A r \in Request : WF_vars(pc[r] # "idle" /\ Step(r))

-----------------------------------------------------------------------------

TypeOK ==
    /\ created \subseteq Line
    /\ count \in [Line -> Nat] /\ \A l \in Line \ created : count[l] = 0
    /\ episodes \in [Line -> Seq(Nat \ {0})]
    /\ spent \in Nat
    /\ pc \in [Request -> {"idle", "guarded", "prepare", "draft", "rewrite",
                           "fallback", "persist", "hook", "increment"}]
    /\ line \in [Request -> Line \cup {None}]
    /\ number \in [Request -> Nat]
    /\ text \in [Request -> Text]
    /\ tries \in [Request -> 0..MaxRewrites]
    /\ longest \in [Request -> 0..Target]
    /\ faults \in 0..MaxFaults

(* The stories of l whose increment is still to come.                      *)
Incrementing(l) == {r \in Request : pc[r] \in {"hook", "increment"} /\ line[r] = l}

(***************************************************************************)
(* episode_count counts the stories of the series: it lags behind them by  *)
(* the increments under way and by at most one for each fault, however     *)
(* sequels of one series overlap, and it never runs ahead.                 *)
(***************************************************************************)
CountLagsBounded ==
    \A l \in Line :
        /\ count[l] + Cardinality(Incrementing(l)) <= Len(episodes[l])
        /\ Len(episodes[l]) <= count[l] + Cardinality(Incrementing(l)) + faults

(***************************************************************************)
(* An episode number may be given twice, but never runs ahead of the       *)
(* series: the n-th story committed has a number of at most n.             *)
(***************************************************************************)
NumberAtMostRank ==
    \A l \in Line : \A n \in DOMAIN episodes[l] : episodes[l][n] <= n

(***************************************************************************)
(* What is about to be stored is a curated fallback, or the longest text   *)
(* the model gave, and that very text passed the post-check: no rewrite    *)
(* regresses the length or slips past the check.                           *)
(***************************************************************************)
StoredTextIsBest ==
    \A r \in Request : pc[r] = "persist" =>
        /\ Passes(text[r])
        /\ text[r].len = longest[r]

(***************************************************************************)
(* The budget is read before the first call and charged after each, and a  *)
(* read that fails lets a request through once and not twice: the day's    *)
(* bucket overshoots the limit by less than the calls of the requests that *)
(* may be under way.                                                       *)
(***************************************************************************)
BudgetOvershoot == spent < Limit + MaxCalls * Cardinality(Request)
=============================================================================
