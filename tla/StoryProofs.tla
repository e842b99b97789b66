------------------------------ MODULE StoryProofs ------------------------------
(***************************************************************************)
(* Proofs about StoryGeneration, for any requests, storylines, lengths,    *)
(* budgets and numbers of episodes and faults.  IInv is the inductive      *)
(* invariant; its counting parts follow one request at a time into and out *)
(* of the sets whose sizes they add up.                                    *)
(***************************************************************************)
EXTENDS StoryGeneration, FiniteSetTheorems, TLAPS

PC == {"idle", "guarded", "prepare", "draft", "rewrite", "fallback", "persist", "hook",
       "increment"}

LocalsOK ==
    /\ pc \in [Request -> PC]
    /\ line \in [Request -> Line \cup {None}]
    /\ number \in [Request -> Nat]
    /\ text \in [Request -> Text]
    /\ tries \in [Request -> 0..MaxRewrites]
    /\ longest \in [Request -> 0..Target]

(* A request writes for a storyline that has a row; its number is at most  *)
(* that of the next story of the series.                                   *)
LinesOK ==
    \A r \in Request :
        /\ line[r] \in created \cup {None}
        /\ pc[r] \in {"hook", "increment"} => line[r] # None
        /\ \A l \in Line : line[r] = l => number[r] \in 1..(Len(episodes[l]) + 1)

(* The text in hand is the longest, and it is stored when it passed.       *)
TextsOK ==
    \A r \in Request :
        /\ pc[r] \in {"rewrite", "persist"} => text[r].len = longest[r]
        /\ pc[r] = "persist" => Passes(text[r])

(* The requests that may still pay for one, for two and for three calls.   *)
Owes1 == {r \in Request : \/ pc[r] \in {"prepare", "draft"}
                          \/ pc[r] = "rewrite" /\ tries[r] < 2}
Owes2 == {r \in Request : \/ pc[r] \in {"prepare", "draft"}
                          \/ pc[r] = "rewrite" /\ tries[r] < 1}
Owes3 == {r \in Request : pc[r] \in {"prepare", "draft"}}

SpentOK ==
    spent + Cardinality(Owes1) + Cardinality(Owes2) + Cardinality(Owes3)
        < Limit + 3 * Cardinality(Request)

IInv ==
    /\ TypeOK
    /\ LinesOK
    /\ TextsOK
    /\ CountLagsBounded
    /\ NumberAtMostRank
    /\ SpentOK

-----------------------------------------------------------------------------
(* Types *)

LEMMA Constants ==
    /\ IsFiniteSet(Request) /\ Request # {} /\ None \notin Line
    /\ Target \in Nat /\ Limit \in Nat /\ MaxEpisodes \in Nat /\ MaxFaults \in Nat
    /\ MaxRewrites = 2 /\ MaxCalls = 3 /\ MaxAttempts = 2
    /\ NoText \in Text /\ NoText.len = 0 /\ Passes(NoText) /\ Curated = NoText
  BY StoryAssumption DEF MaxRewrites, MaxCalls, MaxAttempts, NoText, Text, Passes, Curated

LEMMA LocalTypes ==
    TypeOK <=> /\ LocalsOK
               /\ created \subseteq Line
               /\ count \in [Line -> Nat] /\ \A l \in Line \ created : count[l] = 0
               /\ episodes \in [Line -> Seq(Nat \ {0})]
               /\ spent \in Nat /\ faults \in 0..MaxFaults
  BY DEF TypeOK, LocalsOK, PC

LEMMA TextFields ==
    ASSUME NEW t \in Text
    PROVE  /\ t.len \in 0..Target /\ t.len \in Nat
           /\ t.hits \in {"harmless", "hard", "both"}
  BY StoryAssumption DEF Text

(* The end of a request, and a step to another label, pointwise.           *)
LEMMA EndLocals ==
    ASSUME LocalsOK, NEW r \in Request, End(r)
    PROVE  /\ LocalsOK'
           /\ pc'[r] = "idle" /\ line'[r] = None
           /\ \A q \in Request \ {r} :
                /\ pc'[q] = pc[q] /\ line'[q] = line[q] /\ number'[q] = number[q]
                /\ text'[q] = text[q] /\ tries'[q] = tries[q] /\ longest'[q] = longest[q]
  <1>1. /\ 0 \in Nat /\ 0 \in 0..MaxRewrites /\ 0 \in 0..Target /\ NoText \in Text
        /\ "idle" \in PC /\ None \in Line \cup {None}
    BY Constants DEF PC
  <1>2. pc' \in [Request -> PC] /\ line' \in [Request -> Line \cup {None}]
    BY <1>1 DEF LocalsOK, End, Goto
  <1>3. number' \in [Request -> Nat] /\ text' \in [Request -> Text]
    BY <1>1 DEF LocalsOK, End
  <1>4. tries' \in [Request -> 0..MaxRewrites] /\ longest' \in [Request -> 0..Target]
    BY <1>1 DEF LocalsOK, End
  <1>5. pc'[r] = "idle" /\ line'[r] = None
    BY DEF LocalsOK, End, Goto
  <1>6. ASSUME NEW q \in Request \ {r}
        PROVE  /\ pc'[q] = pc[q] /\ line'[q] = line[q] /\ number'[q] = number[q]
               /\ text'[q] = text[q] /\ tries'[q] = tries[q] /\ longest'[q] = longest[q]
    BY <1>6 DEF LocalsOK, End, Goto
  <1> QED BY <1>2, <1>3, <1>4, <1>5, <1>6 DEF LocalsOK

LEMMA GotoLocals ==
    ASSUME LocalsOK, NEW r \in Request, NEW label \in PC, Goto(r, label)
    PROVE  /\ pc' \in [Request -> PC] /\ pc'[r] = label
           /\ \A q \in Request \ {r} : pc'[q] = pc[q]
  BY DEF LocalsOK, Goto

(***************************************************************************)
(* What every step keeps: the types of the locals, and the locals of the   *)
(* other requests.                                                         *)
(***************************************************************************)
Others(r) ==
    \A q \in Request \ {r} :
        /\ pc'[q] = pc[q] /\ line'[q] = line[q] /\ number'[q] = number[q]
        /\ text'[q] = text[q] /\ tries'[q] = tries[q] /\ longest'[q] = longest[q]

LEMMA MovesTypes ==
    ASSUME LocalsOK, NEW r \in Request, BudgetGuard(r) \/ Admit(r) \/ ExtractHook(r)
    PROVE  LocalsOK' /\ Others(r)
  <1>1. \E label \in PC : Goto(r, label)
    BY DEF BudgetGuard, Admit, ExtractHook, PC
  <1>2. UNCHANGED <<line, number, text, tries, longest>>
    BY DEF BudgetGuard, Admit, ExtractHook
  <1> QED BY <1>1, <1>2, GotoLocals DEF LocalsOK, Others

LEMMA EndsTypes ==
    ASSUME LocalsOK, NEW r \in Request,
           Rejected(r) \/ PersistFails(r) \/ IncrementEpisode(r) \/ IncrementFails(r) \/ Abort(r)
    PROVE  End(r) /\ LocalsOK' /\ Others(r) /\ pc'[r] = "idle" /\ line'[r] = None
  <1>1. End(r)
    BY DEF Rejected, PersistFails, IncrementEpisode, IncrementFails, Abort
  <1> QED BY <1>1, EndLocals DEF Others

LEMMA PrepareTypes ==
    ASSUME TypeOK, NEW r \in Request, Prepare(r)
    PROVE  /\ LocalsOK' /\ Others(r)
           /\ pc[r] = "prepare" /\ pc'[r] = "draft"
           /\ \/ UNCHANGED <<created, line, number>>
              \/ \E l \in Line \ created :
                   created' = created \cup {l} /\ line'[r] = l /\ number'[r] = 1
              \/ \E l \in created :
                   created' = created /\ line'[r] = l /\ number'[r] = count[l] + 1
           /\ UNCHANGED <<count, episodes, spent, text, tries, longest, faults>>
  <1>1. LocalsOK /\ created \subseteq Line /\ count \in [Line -> Nat]
    BY LocalTypes
  <1>2. /\ pc' \in [Request -> PC] /\ pc'[r] = "draft"
        /\ \A q \in Request \ {r} : pc'[q] = pc[q]
    BY <1>1, GotoLocals DEF Prepare, PC
  <1>3. /\ \/ UNCHANGED <<created, line, number>>
           \/ \E l \in Line \ created :
                /\ created' = created \cup {l}
                /\ line' = [line EXCEPT ![r] = l] /\ number' = [number EXCEPT ![r] = 1]
           \/ \E l \in created :
                /\ created' = created
                /\ line' = [line EXCEPT ![r] = l]
                /\ number' = [number EXCEPT ![r] = count[l] + 1]
        /\ pc[r] = "prepare"
        /\ UNCHANGED <<count, episodes, spent, text, tries, longest, faults>>
    BY DEF Prepare, NextEpisode
  <1>4. /\ line' \in [Request -> Line \cup {None}] /\ number' \in [Request -> Nat]
        /\ \A q \in Request \ {r} : line'[q] = line[q] /\ number'[q] = number[q]
        /\ \/ UNCHANGED <<created, line, number>>
           \/ \E l \in Line \ created :
                created' = created \cup {l} /\ line'[r] = l /\ number'[r] = 1
           \/ \E l \in created :
                created' = created /\ line'[r] = l /\ number'[r] = count[l] + 1
    <2> USE DEF LocalsOK
    <2>1. CASE UNCHANGED <<created, line, number>>
      BY <1>1, <2>1
    <2>2. ASSUME NEW l \in Line \ created, created' = created \cup {l},
                 line' = [line EXCEPT ![r] = l], number' = [number EXCEPT ![r] = 1]
          PROVE  /\ line' \in [Request -> Line \cup {None}] /\ number' \in [Request -> Nat]
                 /\ \A q \in Request \ {r} : line'[q] = line[q] /\ number'[q] = number[q]
                 /\ line'[r] = l /\ number'[r] = 1
      BY <1>1, <2>2
    <2>3. ASSUME NEW l \in created, line' = [line EXCEPT ![r] = l],
                 number' = [number EXCEPT ![r] = count[l] + 1]
          PROVE  /\ line' \in [Request -> Line \cup {None}] /\ number' \in [Request -> Nat]
                 /\ \A q \in Request \ {r} : line'[q] = line[q] /\ number'[q] = number[q]
                 /\ line'[r] = l /\ number'[r] = count[l] + 1
      BY <1>1, <2>3
    <2> QED BY <1>3, <2>1, <2>2, <2>3
  <1> QED BY <1>1, <1>2, <1>3, <1>4 DEF LocalsOK, Others

LEMMA CallTypes ==
    ASSUME TypeOK, TextsOK, NEW r \in Request, Draft(r) \/ Rewrite(r)
    PROVE  /\ LocalsOK' /\ Others(r)
           /\ pc'[r] = "rewrite" /\ text'[r].len = longest'[r]
           /\ UNCHANGED <<lines, line, number>>
           /\ \/ pc[r] = "draft" /\ tries'[r] = 0
              \/ pc[r] = "rewrite" /\ tries[r] < 2 /\ tries'[r] = tries[r] + 1
           /\ \/ spent' = spent + 1 /\ UNCHANGED faults
              \/ Fail /\ UNCHANGED spent
  <1>1. LocalsOK
    BY LocalTypes
  <1>2. CASE Draft(r)
    <2>1. PICK t \in Text : text' = [text EXCEPT ![r] = t] /\ longest' = [longest EXCEPT ![r] = t.len]
      BY <1>2 DEF Draft
    <2>2. /\ pc' \in [Request -> PC] /\ pc'[r] = "rewrite"
          /\ \A q \in Request \ {r} : pc'[q] = pc[q]
      BY <1>1, <1>2, GotoLocals DEF Draft, PC
    <2>3. /\ text' \in [Request -> Text] /\ longest' \in [Request -> 0..Target]
          /\ text'[r].len = longest'[r]
          /\ \A q \in Request \ {r} : text'[q] = text[q] /\ longest'[q] = longest[q]
      BY <1>1, <2>1, TextFields DEF LocalsOK
    <2>4. /\ pc[r] = "draft" /\ tries' = [tries EXCEPT ![r] = 0]
          /\ UNCHANGED <<lines, line, number>> /\ Pay
      BY <1>2 DEF Draft
    <2>5. /\ tries' \in [Request -> 0..MaxRewrites] /\ tries'[r] = 0
          /\ \A q \in Request \ {r} : tries'[q] = tries[q]
      BY <1>1, <2>4, Constants DEF LocalsOK
    <2> QED BY <1>1, <2>2, <2>3, <2>4, <2>5 DEF LocalsOK, Others, Pay
  <1>3. CASE Rewrite(r)
    <2>1. PICK t \in Text :
            /\ text' = [text EXCEPT ![r] = IF t.len > @.len THEN t ELSE @]
            /\ longest' = [longest EXCEPT ![r] = IF t.len > @ THEN t.len ELSE @]
      BY <1>3 DEF Rewrite
    <2>2. pc[r] = "rewrite" /\ text[r].len = longest[r] /\ text[r] \in Text
      BY <1>1, <1>3 DEF Rewrite, TextsOK, LocalsOK
    <2>3. /\ text' \in [Request -> Text] /\ longest' \in [Request -> 0..Target]
          /\ text'[r].len = longest'[r]
          /\ \A q \in Request \ {r} : text'[q] = text[q] /\ longest'[q] = longest[q]
      BY <1>1, <2>1, <2>2, TextFields DEF LocalsOK
    <2>4. /\ tries[r] < 2 /\ tries' = [tries EXCEPT ![r] = @ + 1]
          /\ UNCHANGED <<lines, pc, line, number>> /\ Pay
      BY <1>3, Constants DEF Rewrite, TooShort
    <2>5. /\ tries' \in [Request -> 0..MaxRewrites] /\ tries'[r] = tries[r] + 1
          /\ \A q \in Request \ {r} : tries'[q] = tries[q]
      BY <1>1, <2>4, Constants DEF LocalsOK
    <2> QED BY <1>1, <2>2, <2>3, <2>4, <2>5 DEF LocalsOK, Others, Pay
  <1> QED BY <1>2, <1>3

(* The loops that end, the check and the fallback, which may end the       *)
(* request; none of them touches a storyline or the budget.                *)
LEMMA LocalSteps ==
    ASSUME TypeOK, TextsOK, NEW r \in Request, DraftFails(r) \/ PostCheck(r) \/ Fallback(r)
    PROVE  /\ LocalsOK' /\ Others(r)
           /\ UNCHANGED <<lines, spent, faults>>
           /\ pc[r] \in {"draft", "rewrite", "fallback"}
           /\ \/ pc'[r] \in {"fallback", "persist", "idle"}
              \/ pc'[r] = "draft" /\ pc[r] = "draft"
           /\ line'[r] = None \/ (line'[r] = line[r] /\ number'[r] = number[r])
           /\ pc'[r] = "persist" => text'[r].len = longest'[r] /\ Passes(text'[r])
  <1>1. LocalsOK
    BY LocalTypes
  <1>2. CASE DraftFails(r)
    <2>1. UNCHANGED <<lines, spent, line, number, text, longest, faults>> /\ pc[r] = "draft"
      BY <1>2 DEF DraftFails
    <2>2. /\ tries' \in [Request -> 0..MaxRewrites]
          /\ \A q \in Request \ {r} : tries'[q] = tries[q]
      <3>1. \/ tries[r] + 1 < 2 /\ tries' = [tries EXCEPT ![r] = @ + 1]
            \/ tries' = [tries EXCEPT ![r] = 0]
        BY <1>2, Constants DEF DraftFails
      <3> QED BY <1>1, <3>1, Constants DEF LocalsOK
    <2>3. UNCHANGED pc \/ Goto(r, "fallback")
      BY <1>2 DEF DraftFails
    <2>4. /\ pc' \in [Request -> PC] /\ \A q \in Request \ {r} : pc'[q] = pc[q]
          /\ pc'[r] \in {"draft", "fallback"}
      <3>1. CASE UNCHANGED pc
        BY <1>1, <2>1, <3>1 DEF LocalsOK
      <3>2. CASE Goto(r, "fallback")
        BY <1>1, <3>2, GotoLocals DEF PC
      <3> QED BY <2>3, <3>1, <3>2
    <2> QED BY <1>1, <2>1, <2>2, <2>4 DEF LocalsOK, Others
  <1>3. CASE PostCheck(r)
    <2>1. /\ UNCHANGED <<lines, spent, line, number, text, longest, faults>>
          /\ pc[r] = "rewrite" /\ tries' = [tries EXCEPT ![r] = 0]
          /\ (Goto(r, "persist") /\ Passes(text[r])) \/ Goto(r, "fallback")
      BY <1>3 DEF PostCheck
    <2>2. /\ tries' \in [Request -> 0..MaxRewrites]
          /\ \A q \in Request \ {r} : tries'[q] = tries[q]
      BY <1>1, <2>1, Constants DEF LocalsOK
    <2>3. /\ pc' \in [Request -> PC] /\ \A q \in Request \ {r} : pc'[q] = pc[q]
          /\ pc'[r] \in {"persist", "fallback"}
          /\ pc'[r] = "persist" => Passes(text[r])
      <3>1. CASE Goto(r, "persist") /\ Passes(text[r])
        BY <1>1, <3>1, GotoLocals DEF PC
      <3>2. CASE Goto(r, "fallback")
        <4>1. pc' \in [Request -> PC] /\ pc'[r] = "fallback"
              /\ \A q \in Request \ {r} : pc'[q] = pc[q]
          BY <1>1, <3>2, GotoLocals DEF PC
        <4> QED BY <4>1
      <3> QED BY <2>1, <3>1, <3>2
    <2>4. text[r].len = longest[r]
      BY <2>1 DEF TextsOK
    <2>5. Passes(text[r]) => Passes(text'[r])
      BY <2>1
    <2>6. LocalsOK' /\ Others(r)
      BY <1>1, <2>1, <2>2, <2>3 DEF LocalsOK, Others
    <2>7. line'[r] = line[r] /\ number'[r] = number[r] /\ text'[r].len = longest'[r]
      BY <2>1, <2>4
    <2> QED BY <2>1, <2>3, <2>5, <2>6, <2>7
  <1>4. CASE Fallback(r) /\ End(r)
    <2>1. UNCHANGED <<lines, spent, faults>> /\ pc[r] = "fallback"
      BY <1>4 DEF Fallback
    <2>2. LocalsOK' /\ Others(r) /\ pc'[r] = "idle" /\ line'[r] = None
      BY <1>1, <1>4, EndLocals DEF Others
    <2> QED BY <2>1, <2>2
  <1>5. CASE Fallback(r) /\ Goto(r, "persist")
    <2>1. UNCHANGED <<lines, spent, faults>> /\ pc[r] = "fallback"
      BY <1>5 DEF Fallback
    <2>2. /\ line' = [line EXCEPT ![r] = None] /\ number' = [number EXCEPT ![r] = 0]
          /\ text' = [text EXCEPT ![r] = NoText] /\ longest' = [longest EXCEPT ![r] = 0]
          /\ UNCHANGED tries
      <3>1. ~End(r)
        <4>1. pc'[r] = "persist"
          BY <1>1, <1>5, GotoLocals DEF PC
        <4> QED BY <1>1, <4>1, EndLocals
      <3> QED BY <1>5, <3>1, Constants DEF Fallback
    <2>3. /\ pc' \in [Request -> PC] /\ pc'[r] = "persist"
          /\ \A q \in Request \ {r} : pc'[q] = pc[q]
      BY <1>1, <1>5, GotoLocals DEF PC
    <2>4. /\ line' \in [Request -> Line \cup {None}] /\ number' \in [Request -> Nat]
          /\ text' \in [Request -> Text] /\ longest' \in [Request -> 0..Target]
      BY <1>1, <2>2, Constants DEF LocalsOK
    <2>5. line'[r] = None /\ text'[r] = NoText /\ longest'[r] = 0
      BY <1>1, <2>2 DEF LocalsOK
    <2>6. \A q \in Request \ {r} : /\ line'[q] = line[q] /\ number'[q] = number[q]
                                   /\ text'[q] = text[q] /\ longest'[q] = longest[q]
      BY <1>1, <2>2 DEF LocalsOK
    <2>7. LocalsOK' /\ Others(r)
      BY <1>1, <2>2, <2>3, <2>4, <2>6 DEF LocalsOK, Others
    <2>8. text'[r].len = longest'[r] /\ Passes(text'[r])
      BY <2>5, Constants
    <2> QED BY <2>1, <2>3, <2>5, <2>7, <2>8
  <1> QED BY <1>2, <1>3, <1>4, <1>5 DEF Fallback

LEMMA PersistTypes ==
    ASSUME TypeOK, NEW r \in Request, Persist(r)
    PROVE  /\ LocalsOK' /\ Others(r)
           /\ UNCHANGED <<created, count, spent, faults>>
           /\ pc[r] = "persist"
           /\ \/ pc'[r] = "idle" /\ line'[r] = None /\ UNCHANGED episodes
              \/ /\ pc'[r] = "hook" /\ line[r] # None
                 /\ line'[r] = line[r] /\ number'[r] = number[r]
                 /\ Insert(line[r], number[r])
  <1>1. LocalsOK
    BY LocalTypes
  <1>2. UNCHANGED <<created, count, spent, faults>> /\ pc[r] = "persist"
    BY DEF Persist
  <1>3. CASE End(r) /\ UNCHANGED episodes
    BY <1>1, <1>2, <1>3, EndLocals DEF Others
  <1>4. CASE /\ line[r] # None /\ Insert(line[r], number[r]) /\ Goto(r, "hook")
             /\ text' = [text EXCEPT ![r] = NoText] /\ longest' = [longest EXCEPT ![r] = 0]
             /\ UNCHANGED <<line, number, tries>>
    <2>1. /\ pc' \in [Request -> PC] /\ pc'[r] = "hook"
          /\ \A q \in Request \ {r} : pc'[q] = pc[q]
      BY <1>1, <1>4, GotoLocals DEF PC
    <2>2. /\ text' \in [Request -> Text] /\ longest' \in [Request -> 0..Target]
          /\ \A q \in Request \ {r} : text'[q] = text[q] /\ longest'[q] = longest[q]
      BY <1>1, <1>4, Constants DEF LocalsOK
    <2> QED BY <1>1, <1>2, <1>4, <2>1, <2>2 DEF LocalsOK, Others
  <1> QED BY <1>3, <1>4 DEF Persist

(***************************************************************************)
(* All the steps of a request, by what they do to the storylines and to    *)
(* the budget.  Quiet steps do nothing to either, Calls pay.               *)
(***************************************************************************)
Quiet(r) ==
    /\ UNCHANGED <<created, count, episodes, spent>> /\ faults' >= faults
    /\ pc'[r] \in {"idle", "guarded"} \/ (pc'[r] = "increment" /\ pc[r] = "hook")
         \/ (pc[r] = "draft" /\ pc'[r] = "draft")
         \/ (pc[r] \in {"draft", "rewrite", "fallback"} /\ pc'[r] \in {"fallback", "persist", "idle"})
    /\ pc[r] \in {"hook", "increment"} => pc'[r] = "increment" \/ faults' = faults + 1
    /\ line'[r] = None \/ (line'[r] = line[r] /\ number'[r] = number[r])
    /\ pc'[r] \in {"hook", "increment"} => line'[r] = line[r]

Admits(r) ==
    /\ UNCHANGED <<created, count, episodes, spent, faults>>
    /\ pc[r] = "guarded" /\ pc'[r] = "prepare" /\ spent < Limit
    /\ line'[r] = line[r] /\ number'[r] = number[r]

Prepares(r) ==
    /\ pc[r] = "prepare" /\ pc'[r] = "draft"
    /\ UNCHANGED <<count, episodes, spent, faults>>
    /\ \/ created' = created /\ line'[r] = line[r] /\ number'[r] = number[r]
       \/ \E l \in Line \ created :
            created' = created \cup {l} /\ line'[r] = l /\ number'[r] = 1
       \/ \E l \in created :
            created' = created /\ line'[r] = l /\ number'[r] = count[l] + 1

Calls(r) ==
    /\ UNCHANGED <<created, count, episodes>>
    /\ pc'[r] = "rewrite" /\ line'[r] = line[r] /\ number'[r] = number[r]
    /\ \/ pc[r] = "draft" /\ tries'[r] = 0
       \/ pc[r] = "rewrite" /\ tries[r] < 2 /\ tries'[r] = tries[r] + 1
    /\ \/ spent' = spent + 1 /\ faults' = faults
       \/ spent' = spent /\ faults' = faults + 1

Stores(r) ==
    /\ UNCHANGED <<created, count, spent, faults>>
    /\ pc[r] = "persist" /\ pc'[r] = "hook" /\ line[r] # None
    /\ line'[r] = line[r] /\ number'[r] = number[r]
    /\ Insert(line[r], number[r])

(* The reply of the INSERT is lost.                                        *)
StoresInDoubt(r) ==
    /\ UNCHANGED <<created, count, spent>> /\ faults' = faults + 1
    /\ pc[r] = "persist" /\ pc'[r] = "idle" /\ line[r] # None /\ line'[r] = None
    /\ Insert(line[r], number[r])

Increments(r) ==
    /\ UNCHANGED <<created, episodes, spent, faults>>
    /\ pc[r] = "increment" /\ pc'[r] = "idle" /\ line'[r] = None
    /\ count' = [count EXCEPT ![line[r]] = @ + 1]

LEMMA StepKinds ==
    ASSUME TypeOK, TextsOK, NEW r \in Request, Step(r)
    PROVE  /\ LocalsOK' /\ Others(r) /\ faults' \in 0..MaxFaults
           /\ \/ Quiet(r) \/ Admits(r) \/ Prepares(r) \/ Calls(r)
              \/ Stores(r) \/ StoresInDoubt(r) \/ Increments(r)
           /\ pc'[r] \in {"rewrite", "persist"} => text'[r].len = longest'[r]
           /\ pc'[r] = "persist" => Passes(text'[r])
  <1>1. LocalsOK /\ faults \in Nat /\ faults \in 0..MaxFaults
    BY LocalTypes, Constants
  <1>2. CASE BudgetGuard(r) \/ ExtractHook(r)
    <2>1. LocalsOK' /\ Others(r)
      BY <1>1, <1>2, MovesTypes
    <2>2. /\ UNCHANGED <<created, count, episodes, spent, line, number>>
          /\ \/ pc[r] = "idle" /\ Goto(r, "guarded")
             \/ pc[r] = "hook" /\ Goto(r, "increment")
          /\ UNCHANGED faults \/ Fail
      BY <1>2 DEF BudgetGuard, ExtractHook, lines
    <2>3. \/ pc[r] = "idle" /\ pc'[r] = "guarded"
          \/ pc[r] = "hook" /\ pc'[r] = "increment"
      BY <1>1, <2>2, GotoLocals DEF PC
    <2>4. faults' \in 0..MaxFaults /\ faults' >= faults
      BY <1>1, <2>2, Constants DEF Fail
    <2>5. Quiet(r)
      BY <1>1, <2>2, <2>3, <2>4 DEF Quiet
    <2> QED BY <2>1, <2>3, <2>4, <2>5
  <1>3. CASE Admit(r)
    <2>1. LocalsOK' /\ Others(r)
      BY <1>1, <1>3, MovesTypes
    <2>2. pc'[r] = "prepare"
      BY <1>1, <1>3, GotoLocals DEF Admit, PC
    <2>3. Admits(r) /\ faults' = faults
      BY <1>3, <2>2 DEF Admit, Admits, UnderBudget, lines
    <2> QED BY <1>1, <2>1, <2>2, <2>3
  <1>4. CASE Prepare(r)
    <2>1. Prepares(r) /\ faults' = faults /\ pc'[r] = "draft"
      BY <1>4, PrepareTypes DEF Prepares
    <2> QED BY <1>1, <1>4, <2>1, PrepareTypes
  <1>5. CASE Draft(r) \/ Rewrite(r)
    <2>1. Calls(r) /\ faults' \in 0..MaxFaults
      BY <1>1, <1>5, CallTypes, Constants DEF Calls, Fail, lines
    <2>2. LocalsOK' /\ Others(r) /\ pc'[r] = "rewrite" /\ text'[r].len = longest'[r]
      BY <1>5, CallTypes
    <2> QED BY <2>1, <2>2
  <1>6. CASE DraftFails(r) \/ PostCheck(r) \/ Fallback(r)
    <2>1. Quiet(r) /\ faults' = faults
      BY <1>1, <1>6, LocalSteps DEF Quiet, lines
    <2>2. /\ LocalsOK' /\ Others(r) /\ pc'[r] \in {"fallback", "persist", "idle", "draft"}
          /\ pc'[r] = "persist" => text'[r].len = longest'[r] /\ Passes(text'[r])
      BY <1>6, LocalSteps
    <2> QED BY <1>1, <2>1, <2>2
  <1>7. CASE Persist(r)
    <2>1. Quiet(r) \/ Stores(r)
      BY <1>1, <1>7, PersistTypes DEF Quiet, Stores
    <2>2. LocalsOK' /\ Others(r) /\ pc'[r] \in {"idle", "hook"} /\ faults' = faults
      BY <1>7, PersistTypes
    <2> QED BY <1>1, <2>1, <2>2
  <1>8. CASE Rejected(r) \/ PersistFails(r) \/ IncrementEpisode(r) \/ IncrementFails(r) \/ Abort(r)
    <2>1. LocalsOK' /\ Others(r) /\ pc'[r] = "idle" /\ line'[r] = None
      BY <1>1, <1>8, EndsTypes
    <2>2. faults' \in 0..MaxFaults /\ faults' >= faults
      BY <1>1, <1>8, Constants
         DEF Rejected, PersistFails, IncrementEpisode, IncrementFails, Abort, Fail
    <2>3. Rejected(r) \/ IncrementFails(r) \/ Abort(r) => Quiet(r)
      BY <1>1, <2>1, <2>2 DEF Rejected, IncrementFails, Abort, Fail, Quiet, lines
    <2>4. PersistFails(r) => Quiet(r) \/ StoresInDoubt(r)
      BY <1>1, <2>1, <2>2 DEF PersistFails, Fail, Quiet, StoresInDoubt
    <2>5. IncrementEpisode(r) => Increments(r)
      BY <2>1 DEF IncrementEpisode, Increments
    <2> QED BY <1>8, <2>1, <2>2, <2>3, <2>4, <2>5
  <1> QED BY <1>2, <1>3, <1>4, <1>5, <1>6, <1>7, <1>8 DEF Step

-----------------------------------------------------------------------------
(* The rows of a series *)

LEMMA InsertRow ==
    ASSUME TypeOK, NEW l \in Line, NEW n \in Nat \ {0}, Insert(l, n)
    PROVE  /\ episodes' \in [Line -> Seq(Nat \ {0})]
           /\ \A k \in Line : Len(episodes'[k]) = Len(episodes[k]) + (IF k = l THEN 1 ELSE 0)
           /\ \A k \in Line : k # l => episodes'[k] = episodes[k]
           /\ DOMAIN episodes'[l] = 1..(Len(episodes[l]) + 1)
           /\ \A i \in 1..Len(episodes[l]) : episodes'[l][i] = episodes[l][i]
           /\ episodes'[l][Len(episodes[l]) + 1] = n
  <1> DEFINE s == episodes[l]
             t == Append(s, n)
  <1>1. /\ episodes \in [Line -> Seq(Nat \ {0})]
        /\ episodes' = [episodes EXCEPT ![l] = t]
    BY DEF TypeOK, Insert
  <1>2. /\ s \in Seq(Nat \ {0}) /\ t \in Seq(Nat \ {0}) /\ Len(s) \in Nat /\ Len(t) = Len(s) + 1
        /\ DOMAIN t = 1..(Len(s) + 1)
        /\ \A i \in 1..Len(s) : t[i] = s[i]
        /\ t[Len(s) + 1] = n
    BY <1>1
  <1>3. \A k \in Line : Len(episodes[k]) \in Nat
    BY <1>1
  <1>4. \A k \in Line : episodes'[k] = IF k = l THEN t ELSE episodes[k]
    BY <1>1
  <1>5. episodes' \in [Line -> Seq(Nat \ {0})]
    BY <1>1, <1>2
  <1> HIDE DEF t
  <1>6. \A k \in Line : Len(episodes'[k]) = Len(episodes[k]) + (IF k = l THEN 1 ELSE 0)
    <2> TAKE k \in Line
    <2>1. CASE k = l
      BY <1>2, <1>4, <2>1
    <2>2. CASE k # l
      BY <1>3, <1>4, <2>2
    <2> QED BY <2>1, <2>2
  <1> QED BY <1>2, <1>4, <1>5, <1>6

LEMMA NextTypes ==
    ASSUME IInv, [Next]_vars
    PROVE  TypeOK'
  <1>1. TypeOK /\ TextsOK /\ LinesOK /\ CountLagsBounded
    BY DEF IInv
  <1>2. /\ created \subseteq Line /\ count \in [Line -> Nat] /\ LocalsOK
        /\ \A l \in Line \ created : count[l] = 0
        /\ episodes \in [Line -> Seq(Nat \ {0})] /\ spent \in Nat /\ faults \in 0..MaxFaults
    BY <1>1, LocalTypes
  <1>3. CASE UNCHANGED vars \/ Midnight
    <2>1. UNCHANGED <<lines, locals, faults>> /\ spent' \in Nat
      BY <1>2, <1>3 DEF vars, Midnight
    <2>2. LocalsOK'
      BY <1>2, <2>1 DEF LocalsOK, locals
    <2> QED BY <1>2, <2>1, <2>2, LocalTypes DEF lines, TypeOK, LocalsOK, PC
  <1>4. ASSUME NEW r \in Request, Step(r)
        PROVE  TypeOK'
    <2>1. /\ LocalsOK' /\ faults' \in 0..MaxFaults
          /\ \/ Quiet(r) \/ Admits(r) \/ Prepares(r) \/ Calls(r)
             \/ Stores(r) \/ StoresInDoubt(r) \/ Increments(r)
      BY <1>1, <1>4, StepKinds
    <2>2. spent' \in Nat
      BY <1>2, <2>1
         DEF Quiet, Admits, Prepares, Calls, Stores, StoresInDoubt, Increments
    <2>3. created \subseteq created' /\ created' \subseteq Line
      BY <1>2, <2>1
         DEF Quiet, Admits, Prepares, Calls, Stores, StoresInDoubt, Increments
    <2>4. line[r] \in created \cup {None}
      BY <1>1 DEF LinesOK
    <2>5. episodes' \in [Line -> Seq(Nat \ {0})]
      <3>1. CASE UNCHANGED episodes
        BY <1>2, <3>1
      <3>2. CASE Stores(r) \/ StoresInDoubt(r)
        <4>1. line[r] \in Line /\ line[r] # None /\ Insert(line[r], number[r])
          BY <1>2, <2>4, <3>2 DEF Stores, StoresInDoubt
        <4>2. number[r] \in 1..(Len(episodes[line[r]]) + 1)
          BY <1>1, <4>1 DEF LinesOK
        <4>3. number[r] \in Nat \ {0}
          BY <1>2, <4>2 DEF LocalsOK
        <4> QED BY <1>1, <4>1, <4>3, InsertRow
      <3> QED BY <2>1, <3>1, <3>2 DEF Quiet, Admits, Prepares, Calls, Increments
    <2>6. count' \in [Line -> Nat] /\ \A l \in Line \ created' : count'[l] = 0
      <3>1. CASE UNCHANGED count
        BY <1>2, <2>3, <3>1
      <3>2. CASE Increments(r)
        <4>1. line[r] # None
          BY <1>1, <3>2 DEF LinesOK, Increments
        <4>2. line[r] \in created /\ count' = [count EXCEPT ![line[r]] = @ + 1]
          BY <2>4, <3>2, <4>1 DEF Increments
        <4> QED BY <1>2, <2>3, <4>2
      <3> QED BY <2>1, <3>1, <3>2
             DEF Quiet, Admits, Prepares, Calls, Stores, StoresInDoubt
    <2> QED BY <2>1, <2>2, <2>3, <2>5, <2>6 DEF TypeOK, LocalsOK, PC
  <1> QED BY <1>3, <1>4 DEF Next

-----------------------------------------------------------------------------
(* The parts of the invariant *)

LEMMA InitIInv == Init => IInv
  <1> SUFFICES ASSUME Init PROVE IInv
    OBVIOUS
  <1>1. /\ \A r \in Request : /\ pc[r] = "idle" /\ line[r] = None /\ number[r] = 0
                              /\ text[r] = NoText /\ tries[r] = 0 /\ longest[r] = 0
        /\ \A l \in Line : count[l] = 0 /\ episodes[l] = <<>>
        /\ spent = 0 /\ faults = 0 /\ created = {}
    BY DEF Init
  <1>2. TypeOK
    <2>1. LocalsOK
      BY Constants DEF Init, LocalsOK, PC
    <2>2. episodes \in [Line -> Seq(Nat \ {0})] /\ count \in [Line -> Nat]
      BY DEF Init
    <2> QED BY <1>1, <2>1, <2>2, LocalTypes, Constants
  <1>3. LinesOK /\ TextsOK
    BY <1>1, Constants DEF LinesOK, TextsOK
  <1>4. CountLagsBounded
    <2>1. \A l \in Line : Incrementing(l) = {} /\ Len(episodes[l]) = 0 /\ count[l] = 0
      BY <1>1 DEF Incrementing
    <2>2. \A l \in Line : Cardinality(Incrementing(l)) = 0
      BY <2>1, FS_EmptySet
    <2> SUFFICES ASSUME NEW l \in Line
                 PROVE  /\ count[l] + Cardinality(Incrementing(l)) <= Len(episodes[l])
                        /\ Len(episodes[l]) <= count[l] + Cardinality(Incrementing(l)) + faults
      BY DEF CountLagsBounded
    <2> QED BY <1>1, <2>1, <2>2
  <1>5. NumberAtMostRank
    BY <1>1 DEF NumberAtMostRank
  <1>6. SpentOK
    <2>1. Owes1 = {} /\ Owes2 = {} /\ Owes3 = {}
      BY <1>1 DEF Owes1, Owes2, Owes3
    <2>2. Cardinality(Request) \in Nat /\ Cardinality(Request) # 0
      BY Constants, FS_CardinalityType, FS_EmptySet
    <2> QED BY <1>1, <2>1, <2>2, Constants, FS_EmptySet DEF SpentOK
  <1> QED BY <1>2, <1>3, <1>4, <1>5, <1>6 DEF IInv

LEMMA LengthTypes ==
    ASSUME TypeOK, NEW l \in Line
    PROVE  /\ Len(episodes[l]) \in Nat /\ count[l] \in Nat /\ faults \in Nat
           /\ DOMAIN episodes[l] = 1..Len(episodes[l])
           /\ IsFiniteSet(Incrementing(l)) /\ Cardinality(Incrementing(l)) \in Nat
  <1>1. Incrementing(l) \subseteq Request
    BY DEF Incrementing
  <1>2. IsFiniteSet(Incrementing(l)) /\ Cardinality(Incrementing(l)) \in Nat
    BY <1>1, Constants, FS_Subset, FS_CardinalityType
  <1> QED BY <1>2, Constants DEF TypeOK

LEMMA NextLines ==
    ASSUME IInv, NEW r \in Request, Step(r)
    PROVE  LinesOK' /\ TextsOK'
  <1>1. TypeOK /\ TextsOK /\ LinesOK /\ CountLagsBounded /\ LocalsOK
    BY LocalTypes DEF IInv
  <1>2. /\ LocalsOK' /\ Others(r)
        /\ \/ Quiet(r) \/ Admits(r) \/ Prepares(r) \/ Calls(r)
           \/ Stores(r) \/ StoresInDoubt(r) \/ Increments(r)
        /\ pc'[r] \in {"rewrite", "persist"} => text'[r].len = longest'[r]
        /\ pc'[r] = "persist" => Passes(text'[r])
    BY <1>1, StepKinds
  <1>3. TextsOK'
    BY <1>1, <1>2 DEF TextsOK, Others
  <1>4. created \subseteq created' /\ created \subseteq Line /\ None \notin Line
    BY <1>1, <1>2, Constants
       DEF Quiet, Admits, Prepares, Calls, Stores, StoresInDoubt, Increments, TypeOK
  <1>5. \A l \in Line : /\ Len(episodes[l]) \in Nat /\ Len(episodes'[l]) \in Nat
                        /\ Len(episodes'[l]) >= Len(episodes[l])
    <2>1. CASE UNCHANGED episodes
      BY <1>1, <2>1, LengthTypes
    <2>2. CASE Stores(r) \/ StoresInDoubt(r)
      <3>1. line[r] \in Line /\ Insert(line[r], number[r])
        BY <1>1, <1>4, <2>2 DEF Stores, StoresInDoubt, LinesOK
      <3>2. number[r] \in Nat \ {0}
        <4>1. number[r] \in 1..(Len(episodes[line[r]]) + 1)
          BY <1>1, <3>1 DEF LinesOK
        <4> QED BY <1>1, <4>1 DEF LocalsOK
      <3>3. \A l \in Line :
              /\ Len(episodes'[l]) = Len(episodes[l]) + (IF l = line[r] THEN 1 ELSE 0)
              /\ l # line[r] => episodes'[l] = episodes[l]
        BY <1>1, <3>1, <3>2, InsertRow
      <3> TAKE l \in Line
      <3>4. Len(episodes[l]) \in Nat
        BY <1>1, LengthTypes
      <3>5. Len(episodes'[l]) = Len(episodes[l]) \/ Len(episodes'[l]) = Len(episodes[l]) + 1
        <4>1. CASE l = line[r]
          BY <3>3, <3>4, <4>1
        <4>2. CASE l # line[r]
          BY <3>3, <4>2
        <4> QED BY <4>1, <4>2
      <3> QED BY <3>4, <3>5
    <2> QED BY <1>2, <2>1, <2>2 DEF Quiet, Admits, Prepares, Calls, Increments
  <1>6. ASSUME NEW q \in Request, q # r
        PROVE  /\ line'[q] \in created' \cup {None}
               /\ pc'[q] \in {"hook", "increment"} => line'[q] # None
               /\ \A l \in Line : line'[q] = l => number'[q] \in 1..(Len(episodes'[l]) + 1)
    <2>1. pc'[q] = pc[q] /\ line'[q] = line[q] /\ number'[q] = number[q] /\ number[q] \in Nat
      BY <1>1, <1>2, <1>6 DEF Others, LocalsOK
    <2> QED BY <1>1, <1>4, <1>5, <2>1 DEF LinesOK
  <1>7. /\ line'[r] \in created' \cup {None}
        /\ pc'[r] \in {"hook", "increment"} => line'[r] # None
    <2>1. \/ line'[r] = None \/ line'[r] = line[r] \/ line'[r] \in created'
      BY <1>2 DEF Quiet, Admits, Prepares, Calls, Stores, StoresInDoubt, Increments
    <2>2. line[r] \in created \cup {None} /\ (pc[r] \in {"hook", "increment"} => line[r] # None)
      BY <1>1 DEF LinesOK
    <2>3. pc'[r] \in {"hook", "increment"} => line'[r] = line[r] /\ line[r] # None
      BY <1>2, <2>2 DEF Quiet, Admits, Prepares, Calls, Stores, StoresInDoubt, Increments
    <2> QED BY <1>4, <2>1, <2>2, <2>3
  <1>8. ASSUME NEW l \in Line, line'[r] = l
        PROVE  number'[r] \in 1..(Len(episodes'[l]) + 1)
    <2>1. CASE line'[r] = line[r] /\ number'[r] = number[r]
      <3>1. number[r] \in 1..(Len(episodes[l]) + 1)
        BY <1>1, <1>8, <2>1 DEF LinesOK
      <3> QED BY <1>5, <2>1, <3>1
    <2>2. CASE number'[r] = 1
      BY <1>5, <2>2
    <2>3. CASE number'[r] = count[l] + 1
      <3>1. count[l] <= Len(episodes[l])
        BY <1>1, LengthTypes DEF CountLagsBounded
      <3> QED BY <1>1, <1>5, <2>3, <3>1, LengthTypes
    <2> QED BY <1>2, <1>4, <1>8, <2>1, <2>2, <2>3
           DEF Quiet, Admits, Prepares, Calls, Stores, StoresInDoubt, Increments
  <1> QED BY <1>3, <1>6, <1>7, <1>8 DEF LinesOK

LEMMA NextCounts ==
    ASSUME IInv, NEW r \in Request, Step(r)
    PROVE  CountLagsBounded'
  <1>1. TypeOK /\ TextsOK /\ LinesOK /\ CountLagsBounded /\ LocalsOK
    BY LocalTypes DEF IInv
  <1>2. /\ LocalsOK' /\ Others(r) /\ faults' \in Nat
        /\ \/ Quiet(r) \/ Admits(r) \/ Prepares(r) \/ Calls(r)
           \/ Stores(r) \/ StoresInDoubt(r) \/ Increments(r)
    BY <1>1, StepKinds, Constants
  <1> SUFFICES ASSUME NEW l \in Line
               PROVE  /\ count'[l] + Cardinality(Incrementing(l)') <= Len(episodes'[l])
                      /\ Len(episodes'[l]) <= count'[l] + Cardinality(Incrementing(l)') + faults'
    BY DEF CountLagsBounded
  <1> DEFINE I == Incrementing(l)
             J == Incrementing(l)'
  <1>3. /\ Len(episodes[l]) \in Nat /\ count[l] \in Nat /\ faults \in Nat
        /\ IsFiniteSet(I) /\ Cardinality(I) \in Nat
        /\ count[l] + Cardinality(I) <= Len(episodes[l])
        /\ Len(episodes[l]) <= count[l] + Cardinality(I) + faults
    BY <1>1, LengthTypes DEF CountLagsBounded
  <1>4. /\ r \in I <=> (pc[r] \in {"hook", "increment"} /\ line[r] = l)
        /\ r \in J <=> (pc'[r] \in {"hook", "increment"} /\ line'[r] = l)
        /\ \A q \in Request \ {r} : q \in J <=> q \in I
        /\ I \subseteq Request /\ J \subseteq Request
    BY <1>2 DEF Incrementing, Others
  <1> HIDE DEF I, J
  <1> SUFFICES /\ count'[l] + Cardinality(J) <= Len(episodes'[l])
               /\ Len(episodes'[l]) <= count'[l] + Cardinality(J) + faults'
    BY DEF J
  <1>5. /\ (r \in I <=> r \in J) => J = I
        /\ (r \in J /\ r \notin I) => J = I \cup {r}
        /\ (r \notin J /\ r \in I) => J = I \ {r}
    BY <1>4
  <1>6. /\ Cardinality(I \cup {r}) = IF r \in I THEN Cardinality(I) ELSE Cardinality(I) + 1
        /\ Cardinality(I \ {r}) = IF r \in I THEN Cardinality(I) - 1 ELSE Cardinality(I)
    BY <1>3, FS_AddElement, FS_RemoveElement
  <1>7. CASE Quiet(r)
    <2>1. count'[l] = count[l] /\ Len(episodes'[l]) = Len(episodes[l]) /\ faults' >= faults
      BY <1>7 DEF Quiet
    <2>2. r \in J => r \in I
      BY <1>4, <1>7 DEF Quiet
    <2>3. r \in I /\ r \notin J => faults' = faults + 1
      BY <1>1, <1>4, <1>7 DEF Quiet, LinesOK
    <2>4. \/ Cardinality(J) = Cardinality(I)
          \/ Cardinality(J) = Cardinality(I) - 1 /\ faults' = faults + 1
      BY <1>5, <1>6, <2>2, <2>3
    <2> QED BY <1>2, <1>3, <2>1, <2>4
  <1>8. CASE Admits(r) \/ Prepares(r) \/ Calls(r)
    <2>1. /\ count'[l] = count[l] /\ Len(episodes'[l]) = Len(episodes[l])
          /\ faults' >= faults /\ r \notin I /\ r \notin J
      BY <1>3, <1>4, <1>8 DEF Admits, Prepares, Calls
    <2>2. Cardinality(J) = Cardinality(I)
      BY <1>5, <2>1
    <2> QED BY <1>2, <1>3, <2>1, <2>2
  <1>9. CASE Stores(r) \/ StoresInDoubt(r)
    <2>1. line[r] \in Line /\ Insert(line[r], number[r])
      BY <1>1, <1>9 DEF Stores, StoresInDoubt, LinesOK, TypeOK
    <2>2. number[r] \in Nat \ {0}
      <3>1. number[r] \in 1..(Len(episodes[line[r]]) + 1)
        BY <1>1, <2>1 DEF LinesOK
      <3> QED BY <1>1, <3>1 DEF LocalsOK
    <2>3. Len(episodes'[l]) = Len(episodes[l]) + (IF l = line[r] THEN 1 ELSE 0)
      BY <1>1, <2>1, <2>2, InsertRow
    <2>4. count'[l] = count[l] /\ r \notin I
      BY <1>4, <1>9 DEF Stores, StoresInDoubt
    <2>5. CASE Stores(r)
      <3>1. faults' = faults /\ (r \in J <=> line[r] = l)
        BY <1>4, <2>5 DEF Stores
      <3>2. Cardinality(J) = IF l = line[r] THEN Cardinality(I) + 1 ELSE Cardinality(I)
        BY <1>5, <1>6, <2>4, <3>1
      <3>3. CASE l = line[r]
        BY <1>3, <2>3, <2>4, <3>1, <3>2, <3>3
      <3>4. CASE l # line[r]
        BY <1>3, <2>3, <2>4, <3>1, <3>2, <3>4
      <3> QED BY <3>3, <3>4
    <2>6. CASE StoresInDoubt(r)
      <3>1. faults' = faults + 1 /\ r \notin J
        BY <1>4, <2>6 DEF StoresInDoubt
      <3>2. Cardinality(J) = Cardinality(I)
        BY <1>5, <2>4, <3>1
      <3>3. CASE l = line[r]
        BY <1>3, <2>3, <2>4, <3>1, <3>2, <3>3
      <3>4. CASE l # line[r]
        BY <1>3, <2>3, <2>4, <3>1, <3>2, <3>4
      <3> QED BY <3>3, <3>4
    <2> QED BY <1>9, <2>5, <2>6
  <1>10. CASE Increments(r)
    <2>1. /\ Len(episodes'[l]) = Len(episodes[l]) /\ faults' = faults
          /\ r \notin J /\ (r \in I <=> line[r] = l)
      BY <1>4, <1>10 DEF Increments
    <2>2. line[r] \in Line
      BY <1>1, <1>10 DEF Increments, LinesOK, TypeOK
    <2>3. count'[l] = IF line[r] = l THEN count[l] + 1 ELSE count[l]
      BY <1>1, <1>10, <2>2 DEF Increments, TypeOK
    <2>4. Cardinality(J) = IF line[r] = l THEN Cardinality(I) - 1 ELSE Cardinality(I)
      BY <1>5, <1>6, <2>1
    <2>5. CASE l = line[r]
      BY <1>3, <2>1, <2>3, <2>4, <2>5
    <2>6. CASE l # line[r]
      BY <1>3, <2>1, <2>3, <2>4, <2>6
    <2> QED BY <2>5, <2>6
  <1> QED BY <1>2, <1>7, <1>8, <1>9, <1>10

LEMMA NextRanks ==
    ASSUME IInv, NEW r \in Request, Step(r)
    PROVE  NumberAtMostRank'
  <1>1. TypeOK /\ TextsOK /\ LinesOK /\ NumberAtMostRank /\ LocalsOK
    BY LocalTypes DEF IInv
  <1>2. \/ Quiet(r) \/ Admits(r) \/ Prepares(r) \/ Calls(r)
        \/ Stores(r) \/ StoresInDoubt(r) \/ Increments(r)
    BY <1>1, StepKinds
  <1>3. CASE UNCHANGED episodes
    BY <1>1, <1>3 DEF NumberAtMostRank
  <1>4. CASE Stores(r) \/ StoresInDoubt(r)
    <2>1. line[r] \in Line /\ Insert(line[r], number[r])
      BY <1>1, <1>4 DEF Stores, StoresInDoubt, LinesOK, TypeOK
    <2>2. number[r] \in 1..(Len(episodes[line[r]]) + 1)
      BY <1>1, <2>1 DEF LinesOK
    <2>3. number[r] \in Nat \ {0} /\ Len(episodes[line[r]]) \in Nat
      BY <1>1, <2>1, <2>2, LengthTypes DEF LocalsOK
    <2>4. /\ \A k \in Line : k # line[r] => episodes'[k] = episodes[k]
          /\ DOMAIN episodes'[line[r]] = 1..(Len(episodes[line[r]]) + 1)
          /\ \A i \in 1..Len(episodes[line[r]]) : episodes'[line[r]][i] = episodes[line[r]][i]
          /\ episodes'[line[r]][Len(episodes[line[r]]) + 1] = number[r]
      BY <1>1, <2>1, <2>3, InsertRow
    <2>5. ASSUME NEW n \in DOMAIN episodes'[line[r]]
          PROVE  episodes'[line[r]][n] <= n
      <3>1. CASE n \in 1..Len(episodes[line[r]])
        <4>1. n \in DOMAIN episodes[line[r]]
          BY <1>1, <2>1, <3>1, LengthTypes
        <4> QED BY <1>1, <2>1, <2>4, <3>1, <4>1 DEF NumberAtMostRank
      <3>2. CASE n = Len(episodes[line[r]]) + 1
        BY <2>2, <2>3, <2>4, <3>2
      <3> QED BY <2>3, <2>4, <2>5, <3>1, <3>2
    <2>6. ASSUME NEW l \in Line, NEW n \in DOMAIN episodes'[l]
          PROVE  episodes'[l][n] <= n
      <3>1. CASE l = line[r]
        BY <2>5, <2>6, <3>1
      <3>2. CASE l # line[r]
        BY <1>1, <2>4, <2>6, <3>2 DEF NumberAtMostRank
      <3> QED BY <3>1, <3>2
    <2> QED BY <2>6 DEF NumberAtMostRank
  <1> QED BY <1>2, <1>3, <1>4 DEF Quiet, Admits, Prepares, Calls, Increments

(* What a request owes, of which each call pays one.                       *)
LEMMA OwesTypes ==
    /\ IsFiniteSet(Owes1) /\ IsFiniteSet(Owes2) /\ IsFiniteSet(Owes3)
    /\ Cardinality(Owes1) \in Nat /\ Cardinality(Owes2) \in Nat /\ Cardinality(Owes3) \in Nat
    /\ Cardinality(Owes1') \in Nat /\ Cardinality(Owes2') \in Nat
    /\ Cardinality(Owes3') \in Nat
    /\ Cardinality(Owes1') <= Cardinality(Request) /\ Cardinality(Owes2') <= Cardinality(Request)
    /\ Cardinality(Owes3') <= Cardinality(Request) /\ Cardinality(Request) \in Nat
  <1>1. /\ Owes1 \subseteq Request /\ Owes2 \subseteq Request /\ Owes3 \subseteq Request
        /\ Owes1' \subseteq Request /\ Owes2' \subseteq Request /\ Owes3' \subseteq Request
    BY DEF Owes1, Owes2, Owes3
  <1> QED BY <1>1, Constants, FS_Subset, FS_CardinalityType

LEMMA FewerOwe ==
    ASSUME NEW S, NEW T, IsFiniteSet(S), NEW r
    PROVE  /\ T \subseteq S => Cardinality(T) <= Cardinality(S)
           /\ (T \subseteq S \ {r} /\ r \in S) => Cardinality(T) + 1 <= Cardinality(S)
  <1>1. T \subseteq S => Cardinality(T) <= Cardinality(S)
    BY FS_Subset
  <1>2. ASSUME T \subseteq S \ {r}, r \in S
        PROVE  Cardinality(T) + 1 <= Cardinality(S)
    <2>1. IsFiniteSet(S \ {r}) /\ Cardinality(S \ {r}) = Cardinality(S) - 1
      BY <1>2, FS_RemoveElement
    <2>2. IsFiniteSet(T) /\ Cardinality(T) <= Cardinality(S \ {r})
      BY <1>2, <2>1, FS_Subset
    <2> QED BY <2>1, <2>2, FS_CardinalityType
  <1> QED BY <1>1, <1>2

LEMMA NextSpent ==
    ASSUME IInv, NEW r \in Request, Step(r)
    PROVE  SpentOK'
  <1>1. TypeOK /\ TextsOK /\ LocalsOK /\ SpentOK
    BY LocalTypes DEF IInv
  <1>2. /\ LocalsOK' /\ Others(r)
        /\ \/ Quiet(r) \/ Admits(r) \/ Prepares(r) \/ Calls(r)
           \/ Stores(r) \/ StoresInDoubt(r) \/ Increments(r)
    BY <1>1, StepKinds
  <1>3. /\ spent \in Nat /\ Limit \in Nat
        /\ spent + Cardinality(Owes1) + Cardinality(Owes2) + Cardinality(Owes3)
             < Limit + 3 * Cardinality(Request)
    BY <1>1, Constants DEF TypeOK, SpentOK
  <1>4. tries[r] \in 0..2 /\ tries'[r] \in 0..2
    BY <1>1, <1>2, Constants DEF LocalsOK
  <1>5. \A q \in Request \ {r} : /\ q \in Owes1' <=> q \in Owes1
                                 /\ q \in Owes2' <=> q \in Owes2
                                 /\ q \in Owes3' <=> q \in Owes3
    BY <1>2 DEF Others, Owes1, Owes2, Owes3
  <1>6. /\ Owes1 \subseteq Request /\ Owes2 \subseteq Request /\ Owes3 \subseteq Request
        /\ Owes1' \subseteq Request /\ Owes2' \subseteq Request /\ Owes3' \subseteq Request
    BY DEF Owes1, Owes2, Owes3
  <1>7. CASE Admits(r)
    <2>1. spent' = spent /\ spent < Limit
      BY <1>7 DEF Admits
    <2> QED BY <1>3, <2>1, OwesTypes DEF SpentOK
  <1>8. CASE Quiet(r) \/ Prepares(r) \/ Stores(r) \/ StoresInDoubt(r) \/ Increments(r)
    <2>1. spent' = spent
      BY <1>8 DEF Quiet, Prepares, Stores, StoresInDoubt, Increments
    <2>2. /\ r \in Owes1' => r \in Owes1
          /\ r \in Owes2' => r \in Owes2
          /\ r \in Owes3' => r \in Owes3
      BY <1>8
         DEF Quiet, Prepares, Stores, StoresInDoubt, Increments, Owes1, Owes2, Owes3
    <2>3. Owes1' \subseteq Owes1 /\ Owes2' \subseteq Owes2 /\ Owes3' \subseteq Owes3
      BY <1>5, <1>6, <2>2
    <2>4. /\ Cardinality(Owes1') <= Cardinality(Owes1)
          /\ Cardinality(Owes2') <= Cardinality(Owes2)
          /\ Cardinality(Owes3') <= Cardinality(Owes3)
      BY <2>3, OwesTypes, FewerOwe
    <2> QED BY <1>3, <2>1, <2>4, OwesTypes DEF SpentOK
  <1>9. CASE Calls(r)
    <2>1. spent' \in Nat /\ spent' <= spent + 1
      BY <1>3, <1>9 DEF Calls
    <2>2. \/ /\ r \in Owes3 /\ r \notin Owes3' /\ r \in Owes2 /\ r \in Owes1
          \/ /\ r \notin Owes3' /\ r \in Owes2 /\ r \notin Owes2' /\ r \in Owes1
          \/ /\ r \notin Owes3' /\ r \notin Owes2' /\ r \in Owes1 /\ r \notin Owes1'
      BY <1>4, <1>9 DEF Calls, Owes1, Owes2, Owes3
    <2>3. CASE r \in Owes3 /\ r \notin Owes3' /\ r \in Owes2 /\ r \in Owes1
      <3>1. Owes1' \subseteq Owes1 /\ Owes2' \subseteq Owes2 /\ Owes3' \subseteq Owes3 \ {r}
        BY <1>5, <1>6, <2>3
      <3>2. /\ Cardinality(Owes1') <= Cardinality(Owes1)
            /\ Cardinality(Owes2') <= Cardinality(Owes2)
            /\ Cardinality(Owes3') + 1 <= Cardinality(Owes3)
        BY <2>3, <3>1, OwesTypes, FewerOwe
      <3> QED BY <1>3, <2>1, <3>2, OwesTypes DEF SpentOK
    <2>4. CASE r \notin Owes3' /\ r \in Owes2 /\ r \notin Owes2' /\ r \in Owes1
      <3>1. Owes1' \subseteq Owes1 /\ Owes2' \subseteq Owes2 \ {r} /\ Owes3' \subseteq Owes3
        BY <1>5, <1>6, <2>4
      <3>2. /\ Cardinality(Owes1') <= Cardinality(Owes1)
            /\ Cardinality(Owes2') + 1 <= Cardinality(Owes2)
            /\ Cardinality(Owes3') <= Cardinality(Owes3)
        BY <2>4, <3>1, OwesTypes, FewerOwe
      <3> QED BY <1>3, <2>1, <3>2, OwesTypes DEF SpentOK
    <2>5. CASE r \notin Owes3' /\ r \notin Owes2' /\ r \in Owes1 /\ r \notin Owes1'
      <3>1. Owes1' \subseteq Owes1 \ {r} /\ Owes2' \subseteq Owes2 /\ Owes3' \subseteq Owes3
        BY <1>5, <1>6, <2>5
      <3>2. /\ Cardinality(Owes1') + 1 <= Cardinality(Owes1)
            /\ Cardinality(Owes2') <= Cardinality(Owes2)
            /\ Cardinality(Owes3') <= Cardinality(Owes3)
        BY <2>5, <3>1, OwesTypes, FewerOwe
      <3> QED BY <1>3, <2>1, <3>2, OwesTypes DEF SpentOK
    <2> QED BY <2>2, <2>3, <2>4, <2>5
  <1> QED BY <1>2, <1>7, <1>8, <1>9

LEMMA NextPreservesIInv == IInv /\ [Next]_vars => IInv'
  <1> SUFFICES ASSUME IInv, [Next]_vars PROVE IInv'
    OBVIOUS
  <1>1. TypeOK'
    BY NextTypes
  <1>2. CASE UNCHANGED vars \/ Midnight
    <2>1. UNCHANGED <<lines, locals, faults>> /\ spent' \in Nat /\ spent' <= spent
      BY <1>2 DEF vars, Midnight, IInv, TypeOK
    <2>2. /\ UNCHANGED <<created, count, episodes, faults>>
          /\ UNCHANGED <<pc, line, number, text, tries, longest>>
      BY <2>1 DEF lines, locals
    <2>3. LinesOK' /\ TextsOK' /\ NumberAtMostRank'
      BY <2>2 DEF IInv, LinesOK, TextsOK, NumberAtMostRank, Passes
    <2>4. CountLagsBounded'
      <3>1. \A l \in Line : Incrementing(l)' = Incrementing(l)
        BY <2>2 DEF Incrementing
      <3> QED BY <2>2, <3>1 DEF IInv, CountLagsBounded
    <2>5. SpentOK'
      <3>1. Owes1' = Owes1 /\ Owes2' = Owes2 /\ Owes3' = Owes3
        BY <2>2 DEF Owes1, Owes2, Owes3
      <3>2. spent \in Nat /\ Limit \in Nat
        BY Constants DEF IInv, TypeOK
      <3> QED BY <2>1, <3>1, <3>2, OwesTypes DEF IInv, SpentOK
    <2> QED BY <1>1, <2>3, <2>4, <2>5 DEF IInv
  <1>3. ASSUME NEW r \in Request, Step(r) PROVE IInv'
    BY <1>1, <1>3, NextLines, NextCounts, NextRanks, NextSpent DEF IInv
  <1> QED BY <1>2, <1>3 DEF Next

-----------------------------------------------------------------------------
(* The theorems *)

(***************************************************************************)
(* The invariant holds of every run.                                       *)
(***************************************************************************)
THEOREM Inductive == Spec => []IInv
  BY InitIInv, NextPreservesIInv, PTL DEF Spec

(***************************************************************************)
(* The variables keep their types, and a storyline without a row has       *)
(* counted no episode.                                                     *)
(***************************************************************************)
THEOREM TypeCorrect == Spec => []TypeOK
  <1>1. IInv => TypeOK
    BY DEF IInv
  <1> QED BY <1>1, Inductive, PTL

(***************************************************************************)
(* episode_count lags behind the stories of the series by the increments   *)
(* under way and by one for each fault at most, and never runs ahead.      *)
(***************************************************************************)
THEOREM CountsLagLittle == Spec => []CountLagsBounded
  <1>1. IInv => CountLagsBounded
    BY DEF IInv
  <1> QED BY <1>1, Inductive, PTL

(***************************************************************************)
(* However sequels overlap, the n-th story of a series has a number of at  *)
(* most n.                                                                 *)
(***************************************************************************)
THEOREM NumbersDoNotRunAhead == Spec => []NumberAtMostRank
  <1>1. IInv => NumberAtMostRank
    BY DEF IInv
  <1> QED BY <1>1, Inductive, PTL

(***************************************************************************)
(* No rewrite regresses the length of what is stored or slips past the     *)
(* post-check.                                                             *)
(***************************************************************************)
THEOREM BestTextIsStored == Spec => []StoredTextIsBest
  <1>1. IInv => StoredTextIsBest
    BY DEF IInv, TextsOK, StoredTextIsBest
  <1> QED BY <1>1, Inductive, PTL

(***************************************************************************)
(* Whatever requests share the bucket of a day, it overshoots its limit by *)
(* less than the calls they may make.                                      *)
(***************************************************************************)
THEOREM OvershootIsBounded == Spec => []BudgetOvershoot
  <1>1. IInv => BudgetOvershoot
    <2> SUFFICES ASSUME IInv PROVE BudgetOvershoot
      OBVIOUS
    <2>1. /\ spent \in Nat /\ Limit \in Nat
          /\ spent + Cardinality(Owes1) + Cardinality(Owes2) + Cardinality(Owes3)
               < Limit + 3 * Cardinality(Request)
      BY Constants DEF IInv, TypeOK, SpentOK
    <2> QED BY <2>1, OwesTypes, Constants DEF BudgetOvershoot
  <1> QED BY <1>1, Inductive, PTL

=============================================================================
