---------------------------- MODULE AudioProofs ----------------------------
(***************************************************************************)
(* Proofs about AudioPipeline for every number of stories and workers and  *)
(* every bound on crashes, failed calls and operator interventions.        *)
(***************************************************************************)
EXTENDS AudioPipeline, OutboxProofs

-----------------------------------------------------------------------------
(* The pipeline is an outbox *)

(***************************************************************************)
(* Publishing a story, the handlers and the app only add to a step of      *)
(* Outbox or leave the outbox alone.                                       *)
(***************************************************************************)
LEMMA PipelineStepIsOutboxStep == [PipelineNext]_pipelineVars => [Next]_vars
  <1> SUFFICES ASSUME [PipelineNext]_pipelineVars PROVE [Next]_vars
    OBVIOUS
  <1>1. ASSUME NEW s \in Story, Generate(s) PROVE Next
    <2>1. {MemEvent(s), TtsEvent(s)} \in SUBSET Event
      BY PipelineAssumption DEF MemEvent, TtsEvent, Story, HandledEvents
    <2> QED BY <1>1, <2>1 DEF Generate, Next
  <1>2. ASSUME NEW s \in Story, AppOpen(s) \/ AppPoll(s) \/ AppPollThrows(s)
        PROVE  UNCHANGED vars
    BY <1>2 DEF AppOpen, AppPoll, AppPollThrows, outboxVars
  <1>3. ASSUME NEW w \in Worker, PollerStep(w) \/ StartHandler(w) PROVE Next
    BY <1>3 DEF PollerStep, StartHandler, Next, WorkerStep
  <1>4. ASSUME NEW w \in Worker, NEW verdict \in {"ok", "err"}, Return(w, verdict)
        PROVE  Next
    BY <1>4 DEF Return, Next, WorkerStep
  <1>5. ASSUME NEW w \in Worker, HandlerStep(w) PROVE Next \/ UNCHANGED vars
    BY <1>4, <1>5
       DEF HandlerStep, TtsLoad, TtsSynthesize, TtsMix, TtsUpload, TtsMarkFailed,
           TtsMarkReady, MemRemember, MemSummarize, MemRecord, Goto, GotoWith, outboxVars
  <1>6. ASSUME NEW w \in Worker, Fault(w) PROVE Next
    BY <1>6 DEF Fault, Next, WorkerFault
  <1>7. ASSUME Environment PROVE Next
    BY <1>7 DEF Environment, Next
  <1>8. ASSUME AppRestart \/ UNCHANGED pipelineVars PROVE UNCHANGED vars
    BY <1>8 DEF AppRestart, pipelineVars, outboxVars
  <1> QED BY <1>1, <1>2, <1>3, <1>5, <1>6, <1>7, <1>8 DEF PipelineNext, PipelineWorkerStep

(***************************************************************************)
(* With the real handlers in place, table and workers still behave as      *)
(* Outbox says: what is proved of Outbox holds of the pipeline.            *)
(***************************************************************************)
THEOREM PipelineImplementsOutbox == PipelineSpec => Spec
  <1>1. PipelineInit => Init
    BY DEF PipelineInit
  <1> QED BY <1>1, PipelineStepIsOutboxStep, PTL DEF PipelineSpec, Spec

(***************************************************************************)
(* The pipeline is an implementation of the abstract job queue: no event   *)
(* is tried too often, and none that was delivered is tried again.         *)
(***************************************************************************)
THEOREM PipelineImplementsJobQueue == PipelineSpec => JobQueueSpec
  <1> QED BY PipelineImplementsOutbox, OutboxImplementsJobQueue

-----------------------------------------------------------------------------
(* What the handlers rely on *)

(***************************************************************************)
(* Nothing in the stories table stops two handlers from working on one     *)
(* story: that a ready story is not synthesized again and that the verdict *)
(* a worker holds still fits the row rest on the claim of its event being  *)
(* exclusive, which the invariant of Outbox says of an event that was      *)
(* never shared.  That the object a handler is about to name is in the     *)
(* bucket rests on nobody: keys are never reused and nothing is deleted.   *)
(* PipelineIInv says what each place in a handler knows of its story.      *)
(***************************************************************************)
PipelineTypes ==
    /\ audio \in [Story -> [status : AudioStatus, key : Nat, bgm : BOOLEAN]]
    /\ uploads \in [Story -> Nat]
    /\ stored \in [Story -> SUBSET [key : Nat, bgm : BOOLEAN]]
    /\ \A s \in Story : stored[s] \subseteq [key : 1..uploads[s], bgm : BOOLEAN]
    /\ memories \in [Story -> SUBSET {"told", "summary"}]
    /\ hpc \in [Worker -> {"none", "load", "synthesize", "mix", "upload", "mark_failed",
                           "mark_ready", "remember", "summarize", "record"}]
    /\ made \in [Worker -> [key : Nat, bgm : BOOLEAN]]
    /\ app \in [Story -> AppState]

PastLoad == {"synthesize", "mix", "upload", "mark_failed", "mark_ready"}

(* What w knows of the story whose event it holds.                         *)
Knows(w) ==
    /\ hpc[w] # "none" <=> stage[w] = "handling"
    /\ \A s \in Story : IsCurrent(w, TtsEvent(s)) =>
         (/\ hpc[w] = "mark_ready" => made[w] \in stored[s]
          /\ TtsEvent(s) \notin shared =>
               /\ hpc[w] \in PastLoad => audio[s].status # "ready"
               /\ stage[w] = "ok" => audio[s].status = "ready")
    /\ \A s \in Story : IsCurrent(w, MemEvent(s)) =>
         (hpc[w] \in {"summarize", "record"} \/ stage[w] = "ok" => "told" \in memories[s])

HandlersKnow == \A w \in Worker : Knows(w)

PipelineIInv ==
    /\ IInv
    /\ PipelineTypes
    /\ HandlersKnow
    /\ ReadyIsPlayable
    /\ DoneMeansDelivered

-----------------------------------------------------------------------------

LEMMA StoryEvents ==
    ASSUME NEW s \in Story
    PROVE  MemEvent(s) \in Event /\ TtsEvent(s) \in Event
  BY PipelineAssumption DEF MemEvent, TtsEvent, Story, HandledEvents

(* An event that was never shared has one holder, and is not settled while *)
(* it has.                                                                 *)
LEMMA OneHolder ==
    ASSUME IInv, NEW w \in Worker, NEW e, IsCurrent(w, e)
    PROVE  /\ e \in Event
           /\ e \notin shared =>
                /\ status[e] \in {"pending", "processing"}
                /\ \A v \in Worker : IsCurrent(v, e) => v = w
  <1>1. e \in Event /\ Held(e)
    BY DEF IInv, Types, IsCurrent, Held, Holders
  <1> QED BY <1>1 DEF IInv, Unshared, OneHolderOf, IsCurrent

(* A worker that does not move keeps what it knows while its own story is  *)
(* left alone, or disputed.                                                *)
LEMMA KnowsKept ==
    ASSUME NEW w \in Worker, Knows(w), shared \subseteq shared',
           claim'[w] = claim[w], stage'[w] = stage[w], hpc'[w] = hpc[w], made'[w] = made[w],
           \A s \in Story : IsCurrent(w, TtsEvent(s)) =>
               /\ stored[s] \subseteq stored'[s]
               /\ TtsEvent(s) \notin shared => audio'[s] = audio[s],
           \A s \in Story : memories[s] \subseteq memories'[s]
    PROVE  Knows(w)'
  BY DEF Knows, IsCurrent

(* What an idle worker knows.                                              *)
LEMMA KnowsNothing ==
    ASSUME NEW w \in Worker, hpc'[w] = "none", stage'[w] \notin {"handling", "ok"}
    PROVE  Knows(w)'
  BY DEF Knows, PastLoad

LEMMA InitPipelineIInv == PipelineInit => PipelineIInv
  <1> SUFFICES ASSUME PipelineInit PROVE PipelineIInv
    OBVIOUS
  <1>1. IInv
    BY InitIInv DEF PipelineInit
  <1>2. PipelineTypes
    BY DEF PipelineInit, PipelineTypes, AudioStatus, AppState, Nothing
  <1>3. HandlersKnow
    BY DEF PipelineInit, Init, HandlersKnow, Knows, IsCurrent
  <1>4. ReadyIsPlayable /\ DoneMeansDelivered
    BY StoryEvents DEF PipelineInit, Init, ReadyIsPlayable, DoneMeansDelivered, Undisputed
  <1> QED BY <1>1, <1>2, <1>3, <1>4 DEF PipelineIInv

-----------------------------------------------------------------------------

LEMMA GenerateKeeps ==
    ASSUME PipelineIInv, NEW s \in Story, Generate(s)
    PROVE  PipelineTypes' /\ HandlersKnow' /\ ReadyIsPlayable' /\ DoneMeansDelivered'
  <1>1. /\ status[TtsEvent(s)] = "absent" /\ audio[s].status = "absent"
        /\ audio' = [audio EXCEPT ![s].status = "pending"]
        /\ UNCHANGED <<claim, stage, shared, uploads, stored, memories, hpc, made, app>>
    BY DEF Generate, Publish, history, localVars
  <1>2. \A w \in Worker : IsCurrent(w, TtsEvent(s)) => TtsEvent(s) \in shared
    BY <1>1, OneHolder DEF PipelineIInv
  <1>3. audio \in [Story -> [status : AudioStatus, key : Nat, bgm : BOOLEAN]]
    BY DEF PipelineIInv, PipelineTypes
  <1>4. PipelineTypes'
    BY <1>1, <1>3 DEF PipelineIInv, PipelineTypes, AudioStatus
  <1>5. ASSUME NEW w \in Worker PROVE Knows(w)'
    <2>1. ASSUME NEW t \in Story, IsCurrent(w, TtsEvent(t)), TtsEvent(t) \notin shared
          PROVE  audio'[t] = audio[t]
      <3>1. t # s
        BY <1>2, <2>1
      <3> QED BY <1>1, <1>3, <3>1
    <2>2. Knows(w)
      BY DEF PipelineIInv, HandlersKnow
    <2> QED BY <1>1, <2>1, <2>2, KnowsKept
  <1>6. ReadyIsPlayable'
    BY <1>1, <1>3 DEF PipelineIInv, ReadyIsPlayable, Undisputed
  <1>7. DoneMeansDelivered'
    <2>1. \A e \in Event : status'[e] = "done" => status[e] = "done"
      BY DEF Generate, Publish
    <2> QED BY <1>1, <1>3, <2>1, StoryEvents DEF PipelineIInv, DoneMeansDelivered, Undisputed
  <1> QED BY <1>4, <1>5, <1>6, <1>7 DEF HandlersKnow

LEMMA PollerKeeps ==
    ASSUME PipelineIInv, NEW w \in Worker, PollerStep(w)
    PROVE  PipelineTypes' /\ HandlersKnow' /\ ReadyIsPlayable' /\ DoneMeansDelivered'
  <1> USE DEF PipelineIInv, PipelineTypes
  <1>1. /\ UNCHANGED <<audio, uploads, stored, memories, hpc, made, app>>
        /\ \/ FetchSelect(w) \/ FetchCommit(w) \/ MarkDone(w) \/ ReadAttempts(w)
           \/ MarkFailed(w)
    BY DEF PollerStep, handlerVars, localVars
  <1>2. /\ shared \subseteq shared' /\ (~FetchCommit(w) => UNCHANGED shared)
        /\ stage[w] # "handling" /\ stage'[w] \notin {"handling", "ok"}
        /\ \A v \in Worker \ {w} : claim'[v] = claim[v] /\ stage'[v] = stage[v]
    BY <1>1 DEF IInv, Types, FetchSelect, FetchCommit, MarkDone, ReadAttempts, MarkFailed,
                Advance, history
  <1>3. ASSUME NEW v \in Worker PROVE Knows(v)'
    <2>1. CASE v = w
      BY <1>1, <1>2, <2>1, KnowsNothing DEF HandlersKnow, Knows
    <2>2. CASE v # w
      BY <1>1, <1>2, <2>2, KnowsKept DEF HandlersKnow
    <2> QED BY <2>1, <2>2
  <1>4. DoneMeansDelivered'
    <2>1. CASE MarkDone(w)
      <3>1. PICK e \in Event : IsCurrent(w, e) /\ status' = [status EXCEPT ![e] = "done"]
        BY <2>1 DEF MarkDone
      <3>2. stage[w] = "ok" /\ \A f \in Event \ {e} : status'[f] = status[f]
        <4>1. status \in [Event -> Status]
          BY DEF IInv, Types
        <4> QED BY <2>1, <3>1, <4>1 DEF MarkDone
      <3>3. ASSUME NEW s \in Undisputed', status'[TtsEvent(s)] = "done"
            PROVE  audio[s].status = "ready"
        <4>0. s \in Undisputed /\ s \in Story /\ TtsEvent(s) \notin shared
          BY <1>2 DEF Undisputed
        <4>1. CASE e = TtsEvent(s)
          BY <3>1, <3>2, <4>0, <4>1 DEF HandlersKnow, Knows
        <4>2. CASE e # TtsEvent(s)
          BY <3>2, <3>3, <4>0, <4>2, StoryEvents DEF DoneMeansDelivered
        <4> QED BY <4>1, <4>2
      <3>4. ASSUME NEW s \in Story, status'[MemEvent(s)] = "done" PROVE "told" \in memories[s]
        <4>1. CASE e = MemEvent(s)
          BY <3>1, <3>2, <4>1 DEF HandlersKnow, Knows
        <4>2. CASE e # MemEvent(s)
          BY <3>2, <3>4, <4>2, StoryEvents DEF DoneMeansDelivered
        <4> QED BY <4>1, <4>2
      <3> QED BY <1>1, <3>3, <3>4 DEF DoneMeansDelivered
    <2>2. CASE ~MarkDone(w)
      <3>1. \A e \in Event : status'[e] = "done" => status[e] = "done"
        BY <1>1, <2>2 DEF FetchSelect, FetchCommit, ReadAttempts, MarkFailed, rows, IInv, Types
      <3> QED BY <1>1, <1>2, <3>1, StoryEvents DEF DoneMeansDelivered, Undisputed
    <2> QED BY <2>1, <2>2
  <1>5. PipelineTypes' /\ ReadyIsPlayable'
    BY <1>1, <1>2 DEF ReadyIsPlayable, Undisputed
  <1> QED BY <1>3, <1>4, <1>5 DEF HandlersKnow

LEMMA StartHandlerKeeps ==
    ASSUME PipelineIInv, NEW w \in Worker, StartHandler(w)
    PROVE  PipelineTypes' /\ HandlersKnow' /\ ReadyIsPlayable' /\ DoneMeansDelivered'
  <1> USE DEF PipelineIInv, PipelineTypes
  <1>1. /\ UNCHANGED <<audio, uploads, stored, memories, made, app, status, claim, shared>>
        /\ hpc' = [hpc EXCEPT ![w] = "load"] \/ hpc' = [hpc EXCEPT ![w] = "remember"]
        /\ stage' = [stage EXCEPT ![w] = "handling"]
    BY PipelineAssumption DEF StartHandler, Dispatch, handlerVars, rows
  <1>2. ASSUME NEW v \in Worker PROVE Knows(v)'
    <2>1. CASE v = w
      BY <1>1, <2>1 DEF Knows, PastLoad, IInv, Types
    <2>2. CASE v # w
      BY <1>1, <2>2, KnowsKept DEF HandlersKnow
    <2> QED BY <2>1, <2>2
  <1>3. PipelineTypes' /\ ReadyIsPlayable' /\ DoneMeansDelivered'
    BY <1>1 DEF ReadyIsPlayable, DoneMeansDelivered, Undisputed
  <1> QED BY <1>2, <1>3 DEF HandlersKnow

-----------------------------------------------------------------------------
(* The steps of the handlers *)

(* A handler step is the worker's own: the rest of Outbox stands still.    *)
LEMMA HandlerFrame ==
    ASSUME PipelineIInv, NEW w \in Worker, HandlerStep(w)
    PROVE  /\ hpc[w] # "none" /\ stage[w] = "handling"
           /\ UNCHANGED <<status, claim, shared, app>>
           /\ \A v \in Worker \ {w} :
                stage'[v] = stage[v] /\ hpc'[v] = hpc[v] /\ made'[v] = made[v]
           /\ \/ stage'[w] = "handling" /\ hpc'[w] # "none"
              \/ stage'[w] \in {"ok", "err"} /\ hpc'[w] = "none"
           /\ hpc'[w] \in {"none", "synthesize", "mix", "upload", "mark_failed", "mark_ready",
                           "summarize", "record"}
           /\ hpc' \in [Worker -> {"none", "load", "synthesize", "mix", "upload", "mark_failed",
                                   "mark_ready", "remember", "summarize", "record"}]
           /\ made' \in [Worker -> [key : Nat, bgm : BOOLEAN]]
  <1> USE DEF PipelineIInv, PipelineTypes
  <1>1. hpc[w] # "none" /\ stage[w] = "handling"
    BY DEF HandlerStep, TtsLoad, TtsSynthesize, TtsMix, TtsUpload, TtsMarkFailed,
           TtsMarkReady, MemRemember, MemSummarize, MemRecord, HandlersKnow, Knows
  <1>2. UNCHANGED app
    BY DEF HandlerStep, TtsLoad, TtsSynthesize, TtsMix, TtsUpload, TtsMarkFailed,
           TtsMarkReady, MemRemember, MemSummarize, MemRecord
  <1>3. \/ \E label \in {"synthesize", "mix", "upload", "mark_failed", "mark_ready",
                         "summarize", "record"} :
              \E o \in [key : Nat, bgm : BOOLEAN] : GotoWith(w, label, o)
        \/ \E verdict \in {"ok", "err"} : Return(w, verdict)
    <2>1. made[w] \in [key : Nat, bgm : BOOLEAN]
      OBVIOUS
    <2>2. \A music \in BOOLEAN : [key |-> 0, bgm |-> music] \in [key : Nat, bgm : BOOLEAN]
      OBVIOUS
    <2>3. \A s \in Story : NextObject(w, s) \in [key : Nat, bgm : BOOLEAN]
      BY <2>1 DEF NextObject
    <2>4. CASE \E s \in Story : TtsMix(w, s)
      BY <2>2, <2>4 DEF TtsMix
    <2>5. CASE \E s \in Story : TtsUpload(w, s)
      BY <2>1, <2>3, <2>5 DEF TtsUpload, Goto
    <2>6. CASE \E s \in Story : TtsLoad(w, s) \/ TtsSynthesize(w, s)
                                \/ TtsMarkFailed(w, s) \/ TtsMarkReady(w, s)
      BY <2>1, <2>6 DEF TtsLoad, TtsSynthesize, TtsMarkFailed, TtsMarkReady, Goto
    <2>7. CASE \E s \in Story : MemRemember(w, s) \/ MemSummarize(w, s) \/ MemRecord(w, s)
      BY <2>1, <2>7 DEF MemRemember, MemSummarize, MemRecord, Goto
    <2> QED BY <2>4, <2>5, <2>6, <2>7 DEF HandlerStep
  <1>4. ASSUME NEW label \in {"synthesize", "mix", "upload", "mark_failed", "mark_ready",
                              "summarize", "record"},
               NEW o \in [key : Nat, bgm : BOOLEAN], GotoWith(w, label, o)
        PROVE  /\ UNCHANGED <<status, claim, shared, stage>>
               /\ hpc' = [hpc EXCEPT ![w] = label] /\ made' = [made EXCEPT ![w] = o]
    BY <1>4 DEF GotoWith, outboxVars, vars, rows, history
  <1>5. ASSUME NEW verdict \in {"ok", "err"}, Return(w, verdict)
        PROVE  /\ UNCHANGED <<status, claim, shared>> /\ stage' = [stage EXCEPT ![w] = verdict]
               /\ hpc' = [hpc EXCEPT ![w] = "none"] /\ made' = [made EXCEPT ![w] = Nothing]
    BY <1>5 DEF Return, HandlerReturns, rows, history
  <1>6. Nothing \in [key : Nat, bgm : BOOLEAN] /\ stage \in [Worker -> Stage]
    BY DEF Nothing, IInv, Types
  <1>7. CASE \E label \in {"synthesize", "mix", "upload", "mark_failed", "mark_ready",
                           "summarize", "record"} :
               \E o \in [key : Nat, bgm : BOOLEAN] : GotoWith(w, label, o)
    <2>1. PICK label \in {"synthesize", "mix", "upload", "mark_failed", "mark_ready",
                          "summarize", "record"}, o \in [key : Nat, bgm : BOOLEAN] :
                 GotoWith(w, label, o)
      BY <1>7
    <2>2. /\ UNCHANGED <<status, claim, shared, stage>>
          /\ hpc' = [hpc EXCEPT ![w] = label] /\ made' = [made EXCEPT ![w] = o]
      BY <1>4, <2>1
    <2> QED BY <1>1, <1>2, <2>2
  <1>8. CASE \E verdict \in {"ok", "err"} : Return(w, verdict)
    <2>1. PICK verdict \in {"ok", "err"} : Return(w, verdict)
      BY <1>8
    <2>2. /\ UNCHANGED <<status, claim, shared>> /\ stage' = [stage EXCEPT ![w] = verdict]
          /\ hpc' = [hpc EXCEPT ![w] = "none"] /\ made' = [made EXCEPT ![w] = Nothing]
      BY <1>5, <2>1
    <2> QED BY <1>1, <1>2, <1>6, <2>2
  <1> QED BY <1>3, <1>7, <1>8

(* The others keep what they know as long as the step is about the story   *)
(* whose tts event w holds.                                                *)
LEMMA OthersKnow ==
    ASSUME PipelineIInv, NEW w \in Worker, HandlerStep(w),
           NEW s \in Story, NEW e \in {MemEvent(s), TtsEvent(s)}, IsCurrent(w, e),
           \A t \in Story : t # s \/ e # TtsEvent(s) => audio'[t] = audio[t],
           \A t \in Story : stored[t] \subseteq stored'[t],
           \A t \in Story : memories[t] \subseteq memories'[t]
    PROVE  \A v \in Worker \ {w} : Knows(v)'
  <1> SUFFICES ASSUME NEW v \in Worker \ {w} PROVE Knows(v)'
    OBVIOUS
  <1>1. \A t \in Story : IsCurrent(v, TtsEvent(t)) =>
            /\ stored[t] \subseteq stored'[t]
            /\ TtsEvent(t) \notin shared => audio'[t] = audio[t]
    BY OneHolder DEF PipelineIInv
  <1>2. /\ claim'[v] = claim[v] /\ UNCHANGED shared
        /\ claim'[v] = claim[v] /\ stage'[v] = stage[v]
        /\ hpc'[v] = hpc[v] /\ made'[v] = made[v]
    BY HandlerFrame
  <1> QED BY <1>1, <1>2, KnowsKept DEF PipelineIInv, HandlersKnow

(* A worker works on one event of one story.                               *)
LEMMA OneStory ==
    ASSUME NEW w \in Worker, NEW s \in Story, NEW t \in Story
    PROVE  /\ IsCurrent(w, TtsEvent(s)) /\ IsCurrent(w, TtsEvent(t)) => t = s
           /\ IsCurrent(w, MemEvent(s)) /\ IsCurrent(w, MemEvent(t)) => t = s
           /\ ~(IsCurrent(w, TtsEvent(s)) /\ IsCurrent(w, MemEvent(t)))
  <1>1. /\ MemEvent(s) \in Event /\ TtsEvent(s) \in Event
        /\ MemEvent(t) \in Event /\ TtsEvent(t) \in Event
    BY StoryEvents
  <1>2. ASSUME IsCurrent(w, TtsEvent(s)), IsCurrent(w, TtsEvent(t)) PROVE t = s
    <2>1. TtsEvent(s) = TtsEvent(t)
      BY <1>1, <1>2, CurrentIsUnique
    <2> QED BY <2>1, PipelineAssumption DEF Story, TtsEvent
  <1>3. ASSUME IsCurrent(w, MemEvent(s)), IsCurrent(w, MemEvent(t)) PROVE t = s
    <2>1. MemEvent(s) = MemEvent(t)
      BY <1>1, <1>3, CurrentIsUnique
    <2> QED BY <2>1, PipelineAssumption DEF Story, MemEvent
  <1>4. ASSUME IsCurrent(w, TtsEvent(s)), IsCurrent(w, MemEvent(t)) PROVE FALSE
    <2>1. TtsEvent(s) = MemEvent(t)
      BY <1>1, <1>4, CurrentIsUnique
    <2> QED BY <2>1, PipelineAssumption DEF Story, TtsEvent, MemEvent
  <1> QED BY <1>2, <1>3, <1>4

(* What w knows of the one story it works on is all it knows.              *)
LEMMA KnowsSynthesis ==
    ASSUME NEW w \in Worker, NEW s \in Story, IsCurrent(w, TtsEvent(s)), UNCHANGED claim,
           hpc'[w] # "none" <=> stage'[w] = "handling",
           hpc'[w] = "mark_ready" => made'[w] \in stored'[s],
           TtsEvent(s) \notin shared' =>
               /\ hpc'[w] \in PastLoad => audio'[s].status # "ready"
               /\ stage'[w] = "ok" => audio'[s].status = "ready"
    PROVE  Knows(w)'
  <1>1. \A e : IsCurrent(w, e)' <=> IsCurrent(w, e)
    BY DEF IsCurrent
  <1>2. \A t \in Story : IsCurrent(w, TtsEvent(t)) => t = s
    BY OneStory
  <1>3. \A t \in Story : ~IsCurrent(w, MemEvent(t))
    BY OneStory
  <1> QED BY <1>1, <1>2, <1>3 DEF Knows

LEMMA KnowsRemembrance ==
    ASSUME NEW w \in Worker, NEW s \in Story, IsCurrent(w, MemEvent(s)), UNCHANGED claim,
           hpc'[w] # "none" <=> stage'[w] = "handling",
           hpc'[w] \in {"summarize", "record"} \/ stage'[w] = "ok" => "told" \in memories'[s]
    PROVE  Knows(w)'
  <1>1. \A e : IsCurrent(w, e)' <=> IsCurrent(w, e)
    BY DEF IsCurrent
  <1>2. \A t \in Story : IsCurrent(w, MemEvent(t)) => t = s
    BY OneStory
  <1>3. \A t \in Story : ~IsCurrent(w, TtsEvent(t))
    BY OneStory
  <1> QED BY <1>1, <1>2, <1>3 DEF Knows

-----------------------------------------------------------------------------

(* The steps on the tts event of s.                                        *)
TtsStep(w, s) ==
    \/ TtsLoad(w, s) \/ TtsSynthesize(w, s) \/ TtsMix(w, s)
    \/ TtsUpload(w, s) \/ TtsMarkFailed(w, s) \/ TtsMarkReady(w, s)

(* They touch no story but s, and upload only under a new key.             *)
LEMMA TtsTables ==
    ASSUME PipelineIInv, NEW w \in Worker, NEW s \in Story, TtsStep(w, s)
    PROVE  /\ IsCurrent(w, TtsEvent(s)) /\ UNCHANGED memories
           /\ \A t \in Story \ {s} :
                audio'[t] = audio[t] /\ uploads'[t] = uploads[t] /\ stored'[t] = stored[t]
           /\ stored[s] \subseteq stored'[s]
           /\ \/ audio'[s] = audio[s]
              \/ /\ hpc[w] = "mark_failed" /\ UNCHANGED <<uploads, stored>>
                 /\ audio'[s] = [audio[s] EXCEPT !.status = "failed"]
              \/ /\ hpc[w] = "mark_ready" /\ UNCHANGED <<uploads, stored>>
                 /\ audio'[s] = [status |-> "ready", key |-> made[w].key, bgm |-> made[w].bgm]
           /\ audio' \in [Story -> [status : AudioStatus, key : Nat, bgm : BOOLEAN]]
           /\ uploads' \in [Story -> Nat]
           /\ stored' \in [Story -> SUBSET [key : Nat, bgm : BOOLEAN]]
           /\ stored'[s] \subseteq [key : 1..uploads'[s], bgm : BOOLEAN]
  <1> USE DEF PipelineIInv, PipelineTypes, AudioStatus
  <1>1. CASE TtsLoad(w, s) \/ TtsSynthesize(w, s) \/ TtsMix(w, s)
    BY <1>1 DEF TtsLoad, TtsSynthesize, TtsMix, handlerVars
  <1>2. CASE TtsMarkFailed(w, s) \/ TtsMarkReady(w, s)
    <2>1. /\ IsCurrent(w, TtsEvent(s)) /\ UNCHANGED <<uploads, stored, memories>>
          /\ \/ UNCHANGED audio
             \/ /\ hpc[w] = "mark_failed"
                /\ audio' = [audio EXCEPT ![s].status = "failed"]
             \/ /\ hpc[w] = "mark_ready"
                /\ audio' = [audio EXCEPT ![s] =
                               [status |-> "ready", key |-> made[w].key, bgm |-> made[w].bgm]]
      BY <1>2 DEF TtsMarkFailed, TtsMarkReady
    <2>2. \A o \in stored[s] : o \in [key : 1..uploads[s], bgm : BOOLEAN]
      OBVIOUS
    <2>3. CASE UNCHANGED audio
      BY <2>1, <2>2, <2>3
    <2>4. CASE hpc[w] = "mark_failed" /\ audio' = [audio EXCEPT ![s].status = "failed"]
      <3>1. audio' \in [Story -> [status : AudioStatus, key : Nat, bgm : BOOLEAN]]
        BY <2>4
      <3>2. /\ audio'[s] = [audio[s] EXCEPT !.status = "failed"]
            /\ \A t \in Story \ {s} : audio'[t] = audio[t]
        BY <2>4
      <3> QED BY <2>1, <2>2, <2>4, <3>1, <3>2
    <2>5. CASE /\ hpc[w] = "mark_ready"
               /\ audio' = [audio EXCEPT ![s] =
                              [status |-> "ready", key |-> made[w].key, bgm |-> made[w].bgm]]
      <3>1. audio' \in [Story -> [status : AudioStatus, key : Nat, bgm : BOOLEAN]]
        BY <2>5
      <3>2. /\ audio'[s] = [status |-> "ready", key |-> made[w].key, bgm |-> made[w].bgm]
            /\ \A t \in Story \ {s} : audio'[t] = audio[t]
        BY <2>5
      <3> QED BY <2>1, <2>2, <2>5, <3>1, <3>2
    <2> QED BY <2>1, <2>3, <2>4, <2>5
  <1>3. CASE TtsUpload(w, s)
    <2>1. /\ IsCurrent(w, TtsEvent(s)) /\ UNCHANGED <<audio, memories>>
          /\ uploads' = [uploads EXCEPT ![s] = @ + 1]
          /\ \/ stored' = [stored EXCEPT ![s] = @ \cup {NextObject(w, s)}]
             \/ UNCHANGED stored
      BY <1>3 DEF TtsUpload
    <2>2. /\ NextObject(w, s) \in [key : 1..(uploads[s] + 1), bgm : BOOLEAN]
          /\ NextObject(w, s) \in [key : Nat, bgm : BOOLEAN]
      BY DEF NextObject
    <2>3. uploads' \in [Story -> Nat] /\ uploads'[s] = uploads[s] + 1
      BY <2>1
    <2>4. \A o \in stored[s] : o \in [key : 1..(uploads[s] + 1), bgm : BOOLEAN]
      OBVIOUS
    <2>5. stored' \in [Story -> SUBSET [key : Nat, bgm : BOOLEAN]]
      BY <2>1, <2>2
    <2>6. stored'[s] \subseteq [key : 1..uploads'[s], bgm : BOOLEAN]
      BY <2>1, <2>2, <2>3, <2>4
    <2> QED BY <2>1, <2>3, <2>5, <2>6
  <1> QED BY <1>1, <1>2, <1>3 DEF TtsStep

LEMMA TtsKnows ==
    ASSUME PipelineIInv, NEW w \in Worker, NEW s \in Story, TtsStep(w, s)
    PROVE  Knows(w)'
  <1> USE DEF PipelineIInv, PipelineTypes, HandlersKnow, PastLoad, Goto, GotoWith, Return,
             HandlerReturns
  <1>1. IsCurrent(w, TtsEvent(s)) /\ UNCHANGED claim
        /\ (hpc'[w] # "none" <=> stage'[w] = "handling")
        /\ UNCHANGED shared
    BY TtsTables, HandlerFrame DEF TtsStep, HandlerStep
  <1>2. CASE TtsLoad(w, s)
    <2>1. ASSUME audio[s].status = "ready" PROVE audio[s].key # 0
      <3>1. [key |-> audio[s].key, bgm |-> audio[s].bgm] \in [key : 1..uploads[s], bgm : BOOLEAN]
        BY <2>1 DEF ReadyIsPlayable
      <3>2. audio[s].key \in 1..uploads[s]
        BY <3>1
      <3> QED BY <3>2
    <2>2. audio' = audio /\ hpc'[w] \in {"none", "synthesize"}
      BY <1>2 DEF TtsLoad, handlerVars
    <2>3. hpc'[w] = "synthesize" \/ stage'[w] = "ok" =>
              (hpc'[w] = "synthesize" /\ audio[s].status # "ready")
              \/ (hpc'[w] = "none" /\ audio[s].status = "ready")
      BY <1>1, <1>2, <2>1 DEF TtsLoad, outboxVars, vars, IInv, Types
    <2> QED BY <1>1, <2>2, <2>3, KnowsSynthesis
  <1>3. CASE TtsSynthesize(w, s)
    <2>1. audio' = audio /\ hpc[w] = "synthesize" /\ hpc'[w] \in {"mix", "mark_failed"}
      BY <1>3 DEF TtsSynthesize, handlerVars
    <2> QED BY <1>1, <2>1, KnowsSynthesis DEF Knows
  <1>4. CASE TtsMix(w, s)
    <2>1. audio' = audio /\ hpc[w] = "mix" /\ hpc'[w] = "upload"
      BY <1>4 DEF TtsMix, handlerVars
    <2> QED BY <1>1, <2>1, KnowsSynthesis DEF Knows
  <1>5. CASE TtsUpload(w, s)
    <2>1. audio' = audio /\ hpc[w] = "upload" /\ hpc'[w] \in {"mark_ready", "mark_failed"}
      BY <1>5 DEF TtsUpload
    <2>2. ASSUME hpc'[w] = "mark_ready"
          PROVE  made'[w] \in stored'[s]
      <3>1. /\ made' = [made EXCEPT ![w] = NextObject(w, s)]
            /\ stored' = [stored EXCEPT ![s] = @ \cup {NextObject(w, s)}]
        BY <1>5, <2>2 DEF TtsUpload
      <3>2. made'[w] = NextObject(w, s) /\ NextObject(w, s) \in stored'[s]
        BY <3>1
      <3> QED BY <3>1, <3>2
    <2>3. TtsEvent(s) \notin shared' => audio[s].status # "ready" /\ stage'[w] # "ok"
      <3>1. stage'[w] = "handling" /\ UNCHANGED shared
        BY <1>1, <2>1, HandlerFrame DEF TtsStep, HandlerStep
      <3> QED BY <1>1, <2>1, <3>1 DEF Knows
    <2> QED BY <1>1, <2>1, <2>2, <2>3, KnowsSynthesis
  <1>6. CASE TtsMarkFailed(w, s)
    <2>1. hpc'[w] = "none" /\ stage'[w] = "err"
      BY <1>6 DEF TtsMarkFailed, IInv, Types
    <2> QED BY <2>1, KnowsNothing
  <1>7. CASE TtsMarkReady(w, s)
    <2>1. hpc'[w] = "none" /\ (stage'[w] = "ok" => audio'[s].status = "ready")
      BY <1>7 DEF TtsMarkReady, IInv, Types
    <2> QED BY <1>1, <2>1, KnowsSynthesis
  <1> QED BY <1>2, <1>3, <1>4, <1>5, <1>6, <1>7 DEF TtsStep

LEMMA TtsKeeps ==
    ASSUME PipelineIInv, NEW w \in Worker, NEW s \in Story, TtsStep(w, s)
    PROVE  PipelineTypes' /\ HandlersKnow' /\ ReadyIsPlayable' /\ DoneMeansDelivered'
  <1>1. HandlerStep(w)
    BY DEF TtsStep, HandlerStep
  <1>2. /\ UNCHANGED <<status, shared, app, memories>> /\ stored[s] \subseteq stored'[s]
        /\ \A t \in Story \ {s} :
              audio'[t] = audio[t] /\ uploads'[t] = uploads[t] /\ stored'[t] = stored[t]
    BY <1>1, TtsTables, HandlerFrame
  <1>3. \/ audio'[s] = audio[s]
        \/ hpc[w] = "mark_failed" /\ audio'[s] = [audio[s] EXCEPT !.status = "failed"]
        \/ /\ hpc[w] = "mark_ready" /\ UNCHANGED stored
           /\ audio'[s] = [status |-> "ready", key |-> made[w].key, bgm |-> made[w].bgm]
    BY TtsTables
  <1>4. /\ IsCurrent(w, TtsEvent(s)) /\ Knows(w) /\ PipelineTypes
        /\ ReadyIsPlayable /\ DoneMeansDelivered
    BY TtsTables DEF PipelineIInv, HandlersKnow
  <1>5. PipelineTypes'
    <2>1. /\ audio' \in [Story -> [status : AudioStatus, key : Nat, bgm : BOOLEAN]]
          /\ uploads' \in [Story -> Nat]
          /\ stored' \in [Story -> SUBSET [key : Nat, bgm : BOOLEAN]]
          /\ stored'[s] \subseteq [key : 1..uploads'[s], bgm : BOOLEAN]
      BY TtsTables
    <2>2. \A t \in Story : stored'[t] \subseteq [key : 1..uploads'[t], bgm : BOOLEAN]
      BY <1>2, <1>4, <2>1 DEF PipelineTypes
    <2>3. /\ hpc' \in [Worker -> {"none", "load", "synthesize", "mix", "upload", "mark_failed",
                                  "mark_ready", "remember", "summarize", "record"}]
          /\ made' \in [Worker -> [key : Nat, bgm : BOOLEAN]]
      BY <1>1, HandlerFrame
    <2> QED BY <1>2, <1>4, <2>1, <2>2, <2>3 DEF PipelineTypes
  <1>6. HandlersKnow'
    <2>1. TtsEvent(s) \in {MemEvent(s), TtsEvent(s)} /\ \A t \in Story : memories[t] \subseteq memories'[t]
      BY <1>2
    <2>2. \A v \in Worker \ {w} : Knows(v)'
      BY <1>1, <1>2, <1>4, <2>1, OthersKnow
    <2> QED BY <2>2, TtsKnows DEF HandlersKnow
  <1>7. /\ Undisputed' = Undisputed
        /\ \A t \in Undisputed : audio[t].status = "ready" => audio'[t] = audio[t]
    BY <1>2, <1>3, <1>4 DEF Knows, PastLoad, Undisputed
  <1>8. ReadyIsPlayable'
    <2>1. ASSUME NEW t \in Story, audio'[t].status = "ready"
          PROVE  [key |-> audio'[t].key, bgm |-> audio'[t].bgm] \in stored'[t]
      <3>1. CASE audio'[t] = audio[t]
        BY <1>2, <1>4, <2>1, <3>1 DEF ReadyIsPlayable
      <3>2. CASE audio'[t] # audio[t]
        <4>1. t = s
          BY <1>2, <3>2
        <4>2. audio'[s] # [audio[s] EXCEPT !.status = "failed"]
          BY <1>4, <2>1, <4>1 DEF PipelineTypes
        <4>3. /\ hpc[w] = "mark_ready" /\ UNCHANGED stored
              /\ audio'[s] = [status |-> "ready", key |-> made[w].key, bgm |-> made[w].bgm]
          BY <1>3, <3>2, <4>1, <4>2
        <4>4. made[w] \in stored[s] /\ made[w] = [key |-> made[w].key, bgm |-> made[w].bgm]
          BY <1>4, <4>3 DEF Knows, PipelineTypes
        <4> QED BY <4>1, <4>3, <4>4
      <3> QED BY <3>1, <3>2
    <2>2. Undisputed \subseteq Story
      BY DEF Undisputed
    <2> QED BY <1>2, <1>4, <1>7, <2>1, <2>2 DEF ReadyIsPlayable
  <1>9. DoneMeansDelivered'
    BY <1>2, <1>4, <1>7 DEF DoneMeansDelivered
  <1> QED BY <1>5, <1>6, <1>8, <1>9

(* The steps on the memory event of s.                                     *)
MemStep(w, s) == MemRemember(w, s) \/ MemSummarize(w, s) \/ MemRecord(w, s)

LEMMA MemKeeps ==
    ASSUME PipelineIInv, NEW w \in Worker, NEW s \in Story, MemStep(w, s)
    PROVE  PipelineTypes' /\ HandlersKnow' /\ ReadyIsPlayable' /\ DoneMeansDelivered'
  <1> USE DEF PipelineIInv
  <1>1. HandlerStep(w)
    BY DEF MemStep, HandlerStep
  <1>2. /\ IsCurrent(w, MemEvent(s)) /\ UNCHANGED <<audio, uploads, stored>>
        /\ \/ UNCHANGED memories
           \/ \E kind \in {"told", "summary"} : Remember(s, kind)
    BY DEF MemStep, MemRemember, MemSummarize, MemRecord, handlerVars
  <1>3. /\ memories' \in [Story -> SUBSET {"told", "summary"}]
        /\ \A t \in Story : memories[t] \subseteq memories'[t]
    <2>1. memories \in [Story -> SUBSET {"told", "summary"}]
      BY DEF PipelineTypes
    <2> QED BY <1>2, <2>1 DEF Remember
  <1>4. hpc'[w] \in {"summarize", "record"} \/ stage'[w] = "ok" => "told" \in memories'[s]
    <2>1. CASE MemRemember(w, s)
      BY <2>1
         DEF MemRemember, Remember, Goto, GotoWith, Return, HandlerReturns, outboxVars, vars,
             PipelineTypes, IInv, Types
    <2>2. CASE MemSummarize(w, s) \/ MemRecord(w, s)
      <3>1. "told" \in memories[s]
        BY <1>2, <2>2 DEF MemSummarize, MemRecord, HandlersKnow, Knows
      <3> QED BY <1>3, <3>1
    <2> QED BY <2>1, <2>2 DEF MemStep
  <1>5. Knows(w)'
    <2>1. (hpc'[w] # "none" <=> stage'[w] = "handling") /\ UNCHANGED claim
      BY <1>1, HandlerFrame
    <2> QED BY <1>2, <1>4, <2>1, KnowsRemembrance
  <1>6. \A v \in Worker \ {w} : Knows(v)'
    <2>1. MemEvent(s) # TtsEvent(s)
      BY PipelineAssumption DEF Story, MemEvent, TtsEvent
    <2> QED BY <1>1, <1>2, <1>3, <2>1, OthersKnow
  <1>7. PipelineTypes'
    BY <1>1, <1>2, <1>3, HandlerFrame DEF PipelineTypes
  <1>8. UNCHANGED <<status, shared, app>>
    BY <1>1, HandlerFrame
  <1>9. ReadyIsPlayable' /\ DoneMeansDelivered'
    BY <1>2, <1>3, <1>8 DEF ReadyIsPlayable, DoneMeansDelivered, Undisputed
  <1> QED BY <1>5, <1>6, <1>7, <1>9 DEF HandlersKnow

LEMMA FaultKeeps ==
    ASSUME PipelineIInv, NEW w \in Worker, Fault(w)
    PROVE  PipelineTypes' /\ HandlersKnow' /\ ReadyIsPlayable' /\ DoneMeansDelivered'
  <1> USE DEF PipelineIInv, PipelineTypes
  <1>1. /\ UNCHANGED <<audio, uploads, stored, memories, app>>
        /\ \/ /\ Crash(w)
              /\ hpc' = [hpc EXCEPT ![w] = "none"] /\ made' = [made EXCEPT ![w] = Nothing]
           \/ /\ FetchAbort(w) \/ FetchInDoubt(w) \/ MarkLost(w)
              /\ UNCHANGED <<hpc, made>>
    BY DEF Fault, handlerVars, localVars
  <1>2. /\ hpc'[w] = "none" /\ stage'[w] \notin {"handling", "ok"} /\ UNCHANGED shared
        /\ \A v \in Worker \ {w} : claim'[v] = claim[v] /\ stage'[v] = stage[v]
                                   /\ hpc'[v] = hpc[v] /\ made'[v] = made[v]
    BY <1>1 DEF IInv, Types, Crash, FetchAbort, FetchInDoubt, MarkLost, Advance,
                HandlersKnow, Knows, history
  <1>3. ASSUME NEW v \in Worker PROVE Knows(v)'
    <2>1. CASE v = w
      BY <1>2, <2>1, KnowsNothing
    <2>2. CASE v # w
      BY <1>1, <1>2, <2>2, KnowsKept DEF HandlersKnow
    <2> QED BY <2>1, <2>2
  <1>4. \A e \in Event : status'[e] = "done" => status[e] = "done"
    BY <1>1 DEF Crash, FetchAbort, FetchInDoubt, MarkLost, rows
  <1>5. PipelineTypes'
    <2>1. Nothing \in [key : Nat, bgm : BOOLEAN]
      BY DEF Nothing
    <2>2. \/ UNCHANGED <<hpc, made>>
          \/ hpc' = [hpc EXCEPT ![w] = "none"] /\ made' = [made EXCEPT ![w] = Nothing]
      BY <1>1
    <2>3. made' \in [Worker -> [key : Nat, bgm : BOOLEAN]]
      BY <2>1, <2>2
    <2>4. hpc' \in [Worker -> {"none", "load", "synthesize", "mix", "upload", "mark_failed",
                              "mark_ready", "remember", "summarize", "record"}]
      BY <2>2
    <2> QED BY <1>1, <2>3, <2>4
  <1>6. ReadyIsPlayable' /\ DoneMeansDelivered'
    BY <1>1, <1>2, <1>4, StoryEvents DEF ReadyIsPlayable, DoneMeansDelivered, Undisputed
  <1> QED BY <1>3, <1>5, <1>6 DEF HandlersKnow

LEMMA EnvironmentKeeps ==
    ASSUME PipelineIInv, Environment
    PROVE  PipelineTypes' /\ HandlersKnow' /\ ReadyIsPlayable' /\ DoneMeansDelivered'
  <1> USE DEF PipelineIInv, PipelineTypes
  <1>1. UNCHANGED <<audio, uploads, stored, memories, hpc, made, app, claim, stage, shared>>
    BY DEF Environment, handlerVars, localVars, BackoffElapsed, Revive, Reset, history
  <1>2. \A e \in Event : status'[e] = "done" => status[e] = "done"
    BY DEF Environment, BackoffElapsed, Revive, Reset
  <1>3. HandlersKnow'
    BY <1>1, KnowsKept DEF HandlersKnow
  <1>4. PipelineTypes' /\ ReadyIsPlayable' /\ DoneMeansDelivered'
    BY <1>1, <1>2, StoryEvents DEF ReadyIsPlayable, DoneMeansDelivered, Undisputed
  <1> QED BY <1>3, <1>4

LEMMA AppKeeps ==
    ASSUME PipelineIInv,
           \/ AppRestart
           \/ \E s \in Story : AppOpen(s) \/ AppPoll(s) \/ AppPollThrows(s)
    PROVE  PipelineTypes' /\ HandlersKnow' /\ ReadyIsPlayable' /\ DoneMeansDelivered'
  <1> USE DEF PipelineIInv, PipelineTypes
  <1>1. UNCHANGED <<audio, uploads, stored, memories, hpc, made, claim, stage, status, shared>>
    BY DEF AppRestart, AppOpen, AppPoll, AppPollThrows, outboxVars, vars, rows, history,
           handlerVars, localVars
  <1>2. app' \in [Story -> AppState]
    BY DEF AppRestart, AppOpen, AppPoll, AppPollThrows, AudioUrl, AppState
  <1>3. \A s \in Story : app'[s] = "playing" => app[s] = "playing" \/ audio[s].status = "ready"
    BY DEF AppRestart, AppOpen, AppPoll, AppPollThrows, AudioUrl
  <1>4. HandlersKnow'
    BY <1>1, KnowsKept DEF HandlersKnow
  <1>5. ReadyIsPlayable' /\ DoneMeansDelivered'
    BY <1>1, <1>3 DEF ReadyIsPlayable, DoneMeansDelivered, Undisputed
  <1> QED BY <1>1, <1>2, <1>4, <1>5

LEMMA NextPreservesPipelineIInv ==
    PipelineIInv /\ [PipelineNext]_pipelineVars => PipelineIInv'
  <1> SUFFICES ASSUME PipelineIInv, [PipelineNext]_pipelineVars PROVE PipelineIInv'
    OBVIOUS
  <1> DEFINE Kept == PipelineTypes /\ HandlersKnow /\ ReadyIsPlayable /\ DoneMeansDelivered
  <1>1. IInv'
    BY PipelineStepIsOutboxStep, NextPreservesIInv DEF PipelineIInv
  <1>2. ASSUME NEW w \in Worker, HandlerStep(w) PROVE Kept'
    <2>1. PICK s \in Story : TtsStep(w, s) \/ MemStep(w, s)
      BY <1>2 DEF HandlerStep, TtsStep, MemStep
    <2> QED BY <2>1, TtsKeeps, MemKeeps
  <1>3. ASSUME NEW w \in Worker, PipelineWorkerStep(w) PROVE Kept'
    BY <1>2, <1>3, PollerKeeps, StartHandlerKeeps DEF PipelineWorkerStep
  <1>4. ASSUME UNCHANGED pipelineVars PROVE Kept'
    BY <1>4, KnowsKept
       DEF PipelineIInv, pipelineVars, outboxVars, vars, rows, history, handlerVars, localVars,
           PipelineTypes, HandlersKnow, ReadyIsPlayable, DoneMeansDelivered, Undisputed
  <1>5. Kept'
    BY <1>3, <1>4, GenerateKeeps, FaultKeeps, EnvironmentKeeps, AppKeeps DEF PipelineNext
  <1> QED BY <1>1, <1>5 DEF PipelineIInv

THEOREM PipelineInductive == PipelineSpec => []PipelineIInv
  <1> QED BY InitPipelineIInv, NextPreservesPipelineIInv, PTL DEF PipelineSpec

LEMMA PipelineTypeOKHolds == PipelineIInv => PipelineTypeOK
  BY IInvImplies DEF PipelineIInv, PipelineTypes, PipelineTypeOK

(***************************************************************************)
(* Every variable of the pipeline keeps its type: an object in the bucket  *)
(* was uploaded under a key some attempt has used.                         *)
(***************************************************************************)
THEOREM PipelineTypeCorrect == PipelineSpec => []PipelineTypeOK
  <1> QED BY PipelineInductive, PipelineTypeOKHolds, PTL

(***************************************************************************)
(* Whoever is told 'ready' can play, however many workers, attempts,       *)
(* crashes, failed calls and revivals there were, and even when two        *)
(* workers synthesized the story at once: the row names an object that is  *)
(* in the bucket and says truly whether it has music.                      *)
(***************************************************************************)
THEOREM WhatIsReadyPlays == PipelineSpec => []ReadyIsPlayable
  <1>1. PipelineIInv => ReadyIsPlayable
    BY DEF PipelineIInv
  <1> QED BY <1>1, PipelineInductive, PTL

(***************************************************************************)
(* 'done' is said only of what was delivered: of a synthesis whose story   *)
(* is ready (unless two workers had it at once), of a memory whose row was *)
(* written.                                                                *)
(***************************************************************************)
THEOREM WhatIsDoneWasDelivered == PipelineSpec => []DoneMeansDelivered
  <1>1. PipelineIInv => DoneMeansDelivered
    BY DEF PipelineIInv
  <1> QED BY <1>1, PipelineInductive, PTL

(* Who may change the row of a story, and when.                            *)
LEMMA WhoWritesAudio ==
    ASSUME PipelineIInv, [PipelineNext]_pipelineVars, NEW s \in Story, audio'[s] # audio[s]
    PROVE  \/ Generate(s)
           \/ \E w \in Worker : TtsStep(w, s) /\ hpc[w] \in PastLoad
  <1>1. ASSUME UNCHANGED audio PROVE FALSE
    BY <1>1
  <1>2. ASSUME NEW t \in Story, Generate(t) PROVE t = s
    BY <1>2 DEF Generate, PipelineIInv, PipelineTypes
  <1>3. ASSUME NEW w \in Worker, HandlerStep(w)
        PROVE  TtsStep(w, s) /\ hpc[w] \in PastLoad
    <2>1. PICK t \in Story : TtsStep(w, t) \/ MemStep(w, t)
      BY <1>3 DEF HandlerStep, TtsStep, MemStep
    <2>2. ~MemStep(w, t)
      BY <1>1 DEF MemStep, MemRemember, MemSummarize, MemRecord, handlerVars
    <2>3. TtsStep(w, t)
      BY <2>1, <2>2
    <2>4. \A u \in Story \ {t} : audio'[u] = audio[u]
      BY <2>3, TtsTables
    <2>5. t = s
      BY <2>4
    <2>6. hpc[w] \in {"mark_failed", "mark_ready"}
      BY <2>3, <2>5, TtsTables
    <2> QED BY <2>3, <2>5, <2>6 DEF PastLoad
  <1>4. ASSUME NEW w \in Worker, PollerStep(w) \/ StartHandler(w) \/ Fault(w) PROVE FALSE
    BY <1>1, <1>4 DEF PollerStep, StartHandler, Fault, handlerVars
  <1>5. ASSUME Environment \/ AppRestart PROVE FALSE
    BY <1>1, <1>5 DEF Environment, AppRestart, handlerVars
  <1>6. ASSUME NEW t \in Story, AppOpen(t) \/ AppPoll(t) \/ AppPollThrows(t) PROVE FALSE
    BY <1>1, <1>6 DEF AppOpen, AppPoll, AppPollThrows, handlerVars
  <1>7. ASSUME UNCHANGED pipelineVars PROVE FALSE
    BY <1>1, <1>7 DEF pipelineVars, handlerVars
  <1> QED BY <1>2, <1>3, <1>4, <1>5, <1>6, <1>7 DEF PipelineNext, PipelineWorkerStep

(***************************************************************************)
(* A ready story stays ready with its object, whatever is retried, revived *)
(* or in doubt, unless two workers had its synthesis at once: only a       *)
(* handler past the check of the load writes the row, and none is while    *)
(* the story is ready.                                                     *)
(***************************************************************************)
THEOREM ReadyStaysReady == PipelineSpec => ReadyIsFinal
  <1> DEFINE Stays == \A s \in Undisputed : audio[s].status = "ready" => audio'[s] = audio[s]
  <1>1. ASSUME PipelineIInv, [PipelineNext]_pipelineVars PROVE Stays
    <2> SUFFICES ASSUME NEW s \in Story, TtsEvent(s) \notin shared,
                        audio[s].status = "ready", audio'[s] # audio[s]
                 PROVE  FALSE
      BY DEF Undisputed
    <2>1. CASE Generate(s)
      BY <2>1 DEF Generate
    <2>2. ASSUME NEW w \in Worker, TtsStep(w, s), hpc[w] \in PastLoad PROVE FALSE
      BY <1>1, <2>2, TtsTables DEF PipelineIInv, HandlersKnow, Knows
    <2> QED BY <1>1, <2>1, <2>2, WhoWritesAudio
  <1>2. PipelineIInv /\ [PipelineNext]_pipelineVars => [Stays]_pipelineVars
    BY <1>1
  <1> QED BY <1>2, PipelineInductive, PTL DEF PipelineSpec, ReadyIsFinal

-----------------------------------------------------------------------------
(* Failures are reported *)

(***************************************************************************)
(* While the handlers' database calls succeed, a handler returns an error  *)
(* only after MarkAudioFailed; the row cannot change again while this      *)
(* worker alone holds the event, and not at all once it is buried.         *)
(***************************************************************************)
ErrorsReported ==
    \A w \in Worker, s \in Undisputed :
        IsCurrent(w, TtsEvent(s)) /\ stage[w] \in {"err", "failing"} =>
            audio[s].status = "failed"

ReportInv == PipelineIInv /\ ErrorsReported /\ BuriedIsReported

LEMMA SharedGrows == [PipelineNext]_pipelineVars => shared \subseteq shared'
  <1>1. [Next]_vars => shared \subseteq shared'
    BY DEF Next, vars, history, WorkerStep, WorkerFault, Publish, FetchSelect, FetchCommit,
           Dispatch, HandlerReturns, MarkDone, ReadAttempts, MarkFailed, FetchAbort,
           FetchInDoubt, MarkLost, Crash, BackoffElapsed, Revive, Reset
  <1> QED BY <1>1, PipelineStepIsOutboxStep

LEMMA ReportKept ==
    ASSUME ~DbMayFail, ReportInv, [PipelineNext]_pipelineVars
    PROVE  ErrorsReported' /\ BuriedIsReported'
  <1> USE DEF ReportInv, PipelineIInv
  <1>1. ASSUME NEW s \in Story, TtsEvent(s) \notin shared, audio'[s] # audio[s]
        PROVE  /\ status'[TtsEvent(s)] # "dead"
               /\ \A w \in Worker : IsCurrent(w, TtsEvent(s)) => stage[w] = "handling"
    <2>1. CASE Generate(s)
      <3>1. status[TtsEvent(s)] = "absent" /\ status'[TtsEvent(s)] = "pending"
        BY <2>1, StoryEvents DEF Generate, Publish
      <3> QED BY <1>1, <3>1, OneHolder
    <2>2. ASSUME NEW w \in Worker, TtsStep(w, s)
          PROVE  /\ status'[TtsEvent(s)] # "dead"
                 /\ \A v \in Worker : IsCurrent(v, TtsEvent(s)) => stage[v] = "handling"
      <3>1. IsCurrent(w, TtsEvent(s)) /\ stage[w] = "handling" /\ UNCHANGED status
        BY <2>2, TtsTables, HandlerFrame DEF TtsStep, HandlerStep
      <3>2. status[TtsEvent(s)] \in {"pending", "processing"}
        BY <1>1, <3>1, OneHolder
      <3>3. \A v \in Worker : IsCurrent(v, TtsEvent(s)) => v = w
        BY <1>1, <3>1, OneHolder
      <3> QED BY <3>1, <3>2, <3>3
    <2> QED BY <1>1, <2>1, <2>2, WhoWritesAudio
  <1>2. ASSUME NEW w \in Worker, claim'[w] = claim[w], stage[w] \in {"err", "failing"},
               NEW s \in Story, TtsEvent(s) \notin shared', IsCurrent(w, TtsEvent(s))'
        PROVE  audio'[s].status = "failed"
    <2>1. IsCurrent(w, TtsEvent(s)) /\ TtsEvent(s) \notin shared
      BY <1>2, SharedGrows DEF IsCurrent
    <2>2. audio[s].status = "failed" /\ audio'[s] = audio[s]
      BY <1>1, <1>2, <2>1 DEF ErrorsReported, Undisputed
    <2> QED BY <2>2
  <1> DEFINE Quiet == \A w \in Worker : stage'[w] \in {"err", "failing"} =>
                          claim'[w] = claim[w] /\ stage[w] \in {"err", "failing"}
             NoneBuried == \A e \in Event : status'[e] = "dead" => status[e] = "dead"
  <1>3. ASSUME Quiet PROVE ErrorsReported'
    BY <1>2, <1>3 DEF ErrorsReported, Undisputed
  <1>4. ASSUME NoneBuried PROVE BuriedIsReported'
    BY <1>1, <1>4, StoryEvents, SharedGrows DEF BuriedIsReported, Undisputed
  <1>5. ASSUME NEW s \in Story, Generate(s) PROVE Quiet /\ NoneBuried
    BY <1>5 DEF Generate, Publish
  <1>6. ASSUME NEW w \in Worker, PollerStep(w) PROVE ErrorsReported' /\ BuriedIsReported'
    <2>1. FetchSelect(w) \/ FetchCommit(w) \/ MarkDone(w) \/ ReadAttempts(w) \/ MarkFailed(w)
      BY <1>6 DEF PollerStep
    <2>2. Quiet
      BY <2>1 DEF IInv, Types, FetchSelect, FetchCommit, MarkDone, ReadAttempts, MarkFailed,
                  Advance
    <2>3. CASE MarkFailed(w)
      <3>1. PICK e \in Event : /\ IsCurrent(w, e) /\ stage[w] = "failing"
                              /\ \A f \in Event \ {e} : status'[f] = status[f]
        BY <2>3 DEF MarkFailed, IInv, Types
      <3>2. UNCHANGED <<audio, shared>>
        BY <1>6, <2>3 DEF PollerStep, MarkFailed, handlerVars, history
      <3>3. ASSUME NEW s \in Story, TtsEvent(s) \notin shared, status'[TtsEvent(s)] = "dead"
            PROVE  audio'[s].status = "failed"
        <4>1. CASE e = TtsEvent(s)
          BY <3>1, <3>2, <3>3, <4>1 DEF ErrorsReported, Undisputed
        <4>2. CASE e # TtsEvent(s)
          BY <3>1, <3>2, <3>3, <4>2, StoryEvents DEF BuriedIsReported, Undisputed
        <4> QED BY <4>1, <4>2
      <3> QED BY <1>3, <2>2, <3>2, <3>3 DEF BuriedIsReported, Undisputed
    <2>4. CASE ~MarkFailed(w)
      <3>1. NoneBuried
        BY <2>1, <2>4 DEF FetchSelect, FetchCommit, MarkDone, ReadAttempts, rows, IInv, Types
      <3> QED BY <1>3, <1>4, <2>2, <3>1
    <2> QED BY <2>3, <2>4
  <1>7. ASSUME NEW w \in Worker, StartHandler(w) PROVE Quiet /\ NoneBuried
    BY <1>7, PipelineAssumption DEF StartHandler, Dispatch, rows, IInv, Types
  <1>8. ASSUME NEW w \in Worker, HandlerStep(w) PROVE ErrorsReported' /\ BuriedIsReported'
    <2>1. /\ NoneBuried /\ UNCHANGED <<claim, shared>>
          /\ \A v \in Worker \ {w} : stage'[v] = stage[v]
      BY <1>8, HandlerFrame
    <2>2. \A e : IsCurrent(w, e)' <=> IsCurrent(w, e)
      BY <2>1 DEF IsCurrent
    <2>3. ASSUME NEW t \in Story, IsCurrent(w, TtsEvent(t))', stage'[w] \in {"err", "failing"}
          PROVE  audio'[t].status = "failed"
      <3>1. PICK s \in Story : TtsStep(w, s) \/ MemStep(w, s)
        BY <1>8 DEF HandlerStep, TtsStep, MemStep
      <3>2. IsCurrent(w, TtsEvent(t))
        BY <2>2, <2>3
      <3>3. ~MemStep(w, s)
        BY <3>2, OneStory DEF MemStep, MemRemember, MemSummarize, MemRecord
      <3>4. TtsStep(w, s) /\ t = s
        BY <3>1, <3>2, <3>3, OneStory, TtsTables
      <3>5. stage[w] = "handling" /\ stage'[w] = "err"
        BY <1>8, <2>3, HandlerFrame
      <3>6. TtsMarkFailed(w, s)
        BY <3>4, <3>5
           DEF TtsStep, TtsLoad, TtsSynthesize, TtsMix, TtsUpload, TtsMarkReady, Goto,
               GotoWith, Return, HandlerReturns, outboxVars, vars, IInv, Types
      <3> QED BY <3>4, <3>6 DEF TtsMarkFailed, PipelineTypes
    <2>4. ErrorsReported'
      BY <1>2, <2>1, <2>3 DEF ErrorsReported, Undisputed
    <2> QED BY <1>4, <2>1, <2>4
  <1>9. ASSUME NEW w \in Worker, Fault(w) PROVE Quiet /\ NoneBuried
    <2>1. Crash(w) \/ FetchAbort(w) \/ FetchInDoubt(w) \/ MarkLost(w)
      BY <1>9 DEF Fault
    <2>2. Quiet
      BY <2>1 DEF Crash, FetchAbort, FetchInDoubt, MarkLost, Advance, IInv, Types
    <2>3. NoneBuried
      BY <2>1 DEF Crash, FetchAbort, FetchInDoubt, MarkLost, rows
    <2> QED BY <2>2, <2>3
  <1>10. ASSUME Environment PROVE Quiet /\ NoneBuried
    BY <1>10 DEF Environment, BackoffElapsed, Revive, Reset
  <1>11. ASSUME UNCHANGED vars PROVE Quiet /\ NoneBuried
    BY <1>11 DEF vars, rows
  <1>12. ASSUME \/ AppRestart \/ UNCHANGED pipelineVars
                \/ \E s \in Story : AppOpen(s) \/ AppPoll(s) \/ AppPollThrows(s)
         PROVE  UNCHANGED vars
    BY <1>12 DEF AppRestart, AppOpen, AppPoll, AppPollThrows, pipelineVars, outboxVars
  <1> HIDE DEF Quiet, NoneBuried
  <1> QED BY <1>3, <1>4, <1>5, <1>6, <1>7, <1>8, <1>9, <1>10, <1>11, <1>12
          DEF PipelineNext, PipelineWorkerStep

(***************************************************************************)
(* No story is silently given up: a buried synthesis is reported as        *)
(* failed, through crashes of the workers, failures of their polls and     *)
(* revivals, provided the handlers' own database calls succeed and no two  *)
(* workers had the synthesis at once.                                      *)
(***************************************************************************)
THEOREM WhatIsBuriedIsReported == ~DbMayFail => (PipelineSpec => []BuriedIsReported)
  <1> SUFFICES ASSUME ~DbMayFail PROVE PipelineSpec => []BuriedIsReported
    OBVIOUS
  <1>1. PipelineInit => ReportInv
    <2>1. PipelineInit => ErrorsReported /\ BuriedIsReported
      BY StoryEvents DEF PipelineInit, Init, ErrorsReported, BuriedIsReported, Undisputed
    <2> QED BY <2>1, InitPipelineIInv DEF ReportInv
  <1>2. ReportInv /\ [PipelineNext]_pipelineVars => ReportInv'
    BY ReportKept, NextPreservesPipelineIInv DEF ReportInv
  <1>3. ReportInv => BuriedIsReported
    BY DEF ReportInv
  <1> QED BY <1>1, <1>2, <1>3, PTL DEF PipelineSpec
=============================================================================
