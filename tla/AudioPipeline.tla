--------------------------- MODULE AudioPipeline ---------------------------
(***************************************************************************)
(* From a finished text to a playable story: the orchestrator commits a    *)
(* story together with its memory_update and tts_synthesis events, the     *)
(* workers of Outbox run the two handlers of server/internal/worker/       *)
(* handlers, GET /stories/:id/audio_url reports audio_status, and the app  *)
(* polls it until it is told ready or failed.  Composing (service/audio)   *)
(* is a call of TTS, whose failure is the job's, and background music,     *)
(* which is left out when anything about it fails.                         *)
(*                                                                         *)
(* Table and workers are those of Outbox, which this module extends: it    *)
(* puts the handlers' own steps between Dispatch and HandlerReturns, and   *)
(* every step here is one of Outbox or leaves the outbox alone.            *)
(***************************************************************************)
EXTENDS Outbox

CONSTANTS
    Stories,         \* the number of stories; story s owns events 2s-1 and 2s
    DbMayFail,       \* whether the handlers' database calls may fail
    GatewayMayFail   \* whether TTS, storage and presigning may fail

Story == 1..Stories
MemEvent(s) == 2 * s - 1
TtsEvent(s) == 2 * s

(* The events that have a handler, and those the operator's UPDATE selects. *)
HandledEvents == 1..(2 * Stories)
TtsEvents == {TtsEvent(s) : s \in Story}

ASSUME PipelineAssumption ==
    /\ Stories \in Nat
    /\ Event = HandledEvents /\ Registered = HandledEvents /\ Revivable = TtsEvents
    /\ DbMayFail \in BOOLEAN /\ GatewayMayFail \in BOOLEAN

VARIABLES
    audio,      \* audio[s]: stories.audio_status, .audio_object_key (0: empty), .has_bgm
    uploads,    \* uploads[s]: object keys tried so far; each attempt has a new one
    stored,     \* stored[s]: the objects in the bucket: their key, and music or none
    memories,   \* memories[s]: the kinds of rows in memories with this story_id
    hpc,        \* hpc[w]: where the handler that w runs is
    made,       \* made[w]: the audio the handler of w has made: its key, and music or none
    app         \* app[s]: what the player screen of the app knows

outboxVars == vars
handlerVars == <<audio, uploads, stored, memories>>
localVars == <<hpc, made>>
pipelineVars == <<outboxVars, handlerVars, localVars, app>>

AudioStatus == {"absent", "pending", "ready", "failed"}
AppState == {"closed", "polling", "playing", "failed"}

Nothing == [key |-> 0, bgm |-> FALSE]

-----------------------------------------------------------------------------

PipelineInit ==
    /\ Init
    /\ audio = [s \in Story |-> [status |-> "absent", key |-> 0, bgm |-> FALSE]]
    /\ uploads = [s \in Story |-> 0]
    /\ stored = [s \in Story |-> {}]
    /\ memories = [s \in Story |-> {}]
    /\ hpc = [w \in Worker |-> "none"]
    /\ made = [w \in Worker |-> Nothing]
    /\ app = [s \in Story |-> "closed"]

(* CreateWithOutbox: the story row and its two events in one transaction.  *)
Generate(s) ==
    /\ audio[s].status = "absent"
    /\ Publish({MemEvent(s), TtsEvent(s)})
    /\ audio' = [audio EXCEPT ![s].status = "pending"]
    /\ UNCHANGED <<uploads, stored, memories, localVars, app>>

(* The steps of Outbox that run no handler code.                           *)
PollerStep(w) ==
    /\ \/ FetchSelect(w)
       \/ FetchCommit(w)
       \/ MarkDone(w)
       \/ ReadAttempts(w)
       \/ MarkFailed(w)
    /\ UNCHANGED <<handlerVars, localVars, app>>

StartHandler(w) ==
    /\ Dispatch(w)
    /\ \/ \E s \in Story : IsCurrent(w, TtsEvent(s)) /\ hpc' = [hpc EXCEPT ![w] = "load"]
       \/ \E s \in Story : IsCurrent(w, MemEvent(s)) /\ hpc' = [hpc EXCEPT ![w] = "remember"]
    /\ UNCHANGED <<handlerVars, made, app>>

(* The handler goes on, or returns to processOne with a verdict.           *)
GotoWith(w, label, audioObject) ==
    /\ hpc' = [hpc EXCEPT ![w] = label]
    /\ made' = [made EXCEPT ![w] = audioObject]
    /\ UNCHANGED outboxVars

Goto(w, label) == GotoWith(w, label, made[w])

Return(w, verdict) ==
    /\ HandlerReturns(w, verdict)
    /\ hpc' = [hpc EXCEPT ![w] = "none"]
    /\ made' = [made EXCEPT ![w] = Nothing]

-----------------------------------------------------------------------------

(***************************************************************************)
(* TTSSynthesisHandler.Handle, one action per call that leaves the         *)
(* process.  A failed load returns an error without touching the story.    *)
(***************************************************************************)
TtsLoadNoSkip(w, s) ==
    /\ hpc[w] = "load" /\ IsCurrent(w, TtsEvent(s))
    /\ \/ Goto(w, "synthesize")
       \/ DbMayFail /\ Return(w, "err")
    /\ UNCHANGED <<handlerVars, app>>

TtsLoad(w, s) ==
    /\ hpc[w] = "load" /\ IsCurrent(w, TtsEvent(s))
    /\ \/ /\ audio[s].status = "ready" /\ audio[s].key # 0
          /\ Return(w, "ok")
       \/ /\ ~(audio[s].status = "ready" /\ audio[s].key # 0)
          /\ Goto(w, "synthesize")
       \/ DbMayFail /\ Return(w, "err")
    /\ UNCHANGED <<handlerVars, app>>

TtsSynthesizeSwallows(w, s) ==
    /\ hpc[w] = "synthesize" /\ IsCurrent(w, TtsEvent(s))
    /\ \/ Goto(w, "mix")
       \/ GatewayMayFail /\ Return(w, "ok")
    /\ UNCHANGED <<handlerVars, app>>

TtsSynthesizeGivesUp(w, s) ==
    /\ hpc[w] = "synthesize" /\ IsCurrent(w, TtsEvent(s))
    /\ \/ Goto(w, "mix")
       \/ GatewayMayFail /\ Return(w, "err")
    /\ UNCHANGED <<handlerVars, app>>

(* The one part of Compose whose failure is an error.                      *)
TtsSynthesize(w, s) ==
    /\ hpc[w] = "synthesize" /\ IsCurrent(w, TtsEvent(s))
    /\ \/ Goto(w, "mix")
       \/ GatewayMayFail /\ Goto(w, "mark_failed")
    /\ UNCHANGED <<handlerVars, app>>

(***************************************************************************)
(* The rest of Compose degrades to the voice alone: there is no music for  *)
(* the mood or it cannot be looked up, the file is not to be had, or the   *)
(* mixer fails.                                                            *)
(***************************************************************************)
TtsMix(w, s) ==
    /\ hpc[w] = "mix" /\ IsCurrent(w, TtsEvent(s))
    /\ \E music \in BOOLEAN : GotoWith(w, "upload", [key |-> 0, bgm |-> music])
    /\ UNCHANGED <<handlerVars, app>>

-----------------------------------------------------------------------------

NextObject(w, s) == [key |-> uploads[s] + 1, bgm |-> made[w].bgm]

TtsUploadUnchecked(w, s) ==
    /\ hpc[w] = "upload" /\ IsCurrent(w, TtsEvent(s))
    /\ uploads' = [uploads EXCEPT ![s] = @ + 1]
    /\ \/ stored' = [stored EXCEPT ![s] = @ \cup {NextObject(w, s)}]
       \/ GatewayMayFail /\ UNCHANGED stored
    /\ GotoWith(w, "mark_ready", NextObject(w, s))
    /\ UNCHANGED <<audio, memories, app>>

(* buildObjectKey stamps the key with the time: no two attempts share one. *)
(* A failed upload may or may not have left the object behind.             *)
TtsUpload(w, s) ==
    /\ hpc[w] = "upload" /\ IsCurrent(w, TtsEvent(s))
    /\ uploads' = [uploads EXCEPT ![s] = @ + 1]
    /\ \/ /\ stored' = [stored EXCEPT ![s] = @ \cup {NextObject(w, s)}]
          /\ \/ GotoWith(w, "mark_ready", NextObject(w, s))
             \/ GatewayMayFail /\ Goto(w, "mark_failed")
       \/ /\ GatewayMayFail
          /\ Goto(w, "mark_failed")
          /\ UNCHANGED stored
    /\ UNCHANGED <<audio, memories, app>>

TtsMarkFailed(w, s) ==
    /\ hpc[w] = "mark_failed" /\ IsCurrent(w, TtsEvent(s))
    /\ \/ audio' = [audio EXCEPT ![s].status = "failed"]
       \/ DbMayFail /\ UNCHANGED audio
    /\ Return(w, "err")
    /\ UNCHANGED <<uploads, stored, memories, app>>

(* MarkAudioReady; on an error the row may have been written all the same. *)
TtsMarkReady(w, s) ==
    /\ hpc[w] = "mark_ready" /\ IsCurrent(w, TtsEvent(s))
    /\ \/ /\ audio' = [audio EXCEPT ![s] =
                         [status |-> "ready", key |-> made[w].key, bgm |-> made[w].bgm]]
          /\ \/ Return(w, "ok")
             \/ DbMayFail /\ Return(w, "err")
       \/ /\ DbMayFail
          /\ Return(w, "err")
          /\ UNCHANGED audio
    /\ UNCHANGED <<uploads, stored, memories, app>>

-----------------------------------------------------------------------------

(***************************************************************************)
(* MemoryUpdateHandler.Handle: a row for the story as told, then, fail     *)
(* open, a second row with the summary of the language model.              *)
(***************************************************************************)
Remember(s, kind) == memories' = [memories EXCEPT ![s] = @ \cup {kind}]

MemRememberFailOpen(w, s) ==
    /\ hpc[w] = "remember" /\ IsCurrent(w, MemEvent(s))
    /\ \/ Remember(s, "told")
       \/ DbMayFail /\ UNCHANGED memories
    /\ Goto(w, "summarize")
    /\ UNCHANGED <<audio, uploads, stored, app>>

MemRemember(w, s) ==
    /\ hpc[w] = "remember" /\ IsCurrent(w, MemEvent(s))
    /\ \/ /\ Remember(s, "told")
          /\ \/ Goto(w, "summarize")
             \/ DbMayFail /\ Return(w, "err")
       \/ /\ DbMayFail
          /\ Return(w, "err")
          /\ UNCHANGED memories
    /\ UNCHANGED <<audio, uploads, stored, app>>

(* SummarizeForStory returns nothing on any error, and then there is no row. *)
MemSummarize(w, s) ==
    /\ hpc[w] = "summarize" /\ IsCurrent(w, MemEvent(s))
    /\ Goto(w, "record") \/ Return(w, "ok")
    /\ UNCHANGED <<handlerVars, app>>

MemRecord(w, s) ==
    /\ hpc[w] = "record" /\ IsCurrent(w, MemEvent(s))
    /\ \/ Remember(s, "summary")
       \/ DbMayFail /\ UNCHANGED memories
    /\ Return(w, "ok")
    /\ UNCHANGED <<audio, uploads, stored, app>>

-----------------------------------------------------------------------------

(* A crash forgets the handler; other faults of Outbox hit no handler.     *)
Fault(w) ==
    /\ \/ /\ Crash(w)
          /\ hpc' = [hpc EXCEPT ![w] = "none"]
          /\ made' = [made EXCEPT ![w] = Nothing]
       \/ /\ FetchAbort(w) \/ FetchInDoubt(w) \/ MarkLost(w)
          /\ UNCHANGED localVars
    /\ UNCHANGED <<handlerVars, app>>

Environment ==
    /\ \/ \E e \in Event : BackoffElapsed(e)
       \/ Revive
    /\ UNCHANGED <<handlerVars, localVars, app>>

(***************************************************************************)
(* The player screen.  audioUrlPollProvider asks again while it is told    *)
(* pending and stops for good at the first ready or failed; a call that    *)
(* throws counts as failed.  Only a restart of the app forgets the answer. *)
(***************************************************************************)
AppOpen(s) ==
    /\ app[s] = "closed"
    /\ audio[s].status # "absent"
    /\ app' = [app EXCEPT ![s] = IF audio[s].status = "failed" THEN "failed" ELSE "polling"]
    /\ UNCHANGED <<outboxVars, handlerVars, localVars>>

(* GET /stories/:id/audio_url: what it may answer.  A failure is a 503, and *)
(* so is a URL that cannot be presigned.                                   *)
AudioUrl(s) ==
    IF audio[s].status = "ready" /\ audio[s].key # 0
    THEN IF GatewayMayFail THEN {"playing", "failed"} ELSE {"playing"}
    ELSE IF audio[s].status = "failed" THEN {"failed"} ELSE {"polling"}

AppPoll(s) ==
    /\ app[s] = "polling"
    /\ \E answer \in AudioUrl(s) \ {"polling"} : app' = [app EXCEPT ![s] = answer]
    /\ UNCHANGED <<outboxVars, handlerVars, localVars>>

(* The call itself fails, on its way or in the server.                     *)
AppPollThrows(s) ==
    /\ app[s] = "polling"
    /\ GatewayMayFail
    /\ app' = [app EXCEPT ![s] = "failed"]
    /\ UNCHANGED <<outboxVars, handlerVars, localVars>>

AppRestart ==
    /\ app' = [s \in Story |-> "closed"]
    /\ UNCHANGED <<outboxVars, handlerVars, localVars>>

-----------------------------------------------------------------------------

HandlerStep(w) ==
    \E s \in Story :
        \/ TtsLoad(w, s) \/ TtsSynthesize(w, s) \/ TtsMix(w, s) \/ TtsUpload(w, s)
        \/ TtsMarkFailed(w, s) \/ TtsMarkReady(w, s)
        \/ MemRemember(w, s) \/ MemSummarize(w, s) \/ MemRecord(w, s)

PipelineWorkerStep(w) == PollerStep(w) \/ StartHandler(w) \/ HandlerStep(w)

PipelineNext ==
    \/ \E s \in Story : Generate(s) \/ AppOpen(s) \/ AppPoll(s) \/ AppPollThrows(s)
    \/ \E w \in Worker : PipelineWorkerStep(w) \/ Fault(w)
    \/ AppRestart
    \/ Environment

PipelineSpec == PipelineInit /\ [][PipelineNext]_pipelineVars

(***************************************************************************)
(* As in Outbox, and the poll timer of the app fires while it waits.       *)
(***************************************************************************)
PipelineFairSpec ==
    /\ PipelineSpec
    /\ \A w \in Worker : WF_pipelineVars(PipelineWorkerStep(w))
    /\ \A e \in Event :
         WF_pipelineVars(BackoffElapsed(e) /\ UNCHANGED <<handlerVars, localVars, app>>)
    /\ \A s \in Story : WF_pipelineVars(AppPoll(s))

-----------------------------------------------------------------------------

PipelineTypeOK ==
    /\ TypeOK
    /\ audio \in [Story -> [status : AudioStatus, key : Nat, bgm : BOOLEAN]]
    /\ uploads \in [Story -> Nat]
    /\ \A s \in Story : stored[s] \subseteq [key : 1..uploads[s], bgm : BOOLEAN]
    /\ memories \in [Story -> SUBSET {"told", "summary"}]
    /\ hpc \in [Worker -> {"none", "load", "synthesize", "mix", "upload", "mark_failed",
                           "mark_ready", "remember", "summarize", "record"}]
    /\ made \in [Worker -> [key : Nat, bgm : BOOLEAN]]
    /\ app \in [Story -> AppState]

(***************************************************************************)
(* Two workers at once on the synthesis of a story, which takes a server   *)
(* process more and an operator who puts the event back while one has it,  *)
(* may overwrite each other's verdict on the story: the properties below   *)
(* are about the others.                                                   *)
(***************************************************************************)
Undisputed == {s \in Story : TtsEvent(s) \notin shared}

(***************************************************************************)
(* Whoever is told 'ready' can play: the key in the story row names an     *)
(* object that is in the bucket, and the row says truly whether that very  *)
(* object has music, however many attempts and workers uploaded one.       *)
(***************************************************************************)
ReadyIsPlayable ==
    /\ \A s \in Story : audio[s].status = "ready" =>
           [key |-> audio[s].key, bgm |-> audio[s].bgm] \in stored[s]
    /\ \A s \in Undisputed : app[s] = "playing" => audio[s].status = "ready"

(***************************************************************************)
(* A ready story stays ready and keeps its object, whatever is retried,    *)
(* revived or in doubt.                                                    *)
(***************************************************************************)
ReadyIsFinal ==
    [][\A s \in Undisputed : audio[s].status = "ready" => audio'[s] = audio[s]]_pipelineVars

(***************************************************************************)
(* The outbox says 'done' only of what was delivered: the audio is ready,  *)
(* and the memory of the story as told was written.                        *)
(***************************************************************************)
DoneMeansDelivered ==
    /\ \A s \in Undisputed : status[TtsEvent(s)] = "done" => audio[s].status = "ready"
    /\ \A s \in Story : status[MemEvent(s)] = "done" => "told" \in memories[s]

(***************************************************************************)
(* No story is silently given up: when its tts event is buried, the row    *)
(* says 'failed' (the handlers' database calls succeed).                   *)
(***************************************************************************)
BuriedIsReported ==
    \A s \in Undisputed : status[TtsEvent(s)] = "dead" => audio[s].status = "failed"

(***************************************************************************)
(* A player that waits is told something: the poll loop of the app ends    *)
(* (no crash, no failed database call).                                    *)
(***************************************************************************)
PollingEnds == \A s \in Story : app[s] = "polling" ~> app[s] # "polling"
=============================================================================
