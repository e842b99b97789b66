------------------------------ MODULE Memories ------------------------------
(***************************************************************************)
(* What the next story is told of the ones before it.  The memory_update   *)
(* handler (server/internal/worker/handlers/memory_update.go) writes two   *)
(* rows for every story, the beginning of its text and then a sentence of  *)
(* the model.  Two queries read them: StorylineContextBuilder looks for a  *)
(* summary of each of the last episodes of a series (service/story/        *)
(* storyline_context.go), the Selector takes the last rows of the child    *)
(* (service/memory/selector.go).  They take what is there, whatever jobs   *)
(* are late, repeated or lost.                                             *)
(*                                                                         *)
(* One child.  Its handlers are run by a JobQueue, which is what Outbox is *)
(* shown to implement; nobody resubmits a job of this kind.  A row is the  *)
(* story it is about and who wrote its summary; rows are in the order of   *)
(* created_at.                                                             *)
(***************************************************************************)
EXTENDS Integers, FiniteSets, Sequences

CONSTANTS
    MaxStories,    \* bound on the stories of the child
    MaxTries,      \* executions of a job before it is buried
    Workers,       \* handlers that may run at the same time
    Window,        \* rows in which the summary of an episode is looked for
    Slots,         \* rows the Selector takes
    MaxFaults      \* bound on failed calls and crashes

ASSUME MemoriesAssumption ==
    /\ MaxStories \in Nat /\ Workers \in Nat /\ MaxFaults \in Nat
    /\ MaxTries \in Nat \ {0} /\ Window \in Nat \ {0} /\ Slots \in Nat \ {0}

Story == 1..MaxStories

Row == [of : Story, by : {"told", "model"}]
Told(s) == [of |-> s, by |-> "told"]
Model(s) == [of |-> s, by |-> "model"]

VARIABLES
    last,      \* the stories of the child are 1..last, in commit order
    rows,      \* the table memories
    phase,     \* phase[s], tries[s]: the memory_update job of s, see JobQueue
    tries,
    at,        \* at[s]: where the handler of that job is
    faults

vars == <<last, rows, phase, tries, at, faults>>

Job == Story
Jobs == INSTANCE JobQueue

Init ==
    /\ last = 0
    /\ rows = <<>>
    /\ Jobs!Init
    /\ at = [s \in Story |-> "idle"]
    /\ faults = 0

Fail == faults < MaxFaults /\ faults' = faults + 1

Handler(s, label) == at' = [at EXCEPT ![s] = label]

Running == {s \in Story : at[s] # "idle"}

-----------------------------------------------------------------------------

(* CreateWithOutbox: the story and its job, in one transaction.            *)
Commit ==
    /\ last < MaxStories
    /\ last' = last + 1
    /\ Jobs!Submit({last'})
    /\ UNCHANGED <<rows, at, faults>>

Take(s) ==
    /\ Jobs!Take({s})
    /\ UNCHANGED <<last, rows, at, faults>>

StartHandler(s) ==
    /\ Cardinality(Running) < Workers
    /\ Jobs!Try(s)
    /\ Handler(s, "insert")
    /\ UNCHANGED <<last, rows, faults>>

(***************************************************************************)
(* MemoryUpdateHandler.Handle.                                             *)
(***************************************************************************)
InsertTold(s) ==
    /\ at[s] = "insert"
    /\ rows' = Append(rows, Told(s))
    /\ Handler(s, "summarise")
    /\ UNCHANGED <<last, phase, tries, faults>>

(* An error is returned, though the row may be there.                      *)
InsertFails(s) ==
    /\ at[s] = "insert"
    /\ Fail
    /\ rows' = Append(rows, Told(s)) \/ UNCHANGED rows
    /\ Jobs!GiveBack(s) \/ Jobs!Bury(s)
    /\ Handler(s, "idle")
    /\ UNCHANGED last

SummariseOrRetry(s) ==
    /\ at[s] = "summarise"
    /\ \/ Handler(s, "record") /\ UNCHANGED <<phase, tries>>
       \/ Handler(s, "idle") /\ (Jobs!GiveBack(s) \/ Jobs!Bury(s))
    /\ UNCHANGED <<last, rows, faults>>

(* The story is loaded and summarised; without a summary the handler ends. *)
Summarise(s) ==
    /\ at[s] = "summarise"
    /\ Handler(s, "record") \/ Handler(s, "return")
    /\ UNCHANGED <<last, rows, phase, tries, faults>>

InsertModelOrRetry(s) ==
    /\ at[s] = "record"
    /\ \/ /\ rows' = Append(rows, Model(s))
          /\ Handler(s, "return")
          /\ UNCHANGED <<phase, tries, faults>>
       \/ /\ Fail
          /\ rows' = Append(rows, Model(s)) \/ UNCHANGED rows
          /\ Jobs!GiveBack(s) \/ Jobs!Bury(s)
          /\ Handler(s, "idle")
    /\ UNCHANGED last

(* The error of the second INSERT is dropped.                              *)
InsertModel(s) ==
    /\ at[s] = "record"
    /\ \/ rows' = Append(rows, Model(s)) /\ UNCHANGED faults
       \/ Fail /\ (rows' = Append(rows, Model(s)) \/ UNCHANGED rows)
    /\ Handler(s, "return")
    /\ UNCHANGED <<last, phase, tries>>

Finish(s) ==
    /\ at[s] = "return"
    /\ Jobs!Finish(s)
    /\ Handler(s, "idle")
    /\ UNCHANGED <<last, rows, faults>>

LoseAndTakeAgain(s) ==
    /\ Fail
    /\ phase[s] = "trying" /\ tries[s] < MaxTries
    /\ phase' = [phase EXCEPT ![s] = "waiting"]
    /\ Handler(s, "idle")
    /\ UNCHANGED <<last, rows, tries>>

(* The process dies, or a call of the worker to the table fails.           *)
Lose(s) ==
    /\ Fail
    /\ Jobs!Strand({s})
    /\ Handler(s, "idle")
    /\ UNCHANGED <<last, rows>>

WorkerStep(s) ==
    \/ Take(s) \/ StartHandler(s) \/ InsertTold(s) \/ InsertFails(s)
    \/ Summarise(s) \/ InsertModel(s) \/ Finish(s) \/ Lose(s)

Next == Commit \/ \E s \in Story : WorkerStep(s)

Spec == Init /\ [][Next]_vars

-----------------------------------------------------------------------------

(***************************************************************************)
(* The two queries, of the rows as they are at the time; what they return  *)
(* goes into the prompt and nowhere else, so they are no steps.  A query   *)
(* that fails is taken for one that found nothing.                         *)
(***************************************************************************)

Oldest(n) == {i \in DOMAIN rows : i <= n}

(* ORDER BY created_at DESC LIMIT n, as positions in rows.                 *)
Newest(n) == {i \in DOMAIN rows : i > Len(rows) - n}

(* findSummaryForStory: the first of them about s, seen from the newest.   *)
About(s) == {i \in Newest(Window) : rows[i].of = s}
Latest(S) == CHOOSE i \in S : \A j \in S : j <= i

(* Selector.BuildContext.                                                  *)
BuildContext == Newest(Slots)

-----------------------------------------------------------------------------

TypeOK ==
    /\ last \in 0..MaxStories
    /\ rows \in Seq(Row)
    /\ Jobs!TypeOK
    /\ at \in [Story -> {"idle", "insert", "summarise", "record", "return"}]
    /\ faults \in 0..MaxFaults

RowsOf(s, by) == {i \in DOMAIN rows : rows[i] = [of |-> s, by |-> by]}

(***************************************************************************)
(* Retries repeat the first INSERT of the handler: a story is told as      *)
(* often as its job was tried, and more than once only if a call failed    *)
(* each time but the last.  Its sentence is there at most once.            *)
(***************************************************************************)
RepeatsNeedFaults ==
    \A s \in Story :
        /\ Cardinality(RowsOf(s, "told")) <= tries[s]
        /\ Cardinality(RowsOf(s, "told")) <= 1 + faults
        /\ Cardinality(RowsOf(s, "model")) <= 1

(***************************************************************************)
(* The prompt takes the newest row about an episode: when the model has    *)
(* written a sentence about it, that is the one, and no beginning of its   *)
(* text that was repeated later.                                           *)
(***************************************************************************)
SentenceIsTaken ==
    \A s \in Story : About(s) # {} /\ RowsOf(s, "model") # {}
        => rows[Latest(About(s))].by = "model"

(* The stories told after the last row about s.                            *)
ToldAfter(s) ==
    {rows[j].of : j \in {i \in DOMAIN rows : \A k \in DOMAIN rows : rows[k].of = s => k < i}}

(***************************************************************************)
(* "Pull a generous batch of recent summaries for this child"              *)
(* (storyline_context.go): a story whose job is done is passed over only   *)
(* after half a window of other stories, less the repeated rows; one whose *)
(* job is not done, also if it has no row yet.                             *)
(***************************************************************************)
MissingIsExplained ==
    \A s \in 1..last : About(s) = {} =>
        \/ phase[s] # "done" /\ RowsOf(s, "told") = {}
        \/ 2 * Cardinality(ToldAfter(s)) + faults >= Window

(***************************************************************************)
(* The Selector takes rows, not stories: its slots hold at least half as   *)
(* many stories as rows, less one for every two repeated rows, and none is *)
(* left free while a story is passed over.                                 *)
(***************************************************************************)
HintsCoverStories ==
    LET covered == {rows[i].of : i \in BuildContext} IN
    /\ Cardinality(BuildContext) <= 2 * Cardinality(covered) + faults
    /\ Cardinality(BuildContext) < Slots => \A i \in DOMAIN rows : rows[i].of \in covered
=============================================================================
