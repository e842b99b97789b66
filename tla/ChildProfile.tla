----------------------------- MODULE ChildProfile -----------------------------
(***************************************************************************)
(* The profile of a child and what the content checks make of it.  Edits   *)
(* (service/child) and the questionnaire (service/bootstrap) read the row  *)
(* and save all of it, with a call of the model in between; Generate and   *)
(* Preview read it and hand its nickname and fears to the checks.          *)
(***************************************************************************)
EXTENDS Safety

CONSTANTS
    Request,     \* requests that may be under way at the same time
    Nickname,    \* names the child may be given
    Named,       \* how often a text may name the child
    Aibao,       \* and how often its companion
    MaxWrites    \* bound on the writes of the row

NoName == "no name"

ASSUME ChildAssumption ==
    IsFiniteSet(Request) /\ MaxWrites \in Nat /\ NoName \notin Nickname

Prompt == [words : SUBSET Word, malformed : BOOLEAN]
Story == [words : SUBSET Word, named : Named, aibao : Aibao,
          continues : BOOLEAN]
Outline == [title : SUBSET Word, synopsis : SUBSET Word, named : BOOLEAN]
Minutes == {3, 5, 8}
Intent == {"safe", "unsafe"}

(***************************************************************************)
(* The JSON of children.profile is a function on its keys.  The            *)
(* questionnaire writes its answers under one key; a fear list is looked   *)
(* for under another.                                                      *)
(***************************************************************************)
EmptyProfile == <<>>
Rendered(name, fears) ==
    [description |-> name, answers |-> [fears |-> fears]]
ExtractFearList(profile) ==
    IF "fears" \in DOMAIN profile THEN profile.fears ELSE {}

Profile == {EmptyProfile} \cup
    {Rendered(n, F) : n \in Nickname \cup {NoName}, F \in SUBSET FearWord}
Row == [nickname : Nickname, profile : Profile]

VARIABLES
    list,        \* the redline list of the process
    row,         \* the row of the child, or NoRow
    last,        \* last[f]: what the last update of the column f wrote (history)
    pc,          \* pc[r]: where the request r is
    column,      \* column[r]: the column r is to update
    held,        \* held[r]: the copy of the row in the hands of r
    answer,      \* answer[r]: name and fears for a questionnaire
    words,       \* words[r]: the listed words in the text r holds
    seen,        \* seen[r]: the number of writes when r read the row (history)
    writes,      \* number of writes of the row
    overlapped   \* has a write been saved over one it had not read? (history)

locals == <<pc, column, held, answer, words, seen>>
vars == <<list, row, last, locals, writes, overlapped>>

NoRow == [nickname |-> NoName, profile |-> EmptyProfile]
HasChild == row # NoRow
NoAnswer == [name |-> NoName, fears |-> {}]

Init ==
    /\ list \in RuleLists
    /\ row = NoRow
    /\ last = NoRow
    /\ pc = [r \in Request |-> "idle"]
    /\ column = [r \in Request |-> "nickname"]
    /\ held = [r \in Request |-> NoRow]
    /\ answer = [r \in Request |-> NoAnswer]
    /\ words = [r \in Request |-> {}]
    /\ seen = [r \in Request |-> 0]
    /\ writes = 0
    /\ overlapped = FALSE

Goto(r, label) == pc' = [pc EXCEPT ![r] = label]

End(r) ==
    /\ Goto(r, "idle")
    /\ column' = [column EXCEPT ![r] = "nickname"]
    /\ held' = [held EXCEPT ![r] = NoRow]
    /\ answer' = [answer EXCEPT ![r] = NoAnswer]
    /\ words' = [words EXCEPT ![r] = {}]
    /\ seen' = [seen EXCEPT ![r] = 0]

-----------------------------------------------------------------------------
(* Writers *)

(* The unique key on the user turns a second INSERT down.                  *)
Create(r) ==
    /\ pc[r] = "idle" /\ ~HasChild
    /\ \E n \in Nickname :
         /\ row' = [nickname |-> n, profile |-> EmptyProfile]
         /\ last' = row'
    /\ UNCHANGED <<list, locals, writes, overlapped>>

(* FindByID, and the fields that were given over those that were read.     *)
Load(r, field, value) ==
    /\ held' = [held EXCEPT ![r] = [row EXCEPT ![field] = value]]
    /\ column' = [column EXCEPT ![r] = field]
    /\ seen' = [seen EXCEPT ![r] = writes]
    /\ Goto(r, "save")

(* A nickname that is blank is refused.                                    *)
Edit(r) ==
    /\ pc[r] = "idle" /\ HasChild /\ writes < MaxWrites
    /\ \E n \in Nickname : Load(r, "nickname", n)
    /\ UNCHANGED <<list, row, last, answer, words, writes, overlapped>>

(* The nickname for the prompt is looked up at best effort.                *)
Submit(r) ==
    /\ pc[r] = "idle" /\ HasChild /\ writes < MaxWrites
    /\ \E n \in {row.nickname, NoName}, F \in SUBSET FearWord :
         answer' = [answer EXCEPT ![r] = [name |-> n, fears |-> F]]
    /\ Goto(r, "render")
    /\ UNCHANGED <<list, row, last, column, held, words, seen, writes, overlapped>>

(* Without the model the description is empty.                             *)
Render(r) ==
    /\ pc[r] = "render"
    /\ \E n \in {answer[r].name, NoName} :
         Load(r, "profile", Rendered(n, answer[r].fears))
    /\ UNCHANGED <<list, row, last, answer, words, writes, overlapped>>

SaveBlank(r) ==
    /\ pc[r] = "save" /\ writes < MaxWrites
    /\ row' = [NoRow EXCEPT ![column[r]] = held[r][column[r]]]
    /\ last' = [last EXCEPT ![column[r]] = held[r][column[r]]]
    /\ overlapped' = (overlapped \/ seen[r] # writes)
    /\ writes' = writes + 1
    /\ End(r)
    /\ UNCHANGED list

(* Save writes every column.                                               *)
Save(r) ==
    /\ pc[r] = "save" /\ writes < MaxWrites
    /\ row' = held[r]
    /\ last' = [last EXCEPT ![column[r]] = held[r][column[r]]]
    /\ overlapped' = (overlapped \/ seen[r] # writes)
    /\ writes' = writes + 1
    /\ End(r)
    /\ UNCHANGED list

(* An error, or a client that hangs up, ends a request anywhere.           *)
Abort(r) ==
    /\ pc[r] \in {"render", "save", "write"}
    /\ End(r)
    /\ UNCHANGED <<list, row, last, writes, overlapped>>

-----------------------------------------------------------------------------
(* Readers *)

(* The nickname only words the prompt, and is not kept.                    *)
Keep(r) == held' = [held EXCEPT ![r] = [NoRow EXCEPT !.profile = row.profile]]

(* What the prompts that pass may mention.                                 *)
Admitted(fears) ==
    {p.words : p \in {q \in Prompt :
        \E i \in Intent : PreCheck(list, fears, q, i) = "pass"}}

(* Generate reads the child, checks the prompt and calls the model.        *)
Ask(r) ==
    /\ pc[r] = "idle" /\ HasChild
    /\ \E W \in Admitted(ExtractFearList(row.profile)) :
         words' = [words EXCEPT ![r] = W]
    /\ Keep(r)
    /\ Goto(r, "write")
    /\ UNCHANGED <<list, row, last, column, answer, seen, writes, overlapped>>

(* What does not ship is replaced by a curated story, taken to have none.  *)
Told(fears) ==
    {{}} \cup {s.words : s \in {t \in Story :
        \E m \in Minutes : Ships(list, fears, t, m)}}

Tell(r) ==
    /\ pc[r] = "write"
    /\ \E W \in Told(ExtractFearList(held[r].profile)) :
         words' = [words EXCEPT ![r] = W]
    /\ Goto(r, "told")
    /\ UNCHANGED <<list, row, last, column, held, answer, seen, writes, overlapped>>

(* Preview: the prompt, then an outline, of which one may be replaced.     *)
Preview(r) ==
    /\ pc[r] = "idle" /\ HasChild
    /\ Admitted({}) # {}
    /\ \E o \in {q \in Outline : OutlineCheck(list, {}, {}, {}, q) = "pass"} :
         words' = [words EXCEPT ![r] = o.title \cup o.synopsis]
    /\ Keep(r)
    /\ Goto(r, "shown")
    /\ UNCHANGED <<list, row, last, column, answer, seen, writes, overlapped>>

Finish(r) ==
    /\ pc[r] \in {"told", "shown"}
    /\ End(r)
    /\ UNCHANGED <<list, row, last, writes, overlapped>>

-----------------------------------------------------------------------------

Step(r) ==
    \/ Create(r) \/ Edit(r) \/ Submit(r) \/ Render(r) \/ Save(r)
    \/ Ask(r) \/ Tell(r) \/ Preview(r)
    \/ Finish(r) \/ Abort(r)

Next == \E r \in Request : Step(r)

Spec == Init /\ [][Next]_vars

-----------------------------------------------------------------------------

TypeOK ==
    /\ list \in RuleLists
    /\ row \in Row \cup {NoRow}
    /\ last \in Row \cup {NoRow}
    /\ pc \in [Request -> {"idle", "render", "save", "write", "told", "shown"}]
    /\ column \in [Request -> {"nickname", "profile"}]
    /\ held \in [Request -> [nickname : Nickname \cup {NoName}, profile : Profile]]
    /\ answer \in [Request -> [name : Nickname \cup {NoName},
                              fears : SUBSET FearWord]]
    /\ words \in [Request -> SUBSET Word]
    /\ seen \in [Request -> 0..MaxWrites]
    /\ writes \in 0..MaxWrites
    /\ overlapped \in BOOLEAN

(***************************************************************************)
(* The row holds, column by column, what the last update of that column    *)
(* wrote, although an update saves all of them: an edit or a questionnaire *)
(* is undone only by a save that had read the row before it.               *)
(***************************************************************************)
LossNeedsOverlap == row = last \/ overlapped

(***************************************************************************)
(* A prompt reaches the model only if it has no hard word, no character of *)
(* the blacklist and no fear that was found in the profile, and an outline *)
(* is shown only without any redline word, in whatever order the process   *)
(* happens to hold its list.                                               *)
(***************************************************************************)
AdmittedIsClean ==
    \A r \in Request :
        /\ pc[r] = "write" =>
              words[r] \cap (HardWord \cup BannedIP
                              \cup ExtractFearList(held[r].profile)) = {}
        /\ pc[r] = "shown" => words[r] \cap Redline = {}

Position(w) == CHOOSE i \in DOMAIN list : list[i] = w

(***************************************************************************)
(* The post-check stops at the first redline hit.  A story that is told    *)
(* with a hard word has a soft one before it in the list: nothing else     *)
(* lets a hard word through.                                               *)
(***************************************************************************)
HardIsMasked ==
    \A r \in Request : pc[r] = "told" =>
        \A w \in words[r] \cap HardWord :
            \E v \in words[r] \cap SoftWord : Position(v) < Position(w)

(* What the parent answered to the question about fears.                   *)
Feared(profile) ==
    IF "answers" \in DOMAIN profile THEN profile.answers.fears ELSE {}

(***************************************************************************)
(* "Aibao promises you: never in a story" (2026-04-28-aibao-design.md:132) *)
(* what the parent said the child fears.                                   *)
(***************************************************************************)
FearsAreHonoured ==
    \A r \in Request : pc[r] = "told" =>
        words[r] \cap Feared(held[r].profile) = {}
=============================================================================
