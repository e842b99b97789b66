-------------------------------- MODULE Safety --------------------------------
(***************************************************************************)
(* The content checks: PreChecker on what a parent asks for, PostChecker   *)
(* on what the model wrote (server/internal/service/safety), and Check on  *)
(* an outline (server/internal/service/outline/safety_check.go).  A text   *)
(* is the set of listed words it contains.                                 *)
(***************************************************************************)
EXTENDS Naturals, FiniteSets, Sequences, FiniteSetsExt, Functions

CONSTANTS
    HardWord,   \* redline words of the categories that are refused
    SoftWord,   \* those of horror and negative_values, which only warn
    FearWord,   \* words a child may be afraid of
    BannedIP    \* the characters of the blacklist

ASSUME SafetyAssumption ==
    /\ IsFiniteSet(HardWord) /\ IsFiniteSet(SoftWord)
    /\ HardWord \cap SoftWord = {}

Redline == HardWord \cup SoftWord
Word == Redline \cup FearWord \cup BannedIP

(* A process ranges over a map once to build its list: any order.          *)
RuleLists == Bijection(1..Cardinality(Redline), Redline)

(* The matcher's hits, and the one it finds first: it goes through its list, *)
(* not through the text.                                                   *)
FindAll(list, words) == Range(list) \cap words
FindFirst(list, words) == list[Min({i \in DOMAIN list : list[i] \in words})]

(* Checks run in order; the first that fails gives the reason.             *)
FirstFailing(checks) ==
    LET failing == {i \in DOMAIN checks : checks[i][2]}
    IN  IF failing = {} THEN "pass" ELSE checks[Min(failing)][1]

PreCheckFirstHit(list, fears, prompt, intent) ==
    FirstFailing(<<
        <<"malformed", prompt.malformed>>,
        <<"redline_matched", FindAll(list, prompt.words) # {}
            /\ FindFirst(list, prompt.words) \notin SoftWord>>,
        <<"fear_matched", fears \cap prompt.words # {}>>,
        <<"ip_blacklisted", BannedIP \cap prompt.words # {}>>,
        <<"intent_unsafe", intent = "unsafe">> >>)

(* Every redline hit counts.  An intent that is uncertain, or that the     *)
(* model could not tell, is let through.                                   *)
PreCheck(list, fears, prompt, intent) ==
    FirstFailing(<<
        <<"malformed", prompt.malformed>>,
        <<"redline_matched", FindAll(list, prompt.words) \ SoftWord # {}>>,
        <<"fear_matched", fears \cap prompt.words # {}>>,
        <<"ip_blacklisted", BannedIP \cap prompt.words # {}>>,
        <<"intent_unsafe", intent = "unsafe">> >>)

(* How often the child must be named; the API offers 3, 5 and 8 minutes.   *)
MinMentions(minutes) ==
    CASE minutes = 5 -> 2
      [] minutes = 10 -> 3
      [] minutes = 15 -> 4
      [] OTHER -> 3

IsProtagonist(story, minutes) ==
    story.named >= MinMentions(minutes) /\ story.aibao <= 2 * story.named

PostCheck(list, fears, story, minutes) ==
    FirstFailing(<<
        <<"redline_matched", FindAll(list, story.words) # {}>>,
        <<"fear_matched", fears \cap story.words # {}>>,
        <<"child_not_protagonist", ~IsProtagonist(story, minutes)>>,
        <<"not_continuing", ~story.continues>> >>)

ShipsAnyRedline(list, fears, story, minutes) ==
    PostCheck(list, fears, story, minutes)
        \in {"pass", "not_continuing", "redline_matched"}

(* What Generate does with the verdict: some failures are only logged.     *)
Ships(list, fears, story, minutes) ==
    LET reason == PostCheck(list, fears, story, minutes) IN
    \/ reason \in {"pass", "not_continuing"}
    \/ /\ reason = "redline_matched"
       /\ FindFirst(list, story.words) \in SoftWord

(* Outlines: a soft word refuses too; known characters may not be in the   *)
(* title.  The handlers pass no fears and no characters.                   *)
OutlineCheck(list, fears, banned, known, outline) ==
    LET all == outline.title \cup outline.synopsis IN
    FirstFailing(<<
        <<"redline", FindAll(list, all) # {}>>,
        <<"fears_personalized", fears \cap all # {}>>,
        <<"protagonist_missing", ~outline.named>>,
        <<"ip_misuse", banned \cap outline.synopsis # {}
                       \/ known \cap outline.title # {}>> >>)
=============================================================================
