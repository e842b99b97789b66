---------------------------- MODULE MemoriesProofs ----------------------------
(***************************************************************************)
(* Proofs about Memories, for any stories, tries, workers, windows and     *)
(* faults: what a retry may repeat, why the sentence of the model is the   *)
(* newest row about its story, and how many stories a window of rows       *)
(* holds.  IInv is the invariant of each job, WindowIInv that of windows.  *)
(***************************************************************************)
EXTENDS Memories, FiniteSetTheorems, TLAPS

Places == {"idle", "insert", "summarise", "record", "return"}

(* A handler runs as long as its job is being tried.                       *)
JobsOK == \A s \in Story : at[s] # "idle" <=> phase[s] = "trying"

Early(s) == phase[s] \in {"new", "waiting", "held"} \/ at[s] = "insert"

(* The first INSERT happens at most once per try, and again only after it  *)
(* failed; the second is the last thing a job does.                        *)
CountOK(s) ==
    /\ Cardinality(RowsOf(s, "told")) <= tries[s]
    /\ Cardinality(RowsOf(s, "told")) <= 1 + faults
    /\ Early(s) => Cardinality(RowsOf(s, "told")) <= faults
    /\ at[s] = "insert" => Cardinality(RowsOf(s, "told")) + 1 <= tries[s]
    /\ Early(s) \/ at[s] \in {"summarise", "record"} => RowsOf(s, "model") = {}
    /\ Cardinality(RowsOf(s, "model")) <= 1

CountsOK == \A s \in Story : CountOK(s)

(* A sentence is not followed by another row about its story.              *)
LastOK ==
    \A s \in Story : \A j \in RowsOf(s, "model") : \A i \in DOMAIN rows :
        rows[i].of = s => i <= j

IInv == TypeOK /\ JobsOK /\ CountsOK /\ LastOK

LEMMA Constants ==
    /\ MaxStories \in Nat /\ MaxTries \in Nat /\ MaxTries > 0 /\ MaxFaults \in Nat
    /\ Window \in Nat /\ Window > 0
  BY MemoriesAssumption

LEMMA Types ==
    TypeOK <=> /\ last \in 0..MaxStories /\ rows \in Seq(Row)
               /\ phase \in [Story -> {"new", "waiting", "held", "trying", "done", "buried",
                                       "stranded", "contested"}]
               /\ tries \in [Story -> 0..MaxTries]
               /\ at \in [Story -> Places] /\ faults \in 0..MaxFaults
  BY DEF TypeOK, Jobs!TypeOK, Jobs!Phase, Job, Places

-----------------------------------------------------------------------------
(* Rows *)

LEMMA RowFacts ==
    ASSUME TypeOK, NEW s \in Story, NEW by \in {"told", "model"}
    PROVE  /\ Len(rows) \in Nat /\ DOMAIN rows = 1..Len(rows)
           /\ \A i \in DOMAIN rows : rows[i] \in Row
           /\ RowsOf(s, by) \subseteq 1..Len(rows)
           /\ IsFiniteSet(RowsOf(s, by)) /\ Cardinality(RowsOf(s, by)) \in Nat
  <1>1. Len(rows) \in Nat /\ DOMAIN rows = 1..Len(rows) /\ \A i \in DOMAIN rows : rows[i] \in Row
    BY Types
  <1>2. RowsOf(s, by) \subseteq 1..Len(rows) /\ IsFiniteSet(1..Len(rows))
    BY <1>1, FS_Interval DEF RowsOf
  <1> QED BY <1>1, <1>2, FS_Subset, FS_CardinalityType

LEMMA AppendRow ==
    ASSUME TypeOK, NEW s \in Story, NEW x \in {"told", "model"},
           rows' = Append(rows, [of |-> s, by |-> x])
    PROVE  /\ rows' \in Seq(Row)
           /\ DOMAIN rows' = 1..(Len(rows) + 1)
           /\ \A i \in 1..Len(rows) : rows'[i] = rows[i]
           /\ rows'[Len(rows) + 1] = [of |-> s, by |-> x]
           /\ \A p \in Story : \A y \in {"told", "model"} :
                (p # s \/ y # x) => RowsOf(p, y)' = RowsOf(p, y)
           /\ RowsOf(s, x)' = RowsOf(s, x) \cup {Len(rows) + 1}
           /\ Cardinality(RowsOf(s, x)') = Cardinality(RowsOf(s, x)) + 1
  <1> DEFINE r == [of |-> s, by |-> x]
             n == Len(rows) + 1
  <1>1. r \in Row /\ rows \in Seq(Row) /\ rows' = Append(rows, r)
    BY Types DEF Row
  <1>2. \A p \in Story : \A y \in {"told", "model"} :
          [of |-> p, by |-> y] = r <=> (p = s /\ y = x)
    OBVIOUS
  <1> HIDE DEF r
  <1>3. /\ rows' \in Seq(Row) /\ DOMAIN rows' = 1..n /\ n \in Nat
        /\ DOMAIN rows = 1..Len(rows) /\ Len(rows) \in Nat
        /\ \A i \in 1..Len(rows) : rows'[i] = rows[i]
        /\ rows'[n] = r
    BY <1>1
  <1>4. 1..n = (1..Len(rows)) \cup {n} /\ n \notin 1..Len(rows)
    BY <1>3
  <1> HIDE DEF n
  <1>5. ASSUME NEW p \in Story, NEW y \in {"told", "model"}
        PROVE  RowsOf(p, y)' = IF p = s /\ y = x THEN RowsOf(p, y) \cup {n} ELSE RowsOf(p, y)
    <2>1. RowsOf(p, y) = {i \in 1..Len(rows) : rows[i] = [of |-> p, by |-> y]}
      BY <1>3 DEF RowsOf
    <2>2. RowsOf(p, y)' = {i \in 1..n : rows'[i] = [of |-> p, by |-> y]}
      BY <1>3 DEF RowsOf
    <2>3. CASE p = s /\ y = x
      BY <1>2, <1>3, <1>4, <2>1, <2>2, <2>3
    <2>4. CASE ~(p = s /\ y = x)
      BY <1>2, <1>3, <1>4, <2>1, <2>2, <2>4
    <2> QED BY <2>3, <2>4
  <1>6. n \notin RowsOf(s, x)
    BY <1>3, <1>4 DEF RowsOf
  <1>7. Cardinality(RowsOf(s, x) \cup {n}) = Cardinality(RowsOf(s, x)) + 1
    BY <1>6, RowFacts, FS_AddElement
  <1>8. \A p \in Story : \A y \in {"told", "model"} :
          (p # s \/ y # x) => RowsOf(p, y)' = RowsOf(p, y)
    BY <1>5
  <1>9. RowsOf(s, x)' = RowsOf(s, x) \cup {n}
    BY <1>5
  <1> QED BY <1>3, <1>7, <1>8, <1>9 DEF n, r

LEMMA SameRows ==
    ASSUME UNCHANGED rows, NEW p, NEW y
    PROVE  RowsOf(p, y)' = RowsOf(p, y)
  BY DEF RowsOf

-----------------------------------------------------------------------------
(* The moves of a job *)

LEMMA MoveTo ==
    ASSUME TypeOK, NEW s \in Story, NEW to \in Jobs!Phase, Jobs!Move({s}, to)
    PROVE  /\ phase' \in [Story -> {"new", "waiting", "held", "trying", "done", "buried",
                                    "stranded", "contested"}]
           /\ phase'[s] = to /\ \A p \in Story \ {s} : phase'[p] = phase[p]
  BY Types DEF Jobs!Move, Job, Jobs!Phase

LEMMA HandlerAt ==
    ASSUME TypeOK, NEW s \in Story, NEW label \in Places, Handler(s, label)
    PROVE  /\ at' \in [Story -> Places]
           /\ at'[s] = label /\ \A p \in Story \ {s} : at'[p] = at[p]
  BY Types DEF Handler

(* A step that leaves the table alone.                                     *)
LEMMA QuietStep ==
    ASSUME IInv, TypeOK', UNCHANGED rows, faults' >= faults, NEW s \in Story,
           \A p \in Story \ {s} : /\ phase'[p] = phase[p] /\ at'[p] = at[p]
                                  /\ tries'[p] = tries[p],
           tries'[s] >= tries[s], at'[s] # "idle" <=> phase'[s] = "trying",
           Early(s)' => Early(s),
           at'[s] = "insert" => tries'[s] > tries[s] \/ at[s] = "insert",
           at'[s] \in {"summarise", "record"} => at[s] \in {"summarise", "record"}
    PROVE  IInv'
  <1>1. TypeOK /\ faults \in Nat /\ faults' \in Nat
    BY Constants DEF IInv, TypeOK
  <1>2. \A p \in Story : tries[p] \in Nat /\ tries'[p] \in Nat
    BY <1>1, Constants DEF TypeOK, Jobs!TypeOK, Job
  <1>3. \A p \in Story : \A y \in {"told", "model"} :
          RowsOf(p, y)' = RowsOf(p, y) /\ Cardinality(RowsOf(p, y)) \in Nat
    BY <1>1, SameRows, RowFacts
  <1>4. JobsOK'
    BY DEF IInv, JobsOK
  <1>5. ASSUME NEW p \in Story
        PROVE  /\ Cardinality(RowsOf(p, "told")) <= tries'[p]
               /\ Cardinality(RowsOf(p, "told")) <= 1 + faults'
               /\ Early(p)' => Cardinality(RowsOf(p, "told")) <= faults'
               /\ at'[p] = "insert" => Cardinality(RowsOf(p, "told")) + 1 <= tries'[p]
               /\ Early(p)' \/ at'[p] \in {"summarise", "record"} => RowsOf(p, "model") = {}
               /\ Cardinality(RowsOf(p, "model")) <= 1
    <2>1. /\ Cardinality(RowsOf(p, "told")) <= tries[p]
          /\ Cardinality(RowsOf(p, "told")) <= 1 + faults
          /\ Early(p) => Cardinality(RowsOf(p, "told")) <= faults
          /\ at[p] = "insert" => Cardinality(RowsOf(p, "told")) + 1 <= tries[p]
          /\ Early(p) \/ at[p] \in {"summarise", "record"} => RowsOf(p, "model") = {}
          /\ Cardinality(RowsOf(p, "model")) <= 1
      BY DEF IInv, CountsOK, CountOK
    <2>2. /\ Early(p)' => Early(p)
          /\ tries'[p] >= tries[p]
          /\ at'[p] = "insert" => tries'[p] > tries[p] \/ at[p] = "insert"
          /\ at'[p] \in {"summarise", "record"} => at[p] \in {"summarise", "record"}
      <3>1. CASE p = s
        BY <3>1
      <3>2. CASE p # s
        BY <1>2, <3>2 DEF Early
      <3> QED BY <3>1, <3>2
    <2> QED BY <1>1, <1>2, <1>3, <2>1, <2>2
  <1>6. CountsOK'
    BY <1>3, <1>5 DEF CountsOK, CountOK
  <1>7. LastOK'
    BY <1>3 DEF IInv, LastOK
  <1> QED BY <1>4, <1>6, <1>7 DEF IInv

-----------------------------------------------------------------------------
(* The steps *)

LEMMA InitIInv == Init => IInv
  <1> SUFFICES ASSUME Init PROVE IInv
    OBVIOUS
  <1>1. /\ rows = <<>> /\ faults = 0 /\ last = 0
        /\ phase = [s \in Story |-> "new"] /\ tries = [s \in Story |-> 0]
        /\ at = [s \in Story |-> "idle"]
    BY DEF Init, Jobs!Init, Job
  <1>2. TypeOK
    BY <1>1, Constants, Types DEF Places
  <1>3. \A s \in Story : \A by \in {"told", "model"} :
          RowsOf(s, by) = {} /\ Cardinality(RowsOf(s, by)) = 0
    BY <1>1, FS_EmptySet DEF RowsOf
  <1>4. JobsOK /\ LastOK
    BY <1>1, <1>3 DEF JobsOK, LastOK
  <1>5. CountsOK
    BY <1>1, <1>3 DEF CountsOK, CountOK
  <1> QED BY <1>2, <1>4, <1>5 DEF IInv

LEMMA CommitStep == ASSUME IInv, Commit PROVE IInv'
  <1> DEFINE s == last + 1
  <1>1. /\ TypeOK /\ JobsOK /\ last' = s /\ s \in Story /\ last' \in 0..MaxStories
        /\ UNCHANGED <<rows, at, faults, tries>>
        /\ phase[s] = "new" /\ Jobs!Move({s}, "waiting")
    BY Constants, Types DEF IInv, Commit, Jobs!Submit, Story
  <1> HIDE DEF s
  <1>2. /\ phase' \in [Story -> {"new", "waiting", "held", "trying", "done", "buried", "stranded", "contested"}]
        /\ phase'[s] = "waiting" /\ \A p \in Story \ {s} : phase'[p] = phase[p]
    BY <1>1, MoveTo DEF Jobs!Phase
  <1>3. TypeOK'
    BY <1>1, <1>2, Types DEF TypeOK, Jobs!TypeOK, Jobs!Phase, Job
  <1>4. at[s] = "idle" /\ faults' >= faults /\ tries'[s] >= tries[s]
    BY <1>1, Types, Constants DEF JobsOK
  <1> QED BY <1>1, <1>2, <1>3, <1>4, QuietStep DEF Early

(* Take, Summarise, Finish and Lose.                                       *)
LEMMA MoveStep ==
    ASSUME IInv, NEW s \in Story, Take(s) \/ StartHandler(s) \/ Summarise(s) \/ Finish(s) \/ Lose(s)
    PROVE  IInv'
  <1>1. TypeOK /\ JobsOK
    BY DEF IInv
  <1>2. /\ UNCHANGED <<last, rows>> /\ faults' \in 0..MaxFaults /\ faults' >= faults
    BY <1>1, Types, Constants DEF Take, StartHandler, Summarise, Finish, Lose, Fail
  <1>3. /\ tries' \in [Story -> 0..MaxTries] /\ tries'[s] >= tries[s]
        /\ \A p \in Story \ {s} : tries'[p] = tries[p]
        /\ StartHandler(s) => tries'[s] = tries[s] + 1
    <2>1. CASE StartHandler(s)
      <3>1. tries[s] < MaxTries /\ tries' = [tries EXCEPT ![s] = @ + 1]
        BY <2>1 DEF StartHandler, Jobs!Try
      <3> QED BY <1>1, <3>1, Types, Constants
    <2>2. CASE ~StartHandler(s)
      <3>1. UNCHANGED tries
        BY <2>2 DEF Take, Summarise, Finish, Lose, Jobs!Take, Jobs!Finish, Jobs!Strand
      <3> QED BY <1>1, <2>2, <3>1, Types, Constants
    <2> QED BY <2>1, <2>2
  <1>4. /\ phase' \in [Story -> {"new", "waiting", "held", "trying", "done", "buried", "stranded", "contested"}]
        /\ \A p \in Story \ {s} : phase'[p] = phase[p]
        /\ \/ Take(s) /\ phase[s] = "waiting" /\ phase'[s] = "held"
           \/ StartHandler(s) /\ phase[s] = "held" /\ phase'[s] = "trying"
           \/ Summarise(s) /\ phase'[s] = phase[s]
           \/ Finish(s) /\ phase'[s] = "done"
           \/ Lose(s) /\ phase'[s] = "stranded"
    <2>1. \/ Take(s) /\ phase[s] = "waiting" /\ Jobs!Move({s}, "held")
          \/ StartHandler(s) /\ phase[s] = "held" /\ Jobs!Move({s}, "trying")
          \/ Summarise(s) /\ UNCHANGED phase
          \/ Finish(s) /\ Jobs!Move({s}, "done")
          \/ Lose(s) /\ Jobs!Move({s}, "stranded")
      BY DEF Take, StartHandler, Summarise, Finish, Lose, Jobs!Take, Jobs!Try, Jobs!Finish,
             Jobs!Strand
    <2>2. CASE UNCHANGED phase /\ Summarise(s)
      BY <1>1, <2>2, Types
    <2>3. ASSUME NEW to \in {"held", "trying", "done", "stranded"}, Jobs!Move({s}, to)
          PROVE  /\ phase' \in [Story -> {"new", "waiting", "held", "trying", "done", "buried",
                                          "stranded", "contested"}]
                 /\ \A p \in Story \ {s} : phase'[p] = phase[p]
                 /\ phase'[s] = to
      BY <1>1, <2>3, MoveTo DEF Jobs!Phase
    <2> QED BY <2>1, <2>2, <2>3
  <1>5. /\ at' \in [Story -> Places] /\ \A p \in Story \ {s} : at'[p] = at[p]
        /\ \/ Take(s) /\ at'[s] = at[s]
           \/ StartHandler(s) /\ at'[s] = "insert"
           \/ Summarise(s) /\ at[s] = "summarise" /\ at'[s] \in {"record", "return"}
           \/ Finish(s) /\ at'[s] = "idle"
           \/ Lose(s) /\ at'[s] = "idle"
    <2>1. \/ Take(s) /\ UNCHANGED at
          \/ StartHandler(s) /\ Handler(s, "insert")
          \/ Summarise(s) /\ at[s] = "summarise" /\ Handler(s, "record")
          \/ Summarise(s) /\ at[s] = "summarise" /\ Handler(s, "return")
          \/ (Finish(s) \/ Lose(s)) /\ Handler(s, "idle")
      BY DEF Take, StartHandler, Summarise, Finish, Lose
    <2>2. ASSUME NEW label \in Places, Handler(s, label)
          PROVE  /\ at' \in [Story -> Places] /\ \A p \in Story \ {s} : at'[p] = at[p]
                 /\ at'[s] = label
      BY <1>1, <2>2, HandlerAt
    <2>3. CASE UNCHANGED at /\ Take(s)
      BY <1>1, <2>3, Types
    <2> QED BY <2>1, <2>2, <2>3 DEF Places
  <1>6. TypeOK'
    BY <1>1, <1>2, <1>3, <1>4, <1>5 DEF TypeOK, Jobs!TypeOK, Jobs!Phase, Job, Places
  <1>7. at[s] # "idle" <=> phase[s] = "trying"
    BY <1>1 DEF JobsOK
  <1>8. at'[s] # "idle" <=> phase'[s] = "trying"
    <2>1. CASE Take(s)
      <3>1. phase[s] = "waiting" /\ Jobs!Move({s}, "held") /\ UNCHANGED at
        BY <2>1 DEF Take, Jobs!Take
      <3> QED BY <1>1, <1>7, <3>1, MoveTo DEF Jobs!Phase
    <2>2. CASE StartHandler(s)
      <3>1. Handler(s, "insert") /\ Jobs!Move({s}, "trying")
        BY <2>2 DEF StartHandler, Jobs!Try
      <3> QED BY <1>1, <3>1, HandlerAt, MoveTo DEF Places, Jobs!Phase
    <2>3. CASE Summarise(s)
      <3>1. /\ at[s] = "summarise" /\ UNCHANGED phase
            /\ (Handler(s, "record") \/ Handler(s, "return"))
        BY <2>3 DEF Summarise
      <3> QED BY <1>1, <1>7, <3>1, HandlerAt DEF Places
    <2>4. CASE Finish(s) \/ Lose(s)
      <3>1. Handler(s, "idle") /\ (Jobs!Move({s}, "done") \/ Jobs!Move({s}, "stranded"))
        BY <2>4 DEF Finish, Lose, Jobs!Finish, Jobs!Strand
      <3> QED BY <1>1, <3>1, HandlerAt, MoveTo DEF Places, Jobs!Phase
    <2> QED BY <2>1, <2>2, <2>3, <2>4
  <1>9. /\ Early(s)' => Early(s)
        /\ at'[s] = "insert" => tries'[s] > tries[s] \/ at[s] = "insert"
        /\ at'[s] \in {"summarise", "record"} => at[s] \in {"summarise", "record"}
    <2>1. tries[s] \in Nat /\ tries'[s] \in Nat
      BY <1>1, <1>3, Types, Constants
    <2>2. CASE Take(s)
      BY <1>4, <1>5, <2>2 DEF Early, Take, Jobs!Take, Jobs!Move
    <2>3. CASE StartHandler(s)
      <3>1. phase[s] = "held" /\ at'[s] = "insert"
        <4>1. Handler(s, "insert") /\ phase[s] = "held"
          BY <2>3 DEF StartHandler, Jobs!Try
        <4> QED BY <1>1, <4>1, HandlerAt DEF Places
      <3> QED BY <1>3, <2>1, <2>3, <3>1 DEF Early
    <2>4. CASE Summarise(s) \/ Finish(s) \/ Lose(s)
      <3>1. \/ at'[s] \in {"record", "return"} /\ at[s] = "summarise" /\ phase'[s] = phase[s]
            \/ at'[s] = "idle" /\ phase'[s] \in {"done", "stranded"}
        <4>1. CASE Summarise(s)
          <5>1. at[s] = "summarise" /\ UNCHANGED phase
                /\ (Handler(s, "record") \/ Handler(s, "return"))
            BY <4>1 DEF Summarise
          <5> QED BY <1>1, <5>1, HandlerAt DEF Places
        <4>2. CASE Finish(s) \/ Lose(s)
          <5>1. Handler(s, "idle") /\ (Jobs!Move({s}, "done") \/ Jobs!Move({s}, "stranded"))
            BY <4>2 DEF Finish, Lose, Jobs!Finish, Jobs!Strand
          <5> QED BY <1>1, <5>1, HandlerAt, MoveTo DEF Places, Jobs!Phase
        <4> QED BY <2>4, <4>1, <4>2
      <3> QED BY <3>1 DEF Early
    <2> QED BY <2>2, <2>3, <2>4
  <1> QED BY <1>2, <1>3, <1>4, <1>5, <1>6, <1>8, <1>9, QuietStep

(* A row of s is appended, or none, and only s is concerned.               *)
LEMMA OthersCount ==
    ASSUME IInv, TypeOK', NEW s \in Story, faults' >= faults,
           \A p \in Story \ {s} : /\ phase'[p] = phase[p] /\ at'[p] = at[p]
                                  /\ tries'[p] = tries[p],
           \A p \in Story \ {s} : \A y \in {"told", "model"} : RowsOf(p, y)' = RowsOf(p, y),
           NEW p \in Story \ {s}
    PROVE  CountOK(p)'
  <1>1. faults \in Nat /\ faults' \in Nat
    BY Constants DEF IInv, TypeOK
  <1>2. Cardinality(RowsOf(p, "told")) \in Nat
    BY RowFacts DEF IInv
  <1>3. Early(p)' <=> Early(p)
    BY DEF Early
  <1> QED BY <1>1, <1>2, <1>3 DEF IInv, CountsOK, CountOK

LEMMA LastAppend ==
    ASSUME IInv, NEW s \in Story, NEW x \in {"told", "model"},
           rows' = Append(rows, [of |-> s, by |-> x]), RowsOf(s, "model") = {}
    PROVE  LastOK'
  <1> SUFFICES ASSUME NEW p \in Story, NEW j \in RowsOf(p, "model")', NEW i \in DOMAIN rows',
                      rows'[i].of = p
               PROVE  i <= j
    BY DEF LastOK
  <1>1. TypeOK /\ LastOK
    BY DEF IInv
  <1>2. /\ DOMAIN rows' = 1..(Len(rows) + 1) /\ Len(rows) \in Nat
        /\ DOMAIN rows = 1..Len(rows)
        /\ \A k \in 1..Len(rows) : rows'[k] = rows[k]
        /\ rows'[Len(rows) + 1] = [of |-> s, by |-> x]
        /\ \A q \in Story : \A y \in {"told", "model"} :
             (q # s \/ y # x) => RowsOf(q, y)' = RowsOf(q, y)
        /\ RowsOf(s, x)' = RowsOf(s, x) \cup {Len(rows) + 1}
    BY <1>1, AppendRow, RowFacts
  <1>3. CASE p = s
    <2>1. x = "model" /\ j = Len(rows) + 1
      BY <1>2, <1>3
    <2> QED BY <1>2, <2>1
  <1>4. CASE p # s
    <2>1. j \in RowsOf(p, "model")
      BY <1>2, <1>4
    <2>2. i \in 1..Len(rows)
      <3>1. i = Len(rows) + 1 => rows'[i].of = s
        BY <1>2
      <3> QED BY <1>2, <1>4, <3>1
    <2> QED BY <1>1, <1>2, <2>1, <2>2 DEF LastOK
  <1> QED BY <1>3, <1>4

LEMMA InsertToldStep == ASSUME IInv, NEW s \in Story, InsertTold(s) PROVE IInv'
  <1>1. /\ TypeOK /\ JobsOK /\ at[s] = "insert" /\ rows' = Append(rows, Told(s))
        /\ Handler(s, "summarise") /\ UNCHANGED <<last, phase, tries, faults>>
    BY DEF IInv, InsertTold
  <1>2. rows' = Append(rows, [of |-> s, by |-> "told"])
    BY <1>1 DEF Told
  <1>3. /\ at' \in [Story -> Places] /\ at'[s] = "summarise"
        /\ \A p \in Story \ {s} : at'[p] = at[p]
    BY <1>1, HandlerAt DEF Places
  <1>4. /\ rows' \in Seq(Row)
        /\ \A p \in Story : \A y \in {"told", "model"} :
             (p # s \/ y # "told") => RowsOf(p, y)' = RowsOf(p, y)
        /\ Cardinality(RowsOf(s, "told")') = Cardinality(RowsOf(s, "told")) + 1
    BY <1>1, <1>2, AppendRow
  <1>5. TypeOK'
    BY <1>1, <1>3, <1>4, Types DEF TypeOK, Jobs!TypeOK, Jobs!Phase, Job, Places
  <1>6. phase[s] = "trying" /\ phase' = phase
    BY <1>1 DEF JobsOK
  <1>7. JobsOK'
    BY <1>1, <1>3, <1>6 DEF JobsOK
  <1>8. CountOK(s) /\ Early(s) /\ ~Early(s)' /\ faults \in Nat /\ tries[s] \in Nat
        /\ Cardinality(RowsOf(s, "told")) \in Nat /\ Cardinality(RowsOf(s, "model")) \in Nat
    BY <1>1, <1>3, <1>6, RowFacts, Types, Constants DEF IInv, CountsOK, Early
  <1>9. CountOK(s)'
    BY <1>1, <1>3, <1>4, <1>8 DEF CountOK
  <1>10. RowsOf(s, "model") = {}
    BY <1>8 DEF CountOK
  <1>11. LastOK'
    BY <1>2, <1>10, LastAppend
  <1>12. faults' >= faults
    BY <1>1, <1>8
  <1>13. \A p \in Story \ {s} : CountOK(p)'
    BY <1>1, <1>3, <1>4, <1>5, <1>12, OthersCount
  <1> QED BY <1>5, <1>7, <1>9, <1>11, <1>13 DEF IInv, CountsOK

LEMMA InsertFailsStep == ASSUME IInv, NEW s \in Story, InsertFails(s) PROVE IInv'
  <1>1. /\ TypeOK /\ JobsOK /\ at[s] = "insert" /\ Fail
        /\ (rows' = Append(rows, Told(s)) \/ UNCHANGED rows)
        /\ (Jobs!Move({s}, "waiting") \/ Jobs!Move({s}, "buried"))
        /\ Handler(s, "idle") /\ UNCHANGED <<last, tries>>
    BY DEF IInv, InsertFails, Jobs!GiveBack, Jobs!Bury
  <1>2. /\ at' \in [Story -> Places] /\ at'[s] = "idle"
        /\ \A p \in Story \ {s} : at'[p] = at[p]
    BY <1>1, HandlerAt DEF Places
  <1>3. /\ phase' \in [Story -> {"new", "waiting", "held", "trying", "done", "buried", "stranded", "contested"}]
        /\ phase'[s] \in {"waiting", "buried"} /\ \A p \in Story \ {s} : phase'[p] = phase[p]
    BY <1>1, MoveTo DEF Jobs!Phase
  <1>4. faults \in Nat /\ faults' = faults + 1 /\ faults' \in 0..MaxFaults
    BY <1>1, Types, Constants DEF Fail
  <1>5. /\ rows' \in Seq(Row)
        /\ \A p \in Story : \A y \in {"told", "model"} :
             (p # s \/ y # "told") => RowsOf(p, y)' = RowsOf(p, y)
        /\ \/ Cardinality(RowsOf(s, "told")') = Cardinality(RowsOf(s, "told")) + 1
           \/ Cardinality(RowsOf(s, "told")') = Cardinality(RowsOf(s, "told"))
    <2>1. CASE rows' = Append(rows, Told(s))
      <3>1. rows' = Append(rows, [of |-> s, by |-> "told"])
        BY <2>1 DEF Told
      <3> QED BY <1>1, <3>1, AppendRow
    <2>2. CASE UNCHANGED rows
      <3>1. rows' \in Seq(Row)
        BY <1>1, <2>2, Types
      <3> QED BY <2>2, <3>1, SameRows
    <2> QED BY <1>1, <2>1, <2>2
  <1>6. TypeOK'
    BY <1>1, <1>2, <1>3, <1>4, <1>5, Types DEF TypeOK, Jobs!TypeOK, Jobs!Phase, Job, Places
  <1>7. JobsOK'
    BY <1>1, <1>2, <1>3 DEF JobsOK
  <1>8. CountOK(s) /\ Early(s) /\ tries[s] \in Nat
        /\ Cardinality(RowsOf(s, "told")) \in Nat /\ Cardinality(RowsOf(s, "model")) \in Nat
    BY <1>1, RowFacts, Types, Constants DEF IInv, CountsOK, Early
  <1>9. CountOK(s)'
    BY <1>1, <1>2, <1>4, <1>5, <1>8 DEF CountOK
  <1>10. RowsOf(s, "model") = {} /\ LastOK
    BY <1>8 DEF CountOK, IInv
  <1>11. LastOK'
    <2>1. CASE rows' = Append(rows, Told(s))
      <3>1. rows' = Append(rows, [of |-> s, by |-> "told"])
        BY <2>1 DEF Told
      <3> QED BY <1>10, <3>1, LastAppend
    <2>2. CASE UNCHANGED rows
      BY <1>10, <2>2, SameRows DEF LastOK
    <2> QED BY <1>1, <2>1, <2>2
  <1>12. faults' >= faults
    BY <1>4
  <1>13. \A p \in Story \ {s} : CountOK(p)'
    BY <1>1, <1>2, <1>3, <1>5, <1>6, <1>12, OthersCount
  <1> QED BY <1>6, <1>7, <1>9, <1>11, <1>13 DEF IInv, CountsOK

LEMMA InsertModelStep == ASSUME IInv, NEW s \in Story, InsertModel(s) PROVE IInv'
  <1>1. /\ TypeOK /\ JobsOK /\ at[s] = "record" /\ (UNCHANGED faults \/ Fail)
        /\ (rows' = Append(rows, Model(s)) \/ UNCHANGED rows)
        /\ Handler(s, "return") /\ UNCHANGED <<last, phase, tries>>
    BY DEF IInv, InsertModel
  <1>2. /\ at' \in [Story -> Places] /\ at'[s] = "return"
        /\ \A p \in Story \ {s} : at'[p] = at[p]
    BY <1>1, HandlerAt DEF Places
  <1>3. phase[s] = "trying" /\ phase' = phase
    BY <1>1 DEF JobsOK
  <1>4. faults \in Nat /\ faults' \in 0..MaxFaults /\ faults' \in Nat /\ faults' >= faults
    BY <1>1, Types, Constants DEF Fail
  <1>5. CountOK(s) /\ tries[s] \in Nat /\ ~Early(s)'
        /\ Cardinality(RowsOf(s, "told")) \in Nat /\ Cardinality(RowsOf(s, "model")) \in Nat
    BY <1>1, <1>2, <1>3, RowFacts, Types, Constants DEF IInv, CountsOK, Early
  <1>6. RowsOf(s, "model") = {} /\ Cardinality(RowsOf(s, "model")) = 0 /\ LastOK
    BY <1>1, <1>5, FS_EmptySet DEF CountOK, IInv
  <1>7. /\ rows' \in Seq(Row) /\ LastOK'
        /\ \A p \in Story : \A y \in {"told", "model"} :
             (p # s \/ y # "model") => RowsOf(p, y)' = RowsOf(p, y)
        /\ Cardinality(RowsOf(s, "model")') <= 1
    <2>1. CASE rows' = Append(rows, Model(s))
      <3>1. rows' = Append(rows, [of |-> s, by |-> "model"])
        BY <2>1 DEF Model
      <3>2. /\ rows' \in Seq(Row)
            /\ \A p \in Story : \A y \in {"told", "model"} :
                 (p # s \/ y # "model") => RowsOf(p, y)' = RowsOf(p, y)
            /\ Cardinality(RowsOf(s, "model")') = Cardinality(RowsOf(s, "model")) + 1
        BY <1>1, <3>1, AppendRow
      <3>3. LastOK'
        BY <1>6, <3>1, LastAppend
      <3> QED BY <1>6, <3>2, <3>3
    <2>2. CASE UNCHANGED rows
      <3>1. rows' \in Seq(Row)
        BY <1>1, <2>2, Types
      <3>2. LastOK'
        BY <1>6, <2>2, SameRows DEF LastOK
      <3> QED BY <1>6, <2>2, <3>1, <3>2, SameRows
    <2> QED BY <1>1, <2>1, <2>2
  <1>8. TypeOK'
    BY <1>1, <1>2, <1>4, <1>7, Types DEF TypeOK, Jobs!TypeOK, Jobs!Phase, Job, Places
  <1>9. JobsOK'
    BY <1>1, <1>2, <1>3 DEF JobsOK
  <1>10. CountOK(s)'
    BY <1>1, <1>2, <1>4, <1>5, <1>7 DEF CountOK
  <1>11. \A p \in Story \ {s} : CountOK(p)'
    BY <1>1, <1>2, <1>4, <1>7, <1>8, OthersCount
  <1> QED BY <1>7, <1>8, <1>9, <1>10, <1>11 DEF IInv, CountsOK

LEMMA NextPreservesIInv == ASSUME IInv, [Next]_vars PROVE IInv'
  <1>1. CASE Commit
    BY <1>1, CommitStep
  <1>2. CASE \E s \in Story : WorkerStep(s)
    <2>1. PICK s \in Story : WorkerStep(s)
      BY <1>2
    <2> QED BY <2>1, MoveStep, InsertToldStep, InsertFailsStep, InsertModelStep DEF WorkerStep
  <1>3. CASE UNCHANGED vars
    <2>1. \A p, y : RowsOf(p, y)' = RowsOf(p, y)
      BY <1>3 DEF RowsOf, vars
    <2>2. TypeOK'
      BY <1>3 DEF IInv, TypeOK, Jobs!TypeOK, vars
    <2>3. JobsOK' /\ LastOK'
      BY <1>3, <2>1 DEF IInv, JobsOK, LastOK, vars
    <2>4. CountsOK'
      BY <1>3, <2>1 DEF IInv, CountsOK, CountOK, Early, vars
    <2> QED BY <2>2, <2>3, <2>4 DEF IInv
  <1> QED BY <1>1, <1>2, <1>3 DEF Next

-----------------------------------------------------------------------------
(* The theorems *)

(* The invariant the others follow from.                                   *)
THEOREM Inductive == Spec => []IInv
  BY InitIInv, NextPreservesIInv, PTL DEF Spec

(* The table, the jobs and the handlers are always of their types.         *)
THEOREM TypeCorrect == Spec => []TypeOK
  <1>1. IInv => TypeOK
    BY DEF IInv
  <1> QED BY <1>1, Inductive, PTL

(***************************************************************************)
(* However many stories, workers and retries there are, the beginning of a *)
(* story is repeated only by a try that failed, and its sentence is there  *)
(* at most once.                                                           *)
(***************************************************************************)
THEOREM RepeatsAreExplained == Spec => []RepeatsNeedFaults
  <1>1. IInv => RepeatsNeedFaults
    BY DEF IInv, CountsOK, CountOK, RepeatsNeedFaults
  <1> QED BY <1>1, Inductive, PTL

(***************************************************************************)
(* However long the window is, when it holds a row about a story of which  *)
(* the model has written a sentence, the sentence is what the prompt gets. *)
(***************************************************************************)
THEOREM SentenceIsNewest == Spec => []SentenceIsTaken
  <1>1. ASSUME IInv PROVE SentenceIsTaken
    <2> SUFFICES ASSUME NEW s \in Story, About(s) # {}, RowsOf(s, "model") # {}
                 PROVE  rows[Latest(About(s))].by = "model"
      BY DEF SentenceIsTaken
    <2>1. PICK j \in RowsOf(s, "model") : TRUE
      OBVIOUS
    <2>2. /\ Len(rows) \in Nat /\ DOMAIN rows = 1..Len(rows)
          /\ j \in DOMAIN rows /\ rows[j] = [of |-> s, by |-> "model"]
      BY <1>1, <2>1, RowFacts DEF IInv, RowsOf
    <2>3. \A i \in DOMAIN rows : rows[i].of = s => i <= j
      BY <1>1, <2>1 DEF IInv, LastOK
    <2>4. PICK k \in DOMAIN rows : k > Len(rows) - Window /\ rows[k].of = s
      BY DEF About, Newest
    <2>5. k <= j /\ j > Len(rows) - Window
      BY <2>2, <2>3, <2>4, Constants
    <2>6. j \in About(s) /\ \A i \in About(s) : i <= j /\ i \in Int
      BY <2>2, <2>3, <2>5 DEF About, Newest
    <2>7. \A m \in About(s) : (\A i \in About(s) : i <= m) => m = j
      BY <2>2, <2>6
    <2>8. Latest(About(s)) = j
      BY <2>6, <2>7 DEF Latest
    <2> QED BY <2>2, <2>8
  <1> QED BY <1>1, Inductive, PTL

-----------------------------------------------------------------------------
(***************************************************************************)
(* Windows of rows.  That a story is told again only after a failure holds *)
(* of every story, but the failures of a window have to be shared by all   *)
(* of its stories: RepeatsOK counts them once for any set of stories.      *)
(***************************************************************************)
RowsTold(S) == {i \in DOMAIN rows : rows[i].by = "told" /\ rows[i].of \in S}
Settled(S) == {s \in S : ~Early(s)}
Written(s) == at[s] \in {"summarise", "record", "return"} \/ phase[s] = "done"

RepeatsOK ==
    \A S \in SUBSET Story : Cardinality(RowsTold(S)) <= Cardinality(Settled(S)) + faults

(* A job that is done, or past its first INSERT, has its row.              *)
WrittenOK == \A s \in Story : Written(s) => RowsOf(s, "told") # {}

WindowIInv == IInv /\ RepeatsOK /\ WrittenOK

LEMMA FiniteSets ==
    ASSUME TypeOK, NEW S \in SUBSET Story
    PROVE  /\ IsFiniteSet(S) /\ Cardinality(S) \in Nat
           /\ IsFiniteSet(Settled(S)) /\ Cardinality(Settled(S)) \in Nat
           /\ Cardinality(Settled(S)) <= Cardinality(S)
           /\ IsFiniteSet(RowsTold(S)) /\ Cardinality(RowsTold(S)) \in Nat
  <1>1. IsFiniteSet(Story) /\ IsFiniteSet(1..Len(rows)) /\ DOMAIN rows = 1..Len(rows)
    BY Types, Constants, FS_Interval DEF Story
  <1>2. Settled(S) \subseteq S /\ RowsTold(S) \subseteq 1..Len(rows)
    BY <1>1 DEF Settled, RowsTold
  <1> QED BY <1>1, <1>2, FS_Subset, FS_CardinalityType

(* What a step of the job of s does to the table, and to the other jobs.   *)
Shape(s) ==
    /\ \A p \in Story \ {s} : phase'[p] = phase[p] /\ at'[p] = at[p]
    /\ faults' \in Nat /\ faults' >= faults
    /\ Early(s)' => Early(s)
    /\ \/ UNCHANGED rows /\ (Written(s)' => Written(s))
       \/ rows' = Append(rows, [of |-> s, by |-> "model"]) /\ (Written(s)' => Written(s))
       \/ /\ rows' = Append(rows, [of |-> s, by |-> "told"])
          /\ Early(s) /\ (~Early(s)' \/ faults' = faults + 1)

LEMMA CommitShape == ASSUME IInv, Commit PROVE \E s \in Story : Shape(s)
  <1> DEFINE s == last + 1
  <1>1. /\ TypeOK /\ s \in Story /\ UNCHANGED <<rows, at, faults>>
        /\ phase[s] = "new" /\ Jobs!Move({s}, "waiting")
    BY Constants, Types DEF IInv, Commit, Jobs!Submit, Story
  <1> HIDE DEF s
  <1>2. phase'[s] = "waiting" /\ \A p \in Story \ {s} : phase'[p] = phase[p]
    BY <1>1, MoveTo DEF Jobs!Phase
  <1>3. faults' \in Nat /\ faults' >= faults
    BY <1>1, Types, Constants
  <1> QED BY <1>1, <1>2, <1>3 DEF Shape, Early, Written

LEMMA MoveShape ==
    ASSUME IInv, NEW s \in Story, Take(s) \/ StartHandler(s) \/ Summarise(s) \/ Finish(s) \/ Lose(s)
    PROVE  Shape(s)
  <1>1. TypeOK /\ JobsOK
    BY DEF IInv
  <1>2. UNCHANGED rows /\ faults' \in Nat /\ faults' >= faults
    BY <1>1, Types, Constants DEF Take, StartHandler, Summarise, Finish, Lose, Fail
  <1>3. CASE Take(s)
    <2>1. phase[s] = "waiting" /\ Jobs!Move({s}, "held") /\ UNCHANGED at
      BY <1>3 DEF Take, Jobs!Take
    <2>2. phase'[s] = "held" /\ \A p \in Story \ {s} : phase'[p] = phase[p]
      BY <1>1, <2>1, MoveTo DEF Jobs!Phase
    <2> QED BY <1>2, <2>1, <2>2 DEF Shape, Early, Written
  <1>4. CASE StartHandler(s)
    <2>1. phase[s] = "held" /\ Jobs!Move({s}, "trying") /\ Handler(s, "insert")
      BY <1>4 DEF StartHandler, Jobs!Try
    <2>2. phase'[s] = "trying" /\ \A p \in Story \ {s} : phase'[p] = phase[p]
      BY <1>1, <2>1, MoveTo DEF Jobs!Phase
    <2>3. at'[s] = "insert" /\ \A p \in Story \ {s} : at'[p] = at[p]
      BY <1>1, <2>1, HandlerAt DEF Places
    <2> QED BY <1>2, <2>1, <2>2, <2>3 DEF Shape, Early, Written
  <1>5. CASE Summarise(s)
    <2>1. at[s] = "summarise" /\ UNCHANGED phase /\ (Handler(s, "record") \/ Handler(s, "return"))
      BY <1>5 DEF Summarise
    <2>2. at'[s] \in {"record", "return"} /\ \A p \in Story \ {s} : at'[p] = at[p]
      BY <1>1, <2>1, HandlerAt DEF Places
    <2> QED BY <1>2, <2>1, <2>2 DEF Shape, Early, Written
  <1>6. CASE Finish(s) \/ Lose(s)
    <2>1. /\ Handler(s, "idle")
          /\ \/ at[s] = "return" /\ Jobs!Move({s}, "done")
             \/ Jobs!Move({s}, "stranded")
      BY <1>6 DEF Finish, Lose, Jobs!Finish, Jobs!Strand
    <2>2. /\ \/ at[s] = "return" /\ phase'[s] = "done"
             \/ phase'[s] = "stranded"
          /\ \A p \in Story \ {s} : phase'[p] = phase[p]
      BY <1>1, <2>1, MoveTo DEF Jobs!Phase
    <2>3. at'[s] = "idle" /\ \A p \in Story \ {s} : at'[p] = at[p]
      BY <1>1, <2>1, HandlerAt DEF Places
    <2> QED BY <1>2, <2>2, <2>3 DEF Shape, Early, Written
  <1> QED BY <1>3, <1>4, <1>5, <1>6

LEMMA InsertShape ==
    ASSUME IInv, NEW s \in Story, InsertTold(s) \/ InsertFails(s) \/ InsertModel(s)
    PROVE  Shape(s)
  <1>1. TypeOK /\ JobsOK /\ faults \in Nat
    BY Types, Constants DEF IInv
  <1>2. CASE InsertTold(s)
    <2>1. /\ at[s] = "insert" /\ rows' = Append(rows, [of |-> s, by |-> "told"])
          /\ Handler(s, "summarise") /\ UNCHANGED <<phase, faults>>
      BY <1>2 DEF InsertTold, Told
    <2>2. at'[s] = "summarise" /\ \A p \in Story \ {s} : at'[p] = at[p]
      BY <1>1, <2>1, HandlerAt DEF Places
    <2>3. phase[s] = "trying"
      BY <1>1, <2>1 DEF JobsOK
    <2> QED BY <1>1, <2>1, <2>2, <2>3 DEF Shape, Early
  <1>3. CASE InsertFails(s)
    <2>1. /\ at[s] = "insert" /\ faults' = faults + 1 /\ Handler(s, "idle")
          /\ rows' = Append(rows, [of |-> s, by |-> "told"]) \/ UNCHANGED rows
          /\ Jobs!Move({s}, "waiting") \/ Jobs!Move({s}, "buried")
      BY <1>3 DEF InsertFails, Fail, Told, Jobs!GiveBack, Jobs!Bury
    <2>2. at'[s] = "idle" /\ \A p \in Story \ {s} : at'[p] = at[p]
      BY <1>1, <2>1, HandlerAt DEF Places
    <2>3. phase'[s] \in {"waiting", "buried"} /\ \A p \in Story \ {s} : phase'[p] = phase[p]
      BY <1>1, <2>1, MoveTo DEF Jobs!Phase
    <2>4. faults' \in Nat /\ faults' >= faults
      BY <1>1, <2>1
    <2> QED BY <2>1, <2>2, <2>3, <2>4 DEF Shape, Early, Written
  <1>4. CASE InsertModel(s)
    <2>1. /\ at[s] = "record" /\ Handler(s, "return") /\ UNCHANGED phase
          /\ rows' = Append(rows, [of |-> s, by |-> "model"]) \/ UNCHANGED rows
          /\ faults' = faults \/ faults' = faults + 1
      BY <1>4 DEF InsertModel, Model, Fail
    <2>2. at'[s] = "return" /\ \A p \in Story \ {s} : at'[p] = at[p]
      BY <1>1, <2>1, HandlerAt DEF Places
    <2>3. faults' \in Nat /\ faults' >= faults
      BY <1>1, <2>1
    <2> QED BY <2>1, <2>2, <2>3 DEF Shape, Early, Written
  <1> QED BY <1>2, <1>3, <1>4

LEMMA RepeatsKept ==
    ASSUME WindowIInv, TypeOK', NEW s \in Story, Shape(s)
    PROVE  RepeatsOK'
  <1> SUFFICES ASSUME NEW S \in SUBSET Story
               PROVE  Cardinality(RowsTold(S)') <= Cardinality(Settled(S)') + faults'
    BY DEF RepeatsOK
  <1>1. /\ TypeOK /\ faults \in Nat /\ faults' \in Nat /\ faults' >= faults
        /\ Cardinality(RowsTold(S)) <= Cardinality(Settled(S)) + faults
    BY Types, Constants DEF WindowIInv, IInv, RepeatsOK, Shape
  <1>2. /\ IsFiniteSet(Settled(S)) /\ Cardinality(Settled(S)) \in Nat
        /\ IsFiniteSet(RowsTold(S)) /\ Cardinality(RowsTold(S)) \in Nat
    BY <1>1, FiniteSets
  <1>3. IsFiniteSet(Settled(S)') /\ Cardinality(Settled(S)') \in Nat
    <2>1. IsFiniteSet(Story)
      BY Constants, FS_Interval DEF Story
    <2>2. Settled(S)' \subseteq Story
      BY DEF Settled
    <2> QED BY <2>1, <2>2, FS_Subset, FS_CardinalityType
  <1>4. \A p \in Story : Early(p)' => Early(p)
    BY DEF Shape, Early
  <1>5. Settled(S) \subseteq Settled(S)'
    BY <1>4 DEF Settled
  <1>6. Cardinality(Settled(S)) <= Cardinality(Settled(S)')
    BY <1>3, <1>5, FS_Subset
  <1>7. CASE RowsTold(S)' = RowsTold(S)
    BY <1>1, <1>2, <1>3, <1>6, <1>7
  <1>8. CASE /\ rows' = Append(rows, [of |-> s, by |-> "told"])
             /\ Early(s) /\ (~Early(s)' \/ faults' = faults + 1) /\ s \in S
    <2>1. /\ DOMAIN rows' = 1..(Len(rows) + 1) /\ Len(rows) \in Nat /\ DOMAIN rows = 1..Len(rows)
          /\ \A i \in 1..Len(rows) : rows'[i] = rows[i]
      BY <1>1, <1>8, AppendRow, RowFacts
    <2>2. RowsTold(S)' \subseteq RowsTold(S) \cup {Len(rows) + 1}
      BY <2>1 DEF RowsTold
    <2>3. /\ IsFiniteSet(RowsTold(S) \cup {Len(rows) + 1})
          /\ Cardinality(RowsTold(S) \cup {Len(rows) + 1}) <= Cardinality(RowsTold(S)) + 1
      <3> DEFINE n == Len(rows) + 1
      <3> HIDE DEF n
      <3>1. /\ IsFiniteSet(RowsTold(S) \cup {n})
            /\ \/ Cardinality(RowsTold(S) \cup {n}) = Cardinality(RowsTold(S))
               \/ Cardinality(RowsTold(S) \cup {n}) = Cardinality(RowsTold(S)) + 1
        BY <1>2, FS_AddElement
      <3>2. Cardinality(RowsTold(S) \cup {n}) <= Cardinality(RowsTold(S)) + 1
        BY <1>2, <3>1
      <3> QED BY <3>1, <3>2 DEF n
    <2>4. /\ Cardinality(RowsTold(S)') \in Nat
          /\ Cardinality(RowsTold(S)') <= Cardinality(RowsTold(S)) + 1
      <3>1. /\ IsFiniteSet(RowsTold(S)')
            /\ Cardinality(RowsTold(S)') <= Cardinality(RowsTold(S) \cup {Len(rows) + 1})
        BY <2>2, <2>3, FS_Subset
      <3>2. /\ Cardinality(RowsTold(S)') \in Nat
            /\ Cardinality(RowsTold(S) \cup {Len(rows) + 1}) \in Nat
        BY <2>3, <3>1, FS_CardinalityType
      <3> QED BY <1>2, <2>3, <3>1, <3>2
    <2>5. CASE faults' = faults + 1
      BY <1>1, <1>2, <1>3, <1>6, <2>4, <2>5
    <2>6. CASE ~Early(s)'
      <3>1. s \notin Settled(S) /\ Settled(S) \cup {s} \subseteq Settled(S)'
        BY <1>5, <1>8, <2>6 DEF Settled
      <3>2. Cardinality(Settled(S) \cup {s}) = Cardinality(Settled(S)) + 1
        BY <1>2, <3>1, FS_AddElement
      <3>3. Cardinality(Settled(S) \cup {s}) <= Cardinality(Settled(S)')
        BY <1>3, <3>1, FS_Subset
      <3> QED BY <1>1, <1>2, <1>3, <2>4, <3>2, <3>3
    <2> QED BY <1>8, <2>5, <2>6
  <1>9. \/ RowsTold(S)' = RowsTold(S)
        \/ rows' = Append(rows, [of |-> s, by |-> "told"]) /\ s \in S
    <2>1. CASE UNCHANGED rows
      BY <2>1 DEF RowsTold
    <2>2. ASSUME NEW x \in {"told", "model"}, rows' = Append(rows, [of |-> s, by |-> x]),
                 x = "model" \/ s \notin S
          PROVE  RowsTold(S)' = RowsTold(S)
      <3>1. /\ DOMAIN rows' = 1..(Len(rows) + 1) /\ Len(rows) \in Nat
            /\ DOMAIN rows = 1..Len(rows)
            /\ \A i \in 1..Len(rows) : rows'[i] = rows[i]
            /\ rows'[Len(rows) + 1].of = s /\ rows'[Len(rows) + 1].by = x
        BY <1>1, <2>2, AppendRow, RowFacts
      <3>2. Len(rows) + 1 \notin RowsTold(S)'
        BY <2>2, <3>1 DEF RowsTold
      <3> QED BY <3>1, <3>2 DEF RowsTold
    <2> QED BY <2>1, <2>2 DEF Shape
  <1> QED BY <1>7, <1>8, <1>9 DEF Shape

LEMMA WrittenKept ==
    ASSUME WindowIInv, NEW s \in Story, Shape(s)
    PROVE  WrittenOK'
  <1> SUFFICES ASSUME NEW p \in Story, Written(p)'
               PROVE  RowsOf(p, "told")' # {}
    BY DEF WrittenOK
  <1>1. TypeOK
    BY DEF WindowIInv, IInv
  <1>2. CASE Written(p)
    <2>1. RowsOf(p, "told") # {}
      BY <1>2 DEF WindowIInv, WrittenOK
    <2>2. RowsOf(p, "told") \subseteq RowsOf(p, "told")'
      <3>1. CASE UNCHANGED rows
        BY <3>1, SameRows
      <3>2. ASSUME NEW x \in {"told", "model"}, rows' = Append(rows, [of |-> s, by |-> x])
            PROVE  RowsOf(p, "told") \subseteq RowsOf(p, "told")'
        BY <1>1, <3>2, AppendRow
      <3> QED BY <3>1, <3>2 DEF Shape
    <2> QED BY <2>1, <2>2
  <1>3. CASE ~Written(p)
    <2>1. p = s /\ rows' = Append(rows, [of |-> s, by |-> "told"])
      BY <1>3 DEF Shape, Written
    <2>2. RowsOf(s, "told")' = RowsOf(s, "told") \cup {Len(rows) + 1}
      BY <1>1, <2>1, AppendRow
    <2> QED BY <2>1, <2>2
  <1> QED BY <1>2, <1>3

LEMMA InitWindowIInv == Init => WindowIInv
  <1> SUFFICES ASSUME Init PROVE WindowIInv
    OBVIOUS
  <1>1. /\ rows = <<>> /\ faults = 0 /\ \A s \in Story : at[s] = "idle" /\ phase[s] = "new"
    BY DEF Init, Jobs!Init, Job
  <1>2. IInv
    BY InitIInv
  <1>3. RepeatsOK
    <2> SUFFICES ASSUME NEW S \in SUBSET Story
                 PROVE  Cardinality(RowsTold(S)) <= Cardinality(Settled(S)) + faults
      BY DEF RepeatsOK
    <2>1. RowsTold(S) = {} /\ Cardinality({}) = 0
      BY <1>1, FS_EmptySet DEF RowsTold
    <2>2. Cardinality(Settled(S)) \in Nat
      BY <1>2, FiniteSets DEF IInv
    <2> QED BY <1>1, <2>1, <2>2
  <1>4. WrittenOK
    BY <1>1 DEF WrittenOK, Written
  <1> QED BY <1>2, <1>3, <1>4 DEF WindowIInv

LEMMA NextPreservesWindowIInv == ASSUME WindowIInv, [Next]_vars PROVE WindowIInv'
  <1>1. IInv' /\ TypeOK'
    <2>1. IInv'
      BY NextPreservesIInv DEF WindowIInv
    <2> QED BY <2>1 DEF IInv
  <1>2. CASE \E s \in Story : Shape(s)
    BY <1>1, <1>2, RepeatsKept, WrittenKept DEF WindowIInv
  <1>3. CASE UNCHANGED vars
    <2>1. /\ \A S : RowsTold(S)' = RowsTold(S) /\ Settled(S)' = Settled(S)
          /\ faults' = faults
      BY <1>3 DEF vars, RowsTold, Settled, Early
    <2>2. RepeatsOK'
      BY <2>1 DEF WindowIInv, RepeatsOK
    <2>3. WrittenOK'
      BY <1>3 DEF WindowIInv, WrittenOK, Written, RowsOf, vars
    <2> QED BY <1>1, <2>2, <2>3 DEF WindowIInv
  <1>4. CASE Next
    <2>1. IInv
      BY DEF WindowIInv
    <2>2. CASE Commit
      BY <1>2, <2>1, <2>2, CommitShape
    <2>3. ASSUME NEW s \in Story, WorkerStep(s) PROVE Shape(s)
      BY <2>1, <2>3, MoveShape, InsertShape DEF WorkerStep
    <2> QED BY <1>2, <1>4, <2>2, <2>3 DEF Next
  <1> QED BY <1>3, <1>4

(* The invariant of windows, in any number of stories and of failures.     *)
THEOREM WindowInductive == Spec => []WindowIInv
  BY InitWindowIInv, NextPreservesWindowIInv, PTL DEF Spec

(***************************************************************************)
(* Any rows are about at least half as many stories, but for the repeated: *)
(* of every story there is one sentence, and what its beginning is there   *)
(* more than once is paid for by a failure.                                *)
(***************************************************************************)
LEMMA RowsNeedStories ==
    ASSUME WindowIInv, NEW I \in SUBSET DOMAIN rows
    PROVE  LET Q == {rows[i].of : i \in I} IN
           /\ IsFiniteSet(I) /\ Cardinality(I) \in Nat
           /\ Q \in SUBSET Story /\ IsFiniteSet(Q) /\ Cardinality(Q) \in Nat
           /\ Cardinality(I) <= 2 * Cardinality(Q) + faults
  <1> DEFINE Q == {rows[i].of : i \in I}
             T == {i \in I : rows[i].by = "told"}
             M == {i \in I : rows[i].by = "model"}
             f == [i \in M |-> rows[i].of]
  <1>1. TypeOK /\ LastOK /\ faults \in Nat
    BY Types, Constants DEF WindowIInv, IInv
  <1>2. DOMAIN rows = 1..Len(rows) /\ Len(rows) \in Nat /\ \A i \in DOMAIN rows : rows[i] \in Row
    BY <1>1, Types
  <1>3. IsFiniteSet(I)
    <2>1. IsFiniteSet(DOMAIN rows)
      BY <1>2, FS_Interval
    <2> QED BY <2>1, FS_Subset
  <1>4. Q \in SUBSET Story
    BY <1>2 DEF Row
  <1>5. IsFiniteSet(Q) /\ Cardinality(Q) \in Nat
    BY <1>1, <1>4, FiniteSets
  <1>6. I = T \cup M /\ T \cap M = {}
    BY <1>2 DEF Row
  <1>7. IsFiniteSet(T) /\ IsFiniteSet(M)
    BY <1>3, <1>6, FS_Subset
  <1>8. Cardinality(T) <= Cardinality(Q) + faults
    <2>1. T \subseteq RowsTold(Q)
      BY DEF RowsTold
    <2>2. /\ IsFiniteSet(RowsTold(Q)) /\ Cardinality(RowsTold(Q)) \in Nat
          /\ Cardinality(Settled(Q)) \in Nat /\ Cardinality(Settled(Q)) <= Cardinality(Q)
      BY <1>1, <1>4, FiniteSets
    <2>3. Cardinality(RowsTold(Q)) <= Cardinality(Settled(Q)) + faults
      BY <1>4 DEF WindowIInv, RepeatsOK
    <2>4. Cardinality(T) <= Cardinality(RowsTold(Q)) /\ Cardinality(T) \in Nat
      BY <1>7, <2>1, <2>2, FS_Subset, FS_CardinalityType
    <2> HIDE DEF T, Q
    <2> QED BY <1>1, <1>5, <2>2, <2>3, <2>4
  <1>9. Cardinality(M) <= Cardinality(Q)
    <2>1. \A i \in M : i \in RowsOf(rows[i].of, "model") /\ rows[i].of \in Story
      BY <1>2 DEF Row, RowsOf
    <2>2. ASSUME NEW i \in M, NEW j \in M, rows[i].of = rows[j].of PROVE i = j
      <3>1. i <= j /\ j <= i
        BY <1>1, <2>1, <2>2 DEF LastOK
      <3> QED BY <1>2, <3>1
    <2>3. f \in [M -> Q]
      OBVIOUS
    <2>4. f \in Injection(M, Q)
      BY <2>2, <2>3 DEF Injection, IsInjective
    <2> QED BY <1>5, <2>4, FS_Injection
  <1>10. Cardinality(I) = Cardinality(T) + Cardinality(M)
    <2>1. Cardinality(T \cap M) = 0
      BY <1>6, FS_EmptySet
    <2>2. Cardinality(T) \in Nat /\ Cardinality(M) \in Nat
      BY <1>7, FS_CardinalityType
    <2> HIDE DEF T, M
    <2>3. Cardinality(T \cup M) = Cardinality(T) + Cardinality(M) - Cardinality(T \cap M)
      BY <1>7, FS_Union
    <2> QED BY <1>6, <2>1, <2>2, <2>3
  <1>11. Cardinality(T) \in Nat /\ Cardinality(M) \in Nat /\ Cardinality(I) \in Nat
    BY <1>3, <1>7, FS_CardinalityType
  <1> HIDE DEF T, M, Q
  <1>12. Cardinality(I) <= 2 * Cardinality(Q) + faults
    BY <1>1, <1>5, <1>8, <1>9, <1>10, <1>11
  <1> QED BY <1>3, <1>4, <1>5, <1>11, <1>12 DEF Q

(* The newest n rows are n rows, or all of them.                           *)
LEMMA NewestRows ==
    ASSUME TypeOK, NEW n \in Nat
    PROVE  /\ Newest(n) \in SUBSET DOMAIN rows
           /\ Cardinality(Newest(n)) = n \/ Newest(n) = DOMAIN rows
           /\ Len(rows) >= n => Cardinality(Newest(n)) = n
  <1>1. DOMAIN rows = 1..Len(rows) /\ Len(rows) \in Nat
    BY Types
  <1>2. CASE Len(rows) >= n
    <2>1. Newest(n) = (Len(rows) - n + 1)..Len(rows)
      BY <1>1, <1>2 DEF Newest
    <2>2. Cardinality((Len(rows) - n + 1)..Len(rows)) = n
      <3> DEFINE a == Len(rows) - n + 1
      <3>1. a \in Int /\ Len(rows) \in Int /\ Len(rows) - a + 1 = n /\ (a > Len(rows) => n = 0)
        BY <1>1, <1>2
      <3> HIDE DEF a
      <3>2. Cardinality(a..Len(rows)) = IF a > Len(rows) THEN 0 ELSE Len(rows) - a + 1
        BY <3>1, FS_Interval
      <3> QED BY <3>1, <3>2 DEF a
    <2>3. Newest(n) \in SUBSET DOMAIN rows
      BY DEF Newest
    <2>4. Cardinality(Newest(n)) = n
      BY <2>1, <2>2
    <2> QED BY <2>3, <2>4
  <1>3. CASE Len(rows) < n
    BY <1>1, <1>3 DEF Newest
  <1> QED BY <1>1, <1>2, <1>3

(***************************************************************************)
(* For every window and any failures: a story whose job is done is passed  *)
(* over only after half a window of other stories, less the repeated rows. *)
(***************************************************************************)
THEOREM WhatIsMissingWasCrowdedOut == Spec => []MissingIsExplained
  <1>1. ASSUME WindowIInv PROVE MissingIsExplained
    <2> SUFFICES ASSUME NEW s \in 1..last, About(s) = {},
                        ~(phase[s] # "done" /\ RowsOf(s, "told") = {})
                 PROVE  2 * Cardinality(ToldAfter(s)) + faults >= Window
      BY DEF MissingIsExplained
    <2>1. TypeOK /\ s \in Story /\ faults \in Nat /\ Window \in Nat
      BY <1>1, Types, Constants DEF WindowIInv, IInv, Story
    <2>2. RowsOf(s, "told") # {}
      BY <1>1, <2>1 DEF WindowIInv, WrittenOK, Written
    <2>3. PICK k \in DOMAIN rows : rows[k].of = s
      BY <2>2 DEF RowsOf
    <2>4. Len(rows) \in Nat /\ DOMAIN rows = 1..Len(rows)
      BY <2>1, Types
    <2>5. \A i \in DOMAIN rows : rows[i].of = s => i <= Len(rows) - Window
      BY <2>1, <2>4 DEF About, Newest
    <2>6. Cardinality(Newest(Window)) = Window /\ Newest(Window) \in SUBSET DOMAIN rows
      <3>1. Len(rows) >= Window
        BY <2>1, <2>3, <2>4, <2>5
      <3> QED BY <2>1, <3>1, NewestRows
    <2> DEFINE Q == {rows[i].of : i \in Newest(Window)}
               A == {i \in DOMAIN rows : \A j \in DOMAIN rows : rows[j].of = s => j < i}
    <2>7. Newest(Window) \subseteq A
      BY <2>1, <2>4, <2>5 DEF Newest
    <2>8. ToldAfter(s) = {rows[i].of : i \in A}
      BY DEF ToldAfter
    <2>9. IsFiniteSet(ToldAfter(s)) /\ Cardinality(ToldAfter(s)) \in Nat
      BY <1>1, <2>8, RowsNeedStories
    <2>10. Q \subseteq ToldAfter(s)
      BY <2>7, <2>8
    <2>11. Cardinality(Q) \in Nat /\ Window <= 2 * Cardinality(Q) + faults
      BY <1>1, <2>6, RowsNeedStories
    <2>12. Cardinality(Q) <= Cardinality(ToldAfter(s))
      BY <2>9, <2>10, FS_Subset
    <2> HIDE DEF Q
    <2> QED BY <2>1, <2>9, <2>11, <2>12
  <1> QED BY <1>1, WindowInductive, PTL

(***************************************************************************)
(* For every number of slots: the Selector's rows are about at least half  *)
(* as many stories, less one for every two repeated rows, and it leaves no *)
(* slot free while it passes a story over.                                 *)
(***************************************************************************)
THEOREM HintsAreSpread == Spec => []HintsCoverStories
  <1>1. ASSUME WindowIInv PROVE HintsCoverStories
    <2>1. TypeOK /\ Slots \in Nat
      BY <1>1, MemoriesAssumption DEF WindowIInv, IInv
    <2>2. /\ BuildContext \in SUBSET DOMAIN rows
          /\ Cardinality(BuildContext) = Slots \/ BuildContext = DOMAIN rows
      BY <2>1, NewestRows DEF BuildContext
    <2>3. Cardinality(BuildContext) <= 2 * Cardinality({rows[i].of : i \in BuildContext}) + faults
      BY <1>1, <2>2, RowsNeedStories
    <2>4. ASSUME Cardinality(BuildContext) < Slots, NEW i \in DOMAIN rows
          PROVE  rows[i].of \in {rows[j].of : j \in BuildContext}
      <3>1. BuildContext = DOMAIN rows
        BY <2>1, <2>2, <2>4
      <3> QED BY <3>1
    <2> QED BY <2>3, <2>4 DEF HintsCoverStories
  <1> QED BY <1>1, WindowInductive, PTL
=============================================================================
