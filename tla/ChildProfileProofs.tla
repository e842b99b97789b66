-------------------------- MODULE ChildProfileProofs --------------------------
(***************************************************************************)
(* Proofs about ChildProfile and the checks of Safety, for any words, any  *)
(* order of the rule list, any names, requests and number of writes.       *)
(* IInv is the inductive invariant: the copy a request is about to save    *)
(* agrees with the row, but for its column, as long as nobody wrote in     *)
(* between.                                                                *)
(***************************************************************************)
EXTENDS ChildProfile, FiniteSetTheorems, WellFoundedInduction, TLAPS

Agrees(r) == \A c \in {"nickname", "profile"} :
                 c # column[r] => held[r][c] = row[c]

WritersOK ==
    /\ HasChild => last \in Row
    /\ \A r \in Request : pc[r] \in {"render", "save"} => HasChild
    /\ \A r \in Request : pc[r] = "save" =>
         held[r] \in Row /\ seen[r] <= writes /\ (seen[r] = writes => Agrees(r))

IInv == TypeOK /\ WritersOK /\ LossNeedsOverlap

-----------------------------------------------------------------------------
(* The checks *)

LEMMA LeastExists ==
    ASSUME NEW S \in SUBSET Nat, S # {}
    PROVE  \E n \in S : \A m \in S : n <= m
  <1> DEFINE Less == {p \in Nat \X Nat : p[1] < p[2]}
  <1>1. IsWellFoundedOn(Less, Nat)
    BY NatLessThanWellFounded DEF OpToRel
  <1>2. PICK n \in S : \A m \in S : <<m, n>> \notin Less
    <2> HIDE DEF Less
    <2> QED BY <1>1, WFMin
  <1>3. ASSUME NEW m \in S PROVE n <= m
    <2>1. m \in Nat /\ n \in Nat
      OBVIOUS
    <2>2. ~(m < n)
      <3> SUFFICES ASSUME m < n PROVE FALSE
        OBVIOUS
      <3>1. <<m, n>> \in Nat \X Nat /\ <<m, n>>[1] = m /\ <<m, n>>[2] = n
        BY <2>1
      <3>2. <<m, n>> \in Less
        BY <3>1
      <3> QED BY <1>2, <3>2
    <2> QED BY <2>1, <2>2
  <1> QED BY <1>3

LEMMA MinIsLeast ==
    ASSUME NEW S \in SUBSET Nat, S # {}
    PROVE  Min(S) \in S /\ \A m \in S : Min(S) <= m
  BY LeastExists DEF Min

(* The reason given is that of a check that fails, and of no later one     *)
(* than any other that fails.                                              *)
LEMMA FirstFailingFails ==
    ASSUME NEW n \in Nat, NEW checks, DOMAIN checks = 1..n,
           NEW k \in 1..n, checks[k][2]
    PROVE  \E i \in 1..n : /\ FirstFailing(checks) = checks[i][1]
                           /\ checks[i][2] /\ i <= k
  <1> DEFINE failing == {i \in DOMAIN checks : checks[i][2]}
  <1>1. failing \in SUBSET Nat /\ k \in failing
    OBVIOUS
  <1>2. Min(failing) \in failing /\ Min(failing) <= k
    BY <1>1, MinIsLeast
  <1>3. FirstFailing(checks) = checks[Min(failing)][1]
    BY <1>1 DEF FirstFailing
  <1> QED BY <1>2, <1>3

LEMMA PassesAll ==
    ASSUME NEW n \in Nat, NEW checks, DOMAIN checks = 1..n,
           \A k \in 1..n : checks[k][1] # "pass",
           FirstFailing(checks) = "pass", NEW k \in 1..n
    PROVE  ~checks[k][2]
  <1> SUFFICES ASSUME checks[k][2] PROVE FALSE
    OBVIOUS
  <1>1. PICK i \in 1..n : FirstFailing(checks) = checks[i][1]
    BY FirstFailingFails
  <1> QED BY <1>1

LEMMA ListHasRedline ==
    ASSUME NEW L \in RuleLists
    PROVE  /\ Range(L) = Redline
           /\ DOMAIN L \in SUBSET Nat
           /\ \A i, j \in DOMAIN L : L[i] = L[j] => i = j
  <1>1. IsFiniteSet(Redline)
    BY SafetyAssumption, FS_Union DEF Redline
  <1>2. Cardinality(Redline) \in Nat
    BY <1>1, FS_CardinalityType
  <1>3. L \in Injection(1..Cardinality(Redline), Redline)
        /\ L \in Surjection(1..Cardinality(Redline), Redline)
    BY DEF RuleLists, Bijection
  <1>4. L \in [1..Cardinality(Redline) -> Redline]
    BY <1>3 DEF Injection
  <1>5. Range(L) = Redline
    BY <1>3, <1>4 DEF Surjection, Range
  <1>6. \A i, j \in DOMAIN L : L[i] = L[j] => i = j
    BY <1>3, <1>4 DEF Injection, IsInjective
  <1> QED BY <1>2, <1>4, <1>5, <1>6

LEMMA FirstHit ==
    ASSUME NEW L \in RuleLists, NEW words_, FindAll(L, words_) # {}
    PROVE  \E i \in DOMAIN L :
             /\ FindFirst(L, words_) = L[i] /\ L[i] \in words_
             /\ \A j \in DOMAIN L : L[j] \in words_ => i <= j
  <1> DEFINE hits == {i \in DOMAIN L : L[i] \in words_}
  <1>1. hits \in SUBSET Nat /\ hits # {}
    BY ListHasRedline DEF FindAll, Range
  <1>2. Min(hits) \in hits /\ \A m \in hits : Min(hits) <= m
    BY <1>1, MinIsLeast
  <1> QED BY <1>2 DEF FindFirst

LEMMA PreCheckPasses ==
    ASSUME NEW L \in RuleLists, NEW fears, NEW p \in Prompt, NEW i \in Intent,
           PreCheck(L, fears, p, i) = "pass"
    PROVE  p.words \cap (HardWord \cup BannedIP \cup fears) = {}
  <1> DEFINE checks == <<
        <<"malformed", p.malformed>>,
        <<"redline_matched", FindAll(L, p.words) \ SoftWord # {}>>,
        <<"fear_matched", fears \cap p.words # {}>>,
        <<"ip_blacklisted", BannedIP \cap p.words # {}>>,
        <<"intent_unsafe", i = "unsafe">> >>
  <1>1. DOMAIN checks = 1..5
    OBVIOUS
  <1>2. \A k \in 1..5 : checks[k][1] # "pass"
    OBVIOUS
  <1>3. FirstFailing(checks) = "pass"
    BY DEF PreCheck
  <1>4. ~checks[2][2] /\ ~checks[3][2] /\ ~checks[4][2]
    <2> HIDE DEF checks
    <2>1. 5 \in Nat /\ 2 \in 1..5 /\ 3 \in 1..5 /\ 4 \in 1..5
      OBVIOUS
    <2>2. \A k \in 1..5 : ~checks[k][2]
      BY <1>1, <1>2, <1>3, <2>1, PassesAll, Zenon
    <2> QED BY <2>1, <2>2
  <1>5. FindAll(L, p.words) \ SoftWord = {}
    <2>1. checks[2][2] = (FindAll(L, p.words) \ SoftWord # {})
      OBVIOUS
    <2> QED BY <1>4, <2>1
  <1>6. fears \cap p.words = {} /\ BannedIP \cap p.words = {}
    <2>1. checks[3][2] = (fears \cap p.words # {})
      OBVIOUS
    <2>2. checks[4][2] = (BannedIP \cap p.words # {})
      OBVIOUS
    <2> QED BY <1>4, <2>1, <2>2
  <1>7. p.words \cap HardWord = {}
    BY <1>5, ListHasRedline, SafetyAssumption DEF FindAll, Redline
  <1> QED BY <1>6, <1>7

LEMMA OutlineCheckPasses ==
    ASSUME NEW L \in RuleLists, NEW o \in Outline,
           OutlineCheck(L, {}, {}, {}, o) = "pass"
    PROVE  (o.title \cup o.synopsis) \cap Redline = {}
  <1> DEFINE all == o.title \cup o.synopsis
             checks == <<
        <<"redline", FindAll(L, all) # {}>>,
        <<"fears_personalized", {} \cap all # {}>>,
        <<"protagonist_missing", ~o.named>>,
        <<"ip_misuse", {} \cap o.synopsis # {} \/ {} \cap o.title # {}>> >>
  <1>1. DOMAIN checks = 1..4
    OBVIOUS
  <1>2. \A k \in 1..4 : checks[k][1] # "pass"
    OBVIOUS
  <1>3. FirstFailing(checks) = "pass"
    BY DEF OutlineCheck
  <1>4. ~checks[1][2]
    <2> HIDE DEF checks
    <2>1. 4 \in Nat /\ 1 \in 1..4
      OBVIOUS
    <2>2. \A k \in 1..4 : ~checks[k][2]
      BY <1>1, <1>2, <1>3, <2>1, PassesAll, Zenon
    <2> QED BY <2>1, <2>2
  <1>5. FindAll(L, all) = {}
    <2>1. checks[1][2] = (FindAll(L, all) # {})
      OBVIOUS
    <2> QED BY <1>4, <2>1
  <1> QED BY <1>5, ListHasRedline DEF FindAll

(* A story that ships has no redline hit, or a soft one first.             *)
LEMMA ShipsSoftFirst ==
    ASSUME NEW L \in RuleLists, NEW fears, NEW t \in Story, NEW m \in Minutes,
           Ships(L, fears, t, m), FindAll(L, t.words) # {}
    PROVE  FindFirst(L, t.words) \in SoftWord
  <1> DEFINE checks == <<
        <<"redline_matched", FindAll(L, t.words) # {}>>,
        <<"fear_matched", fears \cap t.words # {}>>,
        <<"child_not_protagonist", ~IsProtagonist(t, m)>>,
        <<"not_continuing", ~t.continues>> >>
  <1>1. DOMAIN checks = 1..4 /\ checks[1][1] = "redline_matched"
    OBVIOUS
  <1>2. checks[1][2]
    OBVIOUS
  <1>3. FirstFailing(checks) = "redline_matched"
    <2> HIDE DEF checks
    <2>1. 4 \in Nat /\ 1 \in 1..4
      OBVIOUS
    <2>2. PICK i \in 1..4 : FirstFailing(checks) = checks[i][1] /\ i <= 1
      BY <1>1, <1>2, <2>1, FirstFailingFails, Zenon
    <2>3. i = 1
      BY <2>2
    <2> QED BY <1>1, <2>2, <2>3
  <1>4. PostCheck(L, fears, t, m) = "redline_matched"
    BY <1>3 DEF PostCheck
  <1> QED BY <1>4 DEF Ships

-----------------------------------------------------------------------------
(* The row *)

(* What a request holds before it has read anything, and may keep of a row. *)
Copy == [nickname : Nickname \cup {NoName}, profile : Profile]

LEMMA Copies ==
    /\ EmptyProfile \in Profile
    /\ NoRow \in Copy /\ Row \subseteq Copy
    /\ NoAnswer \in [name : Nickname \cup {NoName}, fears : SUBSET FearWord]
  <1>1. EmptyProfile \in Profile
    <2> DEFINE filled == {Rendered(n, F) :
                            n \in Nickname \cup {NoName}, F \in SUBSET FearWord}
    <2>1. Profile = {EmptyProfile} \cup filled
      BY DEF Profile
    <2> HIDE DEF filled
    <2> QED BY <2>1
  <1> QED BY <1>1 DEF NoRow, Copy, Row, NoAnswer

LEMMA InitIInv == Init => IInv
  <1> SUFFICES ASSUME Init PROVE IInv
    OBVIOUS
  <1>1. TypeOK
    <2>1. /\ held \in [Request -> Copy]
          /\ answer \in [Request -> [name : Nickname \cup {NoName},
                                     fears : SUBSET FearWord]]
      BY Copies DEF Init
    <2>2. /\ seen \in [Request -> 0..MaxWrites] /\ writes \in 0..MaxWrites
          /\ pc \in [Request -> {"idle", "render", "save", "write", "told", "shown"}]
          /\ column \in [Request -> {"nickname", "profile"}]
          /\ words \in [Request -> SUBSET Word]
      BY ChildAssumption DEF Init
    <2> QED BY <2>1, <2>2 DEF Init, TypeOK, Copy
  <1>2. WritersOK /\ LossNeedsOverlap
    BY DEF Init, WritersOK, LossNeedsOverlap, HasChild
  <1> QED BY <1>1, <1>2 DEF IInv

LEMMA CreateStep ==
    ASSUME IInv, NEW r \in Request, Create(r) PROVE IInv'
  <1>1. row' \in Row /\ last' = row'
    BY Copies DEF Create, Row
  <1>2. HasChild'
    BY <1>1, ChildAssumption DEF HasChild, NoRow, Row
  <1>3. TypeOK'
    BY <1>1 DEF Create, locals, IInv, TypeOK
  <1>4. WritersOK' /\ LossNeedsOverlap'
    BY <1>1, <1>2 DEF Create, locals, IInv, WritersOK, LossNeedsOverlap, Agrees
  <1> QED BY <1>3, <1>4 DEF IInv

LEMMA EditStep ==
    ASSUME IInv, NEW r \in Request, Edit(r) PROVE IInv'
  <1>1. PICK n \in Nickname : Load(r, "nickname", n)
    BY DEF Edit
  <1>2. row \in Row
    BY DEF Edit, IInv, TypeOK, HasChild
  <1>3. held'[r] \in Row /\ held'[r].profile = row.profile
    BY <1>1, <1>2 DEF Load, Row, IInv, TypeOK
  <1>4. TypeOK'
    BY <1>1, <1>3, ChildAssumption DEF Edit, Load, Goto, IInv, TypeOK, Row
  <1>5. WritersOK'
    BY <1>1, <1>3, ChildAssumption
       DEF Edit, Load, Goto, IInv, TypeOK, WritersOK, Agrees, HasChild
  <1>6. LossNeedsOverlap'
    BY DEF Edit, IInv, LossNeedsOverlap
  <1> QED BY <1>4, <1>5, <1>6 DEF IInv

LEMMA SubmitStep ==
    ASSUME IInv, NEW r \in Request, Submit(r) PROVE IInv'
  <1>1. row \in Row
    BY DEF Submit, IInv, TypeOK, HasChild
  <1>2. TypeOK'
    BY <1>1 DEF Submit, Goto, IInv, TypeOK, Row
  <1>3. WritersOK' /\ LossNeedsOverlap'
    BY DEF Submit, Goto, IInv, TypeOK, WritersOK, Agrees, HasChild, LossNeedsOverlap
  <1> QED BY <1>2, <1>3 DEF IInv

LEMMA RenderStep ==
    ASSUME IInv, NEW r \in Request, Render(r) PROVE IInv'
  <1>1. PICK n \in {answer[r].name, NoName} :
            Load(r, "profile", Rendered(n, answer[r].fears))
    BY DEF Render
  <1>2. row \in Row
    BY DEF Render, IInv, WritersOK, TypeOK, HasChild
  <1>3. n \in Nickname \cup {NoName} /\ answer[r].fears \in SUBSET FearWord
    BY <1>1 DEF IInv, TypeOK
  <1>4. Rendered(n, answer[r].fears) \in Profile
    BY <1>3 DEF Profile
  <1>5. held'[r] \in Row /\ held'[r].nickname = row.nickname
    BY <1>1, <1>2, <1>4 DEF Load, Row, IInv, TypeOK
  <1>6. TypeOK'
    BY <1>1, <1>5, ChildAssumption DEF Render, Load, Goto, IInv, TypeOK, Row
  <1>7. WritersOK'
    BY <1>1, <1>5, ChildAssumption
       DEF Render, Load, Goto, IInv, TypeOK, WritersOK, Agrees, HasChild
  <1>8. LossNeedsOverlap'
    BY DEF Render, IInv, LossNeedsOverlap
  <1> QED BY <1>6, <1>7, <1>8 DEF IInv

(* Without an overlap the columns that r did not update are those of the   *)
(* row, which are those of last.                                           *)
LEMMA SaveStep ==
    ASSUME IInv, NEW r \in Request, Save(r) PROVE IInv'
  <1>1. held[r] \in Row /\ last \in Row /\ column[r] \in {"nickname", "profile"}
    BY DEF Save, IInv, WritersOK, TypeOK
  <1>2. row' \in Row /\ last' \in Row
    BY <1>1 DEF Save, Row
  <1>3. HasChild'
    BY <1>2, ChildAssumption DEF HasChild, NoRow, Row
  <1>4. TypeOK'
    BY <1>2, ChildAssumption, Copies DEF Save, End, Goto, IInv, TypeOK, Copy
  <1>5. WritersOK'
    BY <1>2, <1>3, ChildAssumption
       DEF Save, End, Goto, IInv, TypeOK, WritersOK
  <1>6. LossNeedsOverlap'
    <2> SUFFICES ASSUME ~overlapped' PROVE row' = last'
      BY DEF LossNeedsOverlap
    <2>1. row = last /\ seen[r] = writes
      BY DEF Save, IInv, TypeOK, LossNeedsOverlap
    <2>2. Agrees(r)
      BY <2>1 DEF Save, IInv, WritersOK
    <2>3. row'.nickname = last'.nickname /\ row'.profile = last'.profile
      BY <1>1, <2>1, <2>2 DEF Save, Agrees, Row
    <2> QED BY <1>2, <2>3 DEF Row
  <1> QED BY <1>4, <1>5, <1>6 DEF IInv

LEMMA EndStep ==
    ASSUME IInv, NEW r \in Request, Abort(r) \/ Finish(r) PROVE IInv'
  <1>1. End(r) /\ UNCHANGED <<list, row, last, writes, overlapped>>
    BY DEF Abort, Finish
  <1>2. TypeOK'
    <2>1. /\ held' \in [Request -> Copy]
          /\ answer' \in [Request -> [name : Nickname \cup {NoName},
                                      fears : SUBSET FearWord]]
      BY <1>1, Copies DEF End, IInv, TypeOK, Copy
    <2>2. /\ pc' \in [Request -> {"idle", "render", "save", "write", "told", "shown"}]
          /\ column' \in [Request -> {"nickname", "profile"}]
          /\ words' \in [Request -> SUBSET Word]
          /\ seen' \in [Request -> 0..MaxWrites]
      BY <1>1, ChildAssumption DEF End, Goto, IInv, TypeOK
    <2> QED BY <1>1, <2>1, <2>2 DEF IInv, TypeOK, Copy
  <1>3. WritersOK'
    <2>1. \A q \in Request \ {r} :
            /\ pc'[q] = pc[q] /\ held'[q] = held[q]
            /\ column'[q] = column[q] /\ seen'[q] = seen[q]
      BY <1>1 DEF End, Goto, IInv, TypeOK
    <2>2. pc'[r] = "idle"
      BY <1>1 DEF End, Goto, IInv, TypeOK
    <2>3. HasChild' = HasChild /\ last' = last /\ writes' = writes
      BY <1>1 DEF HasChild
    <2>4. \A q \in Request \ {r} : Agrees(q)' = Agrees(q)
      BY <1>1, <2>1 DEF Agrees
    <2> QED BY <2>1, <2>2, <2>3, <2>4 DEF IInv, WritersOK
  <1>4. LossNeedsOverlap'
    BY <1>1 DEF IInv, LossNeedsOverlap
  <1> QED BY <1>2, <1>3, <1>4 DEF IInv

LEMMA ReaderStep ==
    ASSUME IInv, NEW r \in Request, Ask(r) \/ Tell(r) \/ Preview(r) PROVE IInv'
  <1>1. words' \in [Request -> SUBSET Word]
    <2>1. \A W \in Admitted(ExtractFearList(row.profile)) : W \in SUBSET Word
      BY DEF Admitted, Prompt
    <2>2. \A W \in Told(ExtractFearList(held[r].profile)) : W \in SUBSET Word
      BY DEF Told, Story
    <2>3. \A o \in Outline : o.title \cup o.synopsis \in SUBSET Word
      BY DEF Outline
    <2>4. \E W \in SUBSET Word : words' = [words EXCEPT ![r] = W]
      <3>1. CASE Ask(r)
        BY <2>1, <3>1 DEF Ask
      <3>2. CASE Tell(r)
        BY <2>2, <3>2 DEF Tell
      <3>3. CASE Preview(r)
        BY <2>3, <3>3 DEF Preview
      <3> QED BY <3>1, <3>2, <3>3
    <2> QED BY <2>4 DEF IInv, TypeOK
  <1>2. [NoRow EXCEPT !.profile = row.profile]
            \in Copy
    BY Copies DEF IInv, TypeOK, NoRow, Row, Copy
  <1>3. TypeOK'
    <2>1. held' \in [Request -> Copy]
      BY <1>2 DEF Ask, Tell, Preview, Keep, IInv, TypeOK, Copy
    <2>2. pc' \in [Request -> {"idle", "render", "save", "write", "told", "shown"}]
      BY DEF Ask, Tell, Preview, Goto, IInv, TypeOK
    <2>3. UNCHANGED <<list, row, last, column, answer, seen, writes, overlapped>>
      BY DEF Ask, Tell, Preview
    <2> QED BY <1>1, <2>1, <2>2, <2>3 DEF IInv, TypeOK, Copy
  <1>4. WritersOK' /\ LossNeedsOverlap'
    BY DEF Ask, Tell, Preview, Keep, Goto, IInv, TypeOK, WritersOK, Agrees, HasChild,
           LossNeedsOverlap
  <1> QED BY <1>3, <1>4 DEF IInv

LEMMA NextPreserves == IInv /\ [Next]_vars => IInv'
  <1> SUFFICES ASSUME IInv, [Next]_vars PROVE IInv'
    OBVIOUS
  <1>1. ASSUME NEW r \in Request, Step(r) PROVE IInv'
    BY <1>1, CreateStep, EditStep, SubmitStep, RenderStep, SaveStep, EndStep, ReaderStep
       DEF Step
  <1>2. CASE UNCHANGED vars
    BY <1>2 DEF vars, locals, IInv, TypeOK, WritersOK, Agrees, HasChild, LossNeedsOverlap
  <1> QED BY <1>1, <1>2 DEF Next

LEMMA Inductive == Spec => []IInv
  BY InitIInv, NextPreserves, PTL DEF Spec

(***************************************************************************)
(* The state of row and requests has its type.                             *)
(***************************************************************************)
THEOREM TypeCorrect == Spec => []TypeOK
  <1>1. IInv => TypeOK
    BY DEF IInv
  <1> QED BY <1>1, Inductive, PTL

(***************************************************************************)
(* Although an update saves the whole row, it undoes another one only if   *)
(* that was saved after the row had been read (child.go:96).               *)
(***************************************************************************)
THEOREM UpdatesSurvive == Spec => []LossNeedsOverlap
  <1>1. IInv => LossNeedsOverlap
    BY DEF IInv
  <1> QED BY <1>1, Inductive, PTL

-----------------------------------------------------------------------------
(* The texts *)

(* A step moves one request; a text is admitted, told or shown by the step *)
(* of its name alone.                                                      *)
LEMMA OneRequest ==
    ASSUME IInv, NEW r \in Request, Step(r)
    PROVE  /\ list' = list
           /\ \A q \in Request \ {r} :
                pc'[q] = pc[q] /\ words'[q] = words[q] /\ held'[q] = held[q]
           /\ pc'[r] = "write" => Ask(r)
           /\ pc'[r] = "told" => Tell(r)
           /\ pc'[r] = "shown" => Preview(r)
  <1>1. CASE Create(r) \/ Submit(r)
    BY <1>1 DEF Create, Submit, Goto, locals, IInv, TypeOK
  <1>2. CASE Edit(r) \/ Render(r)
    BY <1>2 DEF Edit, Render, Load, Goto, IInv, TypeOK
  <1>3. CASE Save(r) \/ Abort(r) \/ Finish(r)
    BY <1>3 DEF Save, Abort, Finish, End, Goto, IInv, TypeOK
  <1>4. CASE Ask(r) \/ Tell(r) \/ Preview(r)
    BY <1>4 DEF Ask, Tell, Preview, Keep, Goto, IInv, TypeOK
  <1> QED BY <1>1, <1>2, <1>3, <1>4 DEF Step

LEMMA AdmittedWords ==
    ASSUME NEW L \in RuleLists, list = L, NEW fears, NEW W \in Admitted(fears)
    PROVE  W \cap (HardWord \cup BannedIP \cup fears) = {}
  <1>1. PICK p \in Prompt : /\ W = p.words
                            /\ \E i \in Intent : PreCheck(L, fears, p, i) = "pass"
    BY DEF Admitted
  <1> QED BY <1>1, PreCheckPasses

LEMMA CleanStep ==
    ASSUME IInv, AdmittedIsClean, NEW r \in Request, Step(r)
    PROVE  AdmittedIsClean'
  <1> SUFFICES ASSUME NEW q \in Request
               PROVE  /\ pc'[q] = "write" =>
                           words'[q] \cap (HardWord \cup BannedIP
                               \cup ExtractFearList(held'[q].profile)) = {}
                      /\ pc'[q] = "shown" => words'[q] \cap Redline = {}
    BY DEF AdmittedIsClean
  <1>1. CASE q # r
    BY <1>1, OneRequest DEF AdmittedIsClean
  <1>2. ASSUME q = r, pc'[r] = "write"
        PROVE  words'[r] \cap (HardWord \cup BannedIP
                   \cup ExtractFearList(held'[r].profile)) = {}
    <2>1. Ask(r) /\ list \in RuleLists
      BY <1>2, OneRequest DEF IInv, TypeOK
    <2>2. held'[r].profile = row.profile
      BY <2>1 DEF Ask, Keep, NoRow, IInv, TypeOK
    <2>3. PICK W \in Admitted(ExtractFearList(row.profile)) : words'[r] = W
      BY <2>1 DEF Ask, IInv, TypeOK
    <2>4. W \cap (HardWord \cup BannedIP \cup ExtractFearList(row.profile)) = {}
      BY <2>1, AdmittedWords
    <2> QED BY <2>2, <2>3, <2>4
  <1>3. ASSUME q = r, pc'[r] = "shown" PROVE words'[r] \cap Redline = {}
    <2>1. Preview(r) /\ list \in RuleLists
      BY <1>3, OneRequest DEF IInv, TypeOK
    <2>2. PICK o \in Outline : /\ OutlineCheck(list, {}, {}, {}, o) = "pass"
                               /\ words'[r] = o.title \cup o.synopsis
      BY <2>1 DEF Preview, IInv, TypeOK
    <2> QED BY <2>1, <2>2, OutlineCheckPasses
  <1> QED BY <1>1, <1>2, <1>3

(***************************************************************************)
(* No prompt with a hard word, a character of the blacklist or a fear that *)
(* was found reaches the model, and no outline with a redline word is      *)
(* shown, whatever the order of the list (precheck.go:93,                  *)
(* safety_check.go:53).                                                    *)
(***************************************************************************)
THEOREM OnlyCleanIsAdmitted == Spec => []AdmittedIsClean
  <1>1. Init => AdmittedIsClean
    BY DEF Init, AdmittedIsClean
  <1>2. IInv /\ AdmittedIsClean /\ [Next]_vars => AdmittedIsClean'
    <2> SUFFICES ASSUME IInv, AdmittedIsClean, [Next]_vars PROVE AdmittedIsClean'
      OBVIOUS
    <2>1. CASE Next
      BY <2>1, CleanStep DEF Next
    <2>2. CASE UNCHANGED vars
      BY <2>2 DEF vars, locals, AdmittedIsClean
    <2> QED BY <2>1, <2>2
  <1> QED BY <1>1, <1>2, Inductive, PTL DEF Spec

-----------------------------------------------------------------------------

At(L, w) == CHOOSE i \in DOMAIN L : L[i] = w

Masked(L, W) ==
    \A w \in W \cap HardWord : \E v \in W \cap SoftWord : At(L, v) < At(L, w)

LEMMA AtIsWhere ==
    ASSUME NEW L \in RuleLists, NEW i \in DOMAIN L
    PROVE  At(L, L[i]) = i
  BY ListHasRedline DEF At

LEMMA ToldIsMasked ==
    ASSUME NEW fears, list \in RuleLists, NEW W \in Told(fears)
    PROVE  Masked(list, W)
  <1> SUFFICES ASSUME NEW w \in W, w \in HardWord
               PROVE  \E v \in W \cap SoftWord : At(list, v) < At(list, w)
    BY DEF Masked
  <1>1. PICK t \in Story, m \in Minutes : W = t.words /\ Ships(list, fears, t, m)
    BY DEF Told
  <1>2. PICK k \in DOMAIN list : list[k] = w
    BY ListHasRedline DEF Redline, Range
  <1>3. w \in FindAll(list, W)
    BY <1>2 DEF FindAll, Range
  <1>4. PICK i \in DOMAIN list :
          /\ FindFirst(list, W) = list[i]
          /\ list[i] \in W
          /\ \A j \in DOMAIN list : list[j] \in W => i <= j
    BY <1>3, FirstHit
  <1>5. list[i] \in SoftWord
    BY <1>1, <1>3, <1>4, ShipsSoftFirst
  <1>6. i # k /\ i <= k /\ i \in Nat /\ k \in Nat
    BY <1>2, <1>4, <1>5, SafetyAssumption, ListHasRedline
  <1> QED BY <1>2, <1>4, <1>5, <1>6, AtIsWhere

LEMMA MaskedIs ==
    /\ HardIsMasked <=>
          \A r \in Request : pc[r] = "told" => Masked(list, words[r])
    /\ HardIsMasked' <=>
          \A r \in Request : pc'[r] = "told" => Masked(list', words'[r])
  BY Zenon DEF HardIsMasked, Position, Masked, At

(***************************************************************************)
(* A hard word is told only behind a soft one of the list, whatever the    *)
(* words and the order: the stop at the first hit (postcheck.go:60) is the *)
(* only way past the post-check.                                           *)
(***************************************************************************)
THEOREM HardNeedsSoft == Spec => []HardIsMasked
  <1>1. Init => HardIsMasked
    BY DEF Init, HardIsMasked
  <1>2. IInv /\ HardIsMasked /\ [Next]_vars => HardIsMasked'
    <2> SUFFICES ASSUME IInv, HardIsMasked, [Next]_vars,
                        NEW q \in Request, pc'[q] = "told"
                 PROVE  Masked(list', words'[q])
      BY MaskedIs
    <2>1. ASSUME NEW r \in Request, Step(r), q # r PROVE Masked(list', words'[q])
      BY <2>1, OneRequest, MaskedIs
    <2>2. ASSUME Step(q) PROVE Masked(list', words'[q])
      <3>1. Tell(q) /\ list' = list /\ list \in RuleLists
        BY <2>2, OneRequest DEF IInv, TypeOK
      <3>2. PICK W \in Told(ExtractFearList(held[q].profile)) : words'[q] = W
        BY <3>1 DEF Tell, IInv, TypeOK
      <3> QED BY <3>1, <3>2, ToldIsMasked
    <2>3. CASE UNCHANGED vars
      BY <2>3, MaskedIs DEF vars, locals
    <2> QED BY <2>1, <2>2, <2>3 DEF Next
  <1> QED BY <1>1, <1>2, Inductive, PTL DEF Spec
=============================================================================
