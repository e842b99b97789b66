---------------------------- MODULE AccessProofs ----------------------------
(***************************************************************************)
(* Proofs about what stands between a person and the system: Login,        *)
(* RateLimit and AppSession, for any phones and requests, windows, limits  *)
(* and calls, users, tokens and clicks.  The three share no variable; each *)
(* part has an inductive invariant of its own: LoginIInv, RateIInv, IInv.  *)
(***************************************************************************)
EXTENDS Login, RateLimit, AppSession, FiniteSetTheorems, TLAPS

(***************************************************************************)
(* Login.  Users are unique by phone, a Save that is under way still has   *)
(* its cooldown, a code belongs to its phone, and a spent save is over and *)
(* not stored.                                                             *)
(***************************************************************************)
(* Who returned tokens returned those of a user with its phone, and there  *)
(* is one such user.                                                       *)
UsersOK ==
    /\ \A u, v \in users : PhoneOf[u] = PhoneOf[v] => u = v
    /\ \A l \in Attempt : pc[l] = "done" =>
         account[l] \in users /\ PhoneOf[account[l]] = PhoneOf[l]

Over(s) == pc[s] \in {"done", "failed"}

(* A stored or a matched save was made for the phone, and is not made again. *)
SavesOK ==
    /\ \A p \in Phone : code[p] # None => PhoneOf[code[p]] = p /\ Over(code[p])
    /\ \A l \in Attempt : seen[l] # None => PhoneOf[seen[l]] = PhoneOf[l] /\ Over(seen[l])
    /\ \A l \in Attempt : pc[l] = "matched" => seen[l] # None

(* The cooldown outlives its Save, and a stored code its cooldown only by  *)
(* being in cooled.                                                        *)
CooldownOK ==
    /\ \A p \in Phone : cooldown[p] # None => PhoneOf[cooldown[p]] = p
    /\ \A s \in Sender : pc[s] = "cooling" => cooldown[PhoneOf[s]] = s
    /\ \A p \in Phone : code[p] # None => code[p] \in cooled \/ cooldown[p] = code[p]

(* While the cooldown of the code it matched lasts, a login finds that code *)
(* or none.                                                                *)
MatchedOK ==
    \A l \in Attempt : pc[l] = "matched" /\ seen[l] \notin cooled =>
        /\ cooldown[PhoneOf[l]] = seen[l]
        /\ code[PhoneOf[l]] \in {seen[l], None}

SpentOK ==
    \A s \in spent : Over(s) /\ \A p \in Phone : code[p] # s

LoginIInv ==
    /\ LoginTypeOK
    /\ UsersOK
    /\ SavesOK
    /\ CooldownOK
    /\ MatchedOK
    /\ SpentOK

-----------------------------------------------------------------------------

LEMMA InitLoginIInv == LoginInit => LoginIInv
  BY LoginAssumption
     DEF LoginInit, LoginIInv, LoginTypeOK, UsersOK, SavesOK, CooldownOK, MatchedOK, SpentOK, Over,
         SenderPC, AttemptPC

LEMMA SetCooldownStep ==
    ASSUME LoginIInv, NEW s \in Sender, SetCooldown(s) PROVE LoginIInv'
  BY LoginAssumption
     DEF SetCooldown, At, logins, LoginIInv, LoginTypeOK, UsersOK, SavesOK, CooldownOK,
         MatchedOK, SpentOK, Over, SenderPC, AttemptPC

LEMMA SetCodeStep ==
    ASSUME LoginIInv, NEW s \in Sender, SetCode(s) PROVE LoginIInv'
  BY LoginAssumption
     DEF SetCode, At, logins, LoginIInv, LoginTypeOK, UsersOK, SavesOK, CooldownOK,
         MatchedOK, SpentOK, Over, SenderPC, AttemptPC

LEMMA SaveFailsStep ==
    ASSUME LoginIInv, NEW s \in Sender, SaveFails(s) PROVE LoginIInv'
  BY LoginAssumption
     DEF SaveFails, Fault, At, logins, LoginIInv, LoginTypeOK, UsersOK, SavesOK, CooldownOK,
         MatchedOK, SpentOK, Over, SenderPC, AttemptPC

LEMMA ExpiryStep ==
    ASSUME LoginIInv, NEW p \in Phone, CooldownExpires(p) \/ CodeExpires(p) PROVE LoginIInv'
  BY LoginAssumption
     DEF CooldownExpires, CodeExpires, logins, LoginIInv, LoginTypeOK, UsersOK, SavesOK,
         CooldownOK, MatchedOK, SpentOK, Over, SenderPC, AttemptPC

LEMMA PeekStep ==
    ASSUME LoginIInv, NEW l \in Attempt, Peek(l) \/ PeekFails(l) PROVE LoginIInv'
  BY LoginAssumption
     DEF Peek, PeekFails, Fault, At, redis, logins, LoginIInv, LoginTypeOK, UsersOK, SavesOK,
         CooldownOK, MatchedOK, SpentOK, Over, SenderPC, AttemptPC

LEMMA ConsumeStep ==
    ASSUME LoginIInv, NEW l \in Attempt, Consume(l) \/ ConsumeFails(l) PROVE LoginIInv'
  BY LoginAssumption
     DEF Consume, ConsumeFails, Fault, At, redis, logins, LoginIInv, LoginTypeOK, UsersOK, SavesOK,
         CooldownOK, MatchedOK, SpentOK, Over, SenderPC, AttemptPC

LEMMA FindUserStep ==
    ASSUME LoginIInv, NEW l \in Attempt, FindUser(l) \/ SelectFails(l) PROVE LoginIInv'
  BY LoginAssumption
     DEF FindUser, SelectFails, IssueTokens, Registered, Fault, At, redis, logins, LoginIInv,
         LoginTypeOK, UsersOK, SavesOK, CooldownOK, MatchedOK, SpentOK, Over, SenderPC, AttemptPC

LEMMA InsertStep ==
    ASSUME LoginIInv, NEW l \in Attempt, InsertUser(l) \/ InsertFails(l) PROVE LoginIInv'
  BY LoginAssumption
     DEF InsertUser, InsertFails, Registered, Fault, At, redis, logins, LoginIInv,
         LoginTypeOK, UsersOK, SavesOK, CooldownOK, MatchedOK, SpentOK, Over, SenderPC, AttemptPC

LEMMA RefetchStep ==
    ASSUME LoginIInv, NEW l \in Attempt, Refetch(l) PROVE LoginIInv'
  BY LoginAssumption
     DEF Refetch, IssueTokens, Registered, At, redis, logins, LoginIInv,
         LoginTypeOK, UsersOK, SavesOK, CooldownOK, MatchedOK, SpentOK, Over, SenderPC, AttemptPC

LEMMA NextPreservesLoginIInv == LoginIInv /\ [LoginNext]_loginVars => LoginIInv'
  <1> SUFFICES ASSUME LoginIInv, [LoginNext]_loginVars PROVE LoginIInv'
    OBVIOUS
  <1>1. ASSUME NEW s \in Sender, SendSMS(s) PROVE LoginIInv'
    BY <1>1, SetCooldownStep, SetCodeStep, SaveFailsStep DEF SendSMS
  <1>2. ASSUME NEW l \in Attempt, LoginOrRegister(l) PROVE LoginIInv'
    BY <1>2, PeekStep, ConsumeStep, FindUserStep, InsertStep, RefetchStep
       DEF LoginOrRegister
  <1>3. ASSUME NEW p \in Phone, CooldownExpires(p) \/ CodeExpires(p) PROVE LoginIInv'
    BY <1>3, ExpiryStep
  <1>4. CASE UNCHANGED loginVars
    BY <1>4 DEF loginVars, redis, logins, LoginIInv, LoginTypeOK, UsersOK, SavesOK, CooldownOK,
         MatchedOK, SpentOK, Over
  <1> QED BY <1>1, <1>2, <1>3, <1>4 DEF LoginNext

(***************************************************************************)
(* The strengthening holds of every state of SendSMS and LoginOrRegister.  *)
(***************************************************************************)
THEOREM LoginInductive == LoginSpec => []LoginIInv
  <1> QED BY InitLoginIInv, NextPreservesLoginIInv, PTL DEF LoginSpec

(***************************************************************************)
(* The variables of SendSMS and LoginOrRegister keep their types.          *)
(***************************************************************************)
THEOREM LoginTypeCorrect == LoginSpec => []LoginTypeOK
  <1>1. LoginIInv => LoginTypeOK
    BY DEF LoginIInv
  <1> QED BY <1>1, LoginInductive, PTL

(***************************************************************************)
(* CreateOrGet gives every login of a phone the same account, whatever     *)
(* logins race and whatever fails.                                         *)
(***************************************************************************)
THEOREM AccountsAreUnique == LoginSpec => []OneAccountPerPhone
  <1>1. LoginIInv => OneAccountPerPhone
    BY DEF LoginIInv, UsersOK, OneAccountPerPhone
  <1> QED BY <1>1, LoginInductive, PTL

(***************************************************************************)
(* After Consume has succeeded no login matches that save: it is neither   *)
(* stored nor saved again.                                                 *)
(***************************************************************************)
THEOREM SpentCodesAreRefused == LoginSpec => SpentCodeIsRefused
  <1> DEFINE Refused == \A l \in Attempt : seen'[l] # seen[l] => seen'[l] \notin spent
  <1>1. ASSUME LoginIInv, [LoginNext]_loginVars PROVE [Refused]_loginVars
    <2>1. ASSUME NEW l \in Attempt, Peek(l) PROVE Refused
      BY <1>1, <2>1, LoginAssumption DEF Peek, At, LoginIInv, LoginTypeOK, SpentOK
    <2>2. ASSUME ~ \E l \in Attempt : Peek(l) PROVE UNCHANGED seen
      BY <1>1, <2>2
         DEF LoginNext, SendSMS, LoginOrRegister, SetCooldown, SetCode, SaveFails,
             CooldownExpires, CodeExpires, PeekFails, Consume, ConsumeFails, FindUser,
             SelectFails, InsertUser, InsertFails, Refetch, loginVars, logins
    <2> QED BY <2>1, <2>2
  <1> QED BY <1>1, LoginInductive, PTL DEF LoginSpec, SpentCodeIsRefused

(***************************************************************************)
(* A code is overwritten only after its cooldown: whoever may write holds  *)
(* the cooldown, so that of the stored code is over.                       *)
(***************************************************************************)
THEOREM CooldownsGuard == LoginSpec => CooldownGuardsCode
  <1> DEFINE Guarded == \A p \in Phone :
               code[p] # None /\ code'[p] \notin {code[p], None} => code[p] \in cooled
  <1>1. ASSUME LoginIInv, [LoginNext]_loginVars PROVE [Guarded]_loginVars
    <2>1. ASSUME NEW s \in Sender, SetCode(s) \/ SaveFails(s) PROVE Guarded
      BY <1>1, <2>1, LoginAssumption
         DEF SetCode, SaveFails, At, LoginIInv, LoginTypeOK, CooldownOK
    <2>2. ASSUME ~ \E s \in Sender : SetCode(s) \/ SaveFails(s), NEW p \in Phone
          PROVE code'[p] \in {code[p], None}
      BY <1>1, <2>2
         DEF LoginNext, SendSMS, LoginOrRegister, SetCooldown, CooldownExpires, CodeExpires,
             Peek, PeekFails, Consume, ConsumeFails, FindUser, SelectFails, InsertUser,
             InsertFails, Refetch, loginVars, redis, logins, LoginIInv, LoginTypeOK
    <2> QED BY <2>1, <2>2
  <1> QED BY <1>1, LoginInductive, PTL DEF LoginSpec, CooldownGuardsCode

(***************************************************************************)
(* The login that deletes a code it did not match had matched one whose    *)
(* cooldown is over by then: MatchedOK, since Consume is what deletes.     *)
(***************************************************************************)
THEOREM OnlyOldCodesLose == LoginSpec => LostCodeNeedsOldCode
  <1> DEFINE Old == \A l \in Attempt :
               (/\ pc[l] = "matched" /\ pc'[l] = "consumed"
                /\ code[PhoneOf[l]] # None /\ code'[PhoneOf[l]] = None)
               => code[PhoneOf[l]] = seen[l] \/ seen[l] \in cooled
  <1>1. LoginIInv => Old
    BY DEF LoginIInv, MatchedOK
  <1> QED BY <1>1, LoginInductive, PTL DEF LostCodeNeedsOldCode

-----------------------------------------------------------------------------

(***************************************************************************)
(* Every failed login is charged to an error: so is one whose INSERT       *)
(* failed and that will find no user, which it pays for in advance.        *)
(***************************************************************************)
Charged == {l \in Attempt : \/ pc[l] = "failed"
                            \/ pc[l] = "not_inserted" /\ Registered(l) = {}}

ChargedOK == Cardinality(Charged) <= faults

LEMMA ChargedIsFinite == IsFiniteSet(Charged) /\ IsFiniteSet(Charged')
  BY LoginAssumption, FS_Subset DEF Charged

(* A step that charges nobody new, or one login and one error.             *)
LEMMA ChargeOne ==
    ASSUME LoginTypeOK, ChargedOK, faults' \in Nat,
           \/ Charged' \subseteq Charged /\ faults' = faults
           \/ faults' = faults + 1 /\ \E l \in Attempt : Charged' \subseteq Charged \cup {l}
    PROVE  ChargedOK'
  <1> USE ChargedIsFinite
  <1>1. Cardinality(Charged) \in Nat /\ Cardinality(Charged') \in Nat /\ faults \in Nat
    BY FS_CardinalityType DEF LoginTypeOK
  <1>2. CASE Charged' \subseteq Charged /\ faults' = faults
    <2>1. Cardinality(Charged') <= Cardinality(Charged)
      BY <1>2, FS_Subset
    <2> QED BY <1>1, <1>2, <2>1 DEF ChargedOK
  <1>3. ASSUME faults' = faults + 1, NEW l \in Attempt, Charged' \subseteq Charged \cup {l}
        PROVE  ChargedOK'
    <2>1. /\ IsFiniteSet(Charged \cup {l})
          /\ Cardinality(Charged \cup {l}) <= Cardinality(Charged) + 1
      <3>1. /\ IsFiniteSet(Charged \cup {l})
            /\ Cardinality(Charged \cup {l}) =
                 IF l \in Charged THEN Cardinality(Charged) ELSE Cardinality(Charged) + 1
        BY FS_AddElement
      <3> QED BY <1>1, <3>1
    <2>2. Cardinality(Charged') <= Cardinality(Charged \cup {l})
      BY <1>3, <2>1, FS_Subset
    <2>3. Cardinality(Charged \cup {l}) \in Nat
      BY <2>1, FS_CardinalityType
    <2> QED BY <1>1, <1>3, <2>1, <2>2, <2>3 DEF ChargedOK
  <1> QED BY <1>2, <1>3

LEMMA NextPreservesCharged == LoginIInv /\ ChargedOK /\ [LoginNext]_loginVars => ChargedOK'
  <1> SUFFICES ASSUME LoginIInv, ChargedOK, [LoginNext]_loginVars PROVE ChargedOK'
    OBVIOUS
  <1>1. LoginTypeOK /\ LoginTypeOK' /\ faults \in Nat /\ faults' \in Nat
    BY NextPreservesLoginIInv, LoginAssumption DEF LoginIInv, LoginTypeOK
  <1>2. ASSUME NEW s \in Sender, SendSMS(s)
        PROVE  Charged' = Charged /\ faults' \in {faults, faults + 1}
    BY <1>1, <1>2, LoginAssumption
       DEF SendSMS, SetCooldown, SetCode, SaveFails, Fault, At, logins, Charged, Registered,
           LoginTypeOK
  <1>3. ASSUME NEW l \in Attempt, Peek(l) \/ Consume(l) \/ FindUser(l) \/ InsertUser(l) \/ Refetch(l)
        PROVE  Charged' \subseteq Charged /\ faults' = faults
    BY <1>1, <1>3, LoginAssumption
       DEF Peek, Consume, FindUser, InsertUser, Refetch, IssueTokens, At, redis, Charged,
           Registered, LoginTypeOK
  <1>4. ASSUME NEW l \in Attempt,
               PeekFails(l) \/ ConsumeFails(l) \/ SelectFails(l) \/ InsertFails(l)
        PROVE  Charged' \subseteq Charged \cup {l} /\ faults' = faults + 1
    BY <1>1, <1>4, LoginAssumption
       DEF PeekFails, ConsumeFails, SelectFails, InsertFails, Fault, At, redis, logins,
           Charged, Registered, LoginTypeOK
  <1>5. ASSUME NEW p \in Phone, CooldownExpires(p) \/ CodeExpires(p)
        PROVE  Charged' = Charged /\ faults' = faults
    BY <1>5 DEF CooldownExpires, CodeExpires, logins, Charged, Registered
  <1>6. CASE UNCHANGED loginVars
    <2>1. Charged' = Charged /\ faults' = faults
      BY <1>6 DEF loginVars, logins, Charged, Registered
    <2> QED BY <1>1, <2>1, ChargeOne
  <1>7. ASSUME NEW s \in Sender, SendSMS(s) PROVE ChargedOK'
    BY <1>1, <1>2, <1>7, FS_CardinalityType, ChargedIsFinite DEF ChargedOK
  <1>8. ASSUME NEW l \in Attempt, LoginOrRegister(l) PROVE ChargedOK'
    BY <1>1, <1>3, <1>4, <1>8, ChargeOne DEF LoginOrRegister
  <1>9. ASSUME NEW p \in Phone, CooldownExpires(p) \/ CodeExpires(p) PROVE ChargedOK'
    BY <1>1, <1>5, <1>9, ChargeOne
  <1> QED BY <1>6, <1>7, <1>8, <1>9 DEF LoginNext

(***************************************************************************)
(* No race fails a login: LoginOrRegister fails at most once for every     *)
(* error of Redis and the database.                                        *)
(***************************************************************************)
THEOREM OnlyFaultsFail == LoginSpec => []FailuresNeedFaults
  <1>1. LoginInit => ChargedOK
    <2> SUFFICES ASSUME LoginInit PROVE ChargedOK
      OBVIOUS
    <2>1. Charged = {}
      BY DEF LoginInit, Charged
    <2> QED BY <2>1, FS_EmptySet DEF LoginInit, ChargedOK
  <1>2. LoginIInv /\ ChargedOK => FailuresNeedFaults
    <2> SUFFICES ASSUME LoginIInv, ChargedOK PROVE FailuresNeedFaults
      OBVIOUS
    <2> DEFINE Failed == {l \in Attempt : pc[l] = "failed"}
    <2>1. IsFiniteSet(Failed) /\ Cardinality(Failed) <= Cardinality(Charged)
      <3>1. Failed \subseteq Charged
        BY DEF Charged
      <3> QED BY <3>1, ChargedIsFinite, FS_Subset
    <2>2. Cardinality(Failed) \in Nat /\ Cardinality(Charged) \in Nat /\ faults \in Nat
      BY <2>1, ChargedIsFinite, FS_CardinalityType DEF LoginIInv, LoginTypeOK
    <2> QED BY <2>1, <2>2 DEF ChargedOK, FailuresNeedFaults
  <1> QED BY <1>1, <1>2, LoginInductive, NextPreservesCharged, PTL DEF LoginSpec

-----------------------------------------------------------------------------
(***************************************************************************)
(* RateLimit.  The counter is not one of a fixed window: what bounds the   *)
(* calls let through is how the last counted call relates to those before  *)
(* it.  CountOK says that the counter is at least the number of calls let  *)
(* through less than a window before that call; ChainOK that the counted   *)
(* calls, up to the counter's value, follow each other within a window.    *)
(***************************************************************************)
CallsIn(b) == {i \in DOMAIN calls : Bucket(calls[i].endpoint) = b}
PassedIn(b) == {i \in CallsIn(b) : calls[i].verdict = "passed"}

(* The calls let through that count in a window at time t, or later.       *)
Within(b, t) == {i \in PassedIn(b) : calls[i].time <= t /\ t < calls[i].time + Window}
Recent(b, t) == {i \in PassedIn(b) : t < calls[i].time + Window}

TimesOK ==
    /\ \A i \in DOMAIN calls : calls[i].time <= now
    /\ \A b \in Buckets : counter[b].until <= now + Window
    /\ \A b \in Buckets : \A i \in PassedIn(b) : calls[i].time + Window <= counter[b].until

CountOK ==
    \A b \in Buckets : Cardinality(Recent(b, counter[b].until - Window)) <= counter[b].n

WindowsOK == \A b \in Buckets : \A t \in Nat : Cardinality(Within(b, t)) <= MaxPerWindow

(* K starts at first; every other of its calls follows one of K in time.   *)
Chain(K, first) ==
    /\ first \in K
    /\ \A j \in K : first <= j
    /\ \A j \in K \ {first} : \E k \in K : k < j /\ calls[j].time < calls[k].time + Window

ChainOK ==
    \A b \in Buckets : \A m \in 1..counter[b].n :
        \E K \in SUBSET CallsIn(b) : \E first, last \in K :
            /\ Cardinality(K) = m /\ Chain(K, first)
            /\ calls[last].time + Window = counter[b].until

RefusedOK ==
    \A b \in Buckets : \A i \in CallsIn(b) : calls[i].verdict = "refused" =>
        \E K \in SUBSET {j \in CallsIn(b) : j < i} : \E first, last \in K :
            /\ Cardinality(K) = MaxPerWindow /\ Chain(K, first)
            /\ calls[i].time < calls[last].time + Window

RateIInv ==
    /\ RateTypeOK
    /\ TimesOK
    /\ CountOK
    /\ WindowsOK
    /\ ChainOK
    /\ RefusedOK

-----------------------------------------------------------------------------

Record == [endpoint : Endpoint, time : Nat, verdict : {"passed", "refused", "unchecked"}]

LEMMA CallsAreFinite ==
    ASSUME RateTypeOK, NEW S \in SUBSET DOMAIN calls
    PROVE  /\ IsFiniteSet(S) /\ Cardinality(S) \in Nat
           /\ \A R \in SUBSET S : Cardinality(R) \in Nat /\ Cardinality(R) <= Cardinality(S)
  <1>1. Len(calls) \in Nat /\ DOMAIN calls = 1..Len(calls)
    BY DEF RateTypeOK
  <1>2. IsFiniteSet(DOMAIN calls)
    BY <1>1, FS_Interval
  <1> QED BY <1>2, FS_Subset, FS_CardinalityType

LEMMA RateTypes ==
    ASSUME RateTypeOK
    PROVE  /\ now \in Nat /\ Window \in Nat /\ Window > 0
           /\ MaxPerWindow \in Nat /\ MaxPerWindow > 0
           /\ \A b \in Buckets : counter[b].n \in Nat /\ counter[b].until \in Nat
           /\ \A i \in DOMAIN calls : /\ calls[i] \in Record /\ i \in Nat
                                     /\ Bucket(calls[i].endpoint) \in Buckets
  <1> DEFINE R == Record
  <1>a. calls \in Seq(R)
    BY DEF RateTypeOK, Record
  <1> HIDE DEF R
  <1>1. /\ Len(calls) \in Nat /\ DOMAIN calls = 1..Len(calls)
        /\ \A i \in DOMAIN calls : calls[i] \in R
    BY <1>a
  <1>2. \A e \in Endpoint : Bucket(e) \in Buckets
    BY DEF Bucket, Buckets
  <1>3. \A i \in DOMAIN calls : /\ calls[i] \in Record /\ i \in Nat
                                /\ Bucket(calls[i].endpoint) \in Buckets
    BY <1>1, <1>2 DEF Record, R
  <1>4. \A b \in Buckets : counter[b].n \in Nat /\ counter[b].until \in Nat
    BY DEF RateTypeOK
  <1>5. now \in Nat
    BY RateAssumption DEF RateTypeOK
  <1> QED BY <1>3, <1>4, <1>5, RateAssumption

(* One more call at the end, and none of the others is touched.            *)
LEMMA CallAppended ==
    ASSUME RateTypeOK, NEW e \in Endpoint, NEW v \in {"passed", "refused", "unchecked"},
           Respond(e, v)
    PROVE  LET x == Len(calls) + 1 IN
           /\ calls' \in Seq(Record)
           /\ DOMAIN calls' = DOMAIN calls \cup {x} /\ x \in Nat
           /\ \A i \in DOMAIN calls : i \in Nat /\ i < x /\ calls'[i] = calls[i]
           /\ calls'[x] = [endpoint |-> e, time |-> now, verdict |-> v]
  <1> DEFINE c == [endpoint |-> e, time |-> now, verdict |-> v]
             x == Len(calls) + 1
  <1>1. calls \in Seq(Record) /\ c \in Record
    BY RateTypes DEF RateTypeOK, Record
  <1>2. calls' = Append(calls, c)
    BY DEF Respond
  <1>3. Len(calls) \in Nat /\ DOMAIN calls = 1..Len(calls)
    BY <1>1
  <1> HIDE DEF c
  <1>4. calls' \in Seq(Record) /\ Len(calls') = x
    BY <1>1, <1>2
  <1>5. /\ \A i \in 1..Len(calls) : calls'[i] = calls[i]
        /\ calls'[x] = c
    BY <1>1, <1>2
  <1>6. DOMAIN calls' = 1..x
    BY <1>4
  <1> QED BY <1>3, <1>4, <1>5, <1>6 DEF c

LEMMA SetsAppended ==
    ASSUME RateTypeOK, NEW e \in Endpoint, NEW v \in {"passed", "refused", "unchecked"},
           Respond(e, v), NEW b \in Buckets
    PROVE  LET x == Len(calls) + 1 IN
           /\ CallsIn(b)' = CallsIn(b) \cup (IF Bucket(e) = b THEN {x} ELSE {})
           /\ PassedIn(b)' = PassedIn(b) \cup
                                 (IF Bucket(e) = b /\ v = "passed" THEN {x} ELSE {})
           /\ CallsIn(b) \subseteq DOMAIN calls /\ PassedIn(b) \subseteq DOMAIN calls
           /\ x \notin DOMAIN calls
  <1> DEFINE x == Len(calls) + 1
  <1>1. /\ DOMAIN calls' = DOMAIN calls \cup {x} /\ x \in Nat
        /\ \A i \in DOMAIN calls : i \in Nat /\ i < x /\ calls'[i] = calls[i]
        /\ calls'[x] = [endpoint |-> e, time |-> now, verdict |-> v]
    BY CallAppended
  <1>2. x \notin DOMAIN calls
    BY <1>1
  <1>3. calls'[x].endpoint = e /\ calls'[x].verdict = v
    BY <1>1
  <1> HIDE DEF x
  <1>4. CallsIn(b)' = CallsIn(b) \cup (IF Bucket(e) = b THEN {x} ELSE {})
    BY <1>1, <1>2, <1>3 DEF CallsIn, Bucket
  <1>5. PassedIn(b)' = {i \in CallsIn(b)' : calls'[i].verdict = "passed"}
    BY DEF PassedIn
  <1>6. PassedIn(b)' = PassedIn(b) \cup
                          (IF Bucket(e) = b /\ v = "passed" THEN {x} ELSE {})
    BY <1>1, <1>2, <1>3, <1>4, <1>5 DEF PassedIn, CallsIn
  <1> QED BY <1>2, <1>4, <1>6 DEF x, PassedIn, CallsIn

LEMMA OneMoreCall ==
    ASSUME RateTypeOK, NEW S \in SUBSET DOMAIN calls, NEW x, NEW R \in SUBSET (S \cup {x})
    PROVE  Cardinality(R) \in Nat /\ Cardinality(R) <= Cardinality(S) + 1
  <1>1. IsFiniteSet(S) /\ Cardinality(S) \in Nat
    BY CallsAreFinite
  <1>2. /\ IsFiniteSet(S \cup {x}) /\ Cardinality(S \cup {x}) \in Nat
        /\ Cardinality(S \cup {x}) <= Cardinality(S) + 1
    BY <1>1, FS_AddElement, FS_CardinalityType
  <1>3. Cardinality(R) \in Nat /\ Cardinality(R) <= Cardinality(S \cup {x})
    BY <1>2, FS_Subset, FS_CardinalityType
  <1> QED BY <1>1, <1>2, <1>3

-----------------------------------------------------------------------------
(* One call *)

(* INCR returns more than the number of calls let through in the window    *)
(* that now ends.                                                          *)
LEMMA IncrCounts ==
    ASSUME RateIInv, NEW b \in Buckets
    PROVE  /\ Recent(b, now) \in SUBSET DOMAIN calls
           /\ Cardinality(Recent(b, now)) \in Nat /\ Incremented(b) \in Nat
           /\ Cardinality(Recent(b, now)) + 1 <= Incremented(b)
  <1> DEFINE L == counter[b].until - Window
  <1>1. /\ now \in Nat /\ Window \in Nat /\ counter[b].n \in Nat /\ counter[b].until \in Nat
        /\ \A i \in DOMAIN calls : calls[i].time \in Nat
    BY RateTypes DEF RateIInv, Record
  <1>2. Recent(b, now) \in SUBSET DOMAIN calls /\ Recent(b, L) \in SUBSET DOMAIN calls
    BY DEF Recent, PassedIn, CallsIn
  <1>3. Cardinality(Recent(b, now)) \in Nat /\ Cardinality(Recent(b, L)) \in Nat
    BY <1>2, CallsAreFinite DEF RateIInv
  <1>4. CASE now < counter[b].until
    <2>1. Recent(b, now) \subseteq Recent(b, L)
      <3>1. L <= now /\ L \in Int
        BY <1>1 DEF RateIInv, TimesOK
      <3> QED BY <1>1, <1>2, <3>1 DEF Recent
    <2>2. Cardinality(Recent(b, now)) <= Cardinality(Recent(b, L))
      BY <1>2, <2>1, CallsAreFinite DEF RateIInv
    <2>3. Cardinality(Recent(b, L)) <= counter[b].n
      BY DEF RateIInv, CountOK
    <2>4. Incremented(b) = 1 + counter[b].n
      BY <1>4 DEF Incremented
    <2> HIDE DEF L
    <2> QED BY <1>1, <1>2, <1>3, <2>2, <2>3, <2>4
  <1>5. CASE ~(now < counter[b].until)
    <2>1. Recent(b, now) = {}
      <3> SUFFICES ASSUME NEW i \in Recent(b, now) PROVE FALSE
        OBVIOUS
      <3>1. i \in PassedIn(b) /\ i \in DOMAIN calls /\ now < calls[i].time + Window
        BY <1>2 DEF Recent
      <3>2. calls[i].time + Window <= counter[b].until
        BY <3>1 DEF RateIInv, TimesOK
      <3> QED BY <1>1, <1>5, <3>1, <3>2
    <2>2. Incremented(b) = 1
      BY <1>5 DEF Incremented
    <2> QED BY <1>2, <1>3, <2>1, <2>2, FS_EmptySet
  <1> QED BY <1>4, <1>5

LEMMA ChainKept ==
    ASSUME RateTypeOK, \A i \in DOMAIN calls : calls'[i] = calls[i],
           NEW K \in SUBSET DOMAIN calls, NEW first, Chain(K, first)
    PROVE  Chain(K, first)'
  BY DEF Chain

(* A call that Redis did not count is no call of the counter's.            *)
LEMMA UncountedStep ==
    ASSUME RateIInv, NEW e \in Endpoint, Respond(e, "unchecked"), UNCHANGED <<now, counter>>
    PROVE  TimesOK' /\ CountOK' /\ WindowsOK' /\ ChainOK' /\ RefusedOK'
  <1> DEFINE x == Len(calls) + 1
  <1>1. /\ DOMAIN calls' = DOMAIN calls \cup {x} /\ x \notin DOMAIN calls
        /\ \A i \in DOMAIN calls : i \in Nat /\ calls'[i] = calls[i]
        /\ calls'[x].time = now /\ calls'[x].verdict = "unchecked"
    <2>1. /\ DOMAIN calls' = DOMAIN calls \cup {x} /\ x \in Nat
          /\ \A i \in DOMAIN calls : i \in Nat /\ i < x /\ calls'[i] = calls[i]
          /\ calls'[x] = [endpoint |-> e, time |-> now, verdict |-> "unchecked"]
      BY CallAppended DEF RateIInv
    <2> HIDE DEF x
    <2> QED BY <2>1
  <1>2. \A b \in Buckets : /\ PassedIn(b)' = PassedIn(b)
                          /\ CallsIn(b) \subseteq CallsIn(b)'
                          /\ CallsIn(b)' \subseteq CallsIn(b) \cup {x}
                          /\ PassedIn(b) \subseteq DOMAIN calls /\ CallsIn(b) \subseteq DOMAIN calls
    BY SetsAppended DEF RateIInv
  <1> HIDE DEF x
  <1>3. now \in Nat
    BY RateTypes DEF RateIInv
  <1>4. TimesOK'
    BY <1>1, <1>2, <1>3 DEF RateIInv, TimesOK
  <1>5. \A b \in Buckets : \A t : Recent(b, t)' = Recent(b, t) /\ Within(b, t)' = Within(b, t)
    BY <1>1, <1>2 DEF Recent, Within
  <1>6. CountOK' /\ WindowsOK'
    BY <1>5 DEF RateIInv, CountOK, WindowsOK
  <1>7. ChainOK'
    <2> SUFFICES ASSUME NEW b \in Buckets, NEW m \in 1..counter[b].n
                 PROVE  \E K \in SUBSET CallsIn(b)' : \E first, last \in K :
                            /\ Cardinality(K) = m /\ Chain(K, first)'
                            /\ calls'[last].time + Window = counter[b].until
      BY DEF ChainOK
    <2>1. PICK K \in SUBSET CallsIn(b) : \E first, last \in K :
              /\ Cardinality(K) = m /\ Chain(K, first)
              /\ calls[last].time + Window = counter[b].until
      BY DEF RateIInv, ChainOK
    <2>2. K \in SUBSET CallsIn(b)' /\ K \in SUBSET DOMAIN calls
      BY <1>2
    <2> QED BY <1>1, <2>1, <2>2, ChainKept DEF RateIInv
  <1>8. RefusedOK'
    <2> SUFFICES ASSUME NEW b \in Buckets, NEW i \in CallsIn(b)', calls'[i].verdict = "refused"
                 PROVE  \E K \in SUBSET {j \in CallsIn(b)' : j < i} : \E first, last \in K :
                            /\ Cardinality(K) = MaxPerWindow /\ Chain(K, first)'
                            /\ calls'[i].time < calls'[last].time + Window
      BY DEF RefusedOK
    <2>1. i \in CallsIn(b) /\ i \in DOMAIN calls /\ calls'[i] = calls[i]
      BY <1>1, <1>2
    <2>2. PICK K \in SUBSET {j \in CallsIn(b) : j < i} : \E first, last \in K :
              /\ Cardinality(K) = MaxPerWindow /\ Chain(K, first)
              /\ calls[i].time < calls[last].time + Window
      BY <2>1 DEF RateIInv, RefusedOK
    <2>3. K \in SUBSET {j \in CallsIn(b)' : j < i} /\ K \in SUBSET DOMAIN calls
      BY <1>2
    <2> QED BY <1>1, <2>1, <2>2, <2>3, ChainKept DEF RateIInv
  <1> QED BY <1>4, <1>6, <1>7, <1>8

LEMMA CountedStep ==
    ASSUME RateIInv, NEW e \in Endpoint, NEW v \in {"passed", "refused", "unchecked"},
           Respond(e, v), IncrWithTTL(Bucket(e)), UNCHANGED now,
           v = "passed" => Incremented(Bucket(e)) <= MaxPerWindow,
           v = "refused" => Incremented(Bucket(e)) > MaxPerWindow
    PROVE  TimesOK' /\ CountOK' /\ WindowsOK' /\ ChainOK' /\ RefusedOK'
  <1> PICK x : x = Len(calls) + 1
    OBVIOUS
  <1> DEFINE c == Bucket(e)
  <1>1. /\ DOMAIN calls' = DOMAIN calls \cup {x} /\ x \in Nat
        /\ \A i \in DOMAIN calls : i \in Nat /\ i < x /\ calls'[i] = calls[i]
        /\ calls'[x] = [endpoint |-> e, time |-> now, verdict |-> v]
    BY CallAppended DEF RateIInv
  <1>2. \A b \in Buckets :
           /\ CallsIn(b)' = CallsIn(b) \cup (IF c = b THEN {x} ELSE {})
           /\ PassedIn(b)' = PassedIn(b) \cup (IF c = b /\ v = "passed" THEN {x} ELSE {})
           /\ CallsIn(b) \subseteq DOMAIN calls /\ PassedIn(b) \subseteq DOMAIN calls
    BY SetsAppended DEF RateIInv
  <1>3. /\ c \in Buckets /\ Incremented(c) \in Nat
        /\ counter'[c].n = Incremented(c) /\ counter'[c].until = now + Window
        /\ \A b \in Buckets \ {c} : counter'[b] = counter[b]
    <2>1. c \in Buckets
      BY DEF Bucket, Buckets
    <2> QED BY <2>1, IncrCounts DEF IncrWithTTL, RateIInv, RateTypeOK
  <1>4. /\ now \in Nat /\ now' = now /\ Window \in Nat /\ Window > 0
        /\ MaxPerWindow \in Nat /\ MaxPerWindow > 0
        /\ \A b \in Buckets : counter[b].n \in Nat /\ counter[b].until \in Nat
        /\ \A i \in DOMAIN calls : calls[i].time \in Nat /\ calls[i].time <= now
    BY RateTypes DEF RateIInv, TimesOK, Record
  <1>5. x \notin DOMAIN calls /\ calls'[x].time = now /\ calls'[x].verdict = v
    BY <1>1
  <1> HIDE DEF c
  <1>6. TimesOK'
    <2>1. \A i \in DOMAIN calls' : calls'[i].time <= now
      BY <1>1, <1>4, <1>5
    <2>2. \A b \in Buckets : counter'[b].until <= now + Window
      BY <1>3, <1>4 DEF RateIInv, TimesOK
    <2>3. ASSUME NEW b \in Buckets, NEW i \in PassedIn(b)'
          PROVE  calls'[i].time + Window <= counter'[b].until
      <3>1. CASE b = c
        <4>1. i \in DOMAIN calls'
          BY <1>1, <1>2, <2>3
        <4> QED BY <1>1, <1>3, <1>4, <1>5, <3>1, <4>1
      <3>2. CASE b # c
        BY <1>1, <1>2, <1>3, <2>3, <3>2 DEF RateIInv, TimesOK
      <3> QED BY <3>1, <3>2
    <2> QED BY <1>4, <2>1, <2>2, <2>3 DEF TimesOK
  <1>7. /\ Recent(c, now) \in SUBSET DOMAIN calls
        /\ \A R \in SUBSET (Recent(c, now) \cup {x}) :
              Cardinality(R) \in Nat /\ Cardinality(R) <= Incremented(c)
    <2>1. /\ Recent(c, now) \in SUBSET DOMAIN calls
          /\ Cardinality(Recent(c, now)) \in Nat
          /\ Cardinality(Recent(c, now)) + 1 <= Incremented(c)
      BY <1>3, IncrCounts
    <2>2. \A R \in SUBSET (Recent(c, now) \cup {x}) :
              Cardinality(R) \in Nat /\ Cardinality(R) <= Cardinality(Recent(c, now)) + 1
      BY <2>1, OneMoreCall DEF RateIInv
    <2> QED BY <1>3, <2>1, <2>2
  <1>8. \A b \in Buckets \ {c} : \A t :
            Recent(b, t)' = Recent(b, t) /\ Within(b, t)' = Within(b, t)
    BY <1>1, <1>2 DEF Recent, Within
  <1>9. CountOK'
    <2> SUFFICES ASSUME NEW b \in Buckets
                 PROVE  (Cardinality(Recent(b, counter[b].until - Window)) <= counter[b].n)'
      BY DEF CountOK
    <2>1. CASE b = c
      <3> DEFINE S == {i \in PassedIn(c)' : now < calls'[i].time + Window}
      <3>1. counter'[c].until - Window = now
        BY <1>3, <1>4
      <3>2. S \in SUBSET (Recent(c, now) \cup {x})
        BY <1>1, <1>2, <1>3, <1>4 DEF Recent
      <3>3. Recent(b, counter[b].until - Window)' = S
        BY <2>1, <3>1 DEF Recent
      <3> QED BY <1>3, <1>7, <2>1, <3>2, <3>3
    <2>2. CASE b # c
      <3>1. Recent(b, counter[b].until - Window)' = Recent(b, counter[b].until - Window)
        BY <1>1, <1>2, <1>3, <2>2 DEF Recent
      <3> QED BY <1>3, <2>2, <3>1 DEF RateIInv, CountOK
    <2> QED BY <2>1, <2>2
  <1>10. WindowsOK'
    <2> SUFFICES ASSUME NEW b \in Buckets, NEW t \in Nat
                 PROVE  Cardinality(Within(b, t)') <= MaxPerWindow
      BY DEF WindowsOK
    <2>1. CASE b # c \/ v # "passed" \/ t < now
      <3>1. Within(b, t)' = Within(b, t)
        BY <1>1, <1>2, <1>3, <1>4, <1>5, <2>1 DEF Within
      <3> QED BY <3>1 DEF RateIInv, WindowsOK
    <2>2. CASE b = c /\ v = "passed" /\ now <= t
      <3>1. Within(b, t)' \in SUBSET (Recent(c, now) \cup {x})
        <4> SUFFICES ASSUME NEW i \in Within(b, t)', i # x PROVE i \in Recent(c, now)
          OBVIOUS
        <4>1. i \in PassedIn(c) /\ i \in DOMAIN calls /\ t < calls[i].time + Window
          BY <1>1, <1>2, <1>3, <2>2 DEF Within
        <4>2. now < calls[i].time + Window
          BY <1>4, <2>2, <4>1
        <4> QED BY <4>1, <4>2 DEF Recent
      <3>2. Incremented(c) <= MaxPerWindow
        BY <2>2 DEF c
      <3> QED BY <1>3, <1>4, <1>7, <3>1, <3>2
    <2> QED BY <1>4, <2>1, <2>2
  <1>11. ChainOK'
    <2> SUFFICES ASSUME NEW b \in Buckets, NEW m \in 1..counter'[b].n
                 PROVE  \E K \in SUBSET CallsIn(b)' : \E first, last \in K :
                            /\ Cardinality(K) = m /\ Chain(K, first)'
                            /\ calls'[last].time + Window = counter'[b].until
      BY DEF ChainOK
    <2>1. CASE b # c
      <3>1. PICK K \in SUBSET CallsIn(b) : \E first, last \in K :
                /\ Cardinality(K) = m /\ Chain(K, first)
                /\ calls[last].time + Window = counter[b].until
        BY <1>3, <2>1 DEF RateIInv, ChainOK
      <3>2. K \in SUBSET CallsIn(b)' /\ K \in SUBSET DOMAIN calls
        BY <1>2
      <3> QED BY <1>1, <1>3, <2>1, <3>1, <3>2, ChainKept DEF RateIInv
    <2>2. CASE b = c /\ m = 1
      <3>1. {x} \in SUBSET CallsIn(b)' /\ Cardinality({x}) = 1
        BY <1>2, <2>2, FS_Singleton
      <3>2. Chain({x}, x)'
        BY <1>1 DEF Chain
      <3>3. calls'[x].time + Window = counter'[b].until
        BY <1>3, <1>5, <2>2
      <3> QED BY <2>2, <3>1, <3>2, <3>3
    <2>3. CASE b = c /\ m # 1
      <3>1. now < counter[c].until /\ m - 1 \in 1..counter[c].n
        BY <1>3, <1>4, <2>3 DEF Incremented
      <3>2. PICK K \in SUBSET CallsIn(c) : \E first, last \in K :
                /\ Cardinality(K) = m - 1 /\ Chain(K, first)
                /\ calls[last].time + Window = counter[c].until
        BY <1>3, <3>1 DEF RateIInv, ChainOK
      <3>3. PICK first \in K : \E last \in K :
                /\ Cardinality(K) = m - 1 /\ Chain(K, first)
                /\ calls[last].time + Window = counter[c].until
        BY <3>2
      <3>4. PICK last \in K : calls[last].time + Window = counter[c].until
        BY <3>3
      <3> DEFINE KX == K \cup {x}
      <3>5. K \in SUBSET DOMAIN calls /\ x \notin K
        BY <1>2, <1>3, <1>5
      <3>6. Cardinality(KX) = m
        <4>1. IsFiniteSet(K)
          BY <3>5, CallsAreFinite DEF RateIInv
        <4>2. Cardinality(K \cup {x}) = Cardinality(K) + 1
          BY <3>5, <4>1, FS_AddElement
        <4>3. Cardinality(K) = m - 1 /\ m \in Int
          BY <1>3, <3>3
        <4> QED BY <4>2, <4>3
      <3>7. Chain(KX, first)'
        <4>1. Chain(K, first)'
          BY <1>1, <3>3, <3>5, ChainKept DEF RateIInv
        <4>2. \A j \in KX : first <= j
          BY <1>1, <3>5, <4>1 DEF Chain
        <4>3. last \in KX /\ last < x /\ calls'[x].time < calls'[last].time + Window
          BY <1>1, <1>5, <3>1, <3>4, <3>5
        <4> QED BY <4>1, <4>2, <4>3 DEF Chain
      <3>8. KX \in SUBSET CallsIn(b)' /\ first \in KX /\ x \in KX
        BY <1>2, <1>3, <2>3
      <3>9. calls'[x].time + Window = counter'[b].until
        BY <1>3, <1>5, <2>3
      <3> HIDE DEF KX
      <3> QED BY <3>6, <3>7, <3>8, <3>9
    <2> QED BY <2>1, <2>2, <2>3
  <1>12. RefusedOK'
    <2> SUFFICES ASSUME NEW b \in Buckets, NEW i \in CallsIn(b)', calls'[i].verdict = "refused"
                 PROVE  \E K \in SUBSET {j \in CallsIn(b)' : j < i} : \E first, last \in K :
                            /\ Cardinality(K) = MaxPerWindow /\ Chain(K, first)'
                            /\ calls'[i].time < calls'[last].time + Window
      BY DEF RefusedOK
    <2>1. CASE i # x
      <3>1. i \in CallsIn(b) /\ i \in DOMAIN calls /\ calls'[i] = calls[i]
        BY <1>1, <1>2, <2>1
      <3>2. PICK K \in SUBSET {j \in CallsIn(b) : j < i} : \E first, last \in K :
                /\ Cardinality(K) = MaxPerWindow /\ Chain(K, first)
                /\ calls[i].time < calls[last].time + Window
        BY <3>1 DEF RateIInv, RefusedOK
      <3>3. K \in SUBSET {j \in CallsIn(b)' : j < i} /\ K \in SUBSET DOMAIN calls
        BY <1>2
      <3> QED BY <1>1, <3>1, <3>2, <3>3, ChainKept DEF RateIInv
    <2>2. CASE i = x
      <3>1. b = c /\ v = "refused"
        BY <1>2, <1>5, <2>2
      <3>2. now < counter[c].until /\ MaxPerWindow \in 1..counter[c].n
        BY <1>3, <1>4, <3>1 DEF Incremented, c
      <3>3. PICK K \in SUBSET CallsIn(c) : \E first, last \in K :
                /\ Cardinality(K) = MaxPerWindow /\ Chain(K, first)
                /\ calls[last].time + Window = counter[c].until
        BY <1>3, <3>2 DEF RateIInv, ChainOK
      <3>4. K \in SUBSET DOMAIN calls
        BY <1>2, <1>3
      <3>5. K \in SUBSET {j \in CallsIn(b)' : j < i}
        BY <1>1, <1>2, <2>2, <3>1, <3>4
      <3>6. PICK first \in K : \E last \in K :
                Chain(K, first) /\ calls[last].time + Window = counter[c].until
        BY <3>3
      <3>7. PICK last \in K : calls[last].time + Window = counter[c].until
        BY <3>6
      <3>8. Chain(K, first)'
        BY <1>1, <3>4, <3>6, ChainKept DEF RateIInv
      <3>9. calls'[i].time < calls'[last].time + Window
        BY <1>1, <1>5, <2>2, <3>2, <3>4, <3>7
      <3> QED BY <3>3, <3>5, <3>8, <3>9
    <2> QED BY <2>1, <2>2
  <1> QED BY <1>6, <1>9, <1>10, <1>11, <1>12

-----------------------------------------------------------------------------

LEMMA InitRateIInv == RateInit => RateIInv
  <1> SUFFICES ASSUME RateInit PROVE RateIInv
    OBVIOUS
  <1>1. RateTypeOK
    <2>1. <<>> \in Seq(Record)
      OBVIOUS
    <2> QED BY <2>1, RateAssumption DEF RateInit, RateTypeOK, Record
  <1>2. DOMAIN calls = {} /\ now = 0 /\ \A b \in Buckets : counter[b] = [n |-> 0, until |-> 0]
    BY DEF RateInit
  <1>3. \A b \in Buckets : CallsIn(b) = {} /\ PassedIn(b) = {}
    BY <1>2 DEF CallsIn, PassedIn
  <1>4. \A b \in Buckets : \A t : Recent(b, t) = {} /\ Within(b, t) = {}
    BY <1>3 DEF Recent, Within
  <1>5. TimesOK
    BY <1>2, <1>3, RateAssumption DEF TimesOK
  <1>6. Cardinality({}) = 0
    BY FS_EmptySet
  <1>7. CountOK
    <2> SUFFICES ASSUME NEW b \in Buckets
                 PROVE  Cardinality(Recent(b, counter[b].until - Window)) <= counter[b].n
      BY DEF CountOK
    <2>1. Recent(b, counter[b].until - Window) = {} /\ counter[b].n = 0
      BY <1>2, <1>4
    <2> QED BY <2>1, <1>6
  <1>8. WindowsOK
    <2> SUFFICES ASSUME NEW b \in Buckets, NEW t \in Nat
                 PROVE  Cardinality(Within(b, t)) <= MaxPerWindow
      BY DEF WindowsOK
    <2>1. Within(b, t) = {}
      BY <1>4
    <2> QED BY <2>1, <1>6, RateAssumption
  <1>9. ChainOK /\ RefusedOK
    BY <1>2, <1>3 DEF ChainOK, RefusedOK
  <1> QED BY <1>1, <1>5, <1>7, <1>8, <1>9 DEF RateIInv

LEMMA RateTypesKept ==
    ASSUME RateTypeOK, [RateNext]_rateVars PROVE RateTypeOK'
  <1>1. CASE Tick
    BY <1>1, RateAssumption DEF Tick, RateTypeOK
  <1>2. ASSUME NEW e \in Endpoint, Call(e) PROVE RateTypeOK'
    <2>1. /\ UNCHANGED now /\ redisFaults' \in 0..MaxRedisFaults
          /\ UNCHANGED counter \/ IncrWithTTL(Bucket(e))
          /\ \E v \in {"passed", "refused", "unchecked"} : Respond(e, v)
      BY <1>2, RateAssumption DEF Call, RateTypeOK
    <2>2. Bucket(e) \in Buckets /\ Incremented(Bucket(e)) \in Nat /\ now + Window \in Nat
      BY RateAssumption DEF Bucket, Buckets, Incremented, RateTypeOK
    <2>3. counter' \in [Buckets -> [n : Nat, until : Nat]]
      BY <2>1, <2>2 DEF IncrWithTTL, RateTypeOK
    <2>4. calls' \in Seq(Record)
      BY <2>1, CallAppended
    <2> QED BY <2>1, <2>3, <2>4 DEF RateTypeOK, Record
  <1>3. CASE UNCHANGED rateVars
    BY <1>3 DEF rateVars, RateTypeOK
  <1> QED BY <1>1, <1>2, <1>3 DEF RateNext

(* Time alone moves no call.                                               *)
LEMMA TickStep ==
    ASSUME RateIInv, now' \in {now, now + 1}, UNCHANGED <<counter, calls>>
    PROVE  TimesOK' /\ CountOK' /\ WindowsOK' /\ ChainOK' /\ RefusedOK'
  <1>1. \A b : CallsIn(b)' = CallsIn(b) /\ PassedIn(b)' = PassedIn(b)
    BY DEF CallsIn, PassedIn
  <1>2. \A b, t : Recent(b, t)' = Recent(b, t) /\ Within(b, t)' = Within(b, t)
    BY <1>1 DEF Recent, Within
  <1>3. TimesOK'
    BY <1>1, RateTypes DEF RateIInv, TimesOK, PassedIn, CallsIn, Record
  <1>4. CountOK' /\ WindowsOK'
    BY <1>2 DEF RateIInv, CountOK, WindowsOK
  <1>5. \A K, f : Chain(K, f)' <=> Chain(K, f)
    BY DEF Chain
  <1>6. ChainOK'
    <2> SUFFICES ASSUME NEW b \in Buckets, NEW m \in 1..counter[b].n
                 PROVE  \E K \in SUBSET CallsIn(b)' : \E first, last \in K :
                            /\ Cardinality(K) = m /\ Chain(K, first)'
                            /\ calls[last].time + Window = counter[b].until
      BY DEF ChainOK
    <2> QED BY <1>1, <1>5 DEF RateIInv, ChainOK
  <1>7. RefusedOK'
    <2> SUFFICES ASSUME NEW b \in Buckets, NEW i \in CallsIn(b)', calls[i].verdict = "refused"
                 PROVE  \E K \in SUBSET {j \in CallsIn(b)' : j < i} : \E first, last \in K :
                            /\ Cardinality(K) = MaxPerWindow /\ Chain(K, first)'
                            /\ calls[i].time < calls[last].time + Window
      BY DEF RefusedOK
    <2> QED BY <1>1, <1>5 DEF RateIInv, RefusedOK
  <1> QED BY <1>3, <1>4, <1>6, <1>7

LEMMA NextPreservesRateIInv == RateIInv /\ [RateNext]_rateVars => RateIInv'
  <1> SUFFICES ASSUME RateIInv, [RateNext]_rateVars PROVE RateIInv'
    OBVIOUS
  <1> DEFINE Kept == TimesOK /\ CountOK /\ WindowsOK /\ ChainOK /\ RefusedOK
  <1>1. RateTypeOK'
    BY RateTypesKept DEF RateIInv
  <1>2. CASE Tick \/ UNCHANGED rateVars
    <2>1. Kept'
      BY <1>2, TickStep DEF Tick, rateVars
    <2> QED BY <1>1, <2>1 DEF RateIInv
  <1>3. ASSUME NEW e \in Endpoint, Call(e) PROVE Kept'
    <2> DEFINE v == IF Incremented(Bucket(e)) > MaxPerWindow THEN "refused" ELSE "passed"
    <2>1. UNCHANGED now
      BY <1>3 DEF Call
    <2>2. \/ IncrWithTTL(Bucket(e)) /\ Respond(e, v)
          \/ IncrWithTTL(Bucket(e)) /\ Respond(e, "unchecked")
          \/ UNCHANGED counter /\ Respond(e, "unchecked")
      BY <1>3 DEF Call
    <2>3. CASE IncrWithTTL(Bucket(e)) /\ Respond(e, v)
      <3>1. Bucket(e) \in Buckets
        BY DEF Bucket, Buckets
      <3>2. Incremented(Bucket(e)) \in Nat /\ MaxPerWindow \in Nat
        BY <3>1, IncrCounts, RateAssumption
      <3>3. CASE Incremented(Bucket(e)) > MaxPerWindow
        BY <2>1, <2>3, <3>2, <3>3, CountedStep
      <3>4. CASE ~(Incremented(Bucket(e)) > MaxPerWindow)
        BY <2>1, <2>3, <3>2, <3>4, CountedStep
      <3> QED BY <3>3, <3>4
    <2>4. CASE IncrWithTTL(Bucket(e)) /\ Respond(e, "unchecked")
      BY <2>1, <2>4, CountedStep
    <2>5. CASE UNCHANGED counter /\ Respond(e, "unchecked")
      BY <2>1, <2>5, UncountedStep
    <2> QED BY <2>2, <2>3, <2>4, <2>5
  <1>4. ASSUME NEW e \in Endpoint, Call(e) PROVE RateIInv'
    BY <1>1, <1>3, <1>4 DEF RateIInv
  <1> QED BY <1>2, <1>4 DEF RateNext

THEOREM RateInductive == RateSpec => []RateIInv
  <1> QED BY InitRateIInv, NextPreservesRateIInv, PTL DEF RateSpec

(* The counters, the clock and the calls are always of their types.        *)
THEOREM RateTypeCorrect == RateSpec => []RateTypeOK
  <1>1. RateIInv => RateTypeOK
    BY DEF RateIInv
  <1> QED BY <1>1, RateInductive, PTL

(* The calls of a group of endpoints are those of its bucket.              *)
LEMMA GroupIsBucket ==
    ASSUME RateTypeOK, NEW g \in Group
    PROVE  \E b \in Buckets : CallsOf(g) = CallsIn(b)
  <1>1. \A i \in DOMAIN calls : calls[i].endpoint \in {"generate", "preview", "refresh"}
    BY RateTypes DEF Record, Endpoint
  <1>2. CASE g = {"generate"}
    <2>1. CallsOf(g) = CallsIn("gen")
      BY <1>1, <1>2 DEF CallsOf, CallsIn, Bucket
    <2> QED BY <2>1 DEF Buckets
  <1>3. CASE g = {"preview", "refresh"}
    <2>1. CallsOf(g) = CallsIn("outline")
      BY <1>1, <1>3 DEF CallsOf, CallsIn, Bucket
    <2> QED BY <2>1 DEF Buckets
  <1> QED BY <1>2, <1>3 DEF Group

(***************************************************************************)
(* However the calls are placed and whatever Redis fails to count, no      *)
(* stretch shorter than the window has more counted calls let through than *)
(* the limit: for every window, limit, clock and number of calls.          *)
(***************************************************************************)
THEOREM WindowsAreBounded == RateSpec => []WindowIsBounded
  <1>1. ASSUME RateIInv PROVE WindowIsBounded
    <2> SUFFICES ASSUME NEW g \in Group, NEW i \in CallsOf(g)
                 PROVE  Cardinality({j \in CallsOf(g) :
                            /\ calls[j].time <= calls[i].time
                            /\ calls[i].time < calls[j].time + Window
                            /\ calls[j].verdict = "passed"}) <= MaxPerWindow
      BY DEF WindowIsBounded
    <2>1. PICK b \in Buckets : CallsOf(g) = CallsIn(b)
      BY <1>1, GroupIsBucket DEF RateIInv
    <2>2. PICK t \in Nat : t = calls[i].time
      BY <1>1, <2>1, RateTypes DEF RateIInv, CallsIn, Record
    <2>3. {j \in CallsOf(g) : /\ calls[j].time <= calls[i].time
                             /\ calls[i].time < calls[j].time + Window
                             /\ calls[j].verdict = "passed"} = Within(b, t)
      BY <2>1, <2>2 DEF Within, PassedIn
    <2> QED BY <1>1, <2>3 DEF RateIInv, WindowsOK
  <1> QED BY <1>1, RateInductive, PTL

(***************************************************************************)
(* A refusal comes at the end of a chain of MaxPerWindow calls of the      *)
(* bucket, each less than a window after the one before: who pauses for a  *)
(* window is never refused.                                                *)
(***************************************************************************)
THEOREM RefusalsNeedChains == RateSpec => []RefusalNeedsChain
  <1>1. ASSUME RateIInv PROVE RefusalNeedsChain
    <2> SUFFICES ASSUME NEW g \in Group, NEW i \in CallsOf(g), calls[i].verdict = "refused"
                 PROVE  \E K \in SUBSET {j \in CallsOf(g) : j < i} :
                          /\ Cardinality(K) = MaxPerWindow
                          /\ LET first == CHOOSE k \in K : \A j \in K : k <= j IN
                             \A j \in K \cup {i} : j # first =>
                               \E k \in K : k < j /\ calls[j].time < calls[k].time + Window
      BY DEF RefusalNeedsChain
    <2>1. PICK b \in Buckets : CallsOf(g) = CallsIn(b)
      BY <1>1, GroupIsBucket DEF RateIInv
    <2>2. PICK K \in SUBSET {j \in CallsIn(b) : j < i} : \E first, last \in K :
              /\ Cardinality(K) = MaxPerWindow /\ Chain(K, first)
              /\ calls[i].time < calls[last].time + Window
      BY <1>1, <2>1 DEF RateIInv, RefusedOK
    <2>3. PICK first \in K, last \in K :
              Chain(K, first) /\ calls[i].time < calls[last].time + Window
      BY <2>2
    <2>4. K \subseteq Nat
      BY <1>1, RateTypes DEF RateIInv, CallsIn
    <2>5. (CHOOSE k \in K : \A j \in K : k <= j) = first
      <3>1. \A k \in K : (\A j \in K : k <= j) => k = first
        BY <2>3, <2>4 DEF Chain
      <3>2. first \in K /\ \A j \in K : first <= j
        BY <2>3 DEF Chain
      <3> QED BY <3>1, <3>2
    <2>6. \A j \in K \cup {i} : j # first =>
              \E k \in K : k < j /\ calls[j].time < calls[k].time + Window
      BY <2>2, <2>3 DEF Chain
    <2> QED BY <2>1, <2>2, <2>5, <2>6
  <1> QED BY <1>1, RateInductive, PTL

-----------------------------------------------------------------------------
(***************************************************************************)
(* AppSession.  Which token is stored in a session, and whose child it     *)
(* shows.  That the app comes to rest (Settles) is left to TLC.            *)
(***************************************************************************)
NoLogout == deleting = 0 /\ resetting = 0

(* A login is under way only where nobody is signed in and no logout is.   *)
LoginOK ==
    /\ login # NoLogin => auth \in {"out", "error"} /\ NoLogout
    /\ login.step = "stored" => token # 0 /\ owner[token] = login.user
    /\ auth \in Initial => NoLogout

(* The token is gone before its session is, and never the other way round. *)
SessionOK ==
    /\ resetting > 0 => token = 0
    /\ SignedIn /\ resetting = 0 => token # 0
    /\ SignedIn /\ token # 0 => owner[token] = auth
    /\ auth = "out" /\ login.step # "stored" => token = 0

(* A request that still counts has the token that counts.                  *)
Sent(q) ==
    /\ q.token \in 0..Len(owner)
    /\ q.reply \in {"ok", "empty"} => q.token # 0
    /\ q.kind = "me" => auth # "reading"
    /\ q.kind = "me" /\ auth = "checking" => q.token = token
    /\ q.kind = "children" => q.token = child.token

NetOK == \A q \in net : Sent(q)

ChildOK ==
    /\ auth \in {"reading", "checking"} => child.token = token
    /\ SignedIn /\ resetting = 0 => child.token = token
    /\ child.token \in 0..Len(owner)
    /\ child.value \in User /\ ~child.loading /\ ~child.failed /\ ~child.created
         => child.token # 0 /\ child.value = owner[child.token]

IInv == TypeOK /\ LoginOK /\ SessionOK /\ NetOK /\ ChildOK

Child == [value : User \cup {NotLoaded, NoChild}, loading : BOOLEAN,
          failed : BOOLEAN, created : BOOLEAN, token : Token \cup {0}]

LEMMA Reserved ==
    \A u \in User : u \notin {"reading", "checking", "clearing", "out", "error", NotLoaded, NoChild}
  BY UserAssumption DEF Initial

LEMMA Types ==
    ASSUME TypeOK
    PROVE  /\ MaxTokens \in Nat /\ MaxClicks \in Nat
           /\ owner \in Seq(User) /\ Len(owner) \in Nat /\ Len(owner) <= MaxTokens
           /\ DOMAIN owner = 1..Len(owner) /\ \A t \in 1..Len(owner) : owner[t] \in User
           /\ token \in 0..Len(owner) /\ token \in Token \cup {0}
           /\ auth \in {"reading", "checking", "clearing", "out", "error"} \cup User
           /\ login.step \in {"none", "sent", "stored"} /\ (login.step = "none" <=> login = NoLogin)
           /\ login # NoLogin => login.user \in User
           /\ child \in Child /\ net \subseteq Request
  <1>1. /\ MaxTokens \in Nat /\ MaxClicks \in Nat
        /\ owner \in Seq(User) /\ Len(owner) <= MaxTokens
        /\ auth \in {"reading", "checking", "clearing", "out", "error"} \cup User
        /\ child \in Child /\ net \subseteq Request
    BY AppAssumption DEF TypeOK, Initial, Child
  <1>2. /\ Len(owner) \in Nat /\ DOMAIN owner = 1..Len(owner)
        /\ \A t \in 1..Len(owner) : owner[t] \in User
    BY <1>1
  <1>3. token \in 0..Len(owner) /\ token \in Token \cup {0}
    BY <1>1, <1>2 DEF TypeOK, Token
  <1>4. login \in [user : User, step : {"sent", "stored"}] \cup {NoLogin}
    BY DEF TypeOK
  <1>5. /\ login.step \in {"none", "sent", "stored"} /\ (login.step = "none" <=> login = NoLogin)
        /\ login # NoLogin => login.user \in User
    BY <1>4 DEF NoLogin
  <1> QED BY <1>1, <1>2, <1>3, <1>5

LEMMA Logout == ASSUME TypeOK PROVE LoggingOut <=> ~NoLogout
  BY DEF TypeOK, LoggingOut, NoLogout

(* Where the router lets people click.                                     *)
LEMMA Screens ==
    ASSUME TypeOK
    PROVE  /\ Screen = "login" => auth \in {"out", "error"}
           /\ Screen = "home" => SignedIn
           /\ Screen = "create-child" => SignedIn
  BY Types DEF Screen, Initial, SignedIn

-----------------------------------------------------------------------------
(* Requests *)

LEMMA SendFacts ==
    ASSUME TypeOK, NEW kind \in Kind
    PROVE  /\ Send(kind) \in Request /\ Send(kind).kind = kind
           /\ Send(kind).token = token /\ Send(kind).reply = "none"
  BY Types DEF Send, Request, Reply

LEMMA SupersedeFacts ==
    ASSUME TypeOK, NEW q \in LeaveScreen(Supersede(net))
    PROVE  /\ q \in Request /\ q.kind # "children"
           /\ \E p \in net : /\ q.token = p.token /\ q.reply = p.reply
                             /\ q.kind = "me" => p.kind = "me"
  <1>1. PICK s \in Supersede(net) :
          q = IF s.kind = "create" THEN [s EXCEPT !.kind = "stray"] ELSE s
    BY DEF LeaveScreen
  <1>2. PICK p \in net : s = IF p.kind = "children" THEN [p EXCEPT !.kind = "other"] ELSE p
    BY DEF Supersede
  <1>3. p \in Request
    BY Types
  <1>4. /\ s \in Request /\ s.kind # "children" /\ s.token = p.token /\ s.reply = p.reply
        /\ s.kind = "me" => p.kind = "me"
    <2>1. CASE p.kind = "children"
      BY <1>2, <1>3, <2>1 DEF Request, Kind, Creation
    <2>2. CASE p.kind # "children"
      BY <1>2, <1>3, <2>2
    <2> QED BY <2>1, <2>2
  <1>5. CASE s.kind = "create"
    BY <1>1, <1>4, <1>5 DEF Request, Kind, Creation
  <1>6. CASE s.kind # "create"
    BY <1>1, <1>4, <1>6
  <1> QED BY <1>5, <1>6

LEMMA RebuildFacts ==
    ASSUME TypeOK, Rebuild
    PROVE  /\ child' \in Child /\ child'.token = token /\ child'.loading = TRUE
           /\ net' \subseteq Request
           /\ \A q \in net' :
                \/ q.kind = "children" /\ q.token = token /\ q.reply = "none"
                \/ /\ q.kind # "children"
                   /\ \E p \in net : /\ q.token = p.token /\ q.reply = p.reply
                                     /\ q.kind = "me" => p.kind = "me"
  <1>1. child' \in Child /\ child'.token = token /\ child'.loading = TRUE
    BY Types DEF Rebuild, Child
  <1>2. net' = LeaveScreen(Supersede(net)) \cup {Send("children")}
    BY DEF Rebuild
  <1>3. \A q \in net' :
          \/ q \in Request /\ q.kind = "children" /\ q.token = token /\ q.reply = "none"
          \/ /\ q \in Request /\ q.kind # "children"
             /\ \E p \in net : /\ q.token = p.token /\ q.reply = p.reply
                               /\ q.kind = "me" => p.kind = "me"
    BY <1>2, SendFacts, SupersedeFacts DEF Kind
  <1> QED BY <1>1, <1>3

LEMMA FirstLoadFacts ==
    ASSUME TypeOK
    PROVE  /\ FirstLoad \in Child /\ FirstLoad.token = token /\ FirstLoad.loading = TRUE
           /\ FirstLoad.value = NotLoaded
  BY Types DEF FirstLoad, Child

-----------------------------------------------------------------------------
(* Starting *)

LEMMA InitIInv == Init => IInv
  <1> SUFFICES ASSUME Init PROVE IInv
    OBVIOUS
  <1>1. /\ owner \in Seq(User) /\ Len(owner) \in {0, 1} /\ Len(owner) <= MaxTokens
        /\ token \in 0..Len(owner) /\ token \in Token \cup {0}
    <2>1. owner = <<>> \/ \E u \in User : owner = <<u>>
      BY DEF Init
    <2>2. owner \in Seq(User) /\ Len(owner) \in {0, 1}
      <3>1. CASE owner = <<>>
        BY <3>1
      <3>2. ASSUME NEW u \in User, owner = <<u>> PROVE owner \in Seq(User) /\ Len(owner) = 1
        BY <3>2
      <3> QED BY <2>1, <3>1, <3>2
    <2>3. token \in {0, Len(owner)}
      BY DEF Init
    <2> QED BY <2>2, <2>3, AppAssumption DEF Token
  <1>2. /\ child = FirstLoad /\ FirstLoad \in Child /\ FirstLoad.token = token
        /\ FirstLoad.loading = TRUE
    BY <1>1 DEF Init, FirstLoad, Child
  <1>3. /\ net = {Send("children")} /\ Send("children") \in Request
        /\ Send("children").kind = "children" /\ Send("children").token = token
        /\ Send("children").reply = "none"
    BY <1>1 DEF Init, Send, Request, Reply, Kind, Creation
  <1>4. TypeOK
    BY <1>1, <1>2, <1>3, AppAssumption DEF Init, TypeOK, Initial, Child
  <1>5. LoginOK /\ SessionOK
    BY Reserved DEF Init, LoginOK, SessionOK, NoLogin, NoLogout, SignedIn
  <1>6. NetOK /\ ChildOK
    BY <1>1, <1>2, <1>3 DEF Init, NetOK, Sent, ChildOK
  <1> QED BY <1>4, <1>5, <1>6 DEF IInv

(* What a step that leaves the child and the requests alone has to show.   *)
LEMMA QuietStep ==
    ASSUME IInv, TypeOK', LoginOK', SessionOK', UNCHANGED <<child, net>>,
           Len(owner') >= Len(owner), \A t \in 1..Len(owner) : owner'[t] = owner[t],
           auth' \in {"reading", "checking"} => UNCHANGED <<auth, token>>,
           auth' \in User /\ resetting' = 0
             => auth \in User /\ resetting = 0 /\ UNCHANGED token
    PROVE  IInv'
  <1>1. Len(owner) \in Nat /\ Len(owner') \in Nat /\ net \subseteq Request /\ child \in Child
        /\ TypeOK
    BY Types DEF IInv, TypeOK
  <1>2. ASSUME NEW q \in net PROVE Sent(q)'
    <2>1. Sent(q)
      BY DEF IInv, NetOK
    <2> QED BY <1>1, <2>1 DEF Sent
  <1>3. /\ auth \in {"reading", "checking"} => child.token = token
        /\ auth \in User /\ resetting = 0 => child.token = token
        /\ child.token \in 0..Len(owner)
        /\ child.value \in User /\ ~child.loading /\ ~child.failed /\ ~child.created
             => child.token # 0 /\ child.value = owner[child.token]
    BY DEF IInv, ChildOK, SignedIn
  <1>6. ChildOK'
    BY <1>1, <1>3 DEF ChildOK, SignedIn
  <1> QED BY <1>2, <1>6 DEF IInv, NetOK

LEMMA ReadTokenStep == ASSUME IInv, ReadToken PROVE IInv'
  <1>1. TypeOK /\ auth = "reading" /\ auth \notin User
    BY Reserved DEF IInv, ReadToken
  <1>2. /\ UNCHANGED <<owner, expired, parents, token, login, deleting, resetting, child, clicks>>
        /\ \/ token = 0 /\ auth' = "out" /\ UNCHANGED net
           \/ token # 0 /\ auth' = "checking" /\ net' = net \cup {Send("me")}
    BY DEF ReadToken
  <1>3. /\ Send("me") \in Request /\ Send("me").kind = "me" /\ Send("me").token = token
        /\ Send("me").reply = "none"
    BY <1>1, SendFacts DEF Kind, Creation
  <1>4. TypeOK'
    BY <1>1, <1>2, <1>3 DEF TypeOK, Initial
  <1>5. NoLogout /\ login = NoLogin
    BY <1>1 DEF IInv, LoginOK, Initial
  <1>6. LoginOK' /\ SessionOK'
    BY <1>1, <1>2, <1>5, Reserved DEF IInv, LoginOK, SessionOK, NoLogin, NoLogout, SignedIn, Initial
  <1>7. ASSUME NEW q \in net' PROVE Sent(q)'
    <2>1. CASE q \in net
      BY <1>1, <1>2, <2>1 DEF IInv, NetOK, Sent
    <2>2. CASE q = Send("me") /\ auth' = "checking"
      BY <1>1, <1>2, <1>3, <2>2, Types DEF Sent
    <2> QED BY <1>2, <2>1, <2>2
  <1>8. ChildOK'
    BY <1>1, <1>2, Reserved DEF IInv, ChildOK, SignedIn
  <1> QED BY <1>4, <1>6, <1>7, <1>8 DEF IInv, NetOK

LEMMA ClearTokenStep == ASSUME IInv, ClearToken PROVE IInv'
  <1>1. /\ TypeOK /\ auth = "clearing" /\ auth \notin User /\ token' = 0 /\ auth' = "out"
        /\ UNCHANGED <<owner, expired, parents, login, deleting, resetting, child, net, clicks>>
    BY Reserved DEF IInv, ClearToken
  <1>2. TypeOK'
    BY <1>1, Types DEF TypeOK, Initial
  <1>3. NoLogout /\ login = NoLogin
    BY <1>1 DEF IInv, LoginOK, Initial
  <1>4. LoginOK' /\ SessionOK'
    BY <1>1, <1>3, Reserved DEF IInv, LoginOK, SessionOK, NoLogin, NoLogout, SignedIn, Initial
  <1>5. Len(owner') >= Len(owner)
    BY <1>1, Types
  <1> QED BY <1>1, <1>2, <1>4, <1>5, QuietStep, Reserved

-----------------------------------------------------------------------------
(* Signing in and out *)

LEMMA SignInStep == ASSUME IInv, NEW u \in User, SignIn(u) PROVE IInv'
  <1>1. /\ TypeOK /\ auth \in {"out", "error"} /\ NoLogout /\ login = NoLogin
        /\ clicks' \in 0..MaxClicks
        /\ login' = [user |-> u, step |-> "sent"]
        /\ UNCHANGED <<owner, expired, parents, token, auth, deleting, resetting, child, net>>
    BY Types, Screens, Logout DEF IInv, SignIn, Click, TypeOK
  <1>2. TypeOK'
    BY <1>1 DEF TypeOK
  <1>3. LoginOK' /\ SessionOK'
    BY <1>1, Reserved DEF IInv, LoginOK, SessionOK, NoLogin, NoLogout, SignedIn, Initial
  <1>4. Len(owner') >= Len(owner)
    BY <1>1, Types
  <1> QED BY <1>1, <1>2, <1>3, <1>4, QuietStep

LEMMA LoginFailsStep == ASSUME IInv, LoginFails PROVE IInv'
  <1>1. /\ TypeOK /\ login.step = "sent" /\ login # NoLogin /\ login' = NoLogin
        /\ auth' \in {"error", auth}
        /\ UNCHANGED <<owner, expired, parents, token, deleting, resetting, child, net, clicks>>
    BY DEF IInv, LoginFails, NoLogin
  <1>2. auth \in {"out", "error"} /\ NoLogout
    BY <1>1 DEF IInv, LoginOK
  <1>3. TypeOK'
    BY <1>1, <1>2, Types DEF TypeOK
  <1>4. LoginOK' /\ SessionOK'
    BY <1>1, <1>2, Reserved DEF IInv, LoginOK, SessionOK, NoLogin, NoLogout, SignedIn, Initial
  <1>5. Len(owner') >= Len(owner)
    BY <1>1, Types
  <1> QED BY <1>1, <1>2, <1>3, <1>4, <1>5, QuietStep, Reserved

LEMMA StoreTokenStep == ASSUME IInv, StoreToken PROVE IInv'
  <1>1. /\ TypeOK /\ login.step = "sent" /\ login # NoLogin /\ login.user \in User
        /\ Len(owner) < MaxTokens
        /\ owner' = Append(owner, login.user) /\ token' = Len(owner')
        /\ login' = [login EXCEPT !.step = "stored"]
        /\ UNCHANGED <<expired, parents, auth, deleting, resetting, child, net, clicks>>
    BY Types DEF IInv, StoreToken, NoLogin
  <1>2. auth \in {"out", "error"} /\ NoLogout /\ deleting = 0 /\ resetting = 0
    BY <1>1 DEF IInv, LoginOK, NoLogout
  <1>3. /\ owner' \in Seq(User) /\ Len(owner') = Len(owner) + 1 /\ Len(owner) \in Nat
        /\ \A t \in 1..Len(owner) : owner'[t] = owner[t]
        /\ owner'[Len(owner) + 1] = login.user
        /\ DOMAIN owner = 1..Len(owner) /\ DOMAIN owner' = 1..(Len(owner) + 1)
    BY <1>1, Types
  <1>4. login' \in [user : User, step : {"sent", "stored"}] /\ login'.user = login.user
        /\ login' # NoLogin
    <2>1. login \in [user : User, step : {"sent", "stored"}]
      BY <1>1 DEF TypeOK
    <2> QED BY <1>1, <2>1 DEF NoLogin
  <1>5. TypeOK'
    BY <1>1, <1>3, <1>4, Types DEF TypeOK
  <1>6. token' # 0 /\ owner'[token'] = login'.user
    BY <1>1, <1>3, <1>4
  <1>7. LoginOK' /\ SessionOK'
    BY <1>1, <1>2, <1>4, <1>6, Reserved DEF LoginOK, SessionOK, NoLogout, SignedIn, Initial
  <1> QED BY <1>1, <1>2, <1>3, <1>5, <1>7, QuietStep, Reserved

(* What a step that loads the child again has to show.                     *)
LEMMA RebuildStep ==
    ASSUME IInv, TypeOK', LoginOK', SessionOK', Rebuild, UNCHANGED <<owner, token>>,
           auth' \notin {"reading", "checking"}
    PROVE  IInv'
  <1>1. /\ TypeOK /\ child' \in Child /\ child'.token = token /\ child'.loading = TRUE
        /\ token \in 0..Len(owner)
        /\ \A q \in net' :
             \/ q.kind = "children" /\ q.token = token /\ q.reply = "none"
             \/ /\ q.kind # "children"
                /\ \E p \in net : /\ q.token = p.token /\ q.reply = p.reply
                                  /\ q.kind = "me" => p.kind = "me"
    BY RebuildFacts, Types DEF IInv
  <1>2. ASSUME NEW q \in net' PROVE Sent(q)'
    <2>1. \A p \in net : Sent(p)
      BY DEF IInv, NetOK
    <2> QED BY <1>1, <2>1 DEF Sent
  <1>3. ChildOK'
    BY <1>1 DEF ChildOK
  <1> QED BY <1>2, <1>3 DEF IInv, NetOK

LEMMA LoginDoneStep == ASSUME IInv, LoginDone PROVE IInv'
  <1>1. /\ TypeOK /\ login.step = "stored" /\ login # NoLogin /\ login.user \in User
        /\ Rebuild /\ auth' = login.user /\ login' = NoLogin
        /\ UNCHANGED <<owner, expired, parents, token, deleting, resetting, clicks>>
    BY Types DEF IInv, LoginDone, NoLogin
  <1>2. NoLogout /\ token # 0 /\ owner[token] = login.user
    BY <1>1 DEF IInv, LoginOK
  <1>3. child' \in Child /\ net' \subseteq Request
    BY <1>1, RebuildFacts
  <1>4. TypeOK'
    BY <1>1, <1>3 DEF TypeOK, Child
  <1>5. auth' \in User /\ auth' \notin Initial \cup {"out", "error"}
    BY <1>1, UserAssumption
  <1>6. LoginOK' /\ SessionOK'
    BY <1>1, <1>2, <1>5 DEF IInv, LoginOK, SessionOK, NoLogin, NoLogout, SignedIn
  <1> QED BY <1>1, <1>4, <1>5, <1>6, RebuildStep DEF Initial

LEMMA SignOutStep == ASSUME IInv, SignOut PROVE IInv'
  <1>1. /\ TypeOK /\ auth \in User /\ deleting' = deleting + 1 /\ clicks' \in 0..MaxClicks
        /\ UNCHANGED <<owner, expired, parents, token, auth, login, resetting, child, net>>
    BY Types, Screens DEF IInv, SignOut, Click, SignedIn, TypeOK
  <1>2. TypeOK'
    BY <1>1 DEF TypeOK
  <1>3. auth \notin Initial \cup {"out", "error"} /\ login = NoLogin
    BY <1>1, UserAssumption DEF IInv, LoginOK
  <1>4. LoginOK' /\ SessionOK'
    BY <1>1, <1>3 DEF IInv, LoginOK, SessionOK, NoLogin, NoLogout, SignedIn
  <1>5. Len(owner') >= Len(owner)
    BY <1>1, Types
  <1> QED BY <1>1, <1>2, <1>3, <1>4, <1>5, QuietStep

LEMMA DeleteTokenStep == ASSUME IInv, DeleteToken PROVE IInv'
  <1>1. /\ TypeOK /\ deleting > 0 /\ deleting' = deleting - 1 /\ resetting' = resetting + 1
        /\ token' = 0 /\ deleting \in Nat /\ resetting \in Nat
        /\ UNCHANGED <<owner, expired, parents, auth, login, child, net, clicks>>
    BY DEF IInv, DeleteToken, TypeOK
  <1>2. TypeOK'
    BY <1>1, Types DEF TypeOK
  <1>3. ~NoLogout /\ login = NoLogin /\ auth \notin Initial
    BY <1>1 DEF IInv, LoginOK, NoLogout
  <1>4. LoginOK' /\ SessionOK'
    BY <1>1, <1>3 DEF LoginOK, SessionOK, NoLogin
  <1>5. Len(owner') >= Len(owner) /\ resetting' # 0
    BY <1>1, Types
  <1> QED BY <1>1, <1>2, <1>3, <1>4, <1>5, QuietStep DEF Initial

LEMMA LogoutDoneStep == ASSUME IInv, LogoutDone PROVE IInv'
  <1>1. /\ TypeOK /\ resetting > 0 /\ resetting' = resetting - 1 /\ resetting \in Nat
        /\ deleting \in Nat /\ Rebuild /\ auth' = "out"
        /\ UNCHANGED <<owner, expired, parents, token, login, deleting, clicks>>
    BY DEF IInv, LogoutDone, TypeOK
  <1>2. child' \in Child /\ net' \subseteq Request
    BY <1>1, RebuildFacts
  <1>3. TypeOK'
    BY <1>1, <1>2 DEF TypeOK, Child
  <1>4. token = 0 /\ login = NoLogin
    BY <1>1 DEF IInv, LoginOK, SessionOK, NoLogout
  <1>5. LoginOK' /\ SessionOK'
    BY <1>1, <1>4, Reserved DEF LoginOK, SessionOK, NoLogin, SignedIn, Initial
  <1> QED BY <1>1, <1>3, <1>5, RebuildStep

-----------------------------------------------------------------------------
(* Asking, restarting and expiring *)

LEMMA AskStep ==
    ASSUME IInv, NEW kind \in {"create", "other"}, net' = net \cup {Send(kind)},
           clicks' \in 0..MaxClicks,
           UNCHANGED <<owner, expired, parents, token, auth, login, deleting, resetting, child>>
    PROVE  IInv'
  <1>1. TypeOK
    BY DEF IInv
  <1>2. /\ Send(kind) \in Request /\ Send(kind).kind = kind
        /\ Send(kind).token = token /\ Send(kind).reply = "none"
    BY <1>1, SendFacts DEF Kind, Creation
  <1>3. TypeOK'
    BY <1>1, <1>2 DEF TypeOK
  <1>4. LoginOK' /\ SessionOK' /\ ChildOK'
    BY DEF IInv, LoginOK, SessionOK, ChildOK, NoLogout, SignedIn
  <1>5. ASSUME NEW q \in net' PROVE Sent(q)'
    <2>1. CASE q \in net
      BY <2>1 DEF IInv, NetOK, Sent
    <2>2. CASE q = Send(kind)
      BY <1>1, <1>2, <2>2, Types DEF Sent
    <2> QED BY <2>1, <2>2
  <1> QED BY <1>3, <1>4, <1>5 DEF IInv, NetOK

LEMMA Clicks == ASSUME TypeOK, Click PROVE clicks' \in 0..MaxClicks
  BY AppAssumption DEF TypeOK, Click

LEMMA RefreshChildStep == ASSUME IInv, RefreshChild PROVE IInv'
  <1>1. /\ TypeOK /\ auth \in User /\ Rebuild /\ clicks' \in 0..MaxClicks
        /\ UNCHANGED <<owner, expired, parents, token, auth, login, deleting, resetting>>
    BY Screens, Clicks DEF IInv, RefreshChild, SignedIn
  <1>2. child' \in Child /\ net' \subseteq Request
    BY <1>1, RebuildFacts
  <1>3. TypeOK'
    BY <1>1, <1>2 DEF TypeOK, Child
  <1>4. LoginOK' /\ SessionOK'
    BY <1>1 DEF IInv, LoginOK, SessionOK, NoLogout, SignedIn
  <1> QED BY <1>1, <1>3, <1>4, RebuildStep, Reserved

LEMMA RestartStep == ASSUME IInv, Restart PROVE IInv'
  <1>1. /\ TypeOK /\ auth' = "reading" /\ login' = NoLogin /\ deleting' = 0 /\ resetting' = 0
        /\ child' = FirstLoad /\ net' = {Send("children")} /\ clicks' \in 0..MaxClicks
        /\ UNCHANGED <<owner, expired, parents, token>>
    BY Clicks DEF IInv, Restart
  <1>2. /\ FirstLoad \in Child /\ FirstLoad.token = token /\ FirstLoad.loading = TRUE
        /\ Send("children") \in Request /\ Send("children").kind = "children"
        /\ Send("children").token = token /\ Send("children").reply = "none"
    BY <1>1, FirstLoadFacts, SendFacts DEF Kind, Creation
  <1>3. TypeOK'
    BY <1>1, <1>2 DEF TypeOK, Child, Initial
  <1>4. LoginOK' /\ SessionOK'
    BY <1>1, Reserved DEF LoginOK, SessionOK, NoLogin, NoLogout, SignedIn
  <1>5. NetOK' /\ ChildOK'
    BY <1>1, <1>2, Types DEF NetOK, Sent, ChildOK
  <1> QED BY <1>3, <1>4, <1>5 DEF IInv

LEMMA ExpireStep == ASSUME IInv, Expire PROVE IInv'
  <1>1. /\ TypeOK /\ expired' \subseteq DOMAIN owner
        /\ UNCHANGED <<owner, parents, token, auth, login, deleting, resetting, child, net, clicks>>
    BY DEF IInv, Expire, device, TypeOK
  <1>2. TypeOK'
    BY <1>1 DEF TypeOK
  <1>3. LoginOK' /\ SessionOK'
    BY <1>1 DEF IInv, LoginOK, SessionOK, NoLogout, SignedIn
  <1>4. Len(owner') >= Len(owner)
    BY <1>1, Types
  <1> QED BY <1>1, <1>2, <1>3, <1>4, QuietStep

-----------------------------------------------------------------------------
(* The server and the network *)

LEMMA AnswerFacts ==
    ASSUME TypeOK, NEW q \in Request, NEW a \in Answers(q)
    PROVE  /\ a \in Reply
           /\ a \in {"ok", "empty"} => q.token \in 1..Len(owner) /\ owner[q.token] \in User
  <1>1. a \in {"401", "error", "ok", "empty"}
    BY DEF Answers, Request, Kind, Creation
  <1>2. a \in {"ok", "empty"} => Valid(q.token)
    BY DEF Answers
  <1> QED BY <1>1, <1>2, Types DEF Valid, Reply

LEMMA AnswerStep == ASSUME IInv, NEW q \in net, Answer(q) PROVE IInv'
  <1>1. TypeOK /\ q \in Request
    BY Types DEF IInv
  <1>2. PICK a \in Answers(q) :
          /\ net' = (net \ {q}) \cup {[q EXCEPT !.reply = a]}
          /\ parents' = IF q.kind \in Creation /\ a = "ok"
                        THEN parents \cup {owner[q.token]} ELSE parents
    BY DEF Answer
  <1>3. UNCHANGED <<owner, expired, token, auth, login, deleting, resetting, child, clicks>>
    BY DEF Answer
  <1>4. /\ a \in Reply
        /\ a \in {"ok", "empty"} => q.token \in 1..Len(owner) /\ owner[q.token] \in User
    BY <1>1, AnswerFacts
  <1>5. /\ [q EXCEPT !.reply = a] \in Request /\ [q EXCEPT !.reply = a].kind = q.kind
        /\ [q EXCEPT !.reply = a].token = q.token /\ [q EXCEPT !.reply = a].reply = a
    BY <1>1, <1>4 DEF Request
  <1>6. parents' \subseteq User
    BY <1>1, <1>2, <1>4 DEF TypeOK
  <1>7. TypeOK'
    BY <1>1, <1>2, <1>3, <1>5, <1>6 DEF TypeOK
  <1>8. LoginOK' /\ SessionOK' /\ ChildOK'
    BY <1>3 DEF IInv, LoginOK, SessionOK, ChildOK, NoLogout, SignedIn
  <1>9. ASSUME NEW p \in net' PROVE Sent(p)'
    <2>1. CASE p \in net
      BY <1>3, <2>1 DEF IInv, NetOK, Sent
    <2>2. CASE p = [q EXCEPT !.reply = a]
      <3>1. Sent(q) /\ Len(owner) \in Nat
        BY <1>1, Types DEF IInv, NetOK
      <3> QED BY <1>3, <1>4, <1>5, <2>2, <3>1 DEF Sent
    <2> QED BY <1>2, <2>1, <2>2
  <1> QED BY <1>7, <1>8, <1>9 DEF IInv, NetOK

LEMMA MeFacts ==
    ASSUME NEW r, MeArrives(r)
    PROVE  /\ r.kind = "me" /\ UNCHANGED child
           /\ \/ UNCHANGED auth
              \/ /\ auth = "checking"
                 /\ \/ auth' \in {"clearing", "error"}
                    \/ r.reply = "ok" /\ auth' = owner[r.token]
  <1>1. r.kind = "me" /\ UNCHANGED child
    BY DEF MeArrives
  <1>2. ASSUME auth # "checking" PROVE UNCHANGED auth
    BY <1>2 DEF MeArrives
  <1>3. ASSUME auth = "checking", r.reply = "ok" PROVE auth' = owner[r.token]
    BY <1>3 DEF MeArrives
  <1>4. ASSUME auth = "checking", r.reply # "ok" PROVE auth' \in {"clearing", "error"}
    BY <1>4 DEF MeArrives
  <1> QED BY <1>1, <1>2, <1>3, <1>4

LEMMA ChildrenFacts ==
    ASSUME NEW r, ChildrenArrive(r)
    PROVE  /\ r.kind = "children" /\ UNCHANGED auth
           /\ \/ r.reply = "ok" /\ child' = Settled(owner[r.token], FALSE)
              \/ r.reply = "empty" /\ child' = Settled(NoChild, FALSE)
              \/ child' = [child EXCEPT !.loading = FALSE, !.failed = TRUE]
  BY DEF ChildrenArrive

LEMMA SettledFacts ==
    ASSUME TypeOK, NEW value \in User \cup {NoChild}, NEW created \in BOOLEAN
    PROVE  /\ Settled(value, created) \in Child /\ Settled(value, created).token = child.token
           /\ Settled(value, created).value = value
           /\ Settled(value, created).created = created
  BY Types DEF Settled, Child

LEMMA ArriveStep == ASSUME IInv, NEW q \in net, Arrive(q) PROVE IInv'
  <1>1. TypeOK /\ q \in Request /\ Sent(q)
    BY Types DEF IInv, NetOK
  <1>2. PICK r \in {q, [q EXCEPT !.reply = "none"]} :
          /\ Unauthorized(r)
          /\ \/ MeArrives(r) \/ ChildrenArrive(r)
             \/ CreateArrives(r) \/ OtherArrives(r)
    BY DEF Arrive
  <1>3. net' = net \ {q} /\ UNCHANGED <<owner, expired, parents, token, login, resetting, clicks>>
    BY DEF Arrive
  <1>4. /\ r \in Request /\ r.kind = q.kind /\ r.token = q.token
        /\ r.reply \in {q.reply, "none"}
        /\ r.reply \in {"ok", "empty"} => r.token \in 1..Len(owner) /\ owner[r.token] \in User
    <2>1. r \in Request /\ r.kind = q.kind /\ r.token = q.token /\ r.reply \in {q.reply, "none"}
      BY <1>1, <1>2 DEF Request, Reply
    <2> QED BY <1>1, <2>1, Types DEF Sent
  <1>5. /\ deleting' \in Nat /\ deleting \in Nat /\ resetting \in Nat
        /\ auth \in User \/ deleting' = deleting
    BY <1>1, <1>2 DEF Unauthorized, SignedIn, TypeOK
  <1>6. \/ UNCHANGED auth
        \/ /\ r.kind = "me" /\ auth = "checking"
           /\ \/ auth' \in {"clearing", "error"}
              \/ r.reply = "ok" /\ auth' = owner[r.token]
    BY <1>2, MeFacts, ChildrenFacts DEF CreateArrives, OtherArrives
  <1>7. /\ child' \in Child /\ child'.token = child.token
        /\ \/ UNCHANGED child
           \/ child'.value \notin User \/ child'.failed \/ child'.created
           \/ r.kind = "children" /\ r.reply = "ok" /\ child'.value = owner[r.token]
    <2>1. CASE MeArrives(r) \/ OtherArrives(r)
      BY <1>1, <2>1, MeFacts, Types DEF OtherArrives
    <2>2. CASE ChildrenArrive(r)
      <3>1. CASE r.reply = "ok" /\ child' = Settled(owner[r.token], FALSE)
        BY <1>1, <1>4, <2>2, <3>1, SettledFacts, ChildrenFacts
      <3>2. CASE r.reply = "empty" /\ child' = Settled(NoChild, FALSE)
        BY <1>1, <3>2, SettledFacts, Reserved
      <3>3. CASE child' = [child EXCEPT !.loading = FALSE, !.failed = TRUE]
        BY <1>1, <3>3, Types DEF Child
      <3> QED BY <2>2, <3>1, <3>2, <3>3, ChildrenFacts
    <2>3. CASE CreateArrives(r)
      <3>1. CASE r.reply = "ok" /\ child' = Settled(owner[r.token], TRUE)
        BY <1>1, <1>4, <3>1, SettledFacts
      <3>2. CASE UNCHANGED child
        BY <1>1, <3>2, Types
      <3> QED BY <2>3, <3>1, <3>2 DEF CreateArrives
    <2> QED BY <1>2, <2>1, <2>2, <2>3
  <1>8. auth' \in {"reading", "checking", "clearing", "out", "error"} \cup User
    BY <1>1, <1>4, <1>6, Types
  <1>9. TypeOK'
    BY <1>1, <1>3, <1>5, <1>7, <1>8 DEF TypeOK, Initial, Child
  <1>10. /\ token \in 0..Len(owner) /\ Len(owner) \in Nat
         /\ LoginOK /\ SessionOK /\ ChildOK /\ NetOK
    BY <1>1, Types DEF IInv
  <1>11. auth = "checking" => NoLogout /\ login = NoLogin
    BY <1>10 DEF LoginOK, Initial
  <1>12. auth' \in User => \/ UNCHANGED auth
                           \/ auth = "checking" /\ token # 0 /\ auth' = owner[token]
                              /\ deleting = 0 /\ resetting = 0
    BY <1>1, <1>4, <1>6, <1>11, Reserved DEF Sent, NoLogout
  <1>13. LoginOK'
    <2>1. CASE UNCHANGED auth
      BY <1>3, <1>5, <1>10, <2>1, UserAssumption DEF LoginOK, NoLogout
    <2>2. CASE auth = "checking"
      BY <1>3, <1>5, <1>11, <2>2, Reserved DEF LoginOK, NoLogout, NoLogin
    <2> QED BY <1>6, <2>1, <2>2
  <1>14. SessionOK'
    <2>1. CASE UNCHANGED auth
      BY <1>3, <1>10, <2>1 DEF SessionOK, SignedIn
    <2>2. CASE auth = "checking" /\ ~UNCHANGED auth
      <3>1. auth' # "out"
        BY <1>4, <1>6, <2>2, Reserved
      <3> QED BY <1>3, <1>5, <1>10, <1>11, <1>12, <2>2, <3>1 DEF SessionOK, SignedIn, NoLogout
    <2> QED BY <1>6, <2>1, <2>2
  <1>15. auth' \in {"reading", "checking"} => UNCHANGED auth
    BY <1>4, <1>6, Reserved
  <1>16. NetOK'
    BY <1>3, <1>7, <1>10, <1>15 DEF NetOK, Sent
  <1>17. ChildOK'
    <2>1. auth' \in {"reading", "checking"} => child'.token = token'
      BY <1>3, <1>7, <1>10, <1>15 DEF ChildOK
    <2>2. auth' \in User /\ resetting' = 0 => child'.token = token'
      BY <1>3, <1>7, <1>10, <1>12 DEF ChildOK, SignedIn
    <2>3. child'.value \in User /\ ~child'.loading /\ ~child'.failed /\ ~child'.created
            => child'.token # 0 /\ child'.value = owner[child'.token]
      <3>1. r.kind = "children" => r.token = child.token
        BY <1>1, <1>4 DEF Sent
      <3> QED BY <1>4, <1>7, <1>10, <3>1 DEF ChildOK
    <2> QED BY <1>3, <1>7, <1>10, <2>1, <2>2, <2>3 DEF ChildOK, SignedIn
  <1> QED BY <1>9, <1>13, <1>14, <1>16, <1>17 DEF IInv

-----------------------------------------------------------------------------
(* The theorems *)

LEMMA NextPreservesIInv == ASSUME IInv, [Next]_vars PROVE IInv'
  <1>1. CASE People
    <2>1. CASE \E u \in User : SignIn(u)
      BY <2>1, SignInStep
    <2>2. CASE CreateChild \/ AskOther
      <3>1. /\ clicks' \in 0..MaxClicks
            /\ net' = net \cup {Send("create")} \/ net' = net \cup {Send("other")}
            /\ UNCHANGED <<owner, expired, parents, token, auth, login, deleting, resetting, child>>
        BY <2>2, Clicks DEF IInv, CreateChild, AskOther
      <3> QED BY <3>1, AskStep
    <2> QED BY <1>1, <2>1, <2>2, SignOutStep, RefreshChildStep, RestartStep DEF People
  <1>2. CASE System
    BY <1>2, ReadTokenStep, ClearTokenStep, LoginFailsStep, StoreTokenStep, LoginDoneStep,
       DeleteTokenStep, LogoutDoneStep, AnswerStep, ArriveStep DEF System
  <1>3. CASE Expire
    BY <1>3, ExpireStep
  <1>4. CASE UNCHANGED vars
    BY <1>4 DEF IInv, TypeOK, LoginOK, SessionOK, NetOK, Sent, ChildOK, NoLogout, SignedIn,
                vars, device
  <1> QED BY <1>1, <1>2, <1>3, <1>4 DEF Next

(* The invariant the others follow from.                                   *)
THEOREM Inductive == Spec => []IInv
  BY InitIInv, NextPreservesIInv, PTL DEF Spec

(* The app, the network and the server are always of their types.          *)
THEOREM TypeCorrect == Spec => []TypeOK
  <1>1. IInv => TypeOK
    BY DEF IInv
  <1> QED BY <1>1, Inductive, PTL

(***************************************************************************)
(* For any users, refusals and overlapping logouts: the token that is      *)
(* stored is that of the session, and none is when the session was ended.  *)
(***************************************************************************)
THEOREM TokenIsOfTheSession == Spec => []TokenMatchesSession
  <1>1. ASSUME IInv PROVE TokenMatchesSession
    <2>1. TypeOK /\ SessionOK
      BY <1>1 DEF IInv
    <2>2. ~LoggingOut => resetting = 0
      BY <2>1, Logout DEF NoLogout
    <2> QED BY <2>1, <2>2 DEF TokenMatchesSession, SessionOK
  <1> QED BY <1>1, Inductive, PTL

(***************************************************************************)
(* However late the replies of an earlier session are, the child that was  *)
(* loaded is that of the user who is signed in.                            *)
(***************************************************************************)
THEOREM ChildIsOfTheSession == Spec => []ShownChildIsOwn
  <1>1. ASSUME IInv PROVE ShownChildIsOwn
    <2>1. TypeOK /\ SessionOK /\ ChildOK
      BY <1>1 DEF IInv
    <2>2. ~LoggingOut => resetting = 0
      BY <2>1, Logout DEF NoLogout
    <2> QED BY <2>1, <2>2 DEF ShownChildIsOwn, SessionOK, ChildOK, SignedIn
  <1> QED BY <1>1, Inductive, PTL
=============================================================================
