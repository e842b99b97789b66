-------------------------------- MODULE Login --------------------------------
(***************************************************************************)
(* Login by SMS code (server/internal/service/auth, repository/            *)
(* user_repo.go).  The code of a phone and its resend cooldown are two     *)
(* Redis keys written one after the other; a login peeks the code,         *)
(* compares, deletes it at best effort, and then creates or finds the user *)
(* in the database.  Nothing holds these steps together, so the requests   *)
(* of a phone interleave.                                                  *)
(*                                                                         *)
(* A save is named by the SendSMS request that made it.  All saves carry   *)
(* the same FixedDevCode, so a login with the right code matches whichever *)
(* is stored; one with a wrong code changes nothing and is no step.        *)
(***************************************************************************)
EXTENDS Naturals, FiniteSets

CONSTANTS
    Phone,
    Sender,      \* the SendSMS requests
    Attempt,     \* the LoginOrRegister requests, with the right code
    PhoneOf,     \* the phone of each request
    None,
    MaxFaults    \* bound on Redis and database errors

ASSUME LoginAssumption ==
    /\ IsFiniteSet(Attempt) /\ Sender \cap Attempt = {}
    /\ PhoneOf \in [Sender \cup Attempt -> Phone]
    /\ None \notin Sender \cup Attempt
    /\ MaxFaults \in Nat

VARIABLES
    cooldown,   \* auth:cd:<phone>, by the save that set it
    code,       \* auth:code:<phone>
    users,      \* the rows of users, each named by the login that inserted it
    pc,         \* where every request is
    seen,       \* the save a login matched
    account,    \* the user a login returned tokens for
    cooled,     \* the saves whose cooldown has expired
    spent,      \* the saves that a login matched and then deleted
    faults

redis == <<cooldown, code, cooled>>
logins == <<users, seen, account, spent>>
loginVars == <<redis, logins, pc, faults>>

LoginInit ==
    /\ cooldown = [p \in Phone |-> None]
    /\ code = [p \in Phone |-> None]
    /\ users = {}
    /\ pc = [r \in Sender \cup Attempt |-> "received"]
    /\ seen = [l \in Attempt |-> None]
    /\ account = [l \in Attempt |-> None]
    /\ cooled = {} /\ spent = {}
    /\ faults = 0

At(r, here, there) == pc[r] = here /\ pc' = [pc EXCEPT ![r] = there]

Fault == faults < MaxFaults /\ faults' = faults + 1

-----------------------------------------------------------------------------
(* SendSMS: CodeStore.Save.  The SMS itself changes nothing here.           *)

SetCooldownAlways(s) ==
    /\ At(s, "received", "cooling")
    /\ cooldown' = [cooldown EXCEPT ![PhoneOf[s]] = s]
    /\ UNCHANGED <<code, cooled, logins, faults>>

SetCooldown(s) ==
    /\ \/ /\ cooldown[PhoneOf[s]] = None
          /\ At(s, "received", "cooling")
          /\ cooldown' = [cooldown EXCEPT ![PhoneOf[s]] = s]
       \/ /\ cooldown[PhoneOf[s]] # None
          /\ At(s, "received", "refused")
          /\ UNCHANGED cooldown
    /\ UNCHANGED <<code, cooled, logins, faults>>

SetCode(s) ==
    /\ At(s, "cooling", "done")
    /\ code' = [code EXCEPT ![PhoneOf[s]] = s]
    /\ UNCHANGED <<cooldown, cooled, logins, faults>>

(* The command fails, before or after Redis has run it; a cooldown stays.   *)
SaveFails(s) ==
    /\ Fault
    /\ \/ /\ At(s, "received", "failed")
          /\ cooldown[PhoneOf[s]] = None
          /\ cooldown' = [cooldown EXCEPT ![PhoneOf[s]] = s] \/ UNCHANGED cooldown
          /\ UNCHANGED code
       \/ /\ At(s, "cooling", "failed")
          /\ code' = [code EXCEPT ![PhoneOf[s]] = s] \/ UNCHANGED code
          /\ UNCHANGED cooldown
    /\ UNCHANGED <<cooled, logins>>

(* A Save takes seconds and the cooldown a minute: it outlives its Save.    *)
CooldownExpires(p) ==
    /\ cooldown[p] # None /\ pc[cooldown[p]] # "cooling"
    /\ cooldown' = [cooldown EXCEPT ![p] = None]
    /\ cooled' = cooled \cup {cooldown[p]}
    /\ UNCHANGED <<code, logins, pc, faults>>

CodeExpires(p) ==
    /\ code[p] # None
    /\ code' = [code EXCEPT ![p] = None]
    /\ UNCHANGED <<cooldown, cooled, logins, pc, faults>>

-----------------------------------------------------------------------------
(* LoginOrRegister.                                                         *)

Peek(l) ==
    /\ \/ /\ code[PhoneOf[l]] # None
          /\ At(l, "received", "matched")
          /\ seen' = [seen EXCEPT ![l] = code[PhoneOf[l]]]
       \/ /\ code[PhoneOf[l]] = None
          /\ At(l, "received", "refused")
          /\ UNCHANGED seen
    /\ UNCHANGED <<redis, users, account, spent, faults>>

PeekFails(l) ==
    /\ Fault
    /\ At(l, "received", "failed")
    /\ UNCHANGED <<redis, logins>>

ConsumeNothing(l) ==
    /\ At(l, "matched", "consumed")
    /\ spent' = spent \cup {seen[l]}
    /\ UNCHANGED <<redis, users, seen, account, faults>>

(* DEL takes the code that is stored by now, not the one that was matched.  *)
Consume(l) ==
    /\ At(l, "matched", "consumed")
    /\ code' = [code EXCEPT ![PhoneOf[l]] = None]
    /\ spent' = spent \cup {seen[l]}
    /\ UNCHANGED <<cooldown, cooled, users, seen, account, faults>>

(* The error of Consume is ignored: the login goes on.                      *)
ConsumeFails(l) ==
    /\ Fault
    /\ At(l, "matched", "consumed")
    /\ code' = [code EXCEPT ![PhoneOf[l]] = None] \/ UNCHANGED code
    /\ UNCHANGED <<cooldown, cooled, logins>>

Registered(l) == {u \in users : PhoneOf[u] = PhoneOf[l]}

IssueTokens(l, here) ==
    /\ At(l, here, "done")
    /\ \E u \in Registered(l) : account' = [account EXCEPT ![l] = u]

(* CreateOrGet: select, insert when absent, select again when that fails.   *)
FindUser(l) ==
    /\ \/ IssueTokens(l, "consumed")
       \/ /\ Registered(l) = {}
          /\ At(l, "consumed", "absent")
          /\ UNCHANGED account
    /\ UNCHANGED <<redis, users, seen, spent, faults>>

InsertDuplicate(l) ==
    /\ At(l, "absent", "done")
    /\ users' = users \cup {l}
    /\ account' = [account EXCEPT ![l] = l]
    /\ UNCHANGED <<redis, seen, spent, faults>>

InsertUser(l) ==
    /\ \/ /\ Registered(l) = {}
          /\ At(l, "absent", "done")
          /\ users' = users \cup {l}
          /\ account' = [account EXCEPT ![l] = l]
       \/ /\ Registered(l) # {}
          /\ At(l, "absent", "not_inserted")
          /\ UNCHANGED <<users, account>>
    /\ UNCHANGED <<redis, seen, spent, faults>>

InsertFails(l) ==
    /\ Fault
    /\ At(l, "absent", "not_inserted")
    /\ \/ UNCHANGED users
       \/ Registered(l) = {} /\ users' = users \cup {l}
    /\ UNCHANGED <<redis, seen, account, spent>>

RefetchGivesUp(l) ==
    /\ At(l, "not_inserted", "failed")
    /\ UNCHANGED <<redis, logins, faults>>

Refetch(l) ==
    /\ \/ IssueTokens(l, "not_inserted")
       \/ /\ Registered(l) = {}
          /\ At(l, "not_inserted", "failed")
          /\ UNCHANGED account
    /\ UNCHANGED <<redis, users, seen, spent, faults>>

SelectFails(l) ==
    /\ Fault
    /\ At(l, "consumed", "failed") \/ At(l, "not_inserted", "failed")
    /\ UNCHANGED <<redis, logins>>

-----------------------------------------------------------------------------

SendSMS(s) == SetCooldown(s) \/ SetCode(s) \/ SaveFails(s)

LoginOrRegister(l) ==
    \/ Peek(l) \/ PeekFails(l)
    \/ Consume(l) \/ ConsumeFails(l)
    \/ FindUser(l) \/ SelectFails(l)
    \/ InsertUser(l) \/ InsertFails(l) \/ Refetch(l)

LoginNext ==
    \/ \E s \in Sender : SendSMS(s)
    \/ \E l \in Attempt : LoginOrRegister(l)
    \/ \E p \in Phone : CooldownExpires(p) \/ CodeExpires(p)

LoginSpec == LoginInit /\ [][LoginNext]_loginVars

-----------------------------------------------------------------------------

SenderPC == {"received", "cooling", "done", "refused", "failed"}
AttemptPC == {"received", "matched", "consumed", "absent", "not_inserted",
              "done", "refused", "failed"}

LoginTypeOK ==
    /\ cooldown \in [Phone -> Sender \cup {None}]
    /\ code \in [Phone -> Sender \cup {None}]
    /\ users \subseteq Attempt
    /\ DOMAIN pc = Sender \cup Attempt
    /\ \A s \in Sender : pc[s] \in SenderPC
    /\ \A l \in Attempt : pc[l] \in AttemptPC
    /\ seen \in [Attempt -> Sender \cup {None}]
    /\ account \in [Attempt -> Attempt \cup {None}]
    /\ cooled \subseteq Sender /\ spent \subseteq Sender
    /\ faults \in 0..MaxFaults

(***************************************************************************)
(* Whoever logs in with a phone gets the one account of that phone, also   *)
(* when the first logins of a new phone race (user_repo.go, CreateOrGet).  *)
(***************************************************************************)
OneAccountPerPhone ==
    \A l, m \in Attempt :
        pc[l] = "done" /\ pc[m] = "done" /\ PhoneOf[l] = PhoneOf[m] => account[l] = account[m]

(***************************************************************************)
(* A race alone never fails a login (the re-fetch of CreateOrGet): there   *)
(* are no more failed logins than errors of Redis and the database.        *)
(***************************************************************************)
FailuresNeedFaults == Cardinality({l \in Attempt : pc[l] = "failed"}) <= faults

(***************************************************************************)
(* Consume prevents the replay of a validated code (codestore.go): once it *)
(* has succeeded, no later login matches that save.                        *)
(***************************************************************************)
SpentCodeIsRefused ==
    [][\A l \in Attempt : seen'[l] # seen[l] => seen'[l] \notin spent]_loginVars

(***************************************************************************)
(* A code the parent was sent is replaced by another one only after its    *)
(* cooldown (codestore.go: "without overwriting the existing code").       *)
(***************************************************************************)
CooldownGuardsCode ==
    [][\A p \in Phone : code[p] # None /\ code'[p] \notin {code[p], None}
                            => code[p] \in cooled]_loginVars

(***************************************************************************)
(* Consume deletes whatever code is stored by then.  A login that deletes  *)
(* another code than the one it matched has matched one whose cooldown is  *)
(* over, before the login began or while it went on: a code used within    *)
(* its minute never costs the parent a newer one.  An older one may (a     *)
(* code lives five minutes), however fast the login is.                    *)
(***************************************************************************)
LostCodeNeedsOldCode ==
    [][\A l \in Attempt :
         LET p == PhoneOf[l] IN
         /\ pc[l] = "matched" /\ pc'[l] = "consumed"
         /\ code[p] # None /\ code'[p] = None
         => code[p] = seen[l] \/ seen[l] \in cooled]_loginVars
=============================================================================
