------------------------------ MODULE AppSession ------------------------------
(***************************************************************************)
(* The session of the Flutter app: the stored token, the auth notifier,    *)
(* the interceptors of the API client, the provider of the child and the   *)
(* redirects of the router (app/lib/state, main.dart, router.dart,         *)
(* api/api_client.dart), against a server that checks tokens.  Requests    *)
(* are answered and arrive in any order, or not at all.                    *)
(***************************************************************************)
EXTENDS Naturals, Sequences

CONSTANTS
    User,        \* people who use the device
    MaxTokens,   \* bound on the tokens that are issued
    MaxClicks    \* bound on what people do: logins, logouts, restarts, ...

ASSUME AppAssumption == MaxTokens \in Nat \ {0} /\ MaxClicks \in Nat

VARIABLES
    owner,       \* owner[t]: the user of the access token t
    expired,     \* the tokens that the server refuses by now
    parents,     \* users with a child at the server
    token,       \* the stored token, or 0
    auth,        \* a User that is signed in, or what else the notifier is at
    login,       \* a login under way
    deleting,    \* logouts that wait for the token to be deleted
    resetting,   \* logouts whose token is deleted
    child,       \* the child provider; its token is that of its last load,
                 \* and created says that no load gave the value (history)
    net,         \* requests and replies under way
    clicks       \* number of things people have done

device == <<token, auth, login, deleting, resetting, child, net>>
vars == <<owner, expired, parents, device, clicks>>

Token == 1..MaxTokens
Initial == {"reading", "checking", "clearing"}   \* the app is starting
SignedIn == auth \in User
LoggingOut == deleting + resetting > 0

NoLogin == [user |-> "nobody", step |-> "none"]
NotLoaded == "not loaded"
NoChild == "no child"

ASSUME UserAssumption ==
    User \cap (Initial \cup {"out", "error", NotLoaded, NoChild}) = {}

Creation == {"create", "stray"}      \* sent by the screen, or by an earlier one
Kind == {"me", "children", "other"} \cup Creation
Reply == {"none", "ok", "empty", "error", "401"}
Request == [kind : Kind, token : Token \cup {0}, reply : Reply]

Send(kind) == [kind |-> kind, token |-> token, reply |-> "none"]

(* A provider that is rebuilt ignores the future of its former build.      *)
Supersede(requests) ==
    {IF q.kind = "children" THEN [q EXCEPT !.kind = "other"] ELSE q :
        q \in requests}

(* The screen that creates a child goes away, its _submitting with it, but *)
(* not the request it sent.                                                *)
LeaveScreen(requests) ==
    {IF q.kind = "create" THEN [q EXCEPT !.kind = "stray"] ELSE q :
        q \in requests}

(* Its old value stays in place while it loads, and after an error; the    *)
(* splash takes the place of any other screen.                             *)
Rebuild ==
    /\ child' = [child EXCEPT !.loading = TRUE, !.token = token]
    /\ net' = LeaveScreen(Supersede(net)) \cup {Send("children")}

(* The router builds both providers as the app starts.                     *)
FirstLoad == [value |-> NotLoaded, loading |-> TRUE, failed |-> FALSE,
              created |-> FALSE, token |-> token]

Init ==
    /\ owner \in {<<>>} \cup {<<u>> : u \in User}
    /\ expired \in SUBSET DOMAIN owner
    /\ parents \in SUBSET User
    /\ token \in {0, Len(owner)}
    /\ auth = "reading"
    /\ login = NoLogin
    /\ deleting = 0 /\ resetting = 0
    /\ child = FirstLoad
    /\ net = {Send("children")}
    /\ clicks = 0

(* Where redirect puts the user; elsewhere than home is left to the user.  *)
NoValue == child.value \in {NotLoaded, NoChild}
Screen ==
    CASE auth \in Initial -> "splash"
      [] auth \in {"out", "error"} -> "login"
      [] SignedIn /\ child.loading -> "splash"
      [] SignedIn /\ ~child.loading /\ NoValue -> "create-child"
      [] OTHER -> "home"

Click == clicks < MaxClicks /\ clicks' = clicks + 1

-----------------------------------------------------------------------------
(* Starting: the token, then /me *)

ReadToken ==
    /\ auth = "reading"
    /\ IF token = 0 THEN auth' = "out" /\ UNCHANGED net
                    ELSE auth' = "checking" /\ net' = net \cup {Send("me")}
    /\ UNCHANGED <<owner, expired, parents, token, login, deleting, resetting,
                   child, clicks>>

ClearToken ==
    /\ auth = "clearing"
    /\ token' = 0
    /\ auth' = "out"
    /\ UNCHANGED <<owner, expired, parents, login, deleting, resetting, child,
                   net, clicks>>

-----------------------------------------------------------------------------
(* Signing in and out *)

(* Nobody gets through the login form while a deletion is still pending.   *)
SignIn(u) ==
    /\ Screen = "login" /\ login = NoLogin /\ ~LoggingOut
    /\ Click
    /\ login' = [user |-> u, step |-> "sent"]
    /\ UNCHANGED <<owner, expired, parents, token, auth, deleting, resetting,
                   child, net>>

LoginFails ==
    /\ login.step = "sent"
    /\ login' = NoLogin
    /\ auth' \in {"error", auth}      \* refused, or no connection
    /\ UNCHANGED <<owner, expired, parents, token, deleting, resetting, child,
                   net, clicks>>

StoreToken ==
    /\ login.step = "sent" /\ Len(owner) < MaxTokens
    /\ owner' = Append(owner, login.user)
    /\ token' = Len(owner')
    /\ login' = [login EXCEPT !.step = "stored"]
    /\ UNCHANGED <<expired, parents, auth, deleting, resetting, child, net,
                   clicks>>

LoginKeepsChild ==
    /\ login.step = "stored"
    /\ auth' = login.user
    /\ login' = NoLogin
    /\ UNCHANGED <<owner, expired, parents, token, deleting, resetting, child,
                   net, clicks>>

(* The child is reset before the state says who is signed in.              *)
LoginDone ==
    /\ login.step = "stored"
    /\ Rebuild
    /\ auth' = login.user
    /\ login' = NoLogin
    /\ UNCHANGED <<owner, expired, parents, token, deleting, resetting, clicks>>

SignOut ==
    /\ Screen = "home"
    /\ Click
    /\ deleting' = deleting + 1
    /\ UNCHANGED <<owner, expired, parents, token, auth, login, resetting,
                   child, net>>

KeepToken ==
    /\ deleting > 0
    /\ deleting' = deleting - 1 /\ resetting' = resetting + 1
    /\ UNCHANGED <<owner, expired, parents, token, auth, login, child, net,
                   clicks>>

DeleteToken ==
    /\ deleting > 0
    /\ deleting' = deleting - 1 /\ resetting' = resetting + 1
    /\ token' = 0
    /\ UNCHANGED <<owner, expired, parents, auth, login, child, net, clicks>>

LogoutDone ==
    /\ resetting > 0
    /\ resetting' = resetting - 1
    /\ Rebuild
    /\ auth' = "out"
    /\ UNCHANGED <<owner, expired, parents, token, login, deleting, clicks>>

-----------------------------------------------------------------------------
(* The child, and whatever else is asked for *)

(* The button is off while a request of this very screen is under way: one *)
(* of an earlier screen does not count.                                    *)
CreateChild ==
    /\ Screen = "create-child"
    /\ \A q \in net : q.kind # "create"
    /\ Click
    /\ net' = net \cup {Send("create")}
    /\ UNCHANGED <<owner, expired, parents, token, auth, login, deleting,
                   resetting, child>>

AskOther ==
    /\ Screen = "home"
    /\ Click
    /\ net' = net \cup {Send("other")}
    /\ UNCHANGED <<owner, expired, parents, token, auth, login, deleting,
                   resetting, child>>

(* Once the questionnaire is sent.                                         *)
RefreshChild ==
    /\ Screen = "home"
    /\ Click
    /\ Rebuild
    /\ UNCHANGED <<owner, expired, parents, token, auth, login, deleting,
                   resetting>>

Restart ==
    /\ Click
    /\ auth' = "reading"
    /\ login' = NoLogin
    /\ deleting' = 0 /\ resetting' = 0
    /\ child' = FirstLoad
    /\ net' = {Send("children")}
    /\ UNCHANGED <<owner, expired, parents, token>>

-----------------------------------------------------------------------------
(* The server and the network *)

Expire ==
    /\ \E t \in DOMAIN owner \ expired : expired' = expired \cup {t}
    /\ UNCHANGED <<owner, parents, device, clicks>>

Valid(t) == t \in DOMAIN owner \ expired

(* A second child is refused; any request may meet an error.               *)
Answers(q) ==
    IF ~Valid(q.token) THEN {"401"}
    ELSE {"error"} \cup
         CASE q.kind = "children" ->
                {IF owner[q.token] \in parents THEN "ok" ELSE "empty"}
           [] q.kind \in Creation ->
                IF owner[q.token] \in parents THEN {} ELSE {"ok"}
           [] OTHER -> {"ok"}

Answer(q) ==
    /\ q.reply = "none"
    /\ \E a \in Answers(q) :
         /\ net' = (net \ {q}) \cup {[q EXCEPT !.reply = a]}
         /\ parents' = IF q.kind \in Creation /\ a = "ok"
                       THEN parents \cup {owner[q.token]} ELSE parents
    /\ UNCHANGED <<owner, expired, token, auth, login, deleting, resetting,
                   child, clicks>>

UnauthorizedAlways(q) == deleting' = IF q.reply = "401" THEN deleting + 1 ELSE deleting

(* The interceptor sees each 401 first, and acts on it when the snapshot   *)
(* of the auth state says that somebody is signed in.                      *)
Unauthorized(q) ==
    deleting' = IF q.reply = "401" /\ SignedIn THEN deleting + 1 ELSE deleting

(* Without a reply there is an error that is not the API's.                *)
MeArrives(q) ==
    /\ q.kind = "me"
    /\ IF auth # "checking" THEN UNCHANGED auth
       ELSE auth' = CASE q.reply = "ok" -> owner[q.token]
                      [] q.reply = "401" -> "clearing"
                      [] OTHER -> "error"
    /\ UNCHANGED child

Settled(value, created) ==
    [child EXCEPT !.value = value, !.created = created,
                  !.loading = FALSE, !.failed = FALSE]

ChildrenArrive(q) ==
    /\ q.kind = "children"
    /\ child' = CASE q.reply = "ok" -> Settled(owner[q.token], FALSE)
                  [] q.reply = "empty" -> Settled(NoChild, FALSE)
                  [] OTHER ->
                       [child EXCEPT !.loading = FALSE, !.failed = TRUE]
    /\ UNCHANGED auth

(* The child is put in place whoever is signed in by then.                 *)
CreateArrives(q) ==
    /\ q.kind \in Creation
    /\ child' = IF q.reply = "ok"
                THEN Settled(owner[q.token], TRUE)
                ELSE child
    /\ UNCHANGED auth

OtherArrives(q) == q.kind = "other" /\ UNCHANGED <<auth, child>>

(* A request that is not answered, or whose answer is lost, times out.     *)
Arrive(q) ==
    /\ \E r \in {q, [q EXCEPT !.reply = "none"]} :
         /\ Unauthorized(r)
         /\ \/ MeArrives(r) \/ ChildrenArrive(r)
            \/ CreateArrives(r) \/ OtherArrives(r)
    /\ net' = net \ {q}
    /\ UNCHANGED <<owner, expired, parents, token, login, resetting, clicks>>

-----------------------------------------------------------------------------

People ==
    \/ \E u \in User : SignIn(u)
    \/ SignOut \/ CreateChild \/ AskOther \/ RefreshChild \/ Restart

System ==
    \/ ReadToken \/ ClearToken
    \/ LoginFails \/ StoreToken \/ LoginDone
    \/ DeleteToken \/ LogoutDone
    \/ \E q \in net : Answer(q) \/ Arrive(q)

Next == People \/ System \/ Expire

(* Storage answers and requests time out; people do nothing they must.     *)
Spec == Init /\ [][Next]_vars /\ WF_vars(System)

-----------------------------------------------------------------------------

TypeOK ==
    /\ owner \in Seq(User) /\ Len(owner) <= MaxTokens
    /\ expired \subseteq DOMAIN owner
    /\ parents \subseteq User
    /\ token \in 0..Len(owner)
    /\ auth \in Initial \cup {"out", "error"} \cup User
    /\ login \in [user : User, step : {"sent", "stored"}] \cup {NoLogin}
    /\ deleting \in Nat /\ resetting \in Nat
    /\ child \in [value : User \cup {NotLoaded, NoChild}, loading : BOOLEAN,
                  failed : BOOLEAN, created : BOOLEAN, token : Token \cup {0}]
    /\ net \subseteq Request
    /\ clicks \in 0..MaxClicks

(***************************************************************************)
(* Once nothing is pending, a session has the token of its user stored,    *)
(* and a session that was ended has none: the next start of the app does   *)
(* not bring it back, however many refusals and logouts overlapped.        *)
(***************************************************************************)
TokenMatchesSession ==
    ~LoggingOut /\ login.step # "stored" =>
        /\ SignedIn => token # 0 /\ owner[token] = auth
        /\ auth = "out" => token = 0

(***************************************************************************)
(* In a session the child was asked for with the token of that session,    *)
(* and a child that was loaded is of the user who is signed in: nothing    *)
(* of the user before, or of a slow reply to him, shows.  Two cases are    *)
(* left out, as the code lets them happen: a load that failed keeps the    *)
(* old value, and a creation may outlive the session it was sent in.       *)
(***************************************************************************)
ShownChildIsOwn ==
    SignedIn /\ ~LoggingOut =>
        /\ child.token = token
        /\ child.value \in User
              => \/ child.loading \/ child.failed \/ child.created
                 \/ child.value = auth

Quiet ==
    /\ net = {} /\ ~LoggingOut /\ login = NoLogin
    /\ auth \notin Initial /\ ~child.loading

(***************************************************************************)
(* When people stop, the app comes to rest on a screen other than the      *)
(* splash: a refused request, which ends the session, reloads the child    *)
(* and so is refused again, does not go round for ever (main.dart:38).     *)
(***************************************************************************)
Settles == <>[]Quiet
=============================================================================
