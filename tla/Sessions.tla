------------------------------ MODULE Sessions -------------------------------
(***************************************************************************)
(* One staff account, its refresh tokens on the server                     *)
(* (services/auth.service.ts, user.service.ts), and the browser that uses  *)
(* it: tabs that share a cookie jar (controllers/auth.controller.ts), each *)
(* with an access token in memory and calls that come back with a 401      *)
(* (lib/api.ts, context/AuthContext.tsx).                                  *)
(*                                                                         *)
(* A refresh is five steps on the server, none of them in a transaction:   *)
(* the token's row is read, the account is read, the row is revoked, a new *)
(* row is written, and the answer goes back.  An administrator's reset,    *)
(* deactivation or change of role may come between any two of them.        *)
(***************************************************************************)
EXTENDS Naturals, FiniteSets

CONSTANTS
    Tabs, Calls,
    TabOf,        \* the tab a call belongs to
    Tokens,       \* names for refresh tokens; one that is neither live nor held is free
    Logins,       \* names for logins, free again when nothing descends from them
    MaxChanges,   \* bound: changes an administrator makes to the account
    NoToken, Dead, NoAccess

ASSUME CallsAssumption  == TabOf \in [Calls -> Tabs]
ASSUME NamesAssumption  == MaxChanges \in Nat /\ NoToken \notin Tokens
ASSUME MarksAssumption  ==
    /\ Dead \notin [login: Logins, password: 0..MaxChanges]
    /\ NoAccess \notin [version: 0..MaxChanges, fresh: BOOLEAN]

VARIABLES
    account,   \* the User row, and the version of it and of its role
    live,      \* RefreshToken rows that are neither revoked nor expired
    cookie,    \* the refreshToken cookie
    tab,       \* what each tab holds in memory
    flight,    \* what each call is waiting for
    late,      \* history: a refresh or login was decided on a row that then changed
    owed       \* history: tabs that logged in and have met no reason to lose the session

vars == <<account, live, cookie, tab, flight, late, owed>>

Account == [state: {"active", "disabled", "deleted"}, password: 0..MaxChanges,
            version: 0..MaxChanges]
Session == [login: Logins, password: 0..MaxChanges]   \* what a token descends from
Access  == [version: 0..MaxChanges, fresh: BOOLEAN]
Tab     == [access: Access \union {NoAccess}, user: {"in", "out", "loading"}]

Quiet   == [step |-> "none"]
Waiting == [step |-> "wait"]
Sent    == [step: {"sent", "refused"}, kind: {"call", "restore"}, heard: BOOLEAN,
            token: Tokens \union {NoToken}]
Reading == [step: {"read", "known"}, kind: {"call", "restore"}, heard: BOOLEAN,
            token: Tokens, session: Session, seen: Account]
Issuing == [step: {"issuing"}, kind: {"call", "restore", "login"}, heard: BOOLEAN,
            token: Tokens \union {NoToken}, session: Session, seen: Account]
Answer  == [step: {"answer"}, kind: {"call", "restore", "login"}, heard: BOOLEAN,
            token: Tokens, seen: Account]
Flight  == {Quiet, Waiting} \union Sent \union Reading \union Issuing \union Answer

Step(c)     == flight[c].step
Busy(c)     == Step(c) \notin {"none", "wait"}
Heard(c)    == Busy(c) /\ flight[c].heard
CallsOf(t)  == { c \in Calls : TabOf[c] = t }
Excuse(ts)  == owed' = owed \ ts
Late(b)     == late' = (late \/ b)
Valid(t)    == tab[t].access # NoAccess /\ tab[t].access.fresh

Held == {cookie} \union { flight[c].token : c \in { d \in Calls : Busy(d) } }
FreeTokens == { k \in Tokens : live[k] = Dead /\ k \notin Held }
FreeLogins ==
    Logins \ ({ live[k].login : k \in { j \in Tokens : live[j] # Dead } }
        \union { flight[c].session.login :
                   c \in { d \in Calls : Step(d) \in {"read", "known", "issuing"} } })

Init ==
    /\ account = [state |-> "active", password |-> 0, version |-> 0]
    /\ live = [k \in Tokens |-> Dead]
    /\ cookie = NoToken
    /\ tab = [t \in Tabs |-> [access |-> NoAccess, user |-> "out"]]
    /\ flight = [c \in Calls |-> Quiet]
    /\ late = FALSE
    /\ owed = {}

-----------------------------------------------------------------------------
(* The browser *)

\* Fifteen minutes pass.
Expire(t) ==
    /\ Valid(t)
    /\ tab' = [tab EXCEPT ![t].access.fresh = FALSE]
    /\ UNCHANGED <<account, live, cookie, flight, late, owed>>

Send(c, kind) == [step |-> "sent", kind |-> kind, heard |-> TRUE, token |-> cookie]

\* refreshPromise: a call of this tab is refreshing already.
Refreshing(t) == \E c \in CallsOf(t) : Heard(c) /\ flight[c].kind = "call"

\* (mutant) every call that meets a 401 refreshes on its own
UnauthorizedAlone(c) ==
    /\ Step(c) = "none"
    /\ tab[TabOf[c]].user = "in" /\ ~Valid(TabOf[c])
    /\ flight' = [flight EXCEPT ![c] = Send(c, "call")]
    /\ UNCHANGED <<account, live, cookie, tab, late, owed>>

\* A call comes back with a 401: it joins the refresh of its tab, or starts one.
Unauthorized(c) ==
    /\ Step(c) = "none"
    /\ tab[TabOf[c]].user = "in" /\ ~Valid(TabOf[c])
    /\ flight' = [flight EXCEPT ![c] = IF Refreshing(TabOf[c]) THEN Waiting
                                                               ELSE Send(c, "call")]
    /\ UNCHANGED <<account, live, cookie, tab, late, owed>>

\* The tab is loaded again: its memory is gone, nobody hears its requests any more,
\* and the cookie is tried.
Load(c) ==
    LET t == TabOf[c]
    IN  /\ ~Busy(c)
        /\ tab' = [tab EXCEPT ![t].access = NoAccess, ![t].user = "loading"]
        /\ flight' = [d \in Calls |->
              IF d = c THEN Send(c, "restore")
              ELSE IF d \notin CallsOf(t) THEN flight[d]
              ELSE IF Busy(d) THEN [flight[d] EXCEPT !.heard = FALSE]
              ELSE Quiet]
        /\ Excuse({ s \in {t} : \E d \in CallsOf(t) : Heard(d) })
    /\ UNCHANGED <<account, live, cookie, late>>

\* The end of a request; with a refresh the calls that joined it end as well.
Settle(c) ==
    flight' = [d \in Calls |->
        IF d = c THEN Quiet
        ELSE IF flight[c].heard /\ flight[c].kind = "call" /\ d \in CallsOf(TabOf[c])
                /\ Step(d) = "wait" THEN Quiet
        ELSE flight[d]]

\* The answer of a refresh or a login: the browser keeps the cookie, the tab the token;
\* a login and a restored page also learn who the user is.
Receive(c) ==
    LET t == TabOf[c]
        f == flight[c]
    IN  /\ Step(c) = "answer"
        /\ Settle(c)
        /\ IF f.heard
           THEN /\ cookie' = f.token
                /\ tab' = [tab EXCEPT ![t].access = [version |-> f.seen.version, fresh |-> TRUE],
                       ![t].user = IF f.kind = "call" THEN @ ELSE "in"]
                /\ owed' = IF f.kind # "login" THEN owed
                           ELSE IF /\ f.seen = account /\ live[f.token] # Dead
                                   /\ \A d \in Calls \ {c} : ~Busy(d)
                           THEN owed \union {t} ELSE owed \ {t}
           ELSE UNCHANGED <<cookie, tab, owed>>
        /\ UNCHANGED <<account, live, late>>

\* A refresh that fails, for whatever reason, ends the session of the tab.
Bounce(c) ==
    /\ Settle(c)
    /\ tab' = IF flight[c].heard
              THEN [tab EXCEPT ![TabOf[c]].access = IF flight[c].kind = "login" THEN @ ELSE NoAccess,
                               ![TabOf[c]].user = "out"]
              ELSE tab
    /\ UNCHANGED <<account, live, cookie, late>>

Refused(c) ==
    /\ Step(c) = "refused"
    /\ Bounce(c)
    /\ UNCHANGED owed

\* The request, its answer or the server is lost on the way, or the limiter objects.
Lose(c) ==
    /\ Busy(c)
    /\ Bounce(c)
    /\ Excuse({TabOf[c]})

\* logout: the row of the cookie is revoked, the cookie cleared, the tab emptied.
Logout(t) ==
    /\ tab[t].user = "in"
    /\ live' = [k \in Tokens |-> IF k = cookie THEN Dead ELSE live[k]]
    /\ cookie' = NoToken
    /\ tab' = [tab EXCEPT ![t] = [access |-> NoAccess, user |-> "out"]]
    /\ Excuse(Tabs)
    /\ UNCHANGED <<account, flight, late>>

\* The request to log out does not get through; the tab is emptied all the same.
LogoutLost(t) ==
    /\ tab[t].user = "in"
    /\ tab' = [tab EXCEPT ![t] = [access |-> NoAccess, user |-> "out"]]
    /\ Excuse({t})
    /\ UNCHANGED <<account, live, cookie, flight, late>>

-----------------------------------------------------------------------------
(* The server *)

\* refresh: the row must be there, unrevoked and unexpired.
ReadToken(c) ==
    LET f == flight[c]
    IN  /\ Step(c) = "sent"
        /\ flight' = [flight EXCEPT ![c] =
              IF f.token = NoToken \/ live[f.token] = Dead
              THEN [f EXCEPT !.step = "refused"]
              ELSE [step |-> "read", kind |-> f.kind, heard |-> f.heard, token |-> f.token,
                    session |-> live[f.token], seen |-> account]]
        /\ UNCHANGED <<account, live, cookie, tab, late, owed>>

\* (mutant) a refresh does not ask whether the account is active
ReadAccountUnchecked(c) ==
    /\ Step(c) = "read"
    /\ flight' = [flight EXCEPT ![c].step = "known", ![c].seen = account]
    /\ UNCHANGED <<account, live, cookie, tab, late, owed>>

\* refresh: the account is read with its role and permissions, and must be active.
ReadAccount(c) ==
    LET f == flight[c]
    IN  /\ Step(c) = "read"
        /\ flight' = [flight EXCEPT ![c] =
              IF account.state = "active"
              THEN [f EXCEPT !.step = "known", !.seen = account]
              ELSE [step |-> "refused", kind |-> f.kind, heard |-> f.heard, token |-> f.token]]
        /\ UNCHANGED <<account, live, cookie, tab, late, owed>>

\* (mutant) the token that was used stays valid
RevokeNothing(c) ==
    /\ Step(c) = "known"
    /\ Late(live[flight[c].token] = Dead)
    /\ flight' = [flight EXCEPT ![c].step = "issuing"]
    /\ UNCHANGED <<account, live, cookie, tab, owed>>

\* refresh: the token that was used is revoked by its id, whatever it is by now.
Revoke(c) ==
    /\ Step(c) = "known"
    /\ Late(live[flight[c].token] = Dead)
    /\ live' = [live EXCEPT ![flight[c].token] = Dead]
    /\ flight' = [flight EXCEPT ![c].step = "issuing"]
    /\ UNCHANGED <<account, cookie, tab, owed>>

\* login: the account is read; the password is compared, slowly, with what was read.
StartLogin(c) ==
    /\ Step(c) = "none"
    /\ tab[TabOf[c]].user = "out"
    /\ \A d \in CallsOf(TabOf[c]) : ~(Heard(d) /\ flight[d].kind = "login")
    /\ account.state = "active"
    /\ \E login \in FreeLogins :
          flight' = [flight EXCEPT ![c] =
              [step |-> "issuing", kind |-> "login", heard |-> TRUE, token |-> NoToken,
               session |-> [login |-> login, password |-> account.password], seen |-> account]]
    /\ UNCHANGED <<account, live, cookie, tab, late, owed>>

\* issueTokens: a row for a new token, for the account as it was read.
Issue(c) ==
    LET f == flight[c]
    IN  /\ Step(c) = "issuing"
        /\ \E k \in FreeTokens :
              /\ live' = [live EXCEPT ![k] = f.session]
              /\ flight' = [flight EXCEPT ![c] =
                    [step |-> "answer", kind |-> f.kind, heard |-> f.heard, token |-> k,
                     seen |-> f.seen]]
        /\ Late(account.password # f.session.password \/ account.state = "deleted")
        /\ UNCHANGED <<account, cookie, tab, owed>>

\* A token reaches its expiry, seven days on.
Lapse(k) ==
    /\ live[k] # Dead
    /\ live' = [live EXCEPT ![k] = Dead]
    /\ Excuse(Tabs)
    /\ UNCHANGED <<account, cookie, tab, flight, late>>

\* logoutAll: every session of the account ends, and this browser's cookie goes.
LogoutAll(t) ==
    /\ Valid(t)
    /\ live' = [k \in Tokens |-> Dead]
    /\ cookie' = NoToken
    /\ Excuse(Tabs)
    /\ UNCHANGED <<account, tab, flight, late>>

-----------------------------------------------------------------------------
(* Administration of the account *)

Change(columns) ==
    /\ account.version < MaxChanges
    /\ account' = [columns EXCEPT !.version = account.version + 1]
    /\ UNCHANGED <<cookie, tab, flight, late>>

\* (mutant) a new password leaves the sessions of the old one alone
ResetPasswordOnly ==
    /\ account.state # "deleted"
    /\ Change([account EXCEPT !.password = account.version + 1])
    /\ Excuse(Tabs)
    /\ UNCHANGED live

\* resetPassword: the password and the revocation of every session, in a transaction.
ResetPassword ==
    /\ account.state # "deleted"
    /\ Change([account EXCEPT !.password = account.version + 1])
    /\ live' = [k \in Tokens |-> Dead]
    /\ Excuse(Tabs)

\* deactivateUser: the account and its sessions, in a transaction.
DeactivateUser ==
    /\ account.state # "deleted"
    /\ Change([account EXCEPT !.state = "deleted"])
    /\ live' = [k \in Tokens |-> Dead]
    /\ Excuse(Tabs)

\* updateUser with isActive: the sessions are left as they are.
SetActive(isActive) ==
    /\ account.state = IF isActive THEN "disabled" ELSE "active"
    /\ Change([account EXCEPT !.state = IF isActive THEN "active" ELSE "disabled"])
    /\ Excuse(Tabs)
    /\ UNCHANGED live

\* updateUser with roleId, and setRolePermissions of the role.
ChangeRole ==
    /\ account.state # "deleted"
    /\ Change(account)
    /\ UNCHANGED <<live, owed>>

-----------------------------------------------------------------------------
ServerStep(c) == ReadToken(c) \/ ReadAccount(c) \/ Revoke(c) \/ Issue(c)
ClientStep(c) == Receive(c) \/ Refused(c)

Next ==
    \/ \E c \in Calls :
          \/ Unauthorized(c) \/ Load(c) \/ StartLogin(c)
          \/ ServerStep(c) \/ ClientStep(c) \/ Lose(c)
    \/ \E t \in Tabs : Expire(t) \/ Logout(t) \/ LogoutLost(t) \/ LogoutAll(t)
    \/ \E k \in Tokens : Lapse(k)
    \/ ResetPassword \/ DeactivateUser \/ ChangeRole
    \/ \E isActive \in BOOLEAN : SetActive(isActive)

Spec == Init /\ [][Next]_vars

\* The server and the network keep working, and time passes.
FairSpec ==
    /\ Spec
    /\ \A c \in Calls : WF_vars(ServerStep(c)) /\ WF_vars(ClientStep(c))
    /\ \A t \in Tabs : WF_vars(Expire(t))

-----------------------------------------------------------------------------
TypeOK ==
    /\ account \in Account
    /\ live \in [Tokens -> Session \union {Dead}]
    /\ cookie \in Tokens \union {NoToken}
    /\ tab \in [Tabs -> Tab]
    /\ flight \in [Calls -> Flight]
    /\ late \in BOOLEAN
    /\ owed \subseteq Tabs

\* However often a login is refreshed, and wherever a refresh crashes or its answer is
\* lost, one token at most is valid for it, until two refreshes of one token overlap
\* (refresh: "a crash mid-way cannot leave two live tokens").
OneHeir ==
    late \/ \A j, k \in Tokens :
        live[j] # Dead /\ live[k] # Dead /\ live[j].login = live[k].login => j = k

\* A password reset and a deactivation end every session there was, until a refresh or
\* a login decided before one of them is carried out after it (resetPassword,
\* deactivateUser).
ResetKills ==
    late \/ \A k \in Tokens :
        live[k] # Dead => live[k].password = account.password /\ account.state # "deleted"

\* A tab that is alone with the cookie and asks for nothing unusual stays logged in
\* through every expiry of its access token, however many of its calls meet the expiry
\* at once (refreshPromise).
NeverBounced ==
    \A t \in owed : tab[t].user # "out"

\* Permissions live in the access token: once the account stops changing, every token
\* in use comes to say what the account is (AccessTokenPayload.permissions).
EventuallyCurrent ==
    <>[](\A t \in Tabs : Valid(t) =>
            tab[t].access.version = account.version /\ account.state = "active")
=============================================================================
