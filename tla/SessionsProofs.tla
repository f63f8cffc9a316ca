--------------------------- MODULE SessionsProofs ----------------------------
(***************************************************************************)
(* Proofs about staff sessions.  OneHeir speaks of tokens; what makes it    *)
(* inductive speaks of the refreshes in flight as well: one that is about   *)
(* to issue a token has no living relative (SoleIssuer), and one that has   *)
(* read a token's row knows what the row says, for as long as it is valid   *)
(* (KnowsRow).  NeverBounced speaks of a tab; what keeps it logged in is    *)
(* the one request it has, and the cookie until that is answered (Kept).    *)
(***************************************************************************)
EXTENDS Sessions, TLAPS

IsIssuing(c) == Step(c) = "issuing"
IsReading(c) == Step(c) \in {"read", "known"}
Of(k, login) == live[k] # Dead /\ live[k].login = login

\* The row a refresh has read is still what it read, or revoked.
KnowsRow ==
    \A c \in Calls : IsReading(c) =>
        /\ flight[c].token \in Tokens
        /\ live[flight[c].token] \in {flight[c].session, Dead}

\* A login has one living token, or one refresh about to issue one, and never both.
OneToken ==
    \A j, k \in Tokens :
        live[j] # Dead /\ live[k] # Dead /\ live[j].login = live[k].login => j = k
SoleIssuer ==
    \A c \in Calls : IsIssuing(c) =>
        /\ \A k \in Tokens : ~Of(k, flight[c].session.login)
        /\ \A d \in Calls :
              IsIssuing(d) /\ flight[d].session.login = flight[c].session.login => d = c

Killed ==
    \A k \in Tokens :
        live[k] # Dead => live[k].password = account.password /\ account.state # "deleted"

IInv == /\ TypeOK
        /\ KnowsRow
        /\ ~late => OneToken /\ SoleIssuer /\ Killed

-----------------------------------------------------------------------------
(* Types *)

\* A request at each step has the fields of that step.
LEMMA FlightKinds ==
    ASSUME TypeOK, NEW c \in Calls
    PROVE  /\ flight[c] \in Flight
           /\ Step(c) = "none" => flight[c] = Quiet
           /\ Step(c) = "wait" => flight[c] = Waiting
           /\ Step(c) \in {"sent", "refused"} => flight[c] \in Sent
           /\ IsReading(c) => flight[c] \in Reading
           /\ IsIssuing(c) => flight[c] \in Issuing
           /\ Step(c) = "answer" => flight[c] \in Answer
           /\ Busy(c) <=> flight[c] \in Sent \union Reading \union Issuing \union Answer
           /\ Busy(c) <=> flight[c] # Quiet /\ flight[c] # Waiting
  <1> DEFINE f == flight[c]
  <1>1. f \in Flight
    BY DEF TypeOK
  <1> HIDE DEF f
  <1>2. /\ f.step = "none" => f = Quiet
        /\ f.step = "wait" => f = Waiting
        /\ f.step \in {"sent", "refused"} => f \in Sent
        /\ f.step \in {"read", "known"} => f \in Reading
        /\ f.step = "issuing" => f \in Issuing
        /\ f.step = "answer" => f \in Answer
        /\ f.step \notin {"none", "wait"} <=> f \in Sent \union Reading \union Issuing \union Answer
        /\ f.step \notin {"none", "wait"} <=> f # Quiet /\ f # Waiting
    BY <1>1 DEF Flight, Quiet, Waiting, Sent, Reading, Issuing, Answer
  <1> QED BY <1>1, <1>2 DEF f, Step, Busy, IsReading, IsIssuing

\* A request nobody hears any more is still a request, at the same step.
LEMMA Unheard ==
    ASSUME NEW f \in Sent \union Reading \union Issuing \union Answer
    PROVE  LET g == [f EXCEPT !.heard = FALSE]
           IN  /\ g \in Flight /\ g.step = f.step /\ g.token = f.token
               /\ g.step \in {"read", "known", "issuing"} => g.session = f.session
  <1>1. CASE f \in Sent
    BY <1>1 DEF Sent, Flight
  <1>2. CASE f \in Reading
    BY <1>2 DEF Reading, Flight
  <1>3. CASE f \in Issuing
    BY <1>3 DEF Issuing, Flight
  <1>4. CASE f \in Answer
    BY <1>4 DEF Answer, Flight
  <1> QED BY <1>1, <1>2, <1>3, <1>4

LEMMA InitType == Init => TypeOK
  <1> SUFFICES ASSUME Init PROVE TypeOK
    OBVIOUS
  <1>1. MaxChanges \in Nat /\ 0 \in 0..MaxChanges
    BY NamesAssumption
  <1>2. account \in Account
    BY <1>1 DEF Init, Account
  <1>3. tab \in [Tabs -> Tab]
    BY DEF Init, Tab
  <1>4. flight \in [Calls -> Flight]
    BY DEF Init, Flight
  <1> QED BY <1>2, <1>3, <1>4 DEF Init, TypeOK

\* The requests of a browser, whatever becomes of them, end or go on unheard.
FlightFades ==
    \A d \in Calls : \/ flight'[d] = flight[d]
                     \/ flight'[d] = Quiet
                     \/ Busy(d) /\ flight'[d] = [flight[d] EXCEPT !.heard = FALSE]

LEMMA SettleFades ==
    ASSUME TypeOK, NEW c \in Calls, Settle(c)
    PROVE  FlightFades /\ flight' \in [Calls -> Flight]
  <1>1. \A d \in Calls : flight'[d] \in {flight[d], Quiet}
    BY DEF Settle
  <1>2. Quiet \in Flight
    BY DEF Flight
  <1> QED BY <1>1, <1>2 DEF FlightFades, Settle, TypeOK

\* One call of the browser or one handler moves on.
LEMMA MoveType ==
    ASSUME TypeOK, NEW c \in Calls, NEW f \in Flight, flight' = [flight EXCEPT ![c] = f]
    PROVE  /\ flight' \in [Calls -> Flight] /\ flight'[c] = f
           /\ \A d \in Calls \ {c} : flight'[d] = flight[d]
  BY DEF TypeOK

LEMMA SendType ==
    ASSUME TypeOK, NEW c \in Calls, NEW kind \in {"call", "restore"}
    PROVE  Send(c, kind) \in Sent /\ Send(c, kind) \in Flight /\ Send(c, kind).step = "sent"
  BY DEF TypeOK, Send, Sent, Flight

\* One field of one tab's row is changed.
LEMMA TabFields ==
    ASSUME NEW g \in [Tabs -> Tab], NEW t \in Tabs,
           NEW access \in Access \union {NoAccess}, NEW user \in {"in", "out", "loading"}
    PROVE  /\ g[t].access \in Access \union {NoAccess} /\ g[t].user \in {"in", "out", "loading"}
           /\ [g EXCEPT ![t].access = access] \in [Tabs -> Tab]
           /\ [g EXCEPT ![t].user = user] \in [Tabs -> Tab]
           /\ [g EXCEPT ![t].access = access, ![t].user = user] \in [Tabs -> Tab]
  <1>1. ASSUME NEW h \in [Tabs -> Tab]
        PROVE  /\ h[t].access \in Access \union {NoAccess}
               /\ h[t].user \in {"in", "out", "loading"}
               /\ [h[t] EXCEPT !.access = access] \in Tab
               /\ [h[t] EXCEPT !.user = user] \in Tab
    <2>1. h[t] \in Tab
      OBVIOUS
    <2> QED BY <2>1 DEF Tab
  <1>2. ASSUME NEW h \in [Tabs -> Tab]
        PROVE  /\ [h EXCEPT ![t].access = access] \in [Tabs -> Tab]
               /\ [h EXCEPT ![t].user = user] \in [Tabs -> Tab]
    BY <1>1
  <1>3. [g EXCEPT ![t].access = access, ![t].user = user] \in [Tabs -> Tab]
    <2> DEFINE h == [g EXCEPT ![t].access = access]
    <2>1. h \in [Tabs -> Tab]
      BY <1>2
    <2>2. [h EXCEPT ![t].user = user] \in [Tabs -> Tab]
      <3> HIDE DEF h
      <3> QED BY <1>2, <2>1
    <2> QED BY <2>2
  <1> QED BY <1>1, <1>2, <1>3

LEMMA BrowserType ==
    ASSUME TypeOK, NEW c \in Calls,
           Unauthorized(c) \/ Load(c) \/ Receive(c) \/ Refused(c) \/ Lose(c)
    PROVE  TypeOK'
  <1> DEFINE t == TabOf[c]
  <1>t. t \in Tabs
    BY CallsAssumption
  <1>1. CASE Unauthorized(c)
    <2>1. Send(c, "call") \in Flight /\ Waiting \in Flight
      BY SendType DEF Flight
    <2>2. flight' \in [Calls -> Flight]
      BY <1>1, <2>1 DEF Unauthorized, TypeOK
    <2> QED BY <1>1, <2>2 DEF Unauthorized, TypeOK
  <1>2. CASE Load(c)
    <2>1. \A d \in Calls : Busy(d) => [flight[d] EXCEPT !.heard = FALSE] \in Flight
      BY FlightKinds, Unheard
    <2>2. Send(c, "restore") \in Flight /\ Quiet \in Flight
      BY SendType DEF Flight
    <2>3. flight' \in [Calls -> Flight]
      BY <1>2, <2>1, <2>2 DEF Load, TypeOK
    <2>5. tab' \in [Tabs -> Tab]
      BY <1>2, <1>t, TabFields DEF Load, TypeOK
    <2> QED BY <1>2, <2>3, <2>5 DEF Load, Excuse, TypeOK
  <1>3. CASE Receive(c)
    <2> DEFINE f == flight[c]
    <2>1. f \in Answer
      BY <1>3, FlightKinds DEF Receive
    <2>2. /\ f.token \in Tokens
          /\ [version |-> f.seen.version, fresh |-> TRUE] \in Access
          /\ f.heard \in BOOLEAN
      BY <2>1 DEF Answer, Account, Access
    <2>3. flight' \in [Calls -> Flight]
      BY <1>3, SettleFades DEF Receive
    <2>4. CASE f.heard
      <3> DEFINE access == [version |-> f.seen.version, fresh |-> TRUE]
                 g == [tab EXCEPT ![t].access = access]
                 user == IF f.kind = "call" THEN g[t].user ELSE "in"
      <3>1. g \in [Tabs -> Tab] /\ access \in Access
        BY <1>t, <2>2, TabFields DEF TypeOK
      <3>2. tab' \in [Tabs -> Tab]
        <4>1. tab' = [g EXCEPT ![t].user = user]
          BY <1>3, <2>4 DEF Receive
        <4> HIDE DEF g
        <4>2. user \in {"in", "out", "loading"}
          BY <1>t, <3>1, TabFields
        <4> HIDE DEF user
        <4> QED BY <1>t, <3>1, <4>1, <4>2, TabFields
      <3>3. owed' \subseteq Tabs
        BY <1>3, <1>t, <2>4 DEF Receive, TypeOK
      <3> QED BY <1>3, <2>2, <2>3, <2>4, <3>2, <3>3 DEF Receive, TypeOK
    <2>5. CASE ~f.heard
      BY <1>3, <2>3, <2>5 DEF Receive, TypeOK
    <2> QED BY <2>4, <2>5
  <1>4. ASSUME Bounce(c) PROVE flight' \in [Calls -> Flight] /\ tab' \in [Tabs -> Tab]
    <2>1. flight' \in [Calls -> Flight]
      BY <1>4, SettleFades DEF Bounce
    <2>2. CASE flight[c].heard
      <3> DEFINE access == IF flight[c].kind = "login" THEN tab[t].access ELSE NoAccess
      <3>1. tab' = [tab EXCEPT ![t].access = access, ![t].user = "out"]
        BY <1>4, <2>2 DEF Bounce
      <3>2. access \in Access \union {NoAccess}
        BY <1>t, TabFields DEF TypeOK
      <3> HIDE DEF access
      <3> QED BY <1>t, <2>1, <3>1, <3>2, TabFields DEF TypeOK
    <2>3. CASE ~flight[c].heard
      BY <1>4, <2>1, <2>3 DEF Bounce, TypeOK
    <2> QED BY <2>2, <2>3
  <1>5. CASE Refused(c)
    BY <1>4, <1>5 DEF Refused, Bounce, TypeOK
  <1>6. CASE Lose(c)
    BY <1>4, <1>6 DEF Lose, Bounce, Excuse, TypeOK
  <1> QED BY <1>1, <1>2, <1>3, <1>5, <1>6

LEMMA TabType ==
    ASSUME TypeOK, NEW t \in Tabs, Expire(t) \/ Logout(t) \/ LogoutLost(t) \/ LogoutAll(t)
    PROVE  TypeOK'
  <1>1. CASE Expire(t)
    <2> DEFINE access == [tab[t].access EXCEPT !.fresh = FALSE]
    <2>1. tab' = [tab EXCEPT ![t].access = access]
      BY <1>1 DEF Expire
    <2>2. access \in Access
      <3>1. tab[t] \in Tab /\ tab[t].access # NoAccess
        BY <1>1 DEF Expire, Valid, TypeOK
      <3>2. tab[t].access \in Access
        BY <3>1 DEF Tab
      <3> QED BY <3>2 DEF Access
    <2> HIDE DEF access
    <2>3. tab' \in [Tabs -> Tab]
      BY <2>1, <2>2, TabFields DEF TypeOK
    <2> QED BY <1>1, <2>3 DEF Expire, TypeOK
  <1>2. [access |-> NoAccess, user |-> "out"] \in Tab
    BY DEF Tab
  <1>3. CASE Logout(t)
    BY <1>2, <1>3 DEF Logout, Excuse, TypeOK
  <1>4. CASE LogoutLost(t)
    BY <1>2, <1>4 DEF LogoutLost, Excuse, TypeOK
  <1>5. CASE LogoutAll(t)
    BY <1>5 DEF LogoutAll, Excuse, TypeOK
  <1> QED BY <1>1, <1>3, <1>4, <1>5

LEMMA LapseType ==
    ASSUME TypeOK, NEW k \in Tokens, Lapse(k)
    PROVE  TypeOK'
  BY DEF Lapse, Excuse, TypeOK

\* What each step of a handler makes of its request.
LEMMA ReadTokenMoves ==
    ASSUME TypeOK, NEW c \in Calls, ReadToken(c)
    PROVE  \E f \in Flight :
              /\ flight' = [flight EXCEPT ![c] = f]
              /\ \/ f.step = "refused"
                 \/ f.step = "read" /\ f.token \in Tokens /\ live[f.token] = f.session
  <1> DEFINE f == flight[c]
             r == [f EXCEPT !.step = "refused"]
             g == [step |-> "read", kind |-> f.kind, heard |-> f.heard, token |-> f.token,
                   session |-> live[f.token], seen |-> account]
  <1>1. f \in Sent
    BY FlightKinds DEF ReadToken
  <1>2. CASE f.token = NoToken \/ live[f.token] = Dead
    <2>1. flight' = [flight EXCEPT ![c] = r]
      BY <1>2 DEF ReadToken
    <2>2. r \in Flight /\ r.step = "refused"
      BY <1>1 DEF Sent, Flight
    <2> QED BY <2>1, <2>2
  <1>3. CASE f.token # NoToken /\ live[f.token] # Dead
    <2>1. flight' = [flight EXCEPT ![c] = g]
      BY <1>3 DEF ReadToken
    <2>2. f.token \in Tokens /\ live[f.token] \in Session /\ account \in Account
      BY <1>1, <1>3 DEF Sent, TypeOK
    <2>3. f.kind \in {"call", "restore"} /\ f.heard \in BOOLEAN
      BY <1>1 DEF Sent
    <2>4. g \in Flight
      BY <2>2, <2>3 DEF Flight, Reading
    <2> QED BY <1>3, <2>1, <2>2, <2>4
  <1> QED BY <1>2, <1>3

LEMMA ReadAccountMoves ==
    ASSUME TypeOK, NEW c \in Calls, ReadAccount(c)
    PROVE  \E f \in Flight :
              /\ flight' = [flight EXCEPT ![c] = f]
              /\ \/ f.step = "refused"
                 \/ /\ f.step = "known" /\ f.token = flight[c].token
                    /\ f.session = flight[c].session
  <1> DEFINE f == flight[c]
             g == [f EXCEPT !.step = "known", !.seen = account]
             r == [step |-> "refused", kind |-> f.kind, heard |-> f.heard, token |-> f.token]
  <1>1. f \in Reading /\ account \in Account
    BY FlightKinds DEF ReadAccount, IsReading, TypeOK
  <1>2. CASE account.state = "active"
    <2>1. flight' = [flight EXCEPT ![c] = g]
      BY <1>2 DEF ReadAccount
    <2>2. g \in Flight /\ g.step = "known" /\ g.session = f.session /\ g.token = f.token
      BY <1>1 DEF Reading, Flight
    <2> QED BY <2>1, <2>2
  <1>3. CASE account.state # "active"
    <2>1. flight' = [flight EXCEPT ![c] = r]
      BY <1>3 DEF ReadAccount
    <2>2. r \in Flight
      BY <1>1 DEF Reading, Sent, Flight
    <2> QED BY <2>1, <2>2
  <1> QED BY <1>2, <1>3

LEMMA RevokeMoves ==
    ASSUME TypeOK, NEW c \in Calls, Revoke(c)
    PROVE  /\ flight[c].token \in Tokens
           /\ \E f \in Flight :
                /\ flight' = [flight EXCEPT ![c] = f]
                /\ f.step = "issuing" /\ f.session = flight[c].session
  <1> DEFINE f == flight[c]
             g == [f EXCEPT !.step = "issuing"]
  <1>1. f \in Reading
    BY FlightKinds DEF Revoke, IsReading
  <1>2. flight' = [flight EXCEPT ![c] = g]
    BY DEF Revoke
  <1>3. f.token \in Tokens /\ g \in Flight /\ g.step = "issuing" /\ g.session = f.session
    BY <1>1 DEF Reading, Issuing, Flight
  <1> QED BY <1>2, <1>3

LEMMA StartLoginMoves ==
    ASSUME TypeOK, NEW c \in Calls, StartLogin(c)
    PROVE  \E f \in Flight :
              /\ flight' = [flight EXCEPT ![c] = f]
              /\ f.step = "issuing" /\ f.session.login \in FreeLogins
  <1>1. PICK login \in FreeLogins :
              flight' = [flight EXCEPT ![c] =
                  [step |-> "issuing", kind |-> "login", heard |-> TRUE, token |-> NoToken,
                   session |-> [login |-> login, password |-> account.password],
                   seen |-> account]]
    BY DEF StartLogin
  <1> DEFINE session == [login |-> login, password |-> account.password]
             f == [step |-> "issuing", kind |-> "login", heard |-> TRUE, token |-> NoToken,
                   session |-> session, seen |-> account]
  <1>2. account \in Account /\ session \in Session /\ session.login = login
    BY DEF Session, Account, FreeLogins, TypeOK
  <1> HIDE DEF session
  <1>3. f \in Flight
    BY <1>2 DEF Flight, Issuing
  <1> QED BY <1>1, <1>2, <1>3 DEF session

LEMMA IssueMoves ==
    ASSUME TypeOK, NEW c \in Calls, Issue(c)
    PROVE  /\ flight[c].session \in Session
           /\ \E k \in FreeTokens : live' = [live EXCEPT ![k] = flight[c].session]
           /\ \E f \in Flight :
                flight' = [flight EXCEPT ![c] = f] /\ f.step = "answer"
  <1> DEFINE f == flight[c]
  <1>1. f \in Issuing
    BY FlightKinds DEF Issue, IsIssuing
  <1>2. /\ f.session \in Session /\ f.kind \in {"call", "restore", "login"}
        /\ f.heard \in BOOLEAN /\ f.seen \in Account
    BY <1>1 DEF Issuing
  <1>3. PICK k \in FreeTokens :
            /\ live' = [live EXCEPT ![k] = f.session]
            /\ flight' = [flight EXCEPT ![c] =
                  [step |-> "answer", kind |-> f.kind, heard |-> f.heard, token |-> k,
                   seen |-> f.seen]]
    BY DEF Issue
  <1>4. [step |-> "answer", kind |-> f.kind, heard |-> f.heard, token |-> k, seen |-> f.seen]
            \in Flight
    BY <1>2, <1>3 DEF FreeTokens, Flight, Answer
  <1> QED BY <1>2, <1>3, <1>4

LEMMA HandlerType ==
    ASSUME TypeOK, NEW c \in Calls, ServerStep(c) \/ StartLogin(c)
    PROVE  TypeOK'
  <1>1. CASE ReadToken(c)
    BY <1>1, ReadTokenMoves DEF ReadToken, TypeOK
  <1>2. CASE ReadAccount(c)
    BY <1>2, ReadAccountMoves DEF ReadAccount, TypeOK
  <1>3. CASE Revoke(c)
    <2>1. flight' \in [Calls -> Flight]
      BY <1>3, RevokeMoves, MoveType
    <2>2. live' \in [Tokens -> Session \union {Dead}]
      BY <1>3 DEF Revoke, TypeOK
    <2> QED BY <1>3, <2>1, <2>2 DEF Revoke, Late, TypeOK
  <1>4. CASE StartLogin(c)
    BY <1>4, StartLoginMoves, MoveType DEF StartLogin, TypeOK
  <1>5. CASE Issue(c)
    <2>1. flight' \in [Calls -> Flight]
      BY <1>5, IssueMoves, MoveType
    <2>2. live' \in [Tokens -> Session \union {Dead}]
      BY <1>5, IssueMoves DEF TypeOK
    <2> QED BY <1>5, <2>1, <2>2 DEF Issue, Late, TypeOK
  <1> QED BY <1>1, <1>2, <1>3, <1>4, <1>5 DEF ServerStep

Administer == \/ ResetPassword \/ DeactivateUser \/ ChangeRole
              \/ \E isActive \in BOOLEAN : SetActive(isActive)

LEMMA AdministerType ==
    ASSUME TypeOK, Administer
    PROVE  TypeOK'
  <1>1. account \in Account /\ MaxChanges \in Nat
    BY NamesAssumption DEF TypeOK
  <1>2. ASSUME NEW columns \in [state: {"active", "disabled", "deleted"}, password: 0..MaxChanges,
                                version: Nat], Change(columns)
        PROVE  account' \in Account
    <2>1. account.version + 1 \in 0..MaxChanges
      BY <1>1, <1>2 DEF Change, Account
    <2>2. account' = [columns EXCEPT !.version = account.version + 1]
      BY <1>2 DEF Change
    <2> QED BY <2>1, <2>2 DEF Account
  <1> QED
    <2>1. CASE ResetPassword
      <3> DEFINE columns == [account EXCEPT !.password = account.version + 1]
      <3>1. account.version + 1 \in 0..MaxChanges
        BY <1>1, <2>1 DEF ResetPassword, Change, Account
      <3>2. columns \in [state: {"active", "disabled", "deleted"}, password: 0..MaxChanges,
                         version: Nat]
        BY <1>1, <3>1 DEF Account
      <3>3. Change(columns)
        BY <2>1 DEF ResetPassword
      <3>4. account' \in Account
        BY <1>2, <3>2, <3>3
      <3> QED BY <2>1, <3>4 DEF ResetPassword, Change, Excuse, TypeOK
    <2>2. CASE DeactivateUser
      <3> DEFINE columns == [account EXCEPT !.state = "deleted"]
      <3>1. columns \in [state: {"active", "disabled", "deleted"}, password: 0..MaxChanges,
                         version: Nat]
        BY <1>1 DEF Account
      <3>2. Change(columns)
        BY <2>2 DEF DeactivateUser
      <3>3. account' \in Account
        BY <1>2, <3>1, <3>2
      <3> QED BY <2>2, <3>3 DEF DeactivateUser, Change, Excuse, TypeOK
    <2>3. CASE ChangeRole
      <3>1. account \in [state: {"active", "disabled", "deleted"}, password: 0..MaxChanges,
                         version: Nat]
        BY <1>1 DEF Account
      <3>2. account' \in Account
        BY <1>2, <2>3, <3>1 DEF ChangeRole
      <3> QED BY <2>3, <3>2 DEF ChangeRole, Change, TypeOK
    <2>4. ASSUME NEW isActive \in BOOLEAN, SetActive(isActive) PROVE TypeOK'
      <3> DEFINE columns == [account EXCEPT !.state = IF isActive THEN "active" ELSE "disabled"]
      <3>1. columns \in [state: {"active", "disabled", "deleted"}, password: 0..MaxChanges,
                         version: Nat]
        BY <1>1 DEF Account
      <3>2. Change(columns)
        BY <2>4 DEF SetActive
      <3>3. account' \in Account
        BY <1>2, <3>1, <3>2
      <3> QED BY <2>4, <3>3 DEF SetActive, Change, Excuse, TypeOK
    <2> QED BY <2>1, <2>2, <2>3, <2>4 DEF Administer

\* TypeCorrect: every variable of the account, its tokens and its browser keeps its type.
THEOREM TypeCorrect == Spec => []TypeOK
  <1>1. TypeOK /\ [Next]_vars => TypeOK'
    <2> SUFFICES ASSUME TypeOK, [Next]_vars PROVE TypeOK'
      OBVIOUS
    <2>1. ASSUME NEW c \in Calls, \/ Unauthorized(c) \/ Load(c) \/ Receive(c)
                                  \/ Refused(c) \/ Lose(c)
          PROVE  TypeOK'
      BY <2>1, BrowserType
    <2>2. ASSUME NEW c \in Calls, ServerStep(c) \/ StartLogin(c) PROVE TypeOK'
      BY <2>2, HandlerType
    <2>3. ASSUME NEW t \in Tabs, Expire(t) \/ Logout(t) \/ LogoutLost(t) \/ LogoutAll(t)
          PROVE  TypeOK'
      BY <2>3, TabType
    <2>4. ASSUME NEW k \in Tokens, Lapse(k) PROVE TypeOK'
      BY <2>4, LapseType
    <2>5. CASE UNCHANGED vars
      BY <2>5 DEF vars, TypeOK
    <2> QED BY <2>1, <2>2, <2>3, <2>4, <2>5, AdministerType DEF Next, ClientStep, Administer
  <1> QED BY <1>1, InitType, PTL DEF Spec

-----------------------------------------------------------------------------
(* One token for a login, and none that a reset should have ended *)

\* No request starts to read a token or to issue one, and tokens are only revoked: what
\* most steps of a browser and of an administrator come to.
NoNewer(d) ==
    /\ IsReading(d)' => IsReading(d) /\ flight'[d].token = flight[d].token
    /\ IsIssuing(d)' => IsIssuing(d)
    /\ IsReading(d)' \/ IsIssuing(d)' => flight'[d].session = flight[d].session
Quieter  == \A d \in Calls : NoNewer(d)
Revoking == \A k \in Tokens : live'[k] \in {live[k], Dead}

LEMMA FadeIsNoNewer ==
    ASSUME TypeOK, NEW d \in Calls,
           \/ flight'[d] = flight[d]
           \/ flight'[d] = Quiet
           \/ Busy(d) /\ flight'[d] = [flight[d] EXCEPT !.heard = FALSE]
    PROVE  NoNewer(d)
  <1>1. CASE flight'[d] = flight[d]
    BY <1>1 DEF NoNewer, IsReading, IsIssuing, Step
  <1>2. CASE flight'[d] = Quiet
    BY <1>2 DEF NoNewer, IsReading, IsIssuing, Step, Quiet
  <1>3. CASE Busy(d) /\ flight'[d] = [flight[d] EXCEPT !.heard = FALSE]
    <2>1. flight[d] \in Sent \union Reading \union Issuing \union Answer
      BY <1>3, FlightKinds
    <2>2. /\ flight'[d].step = flight[d].step /\ flight'[d].token = flight[d].token
          /\ flight'[d].step \in {"read", "known", "issuing"}
                => flight'[d].session = flight[d].session
      BY <1>3, <2>1, Unheard
    <2> QED BY <2>2 DEF NoNewer, IsReading, IsIssuing, Step
  <1> QED BY <1>1, <1>2, <1>3

LEMMA QuieterKeeps ==
    ASSUME KnowsRow, Quieter, Revoking
    PROVE  KnowsRow' /\ (OneToken /\ SoleIssuer => OneToken' /\ SoleIssuer')
  <1>1. KnowsRow'
    <2> SUFFICES ASSUME NEW d \in Calls, IsReading(d)'
                 PROVE  /\ flight'[d].token \in Tokens
                        /\ live'[flight'[d].token] \in {flight'[d].session, Dead}
      BY DEF KnowsRow
    <2>1. /\ IsReading(d) /\ flight'[d].token = flight[d].token
          /\ flight'[d].session = flight[d].session
      BY DEF Quieter, NoNewer
    <2>2. /\ flight[d].token \in Tokens
          /\ live[flight[d].token] \in {flight[d].session, Dead}
      BY <2>1 DEF KnowsRow
    <2> QED BY <2>1, <2>2 DEF Revoking
  <1>2. \A k \in Tokens : live'[k] # Dead => live'[k] = live[k]
    BY DEF Revoking
  <1>3. ASSUME OneToken PROVE OneToken'
    BY <1>2, <1>3 DEF OneToken
  <1>4. ASSUME SoleIssuer PROVE SoleIssuer'
    <2> SUFFICES ASSUME NEW d \in Calls, IsIssuing(d)'
                 PROVE  /\ \A k \in Tokens :
                              ~(live'[k] # Dead /\ live'[k].login = flight'[d].session.login)
                        /\ \A e \in Calls :
                              IsIssuing(e)' /\ flight'[e].session.login = flight'[d].session.login
                              => e = d
      BY DEF SoleIssuer, Of
    <2>1. IsIssuing(d) /\ flight'[d].session = flight[d].session
      BY DEF Quieter, NoNewer
    <2>2. \A e \in Calls : IsIssuing(e)' => IsIssuing(e) /\ flight'[e].session = flight[e].session
      BY DEF Quieter, NoNewer
    <2> QED BY <1>2, <1>4, <2>1, <2>2 DEF SoleIssuer, Of
  <1> QED BY <1>1, <1>3, <1>4

LEMMA RevokingKills ==
    ASSUME Killed, Revoking, account'.password = account.password,
           account.state # "deleted" => account'.state # "deleted"
    PROVE  Killed'
  BY DEF Killed, Revoking

\* What is left to show of a step that is no more than that.
LEMMA QuietStep ==
    ASSUME IInv, TypeOK', Quieter, Revoking, late' = late, account' = account
    PROVE  IInv'
  BY QuieterKeeps, RevokingKills DEF IInv

LEMMA BrowserKeeps ==
    ASSUME IInv, NEW c \in Calls,
           Unauthorized(c) \/ Load(c) \/ Receive(c) \/ Refused(c) \/ Lose(c)
    PROVE  IInv'
  <1>1. TypeOK /\ TypeOK'
    BY BrowserType DEF IInv
  <1>2. /\ UNCHANGED <<account, live, late>>
        /\ FlightFades \/ Unauthorized(c) \/ Load(c)
    BY <1>1, SettleFades DEF Unauthorized, Load, Receive, Refused, Lose, Bounce
  <1>3. CASE FlightFades
    <2>1. Quieter
      BY <1>1, <1>3, FadeIsNoNewer DEF FlightFades, Quieter
    <2> QED BY <1>1, <1>2, <2>1, QuietStep DEF Revoking
  <1>4. ASSUME flight'[c].step \in {"sent", "wait"} PROVE NoNewer(c)
    BY <1>4 DEF NoNewer, IsReading, IsIssuing, Step
  <1>5. CASE Unauthorized(c)
    <2>1. Send(c, "call").step = "sent" /\ Waiting.step = "wait"
      BY DEF Send, Waiting
    <2>2. /\ flight'[c].step \in {"sent", "wait"}
          /\ \A d \in Calls \ {c} : flight'[d] = flight[d]
      BY <1>1, <1>5, <2>1 DEF Unauthorized, TypeOK
    <2>3. Quieter
      BY <1>1, <1>4, <2>2, FadeIsNoNewer DEF Quieter
    <2> QED BY <1>1, <1>2, <2>3, QuietStep DEF Revoking
  <1>6. CASE Load(c)
    <2>1. Send(c, "restore").step = "sent"
      BY DEF Send
    <2>2. flight'[c].step = "sent"
      BY <1>6, <2>1 DEF Load
    <2>3. \A d \in Calls \ {c} :
             \/ flight'[d] = flight[d]
             \/ flight'[d] = Quiet
             \/ Busy(d) /\ flight'[d] = [flight[d] EXCEPT !.heard = FALSE]
      BY <1>6 DEF Load
    <2>4. Quieter
      BY <1>1, <1>4, <2>2, <2>3, FadeIsNoNewer DEF Quieter
    <2> QED BY <1>1, <1>2, <2>4, QuietStep DEF Revoking
  <1> QED BY <1>2, <1>3, <1>5, <1>6

LEMMA TabKeeps ==
    ASSUME IInv, NEW t \in Tabs, Expire(t) \/ Logout(t) \/ LogoutLost(t) \/ LogoutAll(t)
    PROVE  IInv'
  <1>1. TypeOK /\ TypeOK'
    BY TabType DEF IInv
  <1>2. UNCHANGED <<account, flight, late>> /\ Revoking
    BY DEF Expire, Logout, LogoutLost, LogoutAll, Revoking
  <1>3. Quieter
    BY <1>1, <1>2, FadeIsNoNewer DEF Quieter
  <1> QED BY <1>1, <1>2, <1>3, QuietStep

LEMMA LapseKeeps ==
    ASSUME IInv, NEW k \in Tokens, Lapse(k)
    PROVE  IInv'
  <1>1. TypeOK /\ TypeOK'
    BY LapseType DEF IInv
  <1>2. UNCHANGED <<account, flight, late>> /\ Revoking
    BY <1>1 DEF Lapse, Revoking, TypeOK
  <1>3. Quieter
    BY <1>1, <1>2, FadeIsNoNewer DEF Quieter
  <1> QED BY <1>1, <1>2, <1>3, QuietStep

\* A change of the account ends every session, or leaves the password and the account's
\* existence as they were.
LEMMA AdministerKeeps ==
    ASSUME IInv, Administer
    PROVE  IInv'
  <1>1. TypeOK /\ TypeOK'
    BY AdministerType DEF IInv
  <1>2. UNCHANGED <<flight, late>> /\ Revoking
    BY DEF Administer, ResetPassword, DeactivateUser, ChangeRole, SetActive, Change, Revoking
  <1>3. Quieter
    BY <1>1, <1>2, FadeIsNoNewer DEF Quieter
  <1>4. KnowsRow' /\ (~late => OneToken' /\ SoleIssuer')
    BY <1>2, <1>3, QuieterKeeps DEF IInv
  <1>5. ASSUME ~late PROVE Killed'
    <2>1. CASE ResetPassword \/ DeactivateUser
      BY <2>1 DEF ResetPassword, DeactivateUser, Killed
    <2>2. account \in Account
      BY <1>1 DEF TypeOK
    <2>3. CASE ChangeRole
      <3>1. account' = [account EXCEPT !.version = account.version + 1]
        BY <2>3 DEF ChangeRole, Change
      <3>2. account'.password = account.password /\ account'.state = account.state
        BY <2>2, <3>1 DEF Account
      <3> QED BY <1>2, <1>5, <3>2, RevokingKills DEF IInv
    <2>4. ASSUME NEW isActive \in BOOLEAN, SetActive(isActive) PROVE Killed'
      <3>1. account' = [[account EXCEPT !.state = IF isActive THEN "active" ELSE "disabled"]
                            EXCEPT !.version = account.version + 1]
        BY <2>4 DEF SetActive, Change
      <3>2. account'.password = account.password /\ account'.state # "deleted"
        BY <2>2, <3>1 DEF Account
      <3> QED BY <1>2, <1>5, <3>2, RevokingKills DEF IInv
    <2> QED BY <2>1, <2>3, <2>4 DEF Administer
  <1> QED BY <1>1, <1>2, <1>4, <1>5 DEF IInv

\* A refresh reads a row: it knows what the row says.
LEMMA ReadTokenKeeps ==
    ASSUME IInv, NEW c \in Calls, ReadToken(c)
    PROVE  IInv'
  <1>1. TypeOK /\ TypeOK' /\ KnowsRow
    BY HandlerType DEF IInv, ServerStep
  <1>2. UNCHANGED <<account, live, late>>
    BY DEF ReadToken
  <1>3. PICK f \in Flight :
              /\ flight' = [flight EXCEPT ![c] = f]
              /\ \/ f.step = "refused"
                 \/ f.step = "read" /\ f.token \in Tokens /\ live[f.token] = f.session
    BY <1>1, ReadTokenMoves
  <1>4. flight'[c] = f /\ \A d \in Calls \ {c} : flight'[d] = flight[d]
    BY <1>1, <1>3, MoveType
  <1>5. KnowsRow'
    BY <1>1, <1>2, <1>3, <1>4 DEF KnowsRow, IsReading, Step
  <1>6. ASSUME SoleIssuer PROVE SoleIssuer'
    BY <1>2, <1>3, <1>4, <1>6 DEF SoleIssuer, IsIssuing, Of, Step
  <1> QED BY <1>1, <1>2, <1>5, <1>6 DEF IInv, OneToken, Killed

LEMMA ReadAccountKeeps ==
    ASSUME IInv, NEW c \in Calls, ReadAccount(c)
    PROVE  IInv'
  <1>1. TypeOK /\ TypeOK'
    BY HandlerType DEF IInv, ServerStep
  <1>2. UNCHANGED <<account, live, late>>
    BY DEF ReadAccount
  <1>3. PICK f \in Flight :
              /\ flight' = [flight EXCEPT ![c] = f]
              /\ \/ f.step = "refused"
                 \/ /\ f.step = "known" /\ f.token = flight[c].token
                    /\ f.session = flight[c].session
    BY <1>1, ReadAccountMoves
  <1>4. flight'[c] = f /\ \A d \in Calls \ {c} : flight'[d] = flight[d]
    BY <1>1, <1>3, MoveType
  <1>5. NoNewer(c)
    BY <1>3, <1>4 DEF ReadAccount, NoNewer, IsReading, IsIssuing, Step
  <1>6. Quieter
    BY <1>1, <1>4, <1>5, FadeIsNoNewer DEF Quieter
  <1> QED BY <1>1, <1>2, <1>6, QuietStep DEF Revoking

\* The token a refresh used was the only one of its login: with it revoked there is none,
\* and nobody else was about to issue one.
LEMMA RevokeKeeps ==
    ASSUME IInv, NEW c \in Calls, Revoke(c)
    PROVE  IInv'
  <1> DEFINE used == flight[c].token
             session == flight[c].session
  <1>1. TypeOK /\ TypeOK' /\ KnowsRow
    BY HandlerType DEF IInv, ServerStep
  <1>2. /\ account' = account /\ late' = (late \/ live[used] = Dead)
        /\ live' = [live EXCEPT ![used] = Dead]
    BY DEF Revoke, Late
  <1>3. used \in Tokens /\ live \in [Tokens -> Session \union {Dead}]
    BY <1>1, RevokeMoves DEF TypeOK
  <1>4. PICK f \in Flight :
              /\ flight' = [flight EXCEPT ![c] = f]
              /\ f.step = "issuing" /\ f.session = session
    BY <1>1, RevokeMoves
  <1>5. flight'[c] = f /\ \A d \in Calls \ {c} : flight'[d] = flight[d]
    BY <1>1, <1>4, MoveType
  <1>6. live'[used] = Dead /\ \A k \in Tokens \ {used} : live'[k] = live[k]
    BY <1>2, <1>3
  <1>7. Revoking
    BY <1>6 DEF Revoking
  <1>8. KnowsRow'
    BY <1>1, <1>4, <1>5, <1>6 DEF KnowsRow, IsReading, Step
  <1>9. ASSUME ~late' PROVE OneToken' /\ SoleIssuer' /\ Killed'
    <2>1. OneToken /\ SoleIssuer /\ Killed /\ live[used] # Dead
      BY <1>2, <1>9 DEF IInv
    <2>2. live[used] = session
      BY <1>1, <2>1 DEF KnowsRow, IsReading, Revoke
    <2>3. \A k \in Tokens : ~(live'[k] # Dead /\ live'[k].login = session.login)
      BY <1>3, <1>6, <2>1, <2>2 DEF OneToken
    <2>4. \A d \in Calls : IsIssuing(d) => flight[d].session.login # session.login
      BY <1>3, <2>1, <2>2 DEF SoleIssuer, Of
    <2>5. SoleIssuer'
      BY <1>4, <1>5, <1>6, <2>1, <2>3, <2>4 DEF SoleIssuer, IsIssuing, Of, Step
    <2>6. OneToken'
      BY <1>6, <2>1 DEF OneToken
    <2>7. Killed'
      BY <1>2, <1>7, <2>1, RevokingKills
    <2> QED BY <2>5, <2>6, <2>7
  <1> QED BY <1>1, <1>8, <1>9 DEF IInv

\* A login starts under a name nobody descends from.
LEMMA StartLoginKeeps ==
    ASSUME IInv, NEW c \in Calls, StartLogin(c)
    PROVE  IInv'
  <1>1. TypeOK /\ TypeOK' /\ KnowsRow
    BY HandlerType DEF IInv
  <1>2. UNCHANGED <<account, live, late>>
    BY DEF StartLogin
  <1>3. PICK f \in Flight :
              /\ flight' = [flight EXCEPT ![c] = f]
              /\ f.step = "issuing" /\ f.session.login \in FreeLogins
    BY <1>1, StartLoginMoves
  <1>4. flight'[c] = f /\ \A d \in Calls \ {c} : flight'[d] = flight[d]
    BY <1>1, <1>3, MoveType
  <1>5. /\ \A k \in Tokens : ~Of(k, f.session.login)
        /\ \A d \in Calls : IsIssuing(d) => flight[d].session.login # f.session.login
    BY <1>3 DEF FreeLogins, Of, IsIssuing
  <1>6. KnowsRow'
    BY <1>1, <1>2, <1>3, <1>4 DEF KnowsRow, IsReading, Step
  <1>7. ASSUME SoleIssuer PROVE SoleIssuer'
    BY <1>2, <1>3, <1>4, <1>5, <1>7 DEF SoleIssuer, IsIssuing, Of, Step
  <1> QED BY <1>1, <1>2, <1>6, <1>7 DEF IInv, OneToken, Killed

\* The new token is nobody's yet, and its login has no other.
LEMMA IssueKeeps ==
    ASSUME IInv, NEW c \in Calls, Issue(c)
    PROVE  IInv'
  <1> DEFINE session == flight[c].session
  <1>1. TypeOK /\ TypeOK' /\ KnowsRow
    BY HandlerType DEF IInv, ServerStep
  <1>2. /\ account' = account /\ IsIssuing(c)
        /\ late' = (late \/ account.password # session.password \/ account.state = "deleted")
    BY DEF Issue, Late, IsIssuing
  <1>3. PICK k \in FreeTokens : live' = [live EXCEPT ![k] = session]
    BY <1>1, IssueMoves
  <1>4. PICK f \in Flight : flight' = [flight EXCEPT ![c] = f] /\ f.step = "answer"
    BY <1>1, IssueMoves
  <1>5. flight'[c] = f /\ \A d \in Calls \ {c} : flight'[d] = flight[d]
    BY <1>1, <1>4, MoveType
  <1>6. k \in Tokens /\ live'[k] = session /\ \A j \in Tokens \ {k} : live'[j] = live[j]
    BY <1>1, <1>3 DEF FreeTokens, TypeOK
  <1>7. \A d \in Calls : IsReading(d) => flight[d].token # k
    BY <1>3 DEF FreeTokens, Held, IsReading, Busy
  <1>8. KnowsRow'
    BY <1>1, <1>4, <1>5, <1>6, <1>7 DEF KnowsRow, IsReading, Step
  <1>9. ASSUME ~late' PROVE OneToken' /\ SoleIssuer' /\ Killed'
    <2>1. /\ OneToken /\ SoleIssuer /\ Killed
          /\ account.password = session.password /\ account.state # "deleted"
      BY <1>2, <1>9 DEF IInv
    <2>2. \A j \in Tokens : live[j] # Dead => live[j].login # session.login
      BY <1>2, <2>1 DEF SoleIssuer, Of
    <2>3. OneToken'
      BY <1>6, <2>1, <2>2 DEF OneToken
    <2>4. \A d \in Calls \ {c} : IsIssuing(d) => flight[d].session.login # session.login
      BY <1>2, <2>1 DEF SoleIssuer
    <2>5. SoleIssuer'
      BY <1>4, <1>5, <1>6, <2>1, <2>4 DEF SoleIssuer, IsIssuing, Of, Step
    <2>6. Killed'
      BY <1>2, <1>6, <2>1 DEF Killed
    <2> QED BY <2>3, <2>5, <2>6
  <1> QED BY <1>1, <1>8, <1>9 DEF IInv

\* What the refreshes in flight and the tokens on the server are to each other, always.
THEOREM Inductive == Spec => []IInv
  <1>1. Init => IInv
    BY InitType DEF Init, IInv, KnowsRow, OneToken, SoleIssuer, Killed, IsReading, IsIssuing,
                    Step, Quiet
  <1>2. IInv /\ [Next]_vars => IInv'
    <2> SUFFICES ASSUME IInv, [Next]_vars PROVE IInv'
      OBVIOUS
    <2>1. ASSUME NEW c \in Calls, \/ Unauthorized(c) \/ Load(c) \/ Receive(c)
                                  \/ Refused(c) \/ Lose(c)
          PROVE  IInv'
      BY <2>1, BrowserKeeps
    <2>2. ASSUME NEW c \in Calls, ServerStep(c) \/ StartLogin(c) PROVE IInv'
      BY <2>2, ReadTokenKeeps, ReadAccountKeeps, RevokeKeeps, IssueKeeps, StartLoginKeeps
         DEF ServerStep
    <2>3. ASSUME NEW t \in Tabs, Expire(t) \/ Logout(t) \/ LogoutLost(t) \/ LogoutAll(t)
          PROVE  IInv'
      BY <2>3, TabKeeps
    <2>4. ASSUME NEW k \in Tokens, Lapse(k) PROVE IInv'
      BY <2>4, LapseKeeps
    <2>5. CASE UNCHANGED vars
      BY <2>5 DEF vars, IInv, TypeOK, KnowsRow, OneToken, SoleIssuer, Killed, IsReading,
                  IsIssuing, Of, Step
    <2> QED BY <2>1, <2>2, <2>3, <2>4, <2>5, AdministerKeeps DEF Next, ClientStep, Administer
  <1> QED BY <1>1, <1>2, PTL DEF Spec

\* However often a login is refreshed, and wherever a refresh crashes or its answer is
\* lost, one token at most is valid for it, until two refreshes of one token overlap
\* (refresh).
THEOREM OneHeirOfALogin == Spec => []OneHeir
  <1>1. IInv => OneHeir
    BY DEF IInv, OneToken, OneHeir
  <1> QED BY <1>1, Inductive, PTL

\* A reset and a deactivation end every session there was, until a refresh or a login
\* decided before one of them is carried out after it (resetPassword, deactivateUser).
THEOREM ResetEndsSessions == Spec => []ResetKills
  <1>1. IInv => ResetKills
    BY DEF IInv, Killed, ResetKills
  <1> QED BY <1>1, Inductive, PTL

-----------------------------------------------------------------------------
(* A tab alone with the cookie.  What keeps it logged in is that it has one *)
(* request at most, and that the cookie is alive for as long as that        *)
(* request does not hold the token that is to replace it.                   *)

OnlyTab == \A s, t \in Tabs : s = t

\* What a refresh or a login has read was an active account.
SeenActive ==
    \A c \in Calls : Step(c) \in {"known", "issuing", "answer"} => flight[c].seen.state = "active"

\* A tab that is owed its session has one request at most, which it will hear: one that
\* was sent with the cookie, which is alive until the request revokes it, or an answer
\* whose token is alive.
Kept(t) ==
    /\ account.state = "active" /\ tab[t].user # "out"
    /\ \A c, d \in Calls : Busy(c) /\ Busy(d) => c = d
    /\ \A c \in Calls : Busy(c) =>
          /\ flight[c].heard /\ Step(c) # "refused"
          /\ flight[c].kind = IF tab[t].user = "in" THEN "call" ELSE "restore"
          /\ Step(c) \in {"sent", "read", "known"} => flight[c].token = cookie
          /\ Step(c) = "answer" => live[flight[c].token] # Dead
    /\ (\A c \in Calls : Step(c) \notin {"issuing", "answer"})
          => cookie \in Tokens /\ live[cookie] # Dead

KInv == TypeOK /\ SeenActive /\ \A t \in owed : Kept(t)

LEMMA LoneTab ==
    ASSUME OnlyTab, NEW t \in Tabs
    PROVE  Tabs = {t} /\ CallsOf(t) = Calls /\ \A c \in Calls : TabOf[c] = t
  BY CallsAssumption DEF OnlyTab, CallsOf

\* What the steps of a handler make of its request.
LEMMA ReadTokenAnswers ==
    ASSUME TypeOK, NEW c \in Calls, ReadToken(c)
    PROVE  /\ \/ flight'[c].step = "read"
              \/ /\ flight'[c].step = "refused"
                 /\ flight[c].token = NoToken \/ live[flight[c].token] = Dead
           /\ flight'[c].kind = flight[c].kind /\ flight'[c].heard = flight[c].heard
           /\ flight'[c].token = flight[c].token
           /\ \A d \in Calls \ {c} : flight'[d] = flight[d]
  <1> DEFINE f == flight[c]
  <1>1. f \in Sent
    BY FlightKinds DEF ReadToken
  <1>2. \A d \in Calls \ {c} : flight'[d] = flight[d]
    BY DEF ReadToken, TypeOK
  <1>3. flight'[c] = IF f.token = NoToken \/ live[f.token] = Dead
              THEN [f EXCEPT !.step = "refused"]
              ELSE [step |-> "read", kind |-> f.kind, heard |-> f.heard, token |-> f.token,
                    session |-> live[f.token], seen |-> account]
    BY DEF ReadToken, TypeOK
  <1> HIDE DEF f
  <1>4. /\ \/ flight'[c].step = "read"
           \/ flight'[c].step = "refused" /\ (f.token = NoToken \/ live[f.token] = Dead)
        /\ flight'[c].kind = f.kind /\ flight'[c].heard = f.heard /\ flight'[c].token = f.token
    BY <1>1, <1>3 DEF Sent
  <1> QED BY <1>2, <1>4 DEF f

LEMMA ReadAccountAnswers ==
    ASSUME TypeOK, NEW c \in Calls, ReadAccount(c)
    PROVE  /\ \/ /\ flight'[c].step = "known" /\ flight'[c].seen = account
                 /\ account.state = "active"
              \/ flight'[c].step = "refused" /\ account.state # "active"
           /\ flight'[c].kind = flight[c].kind /\ flight'[c].heard = flight[c].heard
           /\ flight'[c].token = flight[c].token
           /\ \A d \in Calls \ {c} : flight'[d] = flight[d]
  <1> DEFINE f == flight[c]
  <1>1. f \in Reading
    BY FlightKinds DEF ReadAccount, IsReading
  <1>2. \A d \in Calls \ {c} : flight'[d] = flight[d]
    BY DEF ReadAccount, TypeOK
  <1>3. flight'[c] = IF account.state = "active"
              THEN [f EXCEPT !.step = "known", !.seen = account]
              ELSE [step |-> "refused", kind |-> f.kind, heard |-> f.heard, token |-> f.token]
    BY DEF ReadAccount, TypeOK
  <1> HIDE DEF f
  <1>4. /\ \/ /\ flight'[c].step = "known" /\ flight'[c].seen = account
              /\ account.state = "active"
           \/ flight'[c].step = "refused" /\ account.state # "active"
        /\ flight'[c].kind = f.kind /\ flight'[c].heard = f.heard /\ flight'[c].token = f.token
    BY <1>1, <1>3 DEF Reading
  <1> QED BY <1>2, <1>4 DEF f

LEMMA RevokeAnswers ==
    ASSUME TypeOK, NEW c \in Calls, Revoke(c)
    PROVE  /\ flight'[c].step = "issuing" /\ flight'[c].seen = flight[c].seen
           /\ flight'[c].kind = flight[c].kind /\ flight'[c].heard = flight[c].heard
           /\ \A d \in Calls \ {c} : flight'[d] = flight[d]
  <1> DEFINE f == flight[c]
  <1>1. f \in Reading
    BY FlightKinds DEF Revoke, IsReading
  <1>2. /\ \A d \in Calls \ {c} : flight'[d] = flight[d]
        /\ flight'[c] = [f EXCEPT !.step = "issuing"]
    BY DEF Revoke, TypeOK
  <1> HIDE DEF f
  <1>3. /\ flight'[c].step = "issuing" /\ flight'[c].seen = f.seen
        /\ flight'[c].kind = f.kind /\ flight'[c].heard = f.heard
    BY <1>1, <1>2 DEF Reading
  <1> QED BY <1>2, <1>3 DEF f

LEMMA IssueAnswers ==
    ASSUME TypeOK, NEW c \in Calls, Issue(c)
    PROVE  /\ flight'[c].step = "answer" /\ flight'[c].seen = flight[c].seen
           /\ flight'[c].kind = flight[c].kind /\ flight'[c].heard = flight[c].heard
           /\ live'[flight'[c].token] # Dead
           /\ \A d \in Calls \ {c} : flight'[d] = flight[d]
  <1> DEFINE f == flight[c]
  <1>1. f.session \in Session
    BY IssueMoves
  <1>2. PICK k \in FreeTokens :
            /\ live' = [live EXCEPT ![k] = f.session]
            /\ flight' = [flight EXCEPT ![c] =
                  [step |-> "answer", kind |-> f.kind, heard |-> f.heard, token |-> k,
                   seen |-> f.seen]]
    BY DEF Issue
  <1>3. /\ \A d \in Calls \ {c} : flight'[d] = flight[d]
        /\ flight'[c] = [step |-> "answer", kind |-> f.kind, heard |-> f.heard, token |-> k,
                   seen |-> f.seen]
    BY <1>2 DEF TypeOK
  <1>4. live'[k] = f.session /\ f.session # Dead
    BY <1>1, <1>2, MarksAssumption DEF FreeTokens, TypeOK, Session
  <1> QED BY <1>3, <1>4

LEMMA LoginAnswers ==
    ASSUME TypeOK, NEW c \in Calls, StartLogin(c)
    PROVE  /\ flight'[c].step = "issuing" /\ flight'[c].seen = account
           /\ account.state = "active" /\ tab[TabOf[c]].user = "out"
           /\ \A d \in Calls \ {c} : flight'[d] = flight[d]
  <1>1. PICK login \in FreeLogins :
              flight' = [flight EXCEPT ![c] =
                  [step |-> "issuing", kind |-> "login", heard |-> TRUE, token |-> NoToken,
                   session |-> [login |-> login, password |-> account.password],
                   seen |-> account]]
    BY DEF StartLogin
  <1>2. /\ \A d \in Calls \ {c} : flight'[d] = flight[d]
        /\ flight'[c] = [step |-> "issuing", kind |-> "login", heard |-> TRUE, token |-> NoToken,
                   session |-> [login |-> login, password |-> account.password],
                   seen |-> account]
    BY <1>1 DEF TypeOK
  <1> QED BY <1>2 DEF StartLogin

\* A request that is let go on has seen what it had seen.
LEMMA SeenStays ==
    ASSUME TypeOK, SeenActive, FlightFades
    PROVE  SeenActive'
  <1> SUFFICES ASSUME NEW d \in Calls, flight'[d].step \in {"known", "issuing", "answer"}
               PROVE  flight'[d].seen.state = "active"
    BY DEF SeenActive, Step
  <1>1. CASE flight'[d] = flight[d]
    BY <1>1 DEF SeenActive, Step
  <1>2. CASE flight'[d] = Quiet
    BY <1>2 DEF Quiet
  <1>3. CASE Busy(d) /\ flight'[d] = [flight[d] EXCEPT !.heard = FALSE]
    <2>1. flight[d] \in Sent \union Reading \union Issuing \union Answer
      BY <1>3, FlightKinds
    <2> DEFINE f == flight[d]
               g == [f EXCEPT !.heard = FALSE]
    <2>2. CASE f \in Sent
      BY <1>3, <2>2 DEF Sent
    <2>3. CASE f \notin Sent
      <3>1. g.step = f.step /\ g.seen = f.seen
        BY <2>1, <2>3 DEF Reading, Issuing, Answer
      <3> QED BY <1>3, <3>1 DEF SeenActive, Step
    <2> QED BY <2>2, <2>3
  <1> QED BY <1>1, <1>2, <1>3 DEF FlightFades

LEMMA SeenStep ==
    ASSUME TypeOK, SeenActive, [Next]_vars
    PROVE  SeenActive'
  <1>1. ASSUME flight' = flight PROVE SeenActive'
    BY <1>1, SeenStays DEF FlightFades
  <1>2. ASSUME NEW c \in Calls, \A d \in Calls \ {c} : flight'[d] = flight[d],
               flight'[c].step \in {"known", "issuing", "answer"} =>
                   flight'[c].seen.state = "active"
        PROVE  SeenActive'
    BY <1>2 DEF SeenActive, Step
  <1>3. ASSUME NEW c \in Calls, Unauthorized(c) PROVE SeenActive'
    <2>1. Send(c, "call").step = "sent" /\ Waiting.step = "wait"
      BY DEF Send, Waiting
    <2>2. \A d \in Calls \ {c} : flight'[d] = flight[d]
      BY <1>3 DEF Unauthorized, TypeOK
    <2>3. flight'[c].step \in {"sent", "wait"}
      BY <1>3, <2>1 DEF Unauthorized, TypeOK
    <2> QED BY <1>2, <2>2, <2>3
  <1>4. ASSUME NEW c \in Calls, Load(c) PROVE SeenActive'
    <2>1. Send(c, "restore").step = "sent"
      BY DEF Send
    <2>2. flight'[c].step = "sent"
      BY <1>4, <2>1 DEF Load
    <2>3. \A d \in Calls \ {c} :
             \/ flight'[d] = flight[d]
             \/ flight'[d] = Quiet
             \/ Busy(d) /\ flight'[d] = [flight[d] EXCEPT !.heard = FALSE]
      BY <1>4 DEF Load
    <2> SUFFICES ASSUME NEW d \in Calls, flight'[d].step \in {"known", "issuing", "answer"}
                 PROVE  flight'[d].seen.state = "active"
      BY DEF SeenActive, Step
    <2>4. d # c
      BY <2>2
    <2>5. CASE flight'[d] = flight[d]
      BY <2>5 DEF SeenActive, Step
    <2>6. CASE flight'[d] = Quiet
      BY <2>6 DEF Quiet
    <2>7. CASE Busy(d) /\ flight'[d] = [flight[d] EXCEPT !.heard = FALSE]
      <3> DEFINE f == flight[d]
      <3>1. f \in Sent \union Reading \union Issuing \union Answer
        BY <2>7, FlightKinds
      <3>2. f.step = flight'[d].step /\ (f.step # "sent" /\ f.step # "refused" => f.seen = flight'[d].seen)
        BY <2>7, <3>1 DEF Sent, Reading, Issuing, Answer
      <3> QED BY <3>2 DEF SeenActive, Step
    <2> QED BY <2>3, <2>4, <2>5, <2>6, <2>7
  <1>5. ASSUME NEW c \in Calls, Receive(c) \/ Refused(c) \/ Lose(c) PROVE SeenActive'
    BY <1>5, SettleFades, SeenStays DEF Receive, Refused, Lose, Bounce
  <1>6. ASSUME NEW c \in Calls, ServerStep(c) \/ StartLogin(c) PROVE SeenActive'
    <2>1. CASE ReadToken(c)
      BY <2>1, <1>2, ReadTokenAnswers
    <2>2. CASE ReadAccount(c)
      BY <2>2, <1>2, ReadAccountAnswers
    <2>3. CASE Revoke(c)
      <3>1. flight[c].seen.state = "active"
        BY <2>3 DEF Revoke, SeenActive
      <3> QED BY <3>1, <2>3, <1>2, RevokeAnswers
    <2>4. CASE Issue(c)
      <3>1. flight[c].seen.state = "active"
        BY <2>4 DEF Issue, SeenActive
      <3> QED BY <3>1, <2>4, <1>2, IssueAnswers
    <2>5. CASE StartLogin(c)
      BY <2>5, <1>2, LoginAnswers
    <2> QED BY <1>6, <2>1, <2>2, <2>3, <2>4, <2>5 DEF ServerStep
  <1>7. ASSUME NEW t \in Tabs, Expire(t) \/ Logout(t) \/ LogoutLost(t) \/ LogoutAll(t)
        PROVE  SeenActive'
    BY <1>1, <1>7 DEF Expire, Logout, LogoutLost, LogoutAll
  <1>8. ASSUME NEW k \in Tokens, Lapse(k) PROVE SeenActive'
    BY <1>1, <1>8 DEF Lapse
  <1>9. CASE Administer
    BY <1>1, <1>9 DEF Administer, ResetPassword, DeactivateUser, ChangeRole, SetActive, Change
  <1>10. CASE UNCHANGED vars
    BY <1>1, <1>10 DEF vars
  <1> QED BY <1>3, <1>4, <1>5, <1>6, <1>7, <1>8, <1>9, <1>10 DEF Next, ClientStep, Administer

\* A step of the one request there is, and what must be left of it.
LEMMA KeptMoves ==
    ASSUME TypeOK, NEW t \in Tabs, Kept(t), NEW c \in Calls, Busy(c),
           account' = account, tab' = tab, cookie' = cookie,
           \A d \in Calls \ {c} : flight'[d] = flight[d],
           flight'[c].step \in {"sent", "read", "known", "issuing", "answer"},
           flight'[c].kind = flight[c].kind, flight'[c].heard = flight[c].heard,
           flight'[c].step \in {"sent", "read", "known"} =>
               /\ flight'[c].token = flight[c].token /\ live' = live
               /\ Step(c) \in {"sent", "read", "known"},
           flight'[c].step = "answer" => live'[flight'[c].token] # Dead
    PROVE  Kept(t)'
  <1>1. \A d \in Calls : Busy(d)' => d = c
    BY DEF Kept, Busy, Step
  <1>2. \A d \in Calls : Busy(d)' =>
          /\ flight'[d].heard /\ flight'[d].step # "refused"
          /\ flight'[d].kind = IF tab[t].user = "in" THEN "call" ELSE "restore"
          /\ flight'[d].step \in {"sent", "read", "known"} => flight'[d].token = cookie
          /\ flight'[d].step = "answer" => live'[flight'[d].token] # Dead
    BY <1>1 DEF Kept
  <1>3. (\A d \in Calls : flight'[d].step \notin {"issuing", "answer"})
           => cookie \in Tokens /\ live'[cookie] # Dead
    <2> SUFFICES ASSUME \A d \in Calls : flight'[d].step \notin {"issuing", "answer"}
                 PROVE  cookie \in Tokens /\ live'[cookie] # Dead
      OBVIOUS
    <2>1. flight'[c].step \in {"sent", "read", "known"}
      OBVIOUS
    <2>2. \A d \in Calls : Step(d) \notin {"issuing", "answer"}
      BY <2>1 DEF Step
    <2> QED BY <2>1, <2>2 DEF Kept
  <1> QED BY <1>1, <1>2, <1>3 DEF Kept, Step

LEMMA ServerKeeps ==
    ASSUME KInv, OnlyTab, NEW t \in Tabs, Kept(t), NEW c \in Calls, ServerStep(c)
    PROVE  Kept(t)'
  <1>1. Busy(c) /\ Step(c) # "refused"
    BY DEF ServerStep, ReadToken, ReadAccount, Revoke, Issue, Busy
  <1>2. /\ flight[c].heard
        /\ Step(c) \in {"sent", "read", "known"} => flight[c].token = cookie
    BY <1>1 DEF Kept
  <1>3. account' = account /\ tab' = tab /\ cookie' = cookie
    BY DEF ServerStep, ReadToken, ReadAccount, Revoke, Issue
  <1>4. CASE ReadToken(c)
    <2>1. \A d \in Calls : Step(d) \notin {"issuing", "answer"}
      BY <1>1, <1>4 DEF Kept, ReadToken, Busy, Step
    <2>2. cookie \in Tokens /\ live[cookie] # Dead /\ cookie # NoToken
      BY <2>1, NamesAssumption DEF Kept
    <2>3. live' = live /\ Step(c) = "sent"
      BY <1>4 DEF ReadToken
    <2> QED BY <1>1, <1>2, <1>3, <1>4, <2>2, <2>3, KeptMoves, ReadTokenAnswers DEF KInv
  <1>5. CASE ReadAccount(c)
    <2>1. live' = live /\ Step(c) = "read" /\ account.state = "active"
      BY <1>5 DEF ReadAccount, Kept
    <2> QED BY <1>1, <1>2, <1>3, <1>5, <2>1, KeptMoves, ReadAccountAnswers DEF KInv
  <1>6. CASE Revoke(c)
    BY <1>1, <1>3, <1>6, KeptMoves, RevokeAnswers DEF KInv
  <1>7. CASE Issue(c)
    BY <1>1, <1>3, <1>7, KeptMoves, IssueAnswers DEF KInv
  <1> QED BY <1>4, <1>5, <1>6, <1>7 DEF ServerStep

\* A call that meets a 401 joins the refresh of its tab, and starts one when there is none.
LEMMA UnauthorizedKeeps ==
    ASSUME KInv, OnlyTab, NEW t \in Tabs, Kept(t), NEW c \in Calls, Unauthorized(c)
    PROVE  Kept(t)'
  <1>1. TabOf[c] = t /\ CallsOf(t) = Calls /\ tab[t].user = "in"
    BY LoneTab DEF Unauthorized
  <1>2. /\ account' = account /\ tab' = tab /\ cookie' = cookie /\ live' = live
        /\ \A d \in Calls \ {c} : flight'[d] = flight[d]
        /\ Step(c) = "none" /\ ~Busy(c)
        /\ flight'[c] = IF Refreshing(t) THEN Waiting ELSE Send(c, "call")
    BY <1>1 DEF Unauthorized, TypeOK, KInv, Busy
  <1>3. CASE Refreshing(t)
    <2>1. flight'[c].step = "wait"
      BY <1>2, <1>3 DEF Waiting
    <2>2. \A d \in Calls : Busy(d)' => d # c /\ Busy(d)
      BY <1>2, <2>1 DEF Busy, Step
    <2>3. \A d \in Calls : Step(d) \in {"issuing", "answer"} => d # c
      BY <1>2
    <2>4. (\A d \in Calls : flight'[d].step \notin {"issuing", "answer"})
             => (\A d \in Calls : Step(d) \notin {"issuing", "answer"})
      BY <1>2, <2>3 DEF Step
    <2> QED BY <1>1, <1>2, <2>2, <2>4 DEF Kept, Step
  <1>4. CASE ~Refreshing(t)
    <2>1. \A d \in Calls : ~Busy(d)
      BY <1>1, <1>4 DEF Refreshing, Heard, Kept
    <2>2. /\ flight'[c].step = "sent" /\ flight'[c].kind = "call" /\ flight'[c].heard
          /\ flight'[c].token = cookie
      BY <1>2, <1>4 DEF Send
    <2>3. \A d \in Calls : Busy(d)' => d = c
      BY <1>2, <2>1 DEF Busy, Step
    <2>4. cookie \in Tokens /\ live[cookie] # Dead
      BY <2>1 DEF Kept, Busy
    <2> QED BY <1>1, <1>2, <2>2, <2>3, <2>4 DEF Kept, Step
  <1> QED BY <1>3, <1>4

\* A page that is loaded again while its tab asks for nothing tries the cookie.
LEMMA LoadKeeps ==
    ASSUME KInv, OnlyTab, NEW t \in Tabs, Kept(t), NEW c \in Calls, Load(c), t \in owed'
    PROVE  Kept(t)'
  <1>1. TabOf[c] = t /\ CallsOf(t) = Calls
    BY LoneTab
  <1>2. \A d \in Calls : ~Busy(d)
    BY <1>1 DEF Load, Excuse, Heard, Kept
  <1>3. /\ account' = account /\ cookie' = cookie /\ live' = live
        /\ tab' = [tab EXCEPT ![t].access = NoAccess, ![t].user = "loading"]
        /\ \A d \in Calls : flight'[d] = IF d = c THEN Send(c, "restore") ELSE Quiet
    BY <1>1, <1>2 DEF Load
  <1>4. tab'[t].user = "loading"
    BY <1>3 DEF KInv, TypeOK, Tab
  <1>5. \A d \in Calls \ {c} : flight'[d].step = "none"
    BY <1>3 DEF Quiet
  <1>6. /\ flight'[c].step = "sent" /\ flight'[c].kind = "restore" /\ flight'[c].heard
        /\ flight'[c].token = cookie
    BY <1>3 DEF Send
  <1>7. \A d \in Calls : Busy(d)' => d = c
    BY <1>5 DEF Busy, Step
  <1>8. cookie \in Tokens /\ live[cookie] # Dead
    BY <1>2 DEF Kept, Busy
  <1> QED BY <1>3, <1>4, <1>6, <1>7, <1>8 DEF Kept, Step

\* An answer that is heard leaves a cookie that is alive and nothing on its way.
LEMMA ReceiveKeeps ==
    ASSUME KInv, TypeOK', OnlyTab, NEW t \in Tabs, NEW c \in Calls, Receive(c), t \in owed',
           \A s \in owed : Kept(s)
    PROVE  Kept(t)'
  <1>1. TabOf[c] = t /\ CallsOf(t) = Calls
    BY LoneTab
  <1>2. Busy(c) /\ Step(c) = "answer" /\ flight[c] \in Answer
    BY FlightKinds DEF Receive, KInv, Busy
  <1>3. /\ flight[c].heard /\ account.state = "active" /\ live[flight[c].token] # Dead
        /\ \A d \in Calls \ {c} : ~Busy(d)
    <2>1. CASE t \in owed
      <3>1. Kept(t)
        BY <2>1
      <3>2. flight[c].kind # "login"
        BY <1>2, <3>1 DEF Kept
      <3> QED BY <1>2, <3>1, <3>2 DEF Kept
    <2>2. CASE t \notin owed
      <3>1. /\ flight[c].heard /\ flight[c].seen = account /\ live[flight[c].token] # Dead
            /\ \A d \in Calls \ {c} : ~Busy(d)
        BY <1>1, <2>2 DEF Receive
      <3> QED BY <1>2, <3>1 DEF KInv, SeenActive
    <2> QED BY <2>1, <2>2
  <1>4. tab'[t].user = "in"
    <2>1. tab' = [tab EXCEPT ![t].access = [version |-> flight[c].seen.version, fresh |-> TRUE],
                       ![t].user = IF flight[c].kind = "call" THEN @ ELSE "in"]
      BY <1>1, <1>3 DEF Receive
    <2>2. tab'[t].user = IF flight[c].kind = "call" THEN tab[t].user ELSE "in"
      BY <2>1 DEF KInv, TypeOK, Tab
    <2>3. ASSUME flight[c].kind = "call" PROVE tab[t].user = "in"
      <3>1. t \in owed
        BY <1>1, <1>3, <2>3 DEF Receive
      <3> QED BY <1>2, <2>3, <3>1 DEF Kept
    <2> QED BY <2>2, <2>3
  <1>5. \A d \in Calls : flight'[d].step \in {"none", "wait"}
    <2>1. Settle(c)
      BY DEF Receive
    <2>2. flight'[c] = Quiet /\ \A d \in Calls : flight'[d] \in {flight[d], Quiet}
      BY <2>1 DEF Settle
    <2> QED BY <1>3, <2>2 DEF Quiet, Busy, Step
  <1>6. cookie' = flight[c].token /\ account' = account /\ live' = live
    BY <1>3 DEF Receive
  <1>7. cookie' \in Tokens /\ live'[cookie'] # Dead
    BY <1>2, <1>3, <1>6 DEF Answer
  <1> QED BY <1>3, <1>4, <1>5, <1>6, <1>7 DEF Kept, Busy, Step

LEMMA KeptStep ==
    ASSUME KInv, TypeOK', OnlyTab, [Next]_vars
    PROVE  \A t \in owed' : Kept(t)'
  <1> SUFFICES ASSUME NEW t \in Tabs, t \in owed' PROVE Kept(t)'
    BY DEF TypeOK
  <1> USE DEF KInv
  <1>1. ASSUME NEW c \in Calls, Receive(c) PROVE Kept(t)'
    BY <1>1, ReceiveKeeps
  <1>2. ASSUME owed' \subseteq owed PROVE Kept(t)
    BY <1>2
  <1>3. ASSUME NEW c \in Calls, ServerStep(c) PROVE Kept(t)'
    <2>1. owed' = owed
      BY <1>3 DEF ServerStep, ReadToken, ReadAccount, Revoke, Issue
    <2> QED BY <1>2, <1>3, <2>1, ServerKeeps
  <1>4. ASSUME NEW c \in Calls, Unauthorized(c) PROVE Kept(t)'
    BY <1>2, <1>4, UnauthorizedKeeps DEF Unauthorized
  <1>5. ASSUME NEW c \in Calls, Load(c) PROVE Kept(t)'
    <2>1. owed' \subseteq owed
      BY <1>5 DEF Load, Excuse
    <2> QED BY <1>2, <1>5, <2>1, LoadKeeps
  <1>6. ASSUME NEW c \in Calls, StartLogin(c) PROVE FALSE
    <2>1. Kept(t) /\ tab[t].user = "out"
      BY <1>2, <1>6, LoneTab DEF StartLogin
    <2> QED BY <2>1 DEF Kept
  <1>7. ASSUME NEW c \in Calls, Refused(c) PROVE FALSE
    <2>1. Kept(t) /\ Step(c) = "refused"
      BY <1>2, <1>7 DEF Refused
    <2> QED BY <2>1 DEF Kept, Busy
  <1>8. ASSUME NEW c \in Calls, Lose(c) PROVE FALSE
    BY <1>8, LoneTab DEF Lose, Excuse
  <1>9. ASSUME NEW s \in Tabs, Expire(s) PROVE Kept(t)'
    <2>1. tab' = [tab EXCEPT ![s].access.fresh = FALSE] /\ owed' = owed
      BY <1>9 DEF Expire
    <2>2. tab'[t].user = tab[t].user
      BY <2>1 DEF TypeOK, Tab
    <2> QED BY <1>2, <1>9, <2>1, <2>2 DEF Expire, Kept, Busy, Step
  <1>10. ASSUME NEW s \in Tabs, Logout(s) \/ LogoutLost(s) \/ LogoutAll(s) PROVE FALSE
    BY <1>10 DEF Logout, LogoutLost, LogoutAll, Excuse, OnlyTab
  <1>11. ASSUME NEW k \in Tokens, Lapse(k) PROVE FALSE
    BY <1>11 DEF Lapse, Excuse
  <1>12. CASE Administer
    <2>1. ChangeRole
      BY <1>12 DEF Administer, ResetPassword, DeactivateUser, SetActive, Excuse
    <2>2. account' = [account EXCEPT !.version = account.version + 1]
      BY <2>1 DEF ChangeRole, Change
    <2>3. account'.state = account.state
      BY <2>2 DEF TypeOK, Account
    <2> QED BY <1>2, <2>1, <2>3 DEF ChangeRole, Change, Kept, Busy, Step
  <1>13. CASE UNCHANGED vars
    BY <1>2, <1>13 DEF vars, Kept, Busy, Step
  <1> QED BY <1>1, <1>3, <1>4, <1>5, <1>6, <1>7, <1>8, <1>9, <1>10, <1>11, <1>12, <1>13
          DEF Next, ClientStep, Administer

\* A tab that is alone with the cookie and asks for nothing unusual stays logged in
\* through every expiry of its access token, however many of its calls meet the expiry
\* at once (refreshPromise).
THEOREM LoneTabNeverBounced == OnlyTab => (Spec => []NeverBounced)
  <1> SUFFICES ASSUME OnlyTab PROVE Spec => []NeverBounced
    OBVIOUS
  <1>1. Init => KInv
    BY InitType DEF KInv, Init, SeenActive, Step, Quiet
  <1>2. KInv /\ TypeOK' /\ [Next]_vars => KInv'
    BY SeenStep, KeptStep DEF KInv
  <1>3. KInv => NeverBounced
    BY DEF KInv, Kept, NeverBounced
  <1> QED BY <1>1, <1>2, <1>3, TypeCorrect, PTL DEF Spec
=============================================================================
