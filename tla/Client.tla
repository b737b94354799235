------------------------------- MODULE Client -------------------------------
(***************************************************************************)
(* The session as the web client keeps it.  A browser shares one local     *)
(* storage between its tabs; each tab has a DataAPI object that reads the  *)
(* token from there the first time it needs one and keeps its own copy     *)
(* until the page is loaded again, and a login store with what the header  *)
(* shows.  Logging in is two requests, the second made with whatever token *)
(* the tab then finds; signing out navigates before it is answered.        *)
(*                                                                         *)
(* The server is reduced to who owns a token and whether it is still good  *)
(* (module Sessions has the rest).  What signing out does to the list of   *)
(* matches is part of module Home.                                         *)
(***************************************************************************)
CONSTANTS
    Users,
    Tokens,         \* bound: tokens the server issues
    Tabs,
    Requests,       \* bound: requests of all the tabs under way at once
    Private,        \* option matchVisibility is "private"
    None

ASSUME NoneAssumption == None \notin Users \union Tokens \union Tabs \union Requests
ASSUME PrivateAssumption == Private \in BOOLEAN

VARIABLES
    accounts,   \* users in table users
    removed,    \* history: users that were deleted at some time
    owner,      \* token -> user it was issued to
    dead,       \* tokens logged out or expired
    storage,    \* localStorage "puggies-login-token"
    tab,        \* what each tab shows and remembers
    request     \* requests and what became of them

server == <<accounts, removed, owner, dead>>
vars == <<server, storage, tab, request>>

Pages == {"home", "login", "register"}

\* waiting: the request the mounted form waits for.
TabRecords ==
    [page: Pages, cached: Tokens \union {None}, loggedIn: BOOLEAN,
     user: Users \union {None}, waiting: Requests \union {None}]

\* updateUser and welcome are both GET /userinfo, the latter that of a login.
Steps == {"idle", "updateUser", "login", "register", "welcome", "logout"}
Codes == {"none", "ok", "refused"}

\* tab is None when the page that asked is gone; user is who logs in.
RequestRecords ==
    [step: Steps, code: Codes, tab: Tabs \union {None},
     token: Tokens \union {None}, user: Users \union {None}]

Idle == [step |-> "idle", code |-> "none", tab |-> None, token |-> None, user |-> None]

TypeOK ==
    /\ accounts \subseteq Users
    /\ removed \subseteq Users
    /\ owner \in [Tokens -> Users \union {None}]
    /\ dead \subseteq Tokens
    /\ storage \in Tokens \union {None}
    /\ tab \in [Tabs -> TabRecords]
    /\ request \in [Requests -> RequestRecords]

-----------------------------------------------------------------------------
(* The server.                                                             *)

Issued(token) == owner[token] # None

Good(token) == token \notin dead /\ owner[token] \in accounts

\* It was logged out, has expired, or its user has been deleted at some time.
Spent(token) == token \in dead \/ owner[token] \in removed

\* An answer to a page that is gone is nobody's.
Answer(r, code) ==
    request' = [request EXCEPT ![r] = IF @.tab = None THEN Idle ELSE [@ EXCEPT !.code = code]]

ServeUserInfo(r) ==
    /\ request[r].step \in {"updateUser", "welcome"}
    /\ Answer(r, IF Good(request[r].token) THEN "ok" ELSE "refused")
    /\ UNCHANGED server

\* A good name and password, or a name that is free, and the answer is a token; what
\* else is wrong with the form is a refusal too.
AnswerToken(r) ==
    \E token \in Tokens :
        /\ ~Issued(token)
        /\ owner' = [owner EXCEPT ![token] = request[r].user]
        /\ request' = [request EXCEPT ![r] =
                         IF @.tab = None THEN Idle ELSE [@ EXCEPT !.code = "ok", !.token = token]]

ServeLogin(r) ==
    /\ request[r].step = "login"
    /\ \/ request[r].user \in accounts /\ AnswerToken(r)
       \/ Answer(r, "refused") /\ UNCHANGED owner
    /\ UNCHANGED <<accounts, removed, dead>>

ServeRegister(r) ==
    /\ request[r].step = "register"
    /\ \/ /\ request[r].user \notin accounts
          /\ AnswerToken(r)
          /\ accounts' = accounts \union {request[r].user}
       \/ Answer(r, "refused") /\ UNCHANGED <<accounts, owner>>
    /\ UNCHANGED <<removed, dead>>

ServeLogout(r) ==
    /\ request[r].step = "logout"
    /\ IF Good(request[r].token)
         THEN Answer(r, "ok") /\ dead' = dead \union {request[r].token}
         ELSE Answer(r, "refused") /\ UNCHANGED dead
    /\ UNCHANGED <<accounts, removed, owner>>

Serve(r) ==
    /\ request[r].code = "none"
    /\ \/ ServeUserInfo(r)
       \/ ServeLogin(r)
       \/ ServeRegister(r)
       \/ ServeLogout(r)
    /\ UNCHANGED <<storage, tab>>

Expire(token) ==
    /\ Issued(token)
    /\ dead' = dead \union {token}
    /\ UNCHANGED <<accounts, removed, owner, storage, tab, request>>

DeleteAccount(user) ==
    /\ user \in accounts
    /\ accounts' = accounts \ {user}
    /\ removed' = removed \union {user}
    /\ UNCHANGED <<owner, dead, storage, tab, request>>

-----------------------------------------------------------------------------
(* A tab.                                                                  *)

\* Deviation: the tab asks the storage each time.
TokenOfStorage(cached, stored) == stored

\* Deviation: what is missing from the storage is taken for a token.
TokenOrUndefined(cached, stored) ==
    IF cached # None THEN cached ELSE IF stored = None THEN "undefined" ELSE stored

\* getLoginToken: the token the tab uses, and remembers.
LoginToken(cached, stored) == IF cached = None THEN stored ELSE cached

Shown(t) == tab[t].loggedIn /\ tab[t].user # None

\* The effects of Home and of Login: where the router ends up, once the options have
\* come.
Settled(page, loggedIn) ==
    CASE page = "login" /\ loggedIn -> "home"
      [] page = "home" /\ Private /\ ~loggedIn -> "login"
      [] OTHER -> page

\* A form that is left is unmounted, and what it waited for with it, also when the
\* page it is left for leads straight back to it.
Moved(s, page) ==
    LET to == Settled(page, s.loggedIn)
    IN  [s EXCEPT !.page = to, !.waiting = IF page = s.page /\ to = page THEN @ ELSE None]

\* Deviation: the form keeps its spinner when the request throws.
ReleasedNever(s, r) == s

\* Deviation: whatever goes wrong counts as a logout.
ReleasedLoggedOut(s, r) ==
    [s EXCEPT !.loggedIn = FALSE, !.user = None, !.waiting = IF @ = r THEN None ELSE @]

\* The catch of the forms.
Released(s, r) == IF s.waiting = r THEN [s EXCEPT !.waiting = None] ELSE s

\* Deviation: a token is as good as a user.
RememberingLogsIn(s, token) == [s EXCEPT !.cached = token, !.loggedIn = TRUE]

Remembering(s, token) == [s EXCEPT !.cached = token]

LoggedIn(s, user) == [s EXCEPT !.loggedIn = TRUE, !.user = user]
LoggedOut(s) == [s EXCEPT !.loggedIn = FALSE, !.user = None]

Changing == {"login", "register", "logout"}

\* The requests of a page that goes away are left to themselves: what they may still
\* change on the server they will.
Abandoned(t) ==
    [r \in Requests |->
       IF request[r].tab # t THEN request[r]
       ELSE IF request[r].code = "none" /\ request[r].step \in Changing
              THEN [request[r] EXCEPT !.tab = None]
              ELSE Idle]

Fresh(page, token) ==
    [page |-> Settled(page, FALSE), cached |-> token, loggedIn |-> FALSE, user |-> None,
     waiting |-> None]

\* Header's effect on the first render of a page calls updateUser; without a token
\* in the storage there is no request.
Load(t, page, r) ==
    LET token == LoginToken(None, storage)
    IN  /\ request[r] = Idle
        /\ tab' = [tab EXCEPT ![t] = Fresh(page, token)]
        /\ request' =
             IF token = None THEN Abandoned(t)
             ELSE [Abandoned(t) EXCEPT ![r] = [Idle EXCEPT !.step = "updateUser", !.tab = t,
                                                           !.token = token]]
        /\ UNCHANGED <<server, storage>>

\* The links: Home, Login (only when no user is shown) and Register.
Follow(t, page) ==
    /\ \/ page = "home"
       \/ page = "login" /\ ~Shown(t)
       \/ page = "register" /\ tab[t].page = "login"
    /\ tab' = [tab EXCEPT ![t] = Moved(tab[t], page)]
    /\ UNCHANGED <<server, storage, request>>

\* Both forms are submitted alike, and not again while one waits.
Submit(t, form, user, r) ==
    /\ tab[t].page = form
    /\ tab[t].waiting = None
    /\ request[r] = Idle
    /\ tab' = [tab EXCEPT ![t].waiting = r]
    /\ request' = [request EXCEPT ![r] = [Idle EXCEPT !.step = form, !.tab = t, !.user = user]]
    /\ UNCHANGED <<server, storage>>

\* "Sign out": the request is sent and the page left in one go.
SignOut(t, r) ==
    LET token == LoginToken(tab[t].cached, storage)
    IN  /\ Shown(t)
        /\ request[r] = Idle
        /\ request' = [request EXCEPT ![r] = [Idle EXCEPT !.step = "logout", !.tab = t,
                                                          !.token = token]]
        /\ tab' = [tab EXCEPT ![t] = Moved(Remembering(tab[t], token), "home")]
        /\ UNCHANGED <<server, storage>>

-----------------------------------------------------------------------------
(* What the tab does with an answer.                                       *)

Answered(r, step) ==
    /\ request[r].step = step
    /\ request[r].code # "none"

Finish(r) == request' = [request EXCEPT ![r] = Idle]

ReceiveUser(r) ==
    LET t == request[r].tab
        s == IF request[r].code = "ok" THEN LoggedIn(tab[t], owner[request[r].token])
             ELSE LoggedOut(tab[t])
    IN  /\ Answered(r, "updateUser")
        /\ tab' = [tab EXCEPT ![t] = Moved(s, s.page)]
        /\ Finish(r)
        /\ UNCHANGED <<server, storage>>

\* login and register of the store, up to their call of userInfo.
ReceiveToken(r) ==
    LET t == request[r].tab
        token == LoginToken(tab[t].cached, request[r].token)
    IN  /\ Answered(r, "login") \/ Answered(r, "register")
        /\ IF request[r].code = "ok"
             THEN /\ storage' = request[r].token
                  /\ tab' = [tab EXCEPT ![t] = Remembering(@, token)]
                  /\ request' = [request EXCEPT ![r].step = "welcome", ![r].code = "none",
                                                ![r].token = token]
             ELSE /\ tab' = [tab EXCEPT ![t] = Released(tab[t], r)]
                  /\ Finish(r)
                  /\ UNCHANGED storage
        /\ UNCHANGED server

\* The rest of them: admitted or refused, the tab counts as logged in and goes home.
ReceiveWelcome(r) ==
    LET t == request[r].tab
        user == IF request[r].code = "ok" THEN owner[request[r].token] ELSE None
    IN  /\ Answered(r, "welcome")
        /\ tab' = [tab EXCEPT ![t] = Moved(LoggedIn(tab[t], user), "home")]
        /\ Finish(r)
        /\ UNCHANGED <<server, storage>>

\* logout: the storage is emptied whatever token is in it by now; an answer other
\* than 200 is thrown and nobody catches it.
ReceiveLogout(r) ==
    LET t == request[r].tab
        s == LoggedOut(tab[t])
    IN  /\ Answered(r, "logout")
        /\ IF request[r].code = "ok"
             THEN /\ storage' = None
                  /\ tab' = [tab EXCEPT ![t] = Moved(s, s.page)]
             ELSE UNCHANGED <<storage, tab>>
        /\ Finish(r)
        /\ UNCHANGED server

\* The request or its answer is lost, or the answer is a 500: the store's function
\* throws, which only the forms catch.
Fail(r) ==
    LET t == request[r].tab
    IN  /\ t # None
        /\ tab' = [tab EXCEPT ![t] = Released(tab[t], r)]
        /\ Finish(r)
        /\ UNCHANGED <<server, storage>>

Receive(r) ==
    \/ ReceiveUser(r)
    \/ ReceiveToken(r)
    \/ ReceiveWelcome(r)
    \/ ReceiveLogout(r)
    \/ Fail(r)

-----------------------------------------------------------------------------

Init ==
    /\ accounts \in SUBSET Users
    /\ removed = {}
    /\ owner = [token \in Tokens |-> None]
    /\ dead = {}
    /\ storage = None
    /\ tab = [t \in Tabs |-> Fresh("home", None)]
    /\ request = [r \in Requests |-> Idle]

Browse(t) ==
    \/ \E page \in Pages :
          Follow(t, page) \/ \E r \in Requests : Load(t, page, r)
    \/ \E r \in Requests : SignOut(t, r)
    \/ \E form \in {"login", "register"}, user \in Users, r \in Requests :
          Submit(t, form, user, r)

Next ==
    \/ \E t \in Tabs : Browse(t)
    \/ \E r \in Requests : Serve(r) \/ Receive(r)
    \/ \E token \in Tokens : Expire(token)
    \/ \E user \in Users : DeleteAccount(user)

Spec == Init /\ [][Next]_vars

-----------------------------------------------------------------------------
(* Properties.                                                             *)

\* Whatever a tab asks of the server from now on, it asks as the user its header
\* greets, although other tabs log in and out and write the same storage
\* (api/index.ts:86, stores/login.ts:36).
ShownUserIsTokens ==
    \A t \in Tabs :
        tab[t].user # None => /\ tab[t].cached # None
                              /\ owner[tab[t].cached] = tab[t].user

\* A tab that counts as logged in and greets nobody, whose Login link leads back
\* home, is one whose own token is spent (stores/login.ts:43, Login.tsx:54).
StuckOnlyWhenSpent ==
    \A t \in Tabs :
        tab[t].loggedIn /\ tab[t].user = None =>
            tab[t].cached # None /\ Spent(tab[t].cached)

\* A tab stops greeting its user, short of being loaded again, only once the token
\* is spent on the server: never because another tab signed out, a request failed
\* or the storage was emptied (stores/login.ts:38, :50; api/index.ts:178).
KeepsSession(t) ==
    tab[t].loggedIn /\ ~tab'[t].loggedIn
        => \/ Spent(tab[t].cached)
           \/ \E page \in Pages, r \in Requests : Load(t, page, r)

SessionEnds == [][\A t \in Tabs : KeepsSession(t)]_vars

\* A form with its spinner on waits for a request that is still to be answered or
\* handled, its own (Login.tsx:58, Register.tsx:37).
FormsWaitForSomething ==
    \A t \in Tabs, r \in Requests :
        tab[t].waiting = r => /\ request[r].tab = t
                              /\ request[r].step \in {"login", "register", "welcome"}

=============================================================================
