---------------------------- MODULE ClientProofs ----------------------------
(* Theorems about Client, for any number of users, tokens, tabs and        *)
(* requests.                                                               *)
EXTENDS Client, TLAPS

\* A token names a user that has, or had, an account.
OwnersKnown ==
    \A token \in Tokens : Issued(token) => owner[token] \in accounts \union removed

StorageIssued == storage # None => Issued(storage)

\* What holds of one tab.
TabCoherent(s) ==
    /\ s.cached # None => Issued(s.cached)
    /\ s.user # None => s.cached # None /\ owner[s.cached] = s.user
    /\ s.loggedIn /\ s.user = None => s.cached # None /\ Spent(s.cached)

\* What holds of one request: while its page lives it carries the token that page
\* caches, and the answer says what the server knows of that token.
RequestCoherent(q) ==
    /\ q.code # "none" => q.tab # None
    /\ q.tab # None /\ q.step \in {"updateUser", "welcome", "logout"} =>
         q.token # None /\ q.token = tab[q.tab].cached
    /\ q.step \in {"updateUser", "welcome"} => q.token # None /\ q.tab # None
    /\ q.step = "logout" => q.token # None
    /\ q.token # None => Issued(q.token)
    /\ q.step \in {"updateUser", "welcome"} /\ q.code = "refused" => Spent(q.token)
    /\ q.step = "logout" /\ q.code = "ok" => Spent(q.token)
    /\ q.step \in {"login", "register"} /\ q.code = "ok" => q.token # None
    /\ q.step = "idle" => q = Idle
    /\ q.step \in {"login", "register"} => q.user \in Users

IInv ==
    /\ TypeOK
    /\ OwnersKnown
    /\ StorageIssued
    /\ \A t \in Tabs : TabCoherent(tab[t])
    /\ \A r \in Requests : RequestCoherent(request[r])

LEMMA IdleTyped == Idle \in RequestRecords
BY DEF Idle, RequestRecords, Steps, Codes

LEMMA FreshTyped ==
    ASSUME NEW page \in Pages, NEW token \in Tokens \union {None}
    PROVE  Fresh(page, token) \in TabRecords
BY DEF Fresh, Settled, TabRecords, Pages

LEMMA MovedTyped ==
    ASSUME NEW s \in TabRecords, NEW page \in Pages
    PROVE  /\ Moved(s, page) \in TabRecords
           /\ Moved(s, page).cached = s.cached
           /\ Moved(s, page).loggedIn = s.loggedIn
           /\ Moved(s, page).user = s.user
BY DEF Moved, Settled, TabRecords, Pages

LEMMA ReleasedTyped ==
    ASSUME NEW s \in TabRecords, NEW r
    PROVE  /\ Released(s, r) \in TabRecords
           /\ Released(s, r).cached = s.cached
           /\ Released(s, r).loggedIn = s.loggedIn
           /\ Released(s, r).user = s.user
BY DEF Released, TabRecords

LEMMA LoginTyped ==
    ASSUME NEW s \in TabRecords, NEW user \in Users \union {None}
    PROVE  /\ LoggedIn(s, user) \in TabRecords
           /\ LoggedIn(s, user).page = s.page
           /\ LoggedIn(s, user).cached = s.cached
           /\ LoggedIn(s, user).loggedIn = TRUE
           /\ LoggedIn(s, user).user = user
BY DEF LoggedIn, TabRecords

LEMMA LogoutTyped ==
    ASSUME NEW s \in TabRecords
    PROVE  /\ LoggedOut(s) \in TabRecords
           /\ LoggedOut(s).page = s.page
           /\ LoggedOut(s).cached = s.cached
           /\ LoggedOut(s).loggedIn = FALSE
           /\ LoggedOut(s).user = None
BY DEF LoggedOut, TabRecords

LEMMA InitStep == Init => IInv
<1> SUFFICES ASSUME Init PROVE IInv
  OBVIOUS
<1>1. TypeOK
  BY IdleTyped, FreshTyped DEF Init, TypeOK, Pages
<1>2. \A t \in Tabs : TabCoherent(tab[t])
  BY DEF Init, TabCoherent, Fresh
<1>3. \A r \in Requests : RequestCoherent(request[r])
  BY DEF Init, RequestCoherent, Idle
<1> QED
  BY <1>1, <1>2, <1>3 DEF Init, IInv, OwnersKnown, StorageIssued, Issued

\* A step of one tab and one request, and perhaps of the storage, that keeps what
\* the tab has cached once it has.
LEMMA LocalStep ==
    ASSUME IInv, UNCHANGED server,
           NEW t \in Tabs, NEW s \in TabRecords, tab' = [tab EXCEPT ![t] = s],
           tab[t].cached # None => s.cached = tab[t].cached,
           TabCoherent(s),
           NEW r \in Requests, NEW q \in RequestRecords,
           request' = [request EXCEPT ![r] = q],
           RequestCoherent(q)',
           storage' \in Tokens \union {None}, StorageIssued'
    PROVE  IInv'
<1>1. /\ \A u \in Tabs : tab'[u] = IF u = t THEN s ELSE tab[u]
      /\ \A p \in Requests : request'[p] = IF p = r THEN q ELSE request[p]
      /\ tab' \in [Tabs -> TabRecords]
      /\ request' \in [Requests -> RequestRecords]
  BY DEF IInv, TypeOK
<1>2. TypeOK' /\ OwnersKnown'
  BY <1>1 DEF IInv, TypeOK, OwnersKnown, server, Issued
<1>3. \A u \in Tabs : TabCoherent(tab[u])'
  BY <1>1 DEF IInv, TabCoherent, server, Issued, Spent
<1>4. ASSUME NEW p \in Requests, p # r
      PROVE  RequestCoherent(request[p])'
  <2>1. request'[p] = request[p] /\ RequestCoherent(request[p]) /\ request[p] \in RequestRecords
    BY <1>1, <1>4 DEF IInv, TypeOK
  <2>2. /\ request[p].tab # None
        /\ request[p].step \in {"updateUser", "welcome", "logout"}
        => request[p].token = tab'[request[p].tab].cached
    BY <1>1, <2>1 DEF RequestCoherent, RequestRecords
  <2> QED
    BY <2>1, <2>2 DEF RequestCoherent, server, Issued, Spent
<1>5. RequestCoherent(request[r])'
  BY <1>1
<1> QED
  BY <1>2, <1>3, <1>4, <1>5 DEF IInv

\* The same when no request is touched.
LEMMA TabStep ==
    ASSUME IInv, UNCHANGED <<server, storage, request>>,
           NEW t \in Tabs, NEW s \in TabRecords, tab' = [tab EXCEPT ![t] = s],
           s.cached = tab[t].cached,
           TabCoherent(s)
    PROVE  IInv'
<1>1. \A u \in Tabs : tab'[u] = IF u = t THEN s ELSE tab[u]
  BY DEF IInv, TypeOK
<1>2. TypeOK' /\ OwnersKnown' /\ StorageIssued'
  BY <1>1 DEF IInv, TypeOK, OwnersKnown, StorageIssued, server, Issued
<1>3. \A u \in Tabs : TabCoherent(tab[u])'
  BY <1>1 DEF IInv, TabCoherent, server, Issued, Spent
<1>4. ASSUME NEW p \in Requests
      PROVE  RequestCoherent(request[p])'
  <2>1. RequestCoherent(request[p]) /\ request[p] \in RequestRecords
    BY DEF IInv, TypeOK
  <2>2. request[p].tab # None => tab'[request[p].tab].cached = tab[request[p].tab].cached
    BY <1>1, <2>1 DEF RequestRecords
  <2> QED
    BY <2>1, <2>2 DEF RequestCoherent, server, Issued, Spent
<1> QED
  BY <1>2, <1>3, <1>4 DEF IInv

\* The server learns or forgets something: tokens and what is known of them only
\* ever grow.  One request may be answered meanwhile.
LEMMA ServerStep ==
    ASSUME IInv, UNCHANGED <<storage, tab>>,
           TypeOK', OwnersKnown',
           \A token \in Tokens : Issued(token) => owner'[token] = owner[token],
           dead \subseteq dead', removed \subseteq removed',
           \A r \in Requests : request'[r] # request[r] => RequestCoherent(request[r])'
    PROVE  IInv'
<1>1. \A token \in Tokens : /\ Issued(token) => Issued(token)'
                            /\ Issued(token) /\ Spent(token) => Spent(token)'
  BY DEF Issued, Spent
<1>2. StorageIssued'
  BY <1>1 DEF IInv, TypeOK, StorageIssued
<1>3. ASSUME NEW t \in Tabs
      PROVE  TabCoherent(tab[t])'
  <2>1. TabCoherent(tab[t]) /\ tab[t] \in TabRecords /\ tab'[t] = tab[t]
    BY DEF IInv, TypeOK
  <2>2. tab[t].cached # None => tab[t].cached \in Tokens
    BY <2>1 DEF TabRecords
  <2> QED
    BY <1>1, <2>1, <2>2 DEF TabCoherent
<1>4. ASSUME NEW r \in Requests, request'[r] = request[r]
      PROVE  RequestCoherent(request[r])'
  <2>1. RequestCoherent(request[r]) /\ request[r] \in RequestRecords
    BY DEF IInv, TypeOK
  <2>2. request[r].token # None => request[r].token \in Tokens
    BY <2>1 DEF RequestRecords
  <2> QED
    BY <1>1, <1>4, <2>1, <2>2 DEF RequestCoherent
<1> QED
  BY <1>2, <1>3, <1>4 DEF IInv

LEMMA AnswerTyped ==
    ASSUME IInv, NEW r \in Requests, NEW code \in Codes, Answer(r, code)
    PROVE  /\ request' \in [Requests -> RequestRecords]
           /\ \A p \in Requests : p # r => request'[p] = request[p]
           /\ \/ request'[r] = Idle
              \/ request[r].tab # None /\ request'[r] = [request[r] EXCEPT !.code = code]
<1>1. request[r] \in RequestRecords
  BY DEF IInv, TypeOK
<1>2. [request[r] EXCEPT !.code = code] \in RequestRecords
  BY <1>1 DEF RequestRecords
<1> QED
  BY <1>2, IdleTyped DEF Answer, IInv, TypeOK

\* Whatever the answer says of the token is so.
LEMMA AnswerCoherent ==
    ASSUME IInv, NEW r \in Requests, NEW code \in Codes, Answer(r, code),
           UNCHANGED tab,
           NEW k, k = request[r].token,
           k # None => Issued(k)',
           request[r].step # "idle",
           code = "ok" => request[r].step \notin {"login", "register"},
           code = "refused" /\ request[r].step \in {"updateUser", "welcome"} => Spent(k)',
           code = "ok" /\ request[r].step = "logout" => Spent(k)'
    PROVE  RequestCoherent(request[r])'
<1>1. CASE request'[r] = Idle
  BY <1>1 DEF Idle, RequestCoherent
<1>2. CASE request[r].tab # None /\ request'[r] = [request[r] EXCEPT !.code = code]
  <2>1. request[r] \in RequestRecords /\ RequestCoherent(request[r])
    BY DEF IInv, TypeOK
  <2>2. /\ request'[r].code = code /\ request'[r].tab = request[r].tab
        /\ request'[r].step = request[r].step /\ request'[r].token = k
        /\ request'[r].user = request[r].user
    BY <1>2, <2>1 DEF RequestRecords
  <2> QED
    BY <1>2, <2>1, <2>2 DEF RequestCoherent
<1> QED
  BY <1>1, <1>2, AnswerTyped

LEMMA ServeUserInfoStep ==
    ASSUME IInv, NEW r \in Requests, ServeUserInfo(r), UNCHANGED <<storage, tab>>
    PROVE  IInv'
<1>1. request[r] \in RequestRecords /\ RequestCoherent(request[r])
  BY DEF IInv, TypeOK
<1>2. PICK k \in Tokens : k = request[r].token /\ Issued(k)
  BY <1>1 DEF ServeUserInfo, RequestCoherent, RequestRecords
<1>3. PICK code \in {"ok", "refused"} :
        /\ Answer(r, code)
        /\ code = "refused" => ~Good(k)
  BY <1>2 DEF ServeUserInfo
<1>4. code \in Codes /\ UNCHANGED server
  BY <1>3 DEF ServeUserInfo, Codes
<1>5. Issued(k)' /\ (code = "refused" => Spent(k)')
  BY <1>2, <1>3, <1>4 DEF Good, Issued, Spent, IInv, OwnersKnown, server
<1>6. RequestCoherent(request[r])'
  BY <1>2, <1>3, <1>4, <1>5, AnswerCoherent DEF ServeUserInfo
<1>7. TypeOK' /\ OwnersKnown'
  BY <1>3, <1>4, AnswerTyped DEF IInv, TypeOK, OwnersKnown, server, Issued
<1> QED
  BY <1>3, <1>4, <1>6, <1>7, AnswerTyped, ServerStep DEF server

\* A refusal changes nothing but the request.
LEMMA RefusalStep ==
    ASSUME IInv, NEW r \in Requests, Answer(r, "refused"),
           request[r].step \in {"login", "register", "logout"},
           UNCHANGED <<server, storage, tab>>
    PROVE  IInv'
<1>1. request[r] \in RequestRecords /\ RequestCoherent(request[r])
  BY DEF IInv, TypeOK
<1>2. PICK k : k = request[r].token /\ (k # None => Issued(k)')
  BY <1>1 DEF RequestCoherent, Issued, server
<1>3. RequestCoherent(request[r])'
  BY <1>2, AnswerCoherent DEF Codes
<1>4. TypeOK' /\ OwnersKnown'
  BY AnswerTyped DEF IInv, TypeOK, OwnersKnown, server, Issued, Codes
<1> QED
  BY <1>3, <1>4, AnswerTyped, ServerStep DEF server, Codes

LEMMA AnswerTokenStep ==
    ASSUME IInv, NEW r \in Requests, AnswerToken(r),
           request[r].step \in {"login", "register"},
           accounts \subseteq accounts', accounts' \subseteq Users,
           request[r].user \in accounts',
           UNCHANGED <<removed, dead, storage, tab>>
    PROVE  IInv'
<1>1. request[r] \in RequestRecords /\ RequestCoherent(request[r])
  BY DEF IInv, TypeOK
<1>2. PICK k \in Tokens :
        /\ ~Issued(k)
        /\ owner' = [owner EXCEPT ![k] = request[r].user]
        /\ request' = [request EXCEPT ![r] =
                         IF @.tab = None THEN Idle ELSE [@ EXCEPT !.code = "ok", !.token = k]]
  BY DEF AnswerToken
<1> DEFINE q == [request[r] EXCEPT !.code = "ok", !.token = k]
<1>3. /\ q \in RequestRecords
      /\ q.code = "ok" /\ q.token = k /\ q.step = request[r].step /\ q.tab = request[r].tab
      /\ q.user = request[r].user
  BY <1>1, <1>2 DEF RequestRecords, Codes
<1>4. request'[r] = Idle \/ (request'[r] = q /\ q.tab # None)
  BY <1>1, <1>2, <1>3 DEF IInv, TypeOK
<1>5. \A p \in Requests : p # r => request'[p] = request[p]
  BY <1>2 DEF IInv, TypeOK
<1>6. request' \in [Requests -> RequestRecords]
  BY <1>1, <1>2, <1>3, IdleTyped DEF IInv, TypeOK
<1>7. /\ owner' \in [Tokens -> Users \union {None}]
      /\ owner'[k] = request[r].user /\ request[r].user # None
      /\ \A token \in Tokens : token # k => owner'[token] = owner[token]
  BY <1>2, NoneAssumption DEF IInv, TypeOK
<1>8. RequestCoherent(request[r])'
  <2> HIDE DEF q
  <2> QED
    BY <1>1, <1>2, <1>3, <1>4, <1>7, NoneAssumption DEF RequestCoherent, Issued, Idle
<1>9. TypeOK' /\ OwnersKnown'
  BY <1>6, <1>7 DEF IInv, TypeOK, OwnersKnown, Issued
<1> QED
  BY <1>2, <1>5, <1>7, <1>8, <1>9, ServerStep

LEMMA ServeLogoutStep ==
    ASSUME IInv, NEW r \in Requests, ServeLogout(r), UNCHANGED <<storage, tab>>
    PROVE  IInv'
<1>1. CASE Good(request[r].token)
  <2>1. request[r] \in RequestRecords /\ RequestCoherent(request[r])
    BY DEF IInv, TypeOK
  <2>2. PICK k \in Tokens : k = request[r].token /\ Issued(k)
    BY <2>1 DEF ServeLogout, RequestCoherent, RequestRecords
  <2>3. Answer(r, "ok") /\ dead' = dead \union {k} /\ UNCHANGED <<accounts, removed, owner>>
    BY <1>1, <2>2 DEF ServeLogout
  <2>4. Issued(k)' /\ Spent(k)'
    BY <2>2, <2>3 DEF Issued, Spent
  <2>5. RequestCoherent(request[r])'
    BY <2>2, <2>3, <2>4, AnswerCoherent DEF ServeLogout, Codes
  <2>6. TypeOK' /\ OwnersKnown'
    BY <2>3, AnswerTyped DEF IInv, TypeOK, OwnersKnown, Issued, Codes
  <2> QED
    BY <2>3, <2>5, <2>6, AnswerTyped, ServerStep DEF Codes
<1>2. CASE ~Good(request[r].token)
  <2>1. Answer(r, "refused") /\ UNCHANGED server /\ request[r].step = "logout"
    BY <1>2 DEF ServeLogout, server
  <2> QED
    BY <2>1, RefusalStep
<1> QED
  BY <1>1, <1>2

LEMMA ServeStep ==
    ASSUME IInv, NEW r \in Requests, Serve(r)
    PROVE  IInv'
<1>1. CASE ServeUserInfo(r)
  BY <1>1, ServeUserInfoStep DEF Serve
<1>2. CASE ServeLogin(r)
  <2>1. CASE request[r].user \in accounts /\ AnswerToken(r)
    BY <1>2, <2>1, AnswerTokenStep DEF Serve, ServeLogin, IInv, TypeOK
  <2>2. CASE Answer(r, "refused") /\ UNCHANGED owner
    BY <1>2, <2>2, RefusalStep DEF Serve, ServeLogin, server
  <2> QED
    BY <1>2, <2>1, <2>2 DEF ServeLogin
<1>3. CASE ServeRegister(r)
  <2>1. CASE AnswerToken(r) /\ accounts' = accounts \union {request[r].user}
    <3>1. request[r].user \in Users
      BY <1>3 DEF ServeRegister, IInv, RequestCoherent
    <3> QED
      BY <1>3, <2>1, <3>1, AnswerTokenStep DEF Serve, ServeRegister, IInv, TypeOK
  <2>2. CASE Answer(r, "refused") /\ UNCHANGED <<accounts, owner>>
    BY <1>3, <2>2, RefusalStep DEF Serve, ServeRegister, server
  <2> QED
    BY <1>3, <2>1, <2>2 DEF ServeRegister
<1>4. CASE ServeLogout(r)
  BY <1>4, ServeLogoutStep DEF Serve
<1> QED
  BY <1>1, <1>2, <1>3, <1>4 DEF Serve

LEMMA ExpireStep ==
    ASSUME IInv, NEW token \in Tokens, Expire(token)
    PROVE  IInv'
<1>1. TypeOK' /\ OwnersKnown'
  BY DEF Expire, IInv, TypeOK, OwnersKnown, Issued
<1> QED
  BY <1>1, ServerStep DEF Expire

LEMMA DeleteAccountStep ==
    ASSUME IInv, NEW user \in Users, DeleteAccount(user)
    PROVE  IInv'
<1>1. TypeOK' /\ OwnersKnown'
  BY DEF DeleteAccount, IInv, TypeOK, OwnersKnown, Issued
<1> QED
  BY <1>1, ServerStep DEF DeleteAccount

\* A new page starts from the storage, and no request of the old one is its own.
LEMMA LoadStep ==
    ASSUME IInv, NEW t \in Tabs, NEW page \in Pages, NEW r \in Requests, Load(t, page, r)
    PROVE  IInv'
<1>0. PICK k : k = storage
  OBVIOUS
<1> DEFINE q == [Idle EXCEPT !.step = "updateUser", !.tab = t, !.token = k]
           s == Fresh(page, k)
<1>1. k \in Tokens \union {None} /\ StorageIssued /\ t # None
  BY <1>0, NoneAssumption DEF IInv, TypeOK
<1>2. /\ s \in TabRecords
      /\ s.cached = k /\ s.user = None /\ ~s.loggedIn
  BY <1>1, FreshTyped DEF Fresh
<1>3. tab' = [tab EXCEPT ![t] = s] /\ UNCHANGED <<server, storage>>
  BY <1>0 DEF Load, LoginToken
<1>4. /\ \A u \in Tabs : tab'[u] = IF u = t THEN s ELSE tab[u]
      /\ tab' \in [Tabs -> TabRecords]
  <2> HIDE DEF s
  <2> QED
    BY <1>2, <1>3 DEF IInv, TypeOK
<1>5. q \in RequestRecords /\ q.step = "updateUser" /\ q.code = "none"
      /\ q.tab = t /\ q.token = k
  BY <1>1 DEF Idle, RequestRecords, Steps, Codes
<1>6. ASSUME NEW p \in Requests, NEW v, v = Abandoned(t)[p]
      PROVE  v \in RequestRecords /\ RequestCoherent(v)'
  <2>1. request[p] \in RequestRecords /\ RequestCoherent(request[p])
    BY DEF IInv, TypeOK
  <2>2. CASE request[p].tab # t
    <3>1. v = request[p]
      BY <1>6, <2>2 DEF Abandoned
    <3>2. v.tab # None => tab'[v.tab] = tab[v.tab]
      BY <1>4, <2>1, <2>2, <3>1 DEF RequestRecords
    <3> QED
      BY <1>3, <2>1, <3>1, <3>2 DEF RequestCoherent, server, Issued, Spent
  <2>3. CASE request[p].code = "none" /\ request[p].step \in Changing /\ request[p].tab = t
    <3>1. v = [request[p] EXCEPT !.tab = None]
      BY <1>1, <1>6, <2>3 DEF Abandoned
    <3>2. /\ v \in RequestRecords
          /\ v.tab = None /\ v.code = "none" /\ v.step = request[p].step
          /\ v.token = request[p].token /\ v.user = request[p].user
      BY <2>1, <2>3, <3>1 DEF RequestRecords
    <3>3. v.token # None => Issued(v.token)'
      BY <1>3, <2>1, <3>2 DEF RequestCoherent, server, Issued
    <3> QED
      BY <2>1, <2>3, <3>2, <3>3 DEF RequestCoherent, Changing
  <2>4. CASE v = Idle
    BY <2>4, IdleTyped DEF RequestCoherent, Idle
  <2> QED
    BY <1>6, <2>2, <2>3, <2>4 DEF Abandoned
<1>7. (k # None => RequestCoherent(q)') /\ TabCoherent(s)'
  <2>1. k # None => Issued(k)'
    BY <1>0, <1>1, <1>3 DEF StorageIssued, server, Issued
  <2>2. tab'[t] = s
    BY <1>4
  <2> HIDE DEF q, s
  <2> QED
    BY <1>1, <1>2, <1>3, <1>5, <2>1, <2>2 DEF RequestCoherent, TabCoherent
<1>8. ASSUME NEW p \in Requests
      PROVE  request'[p] \in RequestRecords /\ RequestCoherent(request[p])'
  <2>1. PICK v : v = Abandoned(t)[p]
    OBVIOUS
  <2>2. request'[p] = v \/ (k # None /\ request'[p] = q)
    BY <1>0, <2>1 DEF Load, LoginToken, Abandoned
  <2>3. v \in RequestRecords /\ RequestCoherent(v)'
    BY <1>6, <2>1
  <2> HIDE DEF q
  <2> QED
    BY <1>5, <1>7, <2>2, <2>3
<1>9. \A u \in Tabs : TabCoherent(tab[u])'
  <2> HIDE DEF s
  <2> QED
    BY <1>3, <1>4, <1>7 DEF IInv, TabCoherent, server, Issued, Spent
<1>10. TypeOK'
  <2>1. request' = [p \in Requests |-> request'[p]]
    BY DEF Load, Abandoned
  <2> QED
    BY <1>3, <1>4, <1>8, <2>1 DEF IInv, TypeOK, server
<1> QED
  BY <1>3, <1>8, <1>9, <1>10 DEF IInv, OwnersKnown, StorageIssued, server, Issued

LEMMA FollowStep ==
    ASSUME IInv, NEW t \in Tabs, NEW page \in Pages, Follow(t, page)
    PROVE  IInv'
<1>1. tab[t] \in TabRecords /\ TabCoherent(tab[t])
  BY DEF IInv, TypeOK
<1>2. PICK s \in TabRecords : s = Moved(tab[t], page)
  BY <1>1, MovedTyped
<1>3. s.cached = tab[t].cached /\ TabCoherent(s)
  BY <1>1, <1>2, MovedTyped DEF TabCoherent
<1> QED
  BY <1>2, <1>3, TabStep DEF Follow

LEMMA SubmitStep ==
    ASSUME IInv, NEW t \in Tabs, NEW form \in {"login", "register"}, NEW user \in Users,
           NEW r \in Requests, Submit(t, form, user, r)
    PROVE  IInv'
<1>1. tab[t] \in TabRecords /\ TabCoherent(tab[t])
  BY DEF IInv, TypeOK
<1>2. PICK s : s = [tab[t] EXCEPT !.waiting = r]
  OBVIOUS
<1>3. /\ s \in TabRecords
      /\ s.cached = tab[t].cached /\ s.loggedIn = tab[t].loggedIn /\ s.user = tab[t].user
  BY <1>1, <1>2 DEF TabRecords
<1>4. TabCoherent(s)
  BY <1>1, <1>3 DEF TabCoherent
<1> DEFINE q == [Idle EXCEPT !.step = form, !.tab = t, !.user = user]
<1>5. q \in RequestRecords /\ q.step = form /\ q.code = "none" /\ q.token = None
      /\ q.user = user
  BY DEF Idle, RequestRecords, Steps, Codes
<1>6. RequestCoherent(q)'
  <2> HIDE DEF q
  <2> QED
    BY <1>5 DEF RequestCoherent
<1>7. /\ tab' = [tab EXCEPT ![t] = s]
      /\ request' = [request EXCEPT ![r] = q]
      /\ UNCHANGED <<server, storage>>
  BY <1>2 DEF Submit
<1>8. storage' \in Tokens \union {None} /\ StorageIssued'
  BY <1>7 DEF IInv, TypeOK, StorageIssued, server, Issued
<1> HIDE DEF q
<1> QED
  BY <1>3, <1>4, <1>5, <1>6, <1>7, <1>8, LocalStep

LEMMA SignOutStep ==
    ASSUME IInv, NEW t \in Tabs, NEW r \in Requests, SignOut(t, r)
    PROVE  IInv'
<1>1. tab[t] \in TabRecords /\ TabCoherent(tab[t]) /\ t # None
  BY NoneAssumption DEF IInv, TypeOK
<1>2. PICK k \in Tokens : k = tab[t].cached /\ Issued(k)
  BY <1>1 DEF SignOut, Shown, TabCoherent, TabRecords
<1>3. /\ LoginToken(tab[t].cached, storage) = k
      /\ Remembering(tab[t], k) = tab[t]
  BY <1>1, <1>2, NoneAssumption DEF LoginToken, Remembering, TabRecords
<1>4. PICK s \in TabRecords : s = Moved(tab[t], "home")
  BY <1>1, MovedTyped DEF Pages
<1>5. s.cached = k /\ TabCoherent(s)
  BY <1>1, <1>2, <1>4, MovedTyped DEF TabCoherent, Pages
<1> DEFINE q == [Idle EXCEPT !.step = "logout", !.tab = t, !.token = k]
<1>6. q \in RequestRecords /\ q.step = "logout" /\ q.code = "none" /\ q.token = k /\ q.tab = t
  BY <1>2 DEF Idle, RequestRecords, Steps, Codes
<1>7. /\ tab' = [tab EXCEPT ![t] = s]
      /\ request' = [request EXCEPT ![r] = q]
      /\ UNCHANGED <<server, storage>>
  BY <1>3, <1>4 DEF SignOut
<1>8. tab'[t] = s
  BY <1>7 DEF IInv, TypeOK
<1>9. RequestCoherent(q)'
  <2> HIDE DEF q
  <2> QED
    BY <1>1, <1>2, <1>5, <1>6, <1>7, <1>8, NoneAssumption DEF RequestCoherent, server, Issued
<1>10. storage' \in Tokens \union {None} /\ StorageIssued'
  BY <1>7 DEF IInv, TypeOK, StorageIssued, server, Issued
<1> HIDE DEF q
<1> QED
  BY <1>2, <1>4, <1>5, <1>6, <1>7, <1>9, <1>10, LocalStep

\* Handling an answer leaves the request idle; only the tab is left to look at.
LEMMA FinishStep ==
    ASSUME IInv, UNCHANGED server, NEW r \in Requests, Finish(r),
           NEW t \in Tabs, NEW s \in TabRecords, tab' = [tab EXCEPT ![t] = s],
           s.cached = tab[t].cached, TabCoherent(s),
           storage' \in {storage, None}
    PROVE  IInv'
<1>1. PICK q \in RequestRecords : q = Idle
  BY IdleTyped
<1>2. RequestCoherent(q)'
  BY <1>1 DEF RequestCoherent, Idle
<1>3. storage' \in Tokens \union {None} /\ StorageIssued'
  BY DEF IInv, TypeOK, StorageIssued, server, Issued
<1> QED
  BY <1>1, <1>2, <1>3, LocalStep DEF Finish

LEMMA ReceiveUserStep ==
    ASSUME IInv, NEW r \in Requests, ReceiveUser(r)
    PROVE  IInv'
<1>1. request[r] \in RequestRecords /\ RequestCoherent(request[r])
  BY DEF IInv, TypeOK
<1>2. PICK t \in Tabs : t = request[r].tab
  BY <1>1 DEF ReceiveUser, Answered, RequestCoherent, RequestRecords
<1>3. tab[t] \in TabRecords /\ TabCoherent(tab[t])
  BY DEF IInv, TypeOK
<1>4. PICK k \in Tokens : /\ k = request[r].token /\ k = tab[t].cached /\ Issued(k)
                          /\ request[r].code = "refused" => Spent(k)
  BY <1>1, <1>2, NoneAssumption DEF ReceiveUser, Answered, RequestCoherent, RequestRecords
<1>5. owner[k] \in Users
  BY <1>4 DEF IInv, TypeOK, Issued
<1>6. PICK s :
        s = IF request[r].code = "ok" THEN LoggedIn(tab[t], owner[k]) ELSE LoggedOut(tab[t])
  OBVIOUS
<1>7. /\ s \in TabRecords /\ s.page = tab[t].page /\ s.cached = k
      /\ (s.user = None /\ ~s.loggedIn) \/ (s.user = owner[k] /\ s.loggedIn)
  <2>1. CASE request[r].code = "ok"
    BY <1>3, <1>4, <1>5, <1>6, <2>1, LoginTyped
  <2>2. CASE request[r].code # "ok"
    BY <1>3, <1>4, <1>6, <2>2, LogoutTyped
  <2> QED
    BY <2>1, <2>2
<1>8. PICK m \in TabRecords : m = Moved(s, s.page)
  BY <1>7, MovedTyped DEF TabRecords
<1>9. m.cached = k /\ m.user = s.user /\ m.loggedIn = s.loggedIn
  BY <1>7, <1>8, MovedTyped DEF TabRecords
<1>10. TabCoherent(m)
  BY <1>4, <1>5, <1>7, <1>9, NoneAssumption DEF TabCoherent
<1>11. tab' = [tab EXCEPT ![t] = m]
  BY <1>2, <1>4, <1>6, <1>8 DEF ReceiveUser
<1> QED
  BY <1>4, <1>8, <1>9, <1>10, <1>11, FinishStep DEF ReceiveUser

LEMMA ReceiveWelcomeStep ==
    ASSUME IInv, NEW r \in Requests, ReceiveWelcome(r)
    PROVE  IInv'
<1>1. request[r] \in RequestRecords /\ RequestCoherent(request[r])
  BY DEF IInv, TypeOK
<1>2. PICK t \in Tabs : t = request[r].tab
  BY <1>1 DEF ReceiveWelcome, Answered, RequestCoherent, RequestRecords
<1>3. tab[t] \in TabRecords /\ TabCoherent(tab[t])
  BY DEF IInv, TypeOK
<1>4. PICK k \in Tokens : /\ k = request[r].token /\ k = tab[t].cached /\ Issued(k)
                          /\ request[r].code # "ok" => Spent(k)
  BY <1>1, <1>2, NoneAssumption
     DEF ReceiveWelcome, Answered, RequestCoherent, RequestRecords, Codes
<1>5. PICK user \in Users \union {None} :
        /\ user = IF request[r].code = "ok" THEN owner[k] ELSE None
        /\ request[r].code = "ok" => user # None
  BY <1>4 DEF IInv, TypeOK, Issued
<1>6. PICK m \in TabRecords :
        /\ m = Moved(LoggedIn(tab[t], user), "home")
        /\ m.cached = k /\ m.user = user
  <2>1. PICK s : s = LoggedIn(tab[t], user)
    OBVIOUS
  <2>2. s \in TabRecords /\ s.cached = k /\ s.user = user
    BY <1>3, <1>4, <2>1, LoginTyped
  <2> QED
    BY <2>1, <2>2, MovedTyped DEF Pages
<1>7. TabCoherent(m)
  BY <1>4, <1>5, <1>6, NoneAssumption DEF TabCoherent
<1>8. tab' = [tab EXCEPT ![t] = m]
  BY <1>2, <1>4, <1>5, <1>6 DEF ReceiveWelcome
<1> QED
  BY <1>4, <1>6, <1>7, <1>8, FinishStep DEF ReceiveWelcome

LEMMA ReceiveLogoutStep ==
    ASSUME IInv, NEW r \in Requests, ReceiveLogout(r)
    PROVE  IInv'
<1>1. request[r] \in RequestRecords /\ RequestCoherent(request[r])
  BY DEF IInv, TypeOK
<1>2. PICK t \in Tabs : t = request[r].tab
  BY <1>1 DEF ReceiveLogout, Answered, RequestCoherent, RequestRecords
<1>3. tab[t] \in TabRecords /\ TabCoherent(tab[t])
  BY DEF IInv, TypeOK
<1>4. PICK m \in TabRecords :
        /\ m = Moved(LoggedOut(tab[t]), LoggedOut(tab[t]).page)
        /\ m.cached = tab[t].cached /\ m.user = None /\ ~m.loggedIn
  <2>1. PICK s : s = LoggedOut(tab[t])
    OBVIOUS
  <2>2. /\ s \in TabRecords /\ s.page \in Pages
        /\ s.cached = tab[t].cached /\ s.user = None /\ ~s.loggedIn
    BY <1>3, <2>1, LogoutTyped DEF TabRecords
  <2> QED
    BY <2>1, <2>2, MovedTyped
<1>5. TabCoherent(m)
  BY <1>3, <1>4 DEF TabCoherent
<1>6. CASE request[r].code = "ok"
  BY <1>2, <1>4, <1>5, <1>6, FinishStep DEF ReceiveLogout
<1>7. CASE request[r].code # "ok"
  <2>1. tab' = [tab EXCEPT ![t] = tab[t]]
    BY <1>7 DEF ReceiveLogout, IInv, TypeOK
  <2>2. PICK s \in TabRecords : s = tab[t]
    BY <1>3
  <2> QED
    BY <1>3, <1>7, <2>1, <2>2, FinishStep DEF ReceiveLogout
<1> QED
  BY <1>6, <1>7

LEMMA FailStep ==
    ASSUME IInv, NEW r \in Requests, Fail(r)
    PROVE  IInv'
<1>1. PICK t \in Tabs : t = request[r].tab
  BY DEF Fail, IInv, TypeOK, RequestRecords
<1>2. tab[t] \in TabRecords /\ TabCoherent(tab[t])
  BY DEF IInv, TypeOK
<1>3. PICK s \in TabRecords : s = Released(tab[t], r)
  BY <1>2, ReleasedTyped
<1>4. s.cached = tab[t].cached /\ TabCoherent(s)
  BY <1>2, <1>3, ReleasedTyped DEF TabCoherent
<1> QED
  BY <1>1, <1>3, <1>4, FinishStep DEF Fail

LEMMA ReceiveTokenStep ==
    ASSUME IInv, NEW r \in Requests, ReceiveToken(r)
    PROVE  IInv'
<1>1. request[r] \in RequestRecords /\ RequestCoherent(request[r])
  BY DEF IInv, TypeOK
<1>2. PICK t \in Tabs : t = request[r].tab
  BY <1>1 DEF ReceiveToken, Answered, RequestCoherent, RequestRecords
<1>3. tab[t] \in TabRecords /\ TabCoherent(tab[t])
  BY DEF IInv, TypeOK
<1>4. CASE request[r].code = "ok"
  <2>1. PICK new \in Tokens : new = request[r].token /\ Issued(new)
    BY <1>1, <1>4 DEF ReceiveToken, Answered, RequestCoherent, RequestRecords
  <2>2. PICK k \in Tokens :
          /\ k = LoginToken(tab[t].cached, new)
          /\ Issued(k)
          /\ tab[t].cached # None => k = tab[t].cached
    BY <1>3, <2>1 DEF LoginToken, TabCoherent, TabRecords
  <2>3. PICK s : s = Remembering(tab[t], k)
    OBVIOUS
  <2>4. /\ s \in TabRecords
        /\ s.cached = k /\ s.loggedIn = tab[t].loggedIn /\ s.user = tab[t].user
    BY <1>3, <2>2, <2>3 DEF Remembering, TabRecords
  <2>5. TabCoherent(s)
    BY <1>3, <2>2, <2>4, NoneAssumption DEF TabCoherent
  <2>6. PICK q : q = [request[r] EXCEPT !.step = "welcome", !.code = "none", !.token = k]
    OBVIOUS
  <2>7. /\ q \in RequestRecords
        /\ q.step = "welcome" /\ q.code = "none" /\ q.token = k /\ q.tab = t
    BY <1>1, <1>2, <2>2, <2>6 DEF RequestRecords, Steps, Codes
  <2>8. /\ tab' = [tab EXCEPT ![t] = s]
        /\ request' = [request EXCEPT ![r] = q]
        /\ storage' = new /\ UNCHANGED server
    BY <1>2, <1>4, <2>1, <2>2, <2>3, <2>6 DEF ReceiveToken
  <2>9. tab'[t] = s
    BY <2>8 DEF IInv, TypeOK
  <2>10. RequestCoherent(q)'
    BY <2>2, <2>4, <2>7, <2>8, <2>9, NoneAssumption DEF RequestCoherent, server, Issued
  <2>11. storage' \in Tokens \union {None} /\ StorageIssued'
    BY <2>1, <2>8 DEF StorageIssued, server, Issued
  <2> QED
    BY <2>2, <2>4, <2>5, <2>7, <2>8, <2>10, <2>11, LocalStep
<1>5. CASE request[r].code # "ok"
  <2>1. PICK s \in TabRecords : s = Released(tab[t], r)
    BY <1>3, ReleasedTyped
  <2>2. s.cached = tab[t].cached /\ TabCoherent(s)
    BY <1>3, <2>1, ReleasedTyped DEF TabCoherent
  <2> QED
    BY <1>2, <1>5, <2>1, <2>2, FinishStep DEF ReceiveToken
<1> QED
  BY <1>4, <1>5

LEMMA NextStep == IInv /\ [Next]_vars => IInv'
<1> SUFFICES ASSUME IInv, [Next]_vars PROVE IInv'
  OBVIOUS
<1>1. ASSUME NEW t \in Tabs, Browse(t)
      PROVE  IInv'
  BY <1>1, FollowStep, LoadStep, SignOutStep, SubmitStep DEF Browse
<1>2. ASSUME NEW r \in Requests, Receive(r)
      PROVE  IInv'
  BY <1>2, ReceiveUserStep, ReceiveTokenStep, ReceiveWelcomeStep, ReceiveLogoutStep, FailStep
     DEF Receive
<1>3. CASE UNCHANGED vars
  <2>1. TypeOK' /\ OwnersKnown'
    BY <1>3 DEF vars, server, IInv, TypeOK, OwnersKnown, Issued
  <2> QED
    BY <1>3, <2>1, ServerStep DEF vars, server
<1> QED
  BY <1>1, <1>2, <1>3, ServeStep, ExpireStep, DeleteAccountStep DEF Next

LEMMA Invariance == Spec => []IInv
<1> QED
  BY InitStep, NextStep, PTL DEF Spec

\* Every variable keeps its type (Client).
THEOREM ClientTypeCorrect == Spec => []TypeOK
<1>1. IInv => TypeOK
  BY DEF IInv
<1> QED
  BY <1>1, Invariance, PTL

\* What a tab sends is sent as the user it greets, whatever other tabs do to the
\* storage they share.
THEOREM RequestsAreTheShownUsers == Spec => []ShownUserIsTokens
<1>1. IInv => ShownUserIsTokens
  BY DEF IInv, TabCoherent, ShownUserIsTokens
<1> QED
  BY <1>1, Invariance, PTL

\* A tab that counts as logged in and greets nobody holds a spent token.
THEOREM StuckTabsHoldSpentTokens == Spec => []StuckOnlyWhenSpent
<1>1. IInv => StuckOnlyWhenSpent
  BY DEF IInv, TabCoherent, StuckOnlyWhenSpent
<1> QED
  BY <1>1, Invariance, PTL

\* A tab that is not loaded again greets its user until the server would refuse it.
THEOREM GreetedUntilSpent == Spec => SessionEnds
<1>1. ASSUME IInv, [Next]_vars, NEW t \in Tabs, tab[t].loggedIn, ~tab'[t].loggedIn,
             ~\E page \in Pages, r \in Requests : Load(t, page, r)
      PROVE  Spent(tab[t].cached)
  <2>1. tab[t] \in TabRecords /\ TabCoherent(tab[t]) /\ tab'[t] # tab[t]
    BY <1>1 DEF IInv, TypeOK
  <2>2. ASSUME NEW u \in Tabs, NEW s, tab' = [tab EXCEPT ![u] = s]
        PROVE  u = t /\ ~s.loggedIn
    BY <1>1, <2>1, <2>2 DEF IInv, TypeOK
  <2>3. ASSUME NEW u \in Tabs, Browse(u)
        PROVE  FALSE
    <3>1. CASE \E page \in Pages, r \in Requests : Load(u, page, r)
      BY <1>1, <2>2, <3>1 DEF Load
    <3>2. ASSUME NEW page \in Pages, tab' = [tab EXCEPT ![u] = Moved(tab[t], page)]
          PROVE  FALSE
      BY <1>1, <2>1, <2>2, <3>2, MovedTyped
    <3>3. ASSUME NEW page \in Pages, Follow(u, page)
          PROVE  FALSE
      BY <2>2, <3>2, <3>3 DEF Follow
    <3>4. ASSUME NEW r \in Requests, SignOut(u, r)
          PROVE  FALSE
      <4>1. u = t
        BY <2>2, <3>4 DEF SignOut
      <4>2. PICK k : k = LoginToken(tab[t].cached, storage)
        OBVIOUS
      <4>3. PICK s : s = Remembering(tab[t], k)
        OBVIOUS
      <4>4. k \in Tokens \union {None}
        BY <1>1, <2>1, <4>2 DEF LoginToken, TabRecords, IInv, TypeOK
      <4>5. s \in TabRecords /\ s.loggedIn = tab[t].loggedIn
        BY <2>1, <4>3, <4>4 DEF Remembering, TabRecords
      <4> QED
        BY <1>1, <2>2, <3>4, <4>1, <4>2, <4>3, <4>5, MovedTyped DEF SignOut, Pages
    <3>5. ASSUME NEW form \in {"login", "register"}, NEW user \in Users, NEW r \in Requests,
                 Submit(u, form, user, r)
          PROVE  FALSE
      <4>1. u = t
        BY <2>2, <3>5 DEF Submit
      <4>2. PICK s : s = [tab[t] EXCEPT !.waiting = r]
        OBVIOUS
      <4>3. s.loggedIn = tab[t].loggedIn
        BY <2>1, <4>2 DEF TabRecords
      <4>4. tab' = [tab EXCEPT ![t] = s]
        BY <3>5, <4>1, <4>2 DEF Submit
      <4> QED
        BY <1>1, <2>2, <4>3, <4>4
    <3> QED
      BY <2>3, <3>1, <3>3, <3>4, <3>5 DEF Browse
  <2>4. ASSUME NEW r \in Requests, Serve(r) PROVE FALSE
    BY <2>1, <2>4 DEF Serve
  <2>5. ASSUME NEW r \in Requests, Receive(r) PROVE Spent(tab[t].cached)
    <3>1. request[r] \in RequestRecords /\ RequestCoherent(request[r])
      BY <1>1 DEF IInv, TypeOK
    <3>2. CASE ReceiveUser(r)
      <4>1. PICK u \in Tabs : u = request[r].tab
        BY <3>1, <3>2 DEF ReceiveUser, Answered, RequestCoherent, RequestRecords
      <4>2. u = t
        BY <2>2, <3>2, <4>1 DEF ReceiveUser
      <4>3. request[r].code # "ok"
        <5> SUFFICES ASSUME request[r].code = "ok" PROVE FALSE
          OBVIOUS
        <5>1. PICK user : user = owner[request[r].token]
          OBVIOUS
        <5>2. user \in Users \union {None}
          BY <1>1, <3>1, <3>2, <5>1 DEF ReceiveUser, Answered, RequestCoherent, RequestRecords, IInv, TypeOK
        <5>3. PICK s : s = LoggedIn(tab[t], user)
          OBVIOUS
        <5>4. s \in TabRecords /\ s.loggedIn /\ s.page \in Pages
          BY <2>1, <5>2, <5>3, LoginTyped DEF TabRecords
        <5>5. tab' = [tab EXCEPT ![t] = Moved(s, s.page)]
          BY <3>2, <4>1, <4>2, <5>1, <5>3 DEF ReceiveUser
        <5> QED
          BY <2>2, <5>4, <5>5, MovedTyped
      <4> QED
        BY <3>1, <3>2, <4>1, <4>2, <4>3, NoneAssumption
           DEF ReceiveUser, Answered, RequestCoherent, RequestRecords, Codes
    <3>3. CASE ReceiveLogout(r)
      <4>1. PICK u \in Tabs : u = request[r].tab
        BY <3>1, <3>3 DEF ReceiveLogout, Answered, RequestCoherent, RequestRecords
      <4>2. request[r].code = "ok" /\ u = t
        BY <2>1, <2>2, <3>3, <4>1 DEF ReceiveLogout
      <4> QED
        BY <3>1, <3>3, <4>1, <4>2, NoneAssumption
           DEF ReceiveLogout, Answered, RequestCoherent, RequestRecords
    <3>4. ASSUME NEW u \in Tabs, tab' = [tab EXCEPT ![u] = Released(tab[u], r)]
          PROVE  FALSE
      BY <1>1, <2>1, <2>2, <3>4, ReleasedTyped
    <3>5. CASE Fail(r)
      BY <1>1, <3>1, <3>4, <3>5 DEF Fail, RequestRecords
    <3>6. CASE ReceiveToken(r)
      <4>1. PICK u \in Tabs : u = request[r].tab
        BY <3>1, <3>6 DEF ReceiveToken, Answered, RequestCoherent, RequestRecords
      <4>2. CASE request[r].code = "ok"
        <5>1. PICK s : s = Remembering(tab[u], LoginToken(tab[u].cached, request[r].token))
          OBVIOUS
        <5>2. tab' = [tab EXCEPT ![u] = s]
          BY <3>6, <4>1, <4>2, <5>1 DEF ReceiveToken
        <5>3. s.loggedIn = tab[u].loggedIn
          BY <1>1, <5>1 DEF Remembering, TabRecords, IInv, TypeOK
        <5> QED
          BY <1>1, <2>2, <5>2, <5>3
      <4> QED
        BY <3>4, <3>6, <4>1, <4>2 DEF ReceiveToken
    <3>7. CASE ReceiveWelcome(r)
      <4>1. PICK u \in Tabs : u = request[r].tab
        BY <3>1, <3>7 DEF ReceiveWelcome, Answered, RequestCoherent, RequestRecords
      <4>2. u = t
        BY <2>2, <3>7, <4>1 DEF ReceiveWelcome
      <4>3. PICK user : user = IF request[r].code = "ok" THEN owner[request[r].token] ELSE None
        OBVIOUS
      <4>4. user \in Users \union {None}
        BY <1>1, <3>1, <3>7, <4>3
           DEF ReceiveWelcome, Answered, RequestCoherent, RequestRecords, IInv, TypeOK
      <4>5. PICK s : s = LoggedIn(tab[t], user)
        OBVIOUS
      <4>6. s \in TabRecords /\ s.loggedIn
        BY <2>1, <4>4, <4>5, LoginTyped
      <4>7. tab' = [tab EXCEPT ![t] = Moved(s, "home")]
        BY <3>7, <4>1, <4>2, <4>3, <4>5 DEF ReceiveWelcome
      <4> QED
        BY <2>2, <4>6, <4>7, MovedTyped DEF Pages
    <3> QED
      BY <2>5, <3>2, <3>3, <3>5, <3>6, <3>7 DEF Receive
  <2> QED
    BY <1>1, <2>1, <2>3, <2>4, <2>5 DEF Next, Expire, DeleteAccount, vars
<1>2. IInv /\ [Next]_vars => [\A t \in Tabs : KeepsSession(t)]_vars
  BY <1>1 DEF KeepsSession
<1> QED
  BY <1>2, Invariance, PTL DEF Spec, SessionEnds

-----------------------------------------------------------------------------
(* Forms and what they wait for.                                           *)

FormSteps == {"login", "register", "welcome"}

\* A form that waits is still mounted.
WaitersMounted ==
    \A t \in Tabs : tab[t].waiting # None => tab[t].page \in {"login", "register"}

FormsInv == FormsWaitForSomething /\ WaitersMounted

\* A step of one tab changes no request another tab's form waits for.
LEMMA TabForms ==
    ASSUME IInv, FormsInv, NEW t \in Tabs, NEW s \in TabRecords, tab' = [tab EXCEPT ![t] = s],
           s.waiting # None => s.page \in {"login", "register"},
           \A r \in Requests : s.waiting = r => request'[r].tab = t /\ request'[r].step \in FormSteps,
           \A r \in Requests : \/ request'[r] = request[r]
                               \/ request[r].tab = t
                               \/ request[r].step \notin FormSteps
    PROVE  FormsInv'
<1>1. \A u \in Tabs : tab'[u] = IF u = t THEN s ELSE tab[u]
  BY DEF IInv, TypeOK
<1>2. WaitersMounted'
  BY <1>1 DEF FormsInv, WaitersMounted
<1>3. ASSUME NEW u \in Tabs, NEW r \in Requests, tab'[u].waiting = r
      PROVE  request'[r].tab = u /\ request'[r].step \in FormSteps
  <2>1. CASE u = t
    BY <1>1, <1>3, <2>1
  <2>2. CASE u # t
    <3>1. request[r].tab = u /\ request[r].step \in FormSteps
      BY <1>1, <1>3, <2>2 DEF FormsInv, FormsWaitForSomething, FormSteps
    <3> QED
      BY <2>2, <3>1
  <2> QED
    BY <2>1, <2>2
<1> QED
  BY <1>2, <1>3 DEF FormsInv, FormsWaitForSomething, FormSteps

\* To another page no request is taken along.
LEMMA MovedWaiting ==
    ASSUME NEW s \in TabRecords, NEW page \in Pages
    PROVE  /\ Moved(s, page).waiting \in {s.waiting, None}
           /\ Moved(s, page).waiting # None => Moved(s, page).page = s.page
           /\ s.loggedIn /\ page = "home" /\ s.page # "home" => Moved(s, page).waiting = None
BY DEF Moved, Settled, TabRecords, Pages

\* A tab that moves, and what it waited for goes on.
LEMMA MovedForms ==
    ASSUME IInv, FormsInv, NEW t \in Tabs, NEW s \in TabRecords, NEW page \in Pages,
           tab' = [tab EXCEPT ![t] = Moved(s, page)],
           s.waiting = tab[t].waiting, s.page = tab[t].page,
           \A r \in Requests : \/ request'[r] = request[r]
                               \/ request[r].step \notin FormSteps
                               \/ request[r].tab = t /\ Moved(s, page).waiting # r
    PROVE  FormsInv'
<1>1. PICK m \in TabRecords : m = Moved(s, page)
  BY MovedTyped
<1>2. m.waiting # None => m.waiting = tab[t].waiting /\ m.page = tab[t].page
  BY <1>1, MovedWaiting
<1>3. m.waiting # None => m.page \in {"login", "register"}
  BY <1>2 DEF FormsInv, WaitersMounted
<1>4. ASSUME NEW r \in Requests, m.waiting = r
      PROVE  request'[r].tab = t /\ request'[r].step \in FormSteps
  <2>1. r # None
    BY NoneAssumption
  <2>2. request[r].tab = t /\ request[r].step \in FormSteps
    BY <1>2, <1>4, <2>1 DEF FormsInv, FormsWaitForSomething, FormSteps
  <2> QED
    BY <1>1, <1>4, <2>2
<1> QED
  BY <1>1, <1>3, <1>4, TabForms

LEMMA ReleasedForms ==
    ASSUME IInv, FormsInv, NEW r \in Requests, NEW t \in Tabs, t = request[r].tab,
           tab' = [tab EXCEPT ![t] = Released(tab[t], r)], Finish(r)
    PROVE  FormsInv'
<1>1. PICK s \in TabRecords : s = Released(tab[t], r)
  BY ReleasedTyped DEF IInv, TypeOK
<1>2. tab[t] \in TabRecords
  BY DEF IInv, TypeOK
<1>3. s.waiting \in {tab[t].waiting, None} /\ s.waiting # r /\ s.page = tab[t].page
  BY <1>1, <1>2, NoneAssumption DEF Released, TabRecords
<1>4. \A p \in Requests : p # r => request'[p] = request[p]
  BY DEF Finish, IInv, TypeOK
<1>5. s.waiting # None => s.page \in {"login", "register"}
  BY <1>3 DEF FormsInv, WaitersMounted
<1>6. ASSUME NEW p \in Requests, s.waiting = p
      PROVE  request'[p].tab = t /\ request'[p].step \in FormSteps
  BY <1>3, <1>4, <1>6, NoneAssumption DEF FormsInv, FormsWaitForSomething, FormSteps
<1> QED
  BY <1>1, <1>4, <1>5, <1>6, TabForms

LEMMA BrowseForms ==
    ASSUME IInv, FormsInv, NEW t \in Tabs, Browse(t)
    PROVE  FormsInv'
<1>0. tab[t] \in TabRecords
  BY DEF IInv, TypeOK
<1>1. ASSUME NEW page \in Pages, Follow(t, page)
      PROVE  FormsInv'
  BY <1>0, <1>1, MovedForms DEF Follow
<1>2. ASSUME NEW page \in Pages, NEW r \in Requests, Load(t, page, r)
      PROVE  FormsInv'
  <2>1. PICK k : k = LoginToken(None, storage)
    OBVIOUS
  <2>2. k \in Tokens \union {None}
    BY <2>1 DEF LoginToken, IInv, TypeOK
  <2>3. PICK s \in TabRecords : s = Fresh(page, k)
    BY <2>2, FreshTyped
  <2>4. tab' = [tab EXCEPT ![t] = s] /\ s.waiting = None
    BY <1>2, <2>1, <2>3 DEF Load, Fresh
  <2>5. ASSUME NEW p \in Requests
        PROVE  \/ request'[p] = request[p]
               \/ request[p].tab = t
               \/ request[p].step \notin FormSteps
    BY <1>2 DEF Load, Abandoned, Idle, FormSteps
  <2> QED
    BY <2>3, <2>4, <2>5, NoneAssumption, TabForms
<1>3. ASSUME NEW r \in Requests, SignOut(t, r)
      PROVE  FormsInv'
  <2>1. PICK k : k = LoginToken(tab[t].cached, storage)
    OBVIOUS
  <2>2. k \in Tokens \union {None}
    BY <1>0, <2>1 DEF LoginToken, TabRecords, IInv, TypeOK
  <2>3. PICK s \in TabRecords : s = Remembering(tab[t], k)
    BY <1>0, <2>2 DEF Remembering, TabRecords
  <2>4. s.waiting = tab[t].waiting /\ s.page = tab[t].page
    BY <1>0, <2>3 DEF Remembering, TabRecords
  <2>5. tab' = [tab EXCEPT ![t] = Moved(s, "home")]
    BY <1>3, <2>1, <2>3 DEF SignOut
  <2>6. ASSUME NEW p \in Requests
        PROVE  request'[p] = request[p] \/ request[p].step \notin FormSteps
    BY <1>3 DEF SignOut, Idle, FormSteps, IInv, TypeOK
  <2> QED
    BY <2>4, <2>5, <2>6, MovedForms DEF Pages
<1>4. ASSUME NEW form \in {"login", "register"}, NEW user \in Users, NEW r \in Requests,
             Submit(t, form, user, r)
      PROVE  FormsInv'
  <2>1. PICK s \in TabRecords : s = [tab[t] EXCEPT !.waiting = r]
    BY <1>0 DEF TabRecords
  <2>2. s.waiting = r /\ s.page = form
    BY <1>0, <1>4, <2>1 DEF TabRecords, Submit
  <2>3. tab' = [tab EXCEPT ![t] = s]
    BY <1>4, <2>1 DEF Submit
  <2>4. request'[r].tab = t /\ request'[r].step = form
    BY <1>4 DEF Submit, Idle, IInv, TypeOK
  <2>5. ASSUME NEW p \in Requests
        PROVE  request'[p] = request[p] \/ request[p].step \notin FormSteps
    BY <1>4 DEF Submit, Idle, FormSteps, IInv, TypeOK
  <2> QED
    BY <2>2, <2>3, <2>4, <2>5, TabForms DEF FormSteps
<1> QED
  BY <1>1, <1>2, <1>3, <1>4 DEF Browse

LEMMA ReceiveForms ==
    ASSUME IInv, FormsInv, NEW r \in Requests, Receive(r)
    PROVE  FormsInv'
<1>0. /\ request[r] \in RequestRecords
      /\ RequestCoherent(request[r])
      /\ \A t \in Tabs : tab[t] \in TabRecords
  BY DEF IInv, TypeOK
<1>1. CASE Fail(r)
  BY <1>0, <1>1, ReleasedForms DEF Fail, RequestRecords
<1> SUFFICES ASSUME ~Fail(r) PROVE FormsInv'
  BY <1>1
<1>2. PICK t \in Tabs : t = request[r].tab
  BY <1>0 DEF Receive, ReceiveUser, ReceiveToken, ReceiveWelcome, ReceiveLogout, Answered,
              RequestCoherent, RequestRecords
<1>3. ASSUME Finish(r)
      PROVE  \A p \in Requests : p # r => request'[p] = request[p]
  BY <1>3 DEF Finish, IInv, TypeOK
<1>4. PICK user : user = IF request[r].code = "ok" THEN owner[request[r].token] ELSE None
  OBVIOUS
<1>5. CASE ReceiveUser(r)
  <2>1. user \in Users \union {None}
    BY <1>0, <1>4, <1>5 DEF ReceiveUser, Answered, RequestCoherent, RequestRecords, IInv, TypeOK
  <2>2. PICK s \in TabRecords : s = IF request[r].code = "ok" THEN LoggedIn(tab[t], user)
                                   ELSE LoggedOut(tab[t])
    BY <1>0, <2>1, LoginTyped, LogoutTyped
  <2>3. s.waiting = tab[t].waiting /\ s.page = tab[t].page /\ s.page \in Pages
    BY <1>0, <2>2 DEF LoggedIn, LoggedOut, TabRecords
  <2>4. tab' = [tab EXCEPT ![t] = Moved(s, s.page)]
    BY <1>2, <1>4, <1>5, <2>2 DEF ReceiveUser
  <2>5. \A p \in Requests : request'[p] = request[p] \/ request[p].step \notin FormSteps
    BY <1>3, <1>5 DEF ReceiveUser, Answered, FormSteps
  <2> QED
    BY <2>3, <2>4, <2>5, MovedForms
<1>6. CASE ReceiveLogout(r)
  <2>1. \A p \in Requests : request'[p] = request[p] \/ request[p].step \notin FormSteps
    BY <1>3, <1>6 DEF ReceiveLogout, Answered, FormSteps
  <2>2. CASE request[r].code = "ok"
    <3>1. PICK s \in TabRecords : s = LoggedOut(tab[t])
      BY <1>0, LogoutTyped
    <3>2. s.waiting = tab[t].waiting /\ s.page = tab[t].page /\ s.page \in Pages
      BY <1>0, <3>1 DEF LoggedOut, TabRecords
    <3>3. tab' = [tab EXCEPT ![t] = Moved(s, s.page)]
      BY <1>2, <1>6, <2>2, <3>1 DEF ReceiveLogout
    <3> QED
      BY <2>1, <3>2, <3>3, MovedForms
  <2>3. CASE request[r].code # "ok"
    <3>1. tab' = tab /\ tab' = [tab EXCEPT ![t] = tab[t]]
      BY <1>6, <2>3 DEF ReceiveLogout, IInv, TypeOK
    <3>2. tab[t].waiting # None => tab[t].page \in {"login", "register"}
      BY DEF FormsInv, WaitersMounted
    <3>3. \A p \in Requests : tab[t].waiting = p => request'[p].tab = t /\ request'[p].step \in FormSteps
      BY <2>1 DEF FormsInv, FormsWaitForSomething, FormSteps
    <3> QED
      BY <1>0, <2>1, <3>1, <3>2, <3>3, TabForms
  <2> QED
    BY <2>2, <2>3
<1>7. CASE ReceiveWelcome(r)
  <2>1. user \in Users \union {None}
    BY <1>0, <1>4, <1>7 DEF ReceiveWelcome, Answered, RequestCoherent, RequestRecords, IInv, TypeOK
  <2>2. PICK s \in TabRecords : s = LoggedIn(tab[t], user) /\ s.loggedIn
    BY <1>0, <2>1, LoginTyped
  <2>3. s.waiting = tab[t].waiting /\ s.page = tab[t].page
    BY <1>0, <2>2 DEF LoggedIn, TabRecords
  <2>4. tab' = [tab EXCEPT ![t] = Moved(s, "home")]
    BY <1>2, <1>4, <1>7, <2>2 DEF ReceiveWelcome
  <2>5. Moved(s, "home").waiting = None
    <3>1. CASE s.page = "home"
      BY <2>3, <3>1, MovedWaiting DEF FormsInv, WaitersMounted, Pages
    <3> QED
      BY <2>2, <3>1, MovedWaiting DEF Pages
  <2>6. \A p \in Requests : request'[p] = request[p] \/ (request[p].tab = t /\ Moved(s, "home").waiting # p)
    BY <1>2, <1>3, <1>7, <2>5, NoneAssumption DEF ReceiveWelcome
  <2> QED
    BY <2>3, <2>4, <2>6, MovedForms DEF Pages
<1>8. CASE ReceiveToken(r)
  <2>1. CASE request[r].code = "ok"
    <3>1. PICK k : k = LoginToken(tab[t].cached, request[r].token)
      OBVIOUS
    <3>2. k \in Tokens \union {None}
      BY <1>0, <3>1 DEF LoginToken, TabRecords, RequestRecords
    <3>3. PICK s \in TabRecords : s = Remembering(tab[t], k)
      BY <1>0, <3>2 DEF Remembering, TabRecords
    <3>4. s.waiting = tab[t].waiting /\ s.page = tab[t].page
      BY <1>0, <3>3 DEF Remembering, TabRecords
    <3>5. tab' = [tab EXCEPT ![t] = s]
      BY <1>2, <1>8, <2>1, <3>1, <3>3 DEF ReceiveToken
    <3>6. \A p \in Requests : /\ p # r => request'[p] = request[p]
                              /\ request'[r].tab = t /\ request'[r].step = "welcome"
      BY <1>0, <1>2, <1>8, <2>1 DEF ReceiveToken, IInv, TypeOK, RequestRecords
    <3>7. s.waiting # None => s.page \in {"login", "register"}
      BY <3>4 DEF FormsInv, WaitersMounted
    <3>8. \A p \in Requests : s.waiting = p => request'[p].tab = t /\ request'[p].step \in FormSteps
      BY <3>4, <3>6 DEF FormsInv, FormsWaitForSomething, FormSteps
    <3> QED
      BY <1>2, <3>5, <3>6, <3>7, <3>8, TabForms
  <2>2. CASE request[r].code # "ok"
    BY <1>2, <1>8, <2>2, ReleasedForms DEF ReceiveToken
  <2> QED
    BY <2>1, <2>2
<1> QED
  BY <1>5, <1>6, <1>7, <1>8 DEF Receive

\* The server's answer to a page that is there changes neither its step nor its tab.
LEMMA ServeForms ==
    ASSUME IInv, FormsInv, NEW r \in Requests, Serve(r)
    PROVE  FormsInv'
<1>1. request[r] \in RequestRecords
  BY DEF IInv, TypeOK
<1>2. ASSUME NEW code, Answer(r, code)
      PROVE  request[r].tab # None => /\ request'[r].tab = request[r].tab
                                      /\ request'[r].step = request[r].step
  BY <1>1, <1>2 DEF Answer, RequestRecords, IInv, TypeOK
<1>3. ASSUME AnswerToken(r)
      PROVE  request[r].tab # None => /\ request'[r].tab = request[r].tab
                                      /\ request'[r].step = request[r].step
  BY <1>1, <1>3 DEF AnswerToken, RequestRecords, IInv, TypeOK
<1>4. request[r].tab # None => /\ request'[r].tab = request[r].tab
                               /\ request'[r].step = request[r].step
  BY <1>2, <1>3 DEF Serve, ServeUserInfo, ServeLogin, ServeRegister, ServeLogout
<1>5. \A p \in Requests : p # r => request'[p] = request[p]
  BY DEF Serve, ServeUserInfo, ServeLogin, ServeRegister, ServeLogout, Answer, AnswerToken,
         IInv, TypeOK
<1>6. tab' = tab
  BY DEF Serve
<1> QED
  BY <1>4, <1>5, <1>6, NoneAssumption DEF FormsInv, FormsWaitForSomething, WaitersMounted

\* A form is blocked only by a request of its own that is still to be answered or
\* handled, whatever is lost, refused or left behind.
THEOREM FormsAreNeverStuck == Spec => []FormsWaitForSomething
<1>1. Init => FormsInv
  BY NoneAssumption DEF Init, FormsInv, FormsWaitForSomething, WaitersMounted, Fresh
<1>2. IInv /\ FormsInv /\ [Next]_vars => FormsInv'
  <2> SUFFICES ASSUME IInv, FormsInv, [Next]_vars PROVE FormsInv'
    OBVIOUS
  <2>1. CASE UNCHANGED <<tab, request>>
    BY <2>1 DEF FormsInv, FormsWaitForSomething, WaitersMounted
  <2> QED
    BY <2>1, BrowseForms, ReceiveForms, ServeForms DEF Next, Expire, DeleteAccount, vars
<1>3. FormsInv => FormsWaitForSomething
  BY DEF FormsInv
<1> QED
  BY <1>1, <1>2, <1>3, Invariance, PTL DEF Spec
=============================================================================
