------------------------------ MODULE Sessions ------------------------------
(***************************************************************************)
(* Login sessions of the Puggies server.  A login answers with a signed    *)
(* token that names the user and the second it expires, and the server     *)
(* keeps nothing about it.  A logout puts the token in table               *)
(* invalid_tokens, an hourly job empties that table of tokens whose time   *)
(* is up, and the middleware of every authenticated route looks a token up *)
(* there, after it has checked the token's own expiry: two readings of the *)
(* clock and of the table with a database round trip between them.         *)
(*                                                                         *)
(* Time is counted in seconds, the unit of the claims and of the table.    *)
(***************************************************************************)
EXTENDS Naturals, FiniteSets

CONSTANTS
    Users,
    Requests,       \* requests that may be under way at once
    SessionLength,  \* lifetime of a token
    Grace,          \* seconds a token stays listed after its expiry (5)
    MaxLatency,     \* assumption: the lookup of the token comes at most this late
    MaxTime,        \* bound: last second of the clock
    MaxTokens       \* bound: tokens issued

ASSUME LengthAssumption == SessionLength \in Nat /\ MaxTime \in Nat /\ MaxTokens \in Nat
ASSUME LatencyAssumption == Grace \in Nat /\ MaxLatency \in Nat /\ MaxLatency < Grace

Tokens == [user: Users, exp: Nat]

VARIABLES
    now,        \* the server's clock
    accounts,   \* users in table users
    issued,     \* tokens some client holds
    invalid,    \* table invalid_tokens: token -> expiry
    request,    \* what each request is doing
    loggedOut   \* history: tokens a logout was carried out for

vars == <<now, accounts, issued, invalid, request, loggedOut>>

NoRequest == [pc |-> "idle"]

\* verified: signature and expiry are good; cleared: and it is not listed;
\* admitted: and its user exists.  late is history: whether the token had been
\* logged out before the request came in.
RequestRecords ==
    {NoRequest} \union
    [pc: {"verified", "cleared", "admitted"}, token: Tokens, at: Nat, late: BOOLEAN]

TypeOK ==
    /\ now \in 0..MaxTime
    /\ accounts \subseteq Users
    /\ issued \subseteq Tokens
    /\ DOMAIN invalid \subseteq Tokens
    /\ invalid \in [DOMAIN invalid -> Nat]
    /\ request \in [Requests -> RequestRecords]
    /\ loggedOut \subseteq Tokens

-----------------------------------------------------------------------------

Is(r, pc) == request[r].pc = pc

\* Deviation: the answered request is not forgotten.
RejectKeepsToken(r) == request' = [request EXCEPT ![r].pc = "idle"]

Reject(r) == request' = [request EXCEPT ![r] = NoRequest]

\* The last second of a token still counts.
ValidJwt(token) == now <= token.exp

\* Deviation: a token is listed no longer than it is valid.
LogoutExpiryAtOnce(token) == token.exp

LogoutExpiry(token) == token.exp + Grace

\* Deviation: CleanInvalidTokens drops the wrong half.
KeptTokensFlipped == {token \in DOMAIN invalid : invalid[token] <= now}

\* Deviation: the time to compare with is never set.
KeptTokensForEver == {token \in DOMAIN invalid : invalid[token] > 0}

\* The rows CleanInvalidTokens leaves.
KeptTokens == {token \in DOMAIN invalid : invalid[token] >= now}

\* IsTokenValid: a row whose time is up does not count.  It compares with a finer
\* clock than the second of the row, so in that second both answers are possible.
Listed(token) == token \in DOMAIN invalid /\ invalid[token] >= now
Unlisted(token) == token \in DOMAIN invalid => invalid[token] <= now

-----------------------------------------------------------------------------

\* route_login and route_register: two logins of a user in the same second get
\* the same token.
Login(user) ==
    LET token == [user |-> user, exp |-> now + SessionLength]
    IN  /\ user \in accounts
        /\ Cardinality(issued \union {token}) <= MaxTokens
        /\ issued' = issued \union {token}
        /\ UNCHANGED <<now, accounts, invalid, request, loggedOut>>

Verify(r, token) ==
    /\ Is(r, "idle")
    /\ ValidJwt(token)
    /\ request' = [request EXCEPT ![r] = [pc |-> "verified", token |-> token, at |-> now,
                                          late |-> token \in loggedOut]]
    /\ UNCHANGED <<now, accounts, issued, invalid, loggedOut>>

Clear(r) ==
    /\ Is(r, "verified")
    /\ Unlisted(request[r].token)
    /\ request' = [request EXCEPT ![r].pc = "cleared"]
    /\ UNCHANGED <<now, accounts, issued, invalid, loggedOut>>

Refuse(r) ==
    /\ Is(r, "verified")
    /\ Listed(request[r].token)
    /\ Reject(r)
    /\ UNCHANGED <<now, accounts, issued, invalid, loggedOut>>

Admit(r) ==
    /\ Is(r, "cleared")
    /\ IF request[r].token.user \in accounts
         THEN request' = [request EXCEPT ![r].pc = "admitted"]
         ELSE Reject(r)
    /\ UNCHANGED <<now, accounts, issued, invalid, loggedOut>>

\* The handler of any other route.
Handle(r) ==
    /\ Is(r, "admitted")
    /\ Reject(r)
    /\ UNCHANGED <<now, accounts, issued, invalid, loggedOut>>

\* route_logout: an expired token needs no row; a second row for a token breaks
\* the primary key, and the handler answers with an error.
Logout(r) ==
    LET token == request[r].token
    IN  /\ Is(r, "admitted")
        /\ IF ValidJwt(token) /\ token \notin DOMAIN invalid
             THEN /\ invalid' = [t \in DOMAIN invalid \union {token} |->
                                    IF t = token THEN LogoutExpiry(token) ELSE invalid[t]]
                  /\ loggedOut' = loggedOut \union {token}
             ELSE UNCHANGED <<invalid, loggedOut>>
        /\ Reject(r)
        /\ UNCHANGED <<now, accounts, issued>>

\* The hourly job.
CleanInvalidTokens ==
    /\ KeptTokens # DOMAIN invalid
    /\ invalid' = [t \in KeptTokens |-> invalid[t]]
    /\ UNCHANGED <<now, accounts, issued, request, loggedOut>>

AddAccount(user) ==
    /\ user \notin accounts
    /\ accounts' = accounts \union {user}
    /\ UNCHANGED <<now, issued, invalid, request, loggedOut>>

RemoveAccount(user) ==
    /\ user \in accounts
    /\ accounts' = accounts \ {user}
    /\ UNCHANGED <<now, issued, invalid, request, loggedOut>>

\* A second passes.
Tick ==
    /\ now < MaxTime
    /\ \A r \in Requests : Is(r, "verified") => now < request[r].at + MaxLatency
    /\ now' = now + 1
    /\ UNCHANGED <<accounts, issued, invalid, request, loggedOut>>

\* The process dies and is started again: the tables and the clients' tokens stay.
Restart ==
    /\ request' = [r \in Requests |-> NoRequest]
    /\ UNCHANGED <<now, accounts, issued, invalid, loggedOut>>

-----------------------------------------------------------------------------

Init ==
    /\ now = 0
    /\ accounts \in SUBSET Users
    /\ issued = {}
    /\ invalid = [t \in {} |-> 0]
    /\ request = [r \in Requests |-> NoRequest]
    /\ loggedOut = {}

Serve(r) ==
    \/ \E token \in issued : Verify(r, token)
    \/ Clear(r)
    \/ Refuse(r)
    \/ Admit(r)
    \/ Handle(r)
    \/ Logout(r)

Next ==
    \/ \E r \in Requests : Serve(r)
    \/ \E user \in Users : Login(user) \/ AddAccount(user) \/ RemoveAccount(user)
    \/ CleanInvalidTokens
    \/ Tick
    \/ Restart

Spec == Init /\ [][Next]_vars

FairSpec == Spec /\ WF_vars(CleanInvalidTokens)

-----------------------------------------------------------------------------
(* Properties.                                                             *)

\* No request that comes in after its token was logged out is ever admitted,
\* however the job, the clock and restarts fall between its two checks
\* (middleware.go:47, :58; storage_pg.go:788, :815).
NoAccessAfterLogout ==
    \A r \in Requests : Is(r, "cleared") \/ Is(r, "admitted") => ~request[r].late

\* A logged-out token is listed for as long as it could pass its own check, and for
\* MaxLatency longer, when a request that passed it in its last second may still be
\* about to look it up: no row is removed before (routes_auth.go:320, storage_pg.go:815).
ListCoversLoggedOut ==
    \A token \in loggedOut :
        now <= token.exp + MaxLatency => token \in DOMAIN invalid /\ invalid[token] > now

\* The table does not grow for ever: a row whose time is up is removed in the end.  That
\* none is removed too early is ListCoversLoggedOut (storage_pg.go:815).
RowsAreRemoved ==
    \A user \in Users, exp \in 0..(MaxTime + SessionLength) :
        LET token == [user |-> user, exp |-> exp]
        IN  (token \in DOMAIN invalid /\ invalid[token] < now) ~> token \notin DOMAIN invalid

=============================================================================
