--------------------------- MODULE SessionsProofs ---------------------------
(* Theorems about Sessions, for every session length, grace and latency.   *)
EXTENDS Sessions, TLAPS

\* Every row of the table lists its token until Grace after the token's expiry.
RowsDated == \A token \in DOMAIN invalid : invalid[token] = token.exp + Grace

\* A logged-out token is missing from the table only when it is long expired.
LoggedOutListed ==
    \A token \in loggedOut : token \in DOMAIN invalid \/ now > token.exp + Grace

\* What a request that has passed the token's own check may rely on.
VerifiedRecently ==
    \A r \in Requests :
        Is(r, "verified") =>
            /\ request[r].at <= request[r].token.exp
            /\ now <= request[r].at + MaxLatency
            /\ request[r].late => request[r].token \in loggedOut

IInv == TypeOK /\ RowsDated /\ LoggedOutListed /\ VerifiedRecently /\ NoAccessAfterLogout

\* The heart of the matter: a late request finds its token in the table, with an
\* expiry that is still to come.
LEMMA LateIsListed ==
    ASSUME IInv, NEW r \in Requests, Is(r, "verified"), request[r].late
    PROVE  ~Unlisted(request[r].token)
<1> DEFINE token == request[r].token
<1>1. token \in Tokens /\ token \in loggedOut /\ request[r].at \in Nat
  BY DEF IInv, TypeOK, RequestRecords, NoRequest, VerifiedRecently, Is
<1>2. now <= token.exp + MaxLatency
  BY <1>1, LatencyAssumption DEF IInv, TypeOK, VerifiedRecently, Tokens
<1>3. token \in DOMAIN invalid /\ invalid[token] = token.exp + Grace
  BY <1>1, <1>2, LatencyAssumption DEF IInv, TypeOK, LoggedOutListed, RowsDated, Tokens
<1> QED
  BY <1>1, <1>2, <1>3, LatencyAssumption DEF Unlisted, IInv, TypeOK, Tokens

LEMMA IInvInit == Init => IInv
BY LengthAssumption DEF Init, IInv, TypeOK, RequestRecords, NoRequest, RowsDated,
       LoggedOutListed, VerifiedRecently, NoAccessAfterLogout, Is

LEMMA RejectTyped ==
    ASSUME IInv, NEW r \in Requests, Reject(r)
    PROVE  /\ request' \in [Requests -> RequestRecords]
           /\ \A q \in Requests : request'[q] = IF q = r THEN NoRequest ELSE request[q]
BY DEF Reject, IInv, TypeOK, RequestRecords

\* Dropping a request disturbs nothing when nothing else changes.
LEMMA RejectStep ==
    ASSUME IInv, NEW r \in Requests, Reject(r),
           UNCHANGED <<now, accounts, issued, invalid, loggedOut>>
    PROVE  IInv'
BY RejectTyped DEF IInv, TypeOK, NoRequest, RowsDated, LoggedOutListed,
       VerifiedRecently, NoAccessAfterLogout, Is

LEMMA VerifyStep ==
    ASSUME IInv, NEW r \in Requests, NEW token \in issued, Verify(r, token)
    PROVE  IInv'
<1> DEFINE new == [pc |-> "verified", token |-> token, at |-> now, late |-> token \in loggedOut]
<1>1. new \in RequestRecords
  BY DEF IInv, TypeOK, RequestRecords
<1>2. /\ request' \in [Requests -> RequestRecords]
      /\ \A q \in Requests : request'[q] = IF q = r THEN new ELSE request[q]
  BY <1>1 DEF Verify, IInv, TypeOK
<1>3. now <= now + MaxLatency
  BY LatencyAssumption DEF IInv, TypeOK
<1> QED
  BY <1>2, <1>3 DEF Verify, ValidJwt, IInv, TypeOK, RowsDated, LoggedOutListed,
                    VerifiedRecently, NoAccessAfterLogout, Is

LEMMA ClearStep ==
    ASSUME IInv, NEW r \in Requests, Clear(r)
    PROVE  IInv'
<1>1. ~request[r].late
  BY LateIsListed DEF Clear
<1>2. request[r] \in RequestRecords \ {NoRequest}
  BY DEF Clear, Is, IInv, TypeOK, NoRequest
<1> DEFINE new == [request[r] EXCEPT !.pc = "cleared"]
<1>3. new \in RequestRecords /\ new.pc = "cleared" /\ new.late = request[r].late
  BY <1>2 DEF RequestRecords
<1>4. /\ request' \in [Requests -> RequestRecords]
      /\ \A q \in Requests : request'[q] = IF q = r THEN new ELSE request[q]
  BY <1>3 DEF Clear, IInv, TypeOK
<1> QED
  BY <1>1, <1>3, <1>4 DEF Clear, IInv, TypeOK, RowsDated, LoggedOutListed,
                          VerifiedRecently, NoAccessAfterLogout, Is

LEMMA AdmitStep ==
    ASSUME IInv, NEW r \in Requests, Admit(r)
    PROVE  IInv'
<1>1. CASE request[r].token.user \in accounts
  <2>1. request[r] \in RequestRecords \ {NoRequest}
    BY DEF Admit, Is, IInv, TypeOK, NoRequest
  <2> DEFINE new == [request[r] EXCEPT !.pc = "admitted"]
  <2>2. new \in RequestRecords /\ new.pc = "admitted" /\ new.late = request[r].late
    BY <2>1 DEF RequestRecords
  <2>3. /\ request' \in [Requests -> RequestRecords]
        /\ \A q \in Requests : request'[q] = IF q = r THEN new ELSE request[q]
    BY <1>1, <2>2 DEF Admit, IInv, TypeOK
  <2> QED
    BY <2>2, <2>3 DEF Admit, IInv, TypeOK, RowsDated, LoggedOutListed,
                      VerifiedRecently, NoAccessAfterLogout, Is
<1>2. CASE request[r].token.user \notin accounts
  BY <1>2, RejectStep DEF Admit
<1> QED
  BY <1>1, <1>2

LEMMA LogoutStep ==
    ASSUME IInv, NEW r \in Requests, Logout(r)
    PROVE  IInv'
<1> DEFINE token == request[r].token
<1>1. Reject(r) /\ UNCHANGED <<now, accounts, issued>>
  BY DEF Logout
<1>2. CASE ValidJwt(token) /\ token \notin DOMAIN invalid
  <2>1. token \in Tokens
    BY DEF Logout, Is, IInv, TypeOK, RequestRecords, NoRequest
  <2>2. /\ DOMAIN invalid' = DOMAIN invalid \union {token}
        /\ invalid'[token] = token.exp + Grace
        /\ \A t \in DOMAIN invalid : invalid'[t] = invalid[t]
        /\ invalid' \in [DOMAIN invalid \union {token} -> Nat]
        /\ loggedOut' = loggedOut \union {token}
    BY <1>2, <2>1, LatencyAssumption DEF Logout, LogoutExpiry, IInv, TypeOK, Tokens
  <2>3. TypeOK'
    BY <1>1, <2>1, <2>2, RejectTyped DEF IInv, TypeOK
  <2>4. RowsDated' /\ LoggedOutListed'
    BY <1>1, <2>2 DEF IInv, RowsDated, LoggedOutListed
  <2>5. VerifiedRecently' /\ NoAccessAfterLogout'
    BY <1>1, <2>2, RejectTyped DEF IInv, VerifiedRecently, NoAccessAfterLogout, Is, NoRequest
  <2> QED
    BY <2>3, <2>4, <2>5 DEF IInv
<1>3. CASE ~(ValidJwt(token) /\ token \notin DOMAIN invalid)
  <2>1. UNCHANGED <<now, accounts, issued, invalid, loggedOut>>
    BY <1>3 DEF Logout
  <2> QED
    BY <1>1, <2>1, RejectStep
<1> QED
  BY <1>2, <1>3

\* The job drops only rows of tokens that are long expired.
LEMMA CleanStep ==
    ASSUME IInv, CleanInvalidTokens
    PROVE  IInv'
<1>1. /\ DOMAIN invalid' = KeptTokens
      /\ \A t \in KeptTokens : invalid'[t] = invalid[t]
      /\ UNCHANGED <<now, accounts, issued, request, loggedOut>>
  BY DEF CleanInvalidTokens
<1>2. TypeOK'
  BY <1>1 DEF CleanInvalidTokens, KeptTokens, IInv, TypeOK
<1>3. LoggedOutListed'
  <2> SUFFICES ASSUME NEW token \in loggedOut, token \notin KeptTokens
               PROVE  now > token.exp + Grace
    BY <1>1 DEF LoggedOutListed
  <2>1. CASE token \in DOMAIN invalid
    BY <2>1, LatencyAssumption DEF KeptTokens, IInv, TypeOK, RowsDated, Tokens
  <2>2. CASE token \notin DOMAIN invalid
    BY <2>2 DEF IInv, LoggedOutListed
  <2> QED
    BY <2>1, <2>2
<1>4. RowsDated'
  BY <1>1 DEF KeptTokens, IInv, RowsDated
<1>5. VerifiedRecently' /\ NoAccessAfterLogout'
  BY <1>1 DEF IInv, VerifiedRecently, NoAccessAfterLogout, Is
<1> QED
  BY <1>2, <1>3, <1>4, <1>5 DEF IInv

LEMMA TickStep ==
    ASSUME IInv, Tick
    PROVE  IInv'
<1>1. TypeOK'
  BY LengthAssumption DEF Tick, IInv, TypeOK
<1>2. RowsDated' /\ NoAccessAfterLogout'
  BY DEF Tick, IInv, RowsDated, NoAccessAfterLogout, Is
<1>3. LoggedOutListed'
  BY LatencyAssumption DEF Tick, IInv, TypeOK, LoggedOutListed, Tokens
<1>4. VerifiedRecently'
  <2> SUFFICES ASSUME NEW r \in Requests, Is(r, "verified")
               PROVE  now + 1 <= request[r].at + MaxLatency
    BY DEF Tick, IInv, VerifiedRecently, Is
  <2>1. request[r].at \in Nat
    BY DEF IInv, TypeOK, RequestRecords, NoRequest, Is
  <2> QED
    BY <2>1, LatencyAssumption DEF Tick, IInv, TypeOK
<1> QED
  BY <1>1, <1>2, <1>3, <1>4 DEF IInv

LEMMA IInvStep == IInv /\ [Next]_vars => IInv'
<1> SUFFICES ASSUME IInv, [Next]_vars PROVE IInv'
  OBVIOUS
<1>1. ASSUME NEW r \in Requests, Serve(r) PROVE IInv'
  <2>1. ASSUME Refuse(r) \/ Handle(r) PROVE IInv'
    BY <2>1, RejectStep DEF Refuse, Handle
  <2> QED
    BY <1>1, <2>1, VerifyStep, ClearStep, AdmitStep, LogoutStep DEF Serve
<1>2. ASSUME NEW user \in Users, Login(user) PROVE IInv'
  <2>1. [user |-> user, exp |-> now + SessionLength] \in Tokens
    BY LengthAssumption DEF IInv, TypeOK, Tokens
  <2> QED
    BY <1>2, <2>1 DEF Login, IInv, TypeOK, RowsDated, LoggedOutListed, VerifiedRecently,
                      NoAccessAfterLogout, Is
<1>3. ASSUME NEW user \in Users, AddAccount(user) \/ RemoveAccount(user) PROVE IInv'
  BY <1>3 DEF AddAccount, RemoveAccount, IInv, TypeOK, RowsDated, LoggedOutListed,
              VerifiedRecently, NoAccessAfterLogout, Is
<1>4. CASE Restart
  BY <1>4 DEF Restart, IInv, TypeOK, RequestRecords, NoRequest, RowsDated, LoggedOutListed,
              VerifiedRecently, NoAccessAfterLogout, Is
<1>5. CASE UNCHANGED vars
  BY <1>5 DEF vars, IInv, TypeOK, RowsDated, LoggedOutListed, VerifiedRecently,
              NoAccessAfterLogout, Is
<1> QED
  BY <1>1, <1>2, <1>3, <1>4, <1>5, CleanStep, TickStep DEF Next

LEMMA Invariance == Spec => []IInv
BY IInvInit, IInvStep, PTL DEF Spec

-----------------------------------------------------------------------------
(* The theorems.                                                           *)

\* Every variable keeps its type.
THEOREM TypeCorrect == Spec => []TypeOK
<1>1. IInv => TypeOK
  BY DEF IInv
<1> QED
  BY <1>1, Invariance, PTL

\* A logout is final: whatever the length of a session, the hourly job, restarts and
\* the gap between the middleware's two checks, provided that the gap is shorter than
\* the grace of the table's rows.
THEOREM LogoutIsFinal == Spec => []NoAccessAfterLogout
<1>1. IInv => NoAccessAfterLogout
  BY DEF IInv
<1> QED
  BY <1>1, Invariance, PTL

\* No row is cleaned away while its token could still pass its own check.
THEOREM ListIsComplete == Spec => []ListCoversLoggedOut
<1>1. IInv => ListCoversLoggedOut
  <2> SUFFICES ASSUME IInv, NEW token \in loggedOut, now <= token.exp + MaxLatency
               PROVE  token \in DOMAIN invalid /\ invalid[token] > now
    BY DEF ListCoversLoggedOut
  <2>1. token \in DOMAIN invalid /\ invalid[token] = token.exp + Grace
    BY LatencyAssumption DEF IInv, TypeOK, LoggedOutListed, RowsDated, Tokens
  <2> QED
    BY <2>1, LatencyAssumption DEF IInv, TypeOK, Tokens
<1> QED
  BY <1>1, Invariance, PTL
=============================================================================
