--------------------------- MODULE AccountsProofs ---------------------------
(* Theorems about Accounts, for any number of names, accounts and requests. *)
EXTENDS Accounts, TLAPS

\* The numbers of accounts have been given out, and an administrator's modal names
\* the user it is open for.
Numbered ==
    /\ \A name \in Registered : users[name].id \in 1..made
    /\ page.modal # "none" => page.user \in Names

\* What a request under way has been told: whom it is about and who asks.
RequestFormed(q) ==
    /\ q.pc = "ready" => q.target \in Names
    /\ q.pc = "ready" /\ q.kind = "edit" => q.to \in Names
    /\ q.pc \in {"ready", "changed"} =>
         IF q.kind = "register" THEN q.actor = 0 /\ q.as = None
         ELSE q.actor \in 1..made /\ q.as \in Names
    /\ q.pc \in {"done", "failed"} => q.mine
    /\ q.pc = "idle" => ~q.mine

\* An entry that was not stale when it was written has the present name of the account
\* that acted, or none once that account is gone.
EntryRight(e) ==
    ~e.stale =>
        IF e.system THEN e.name = None
        ELSE /\ e.actor \in 1..made
             /\ IF e.name = None THEN Gone(e.actor)
                ELSE Exists(e.name) /\ users[e.name].id = e.actor

\* Before anything is edited or deleted: no account is left when none was made, and who
\* counted none is to be an administrator.
Early ==
    ~touched =>
        /\ Registered = {} <=> made = 0
        /\ \A name \in Registered :
              /\ users[name].admin <=> users[name].early
              /\ users[name].id = 1 => users[name].early
        /\ \A r \in Requests :
              Is(r, "ready", "register") =>
                  /\ request[r].admin <=> request[r].early
                  /\ made = 0 => request[r].early

IInv ==
    /\ TypeOK
    /\ Numbered
    /\ \A r \in Requests : RequestFormed(request[r])
    /\ \A e \in log : EntryRight(e)
    /\ Early
    /\ LoadingHasCause

RequestsFormed ==
    /\ request \in [Requests -> RequestRecords]
    /\ \A r \in Requests : RequestFormed(request[r])

Typed == TypeOK /\ Numbered /\ RequestsFormed

LEMMA IdleTyped == Idle \in RequestRecords
BY NamesAssumption DEF Idle, RequestRecords, Kinds

LEMMA NoUserUntaken == NoUser.id = 0
BY DEF NoUser

LEMMA UsersTyped ==
    ASSUME Typed
    PROVE  /\ \A name \in Registered :
                users[name] \in [id: Ids, admin: BOOLEAN, early: BOOLEAN]
           /\ \A name \in Names : ~Exists(name) => users[name].id = 0
           /\ made \in 0..MaxIds
BY NoUserUntaken DEF Typed, TypeOK, Registered, Exists, Rows

LEMMA InitStep == Init => IInv
<1> SUFFICES ASSUME Init PROVE IInv
  OBVIOUS
<1>1. Registered = {}
  BY DEF Init, Registered, Exists
<1>2. TypeOK
  <2>1. page \in Pages
    BY DEF Init, Closed, Pages
  <2>2. users \in [Names -> Rows]
    BY DEF Init, Rows
  <2>3. request \in [Requests -> RequestRecords]
    BY IdleTyped DEF Init
  <2>4. made \in 0..MaxIds
    BY NamesAssumption DEF Init
  <2>5. \A a, b \in Registered : users[a].id = users[b].id => a = b
    BY <1>1
  <2> QED
    BY <2>1, <2>2, <2>3, <2>4, <2>5 DEF Init, TypeOK
<1>3. Numbered /\ Early
  BY <1>1 DEF Init, Numbered, Early, Is, Idle, Closed
<1>4. \A r \in Requests : RequestFormed(request[r])
  BY DEF Init, RequestFormed, Idle
<1> QED
  BY <1>2, <1>3, <1>4 DEF Init, IInv, LoadingHasCause, Closed

-----------------------------------------------------------------------------
(* Types, numbers and the shape of requests.                               *)

\* A request becomes another of good shape, and no account goes.
LEMMA RequestStep ==
    ASSUME RequestsFormed, NEW r \in Requests, NEW q \in RequestRecords,
           made \in Nat, made' \in Nat, made <= made',
           RequestFormed(q)', request' = [request EXCEPT ![r] = q]
    PROVE  RequestsFormed'
<1>1. \A p \in Requests : request'[p] = IF p = r THEN q ELSE request[p]
  BY DEF RequestsFormed
<1>2. \A p \in Requests : RequestFormed(request[p]) => RequestFormed(request[p])'
                            \/ p = r
  BY <1>1 DEF RequestFormed
<1> QED
  BY <1>1, <1>2 DEF RequestsFormed

LEMMA ChangedStep ==
    ASSUME RequestsFormed, NEW r \in Requests, request[r].pc = "ready", Changed(r),
           made \in Nat, made' \in Nat, made <= made'
    PROVE  RequestsFormed'
<1>1. PICK q : q = [request[r] EXCEPT !.pc = "changed", !.target = None, !.to = None,
                                      !.admin = FALSE, !.early = FALSE]
  OBVIOUS
<1>2. q \in RequestRecords /\ RequestFormed(request[r]) /\ request[r] \in RequestRecords
  BY <1>1 DEF RequestsFormed, RequestRecords
<1>3. RequestFormed(q)'
  BY <1>1, <1>2 DEF RequestFormed, RequestRecords
<1> QED
  BY <1>1, <1>2, <1>3, RequestStep DEF Changed

LEMMA AnswerStep ==
    ASSUME RequestsFormed, NEW r \in Requests, NEW pc \in {"done", "failed"}, Answer(r, pc),
           made \in Nat, made' = made
    PROVE  RequestsFormed'
<1>1. PICK q : q = IF request[r].mine
                   THEN [Idle EXCEPT !.pc = pc, !.kind = request[r].kind, !.mine = TRUE]
                   ELSE Idle
  OBVIOUS
<1>2. q \in RequestRecords /\ RequestFormed(q)'
  BY <1>1, IdleTyped, NamesAssumption DEF RequestsFormed, RequestRecords, RequestFormed, Idle, Kinds
<1>3. request' = [request EXCEPT ![r] = q]
  BY <1>1 DEF Answer
<1>4. made <= made' /\ made' \in Nat
  OBVIOUS
<1> QED
  BY <1>2, <1>3, <1>4, RequestStep

LEMMA AskStep ==
    ASSUME Typed, NEW kind \in {"edit", "delete"}, NEW to \in Names, NEW admin \in BOOLEAN,
           page.modal # "none", Ask(kind, to, admin), made' = made
    PROVE  RequestsFormed'
<1>a. PICK r \in Requests :
        request' = [request EXCEPT ![r] =
                      IF users[Me].admin THEN Asked(kind, Me, page.user, to, admin, TRUE)
                      ELSE [Idle EXCEPT !.pc = "failed", !.kind = kind, !.mine = TRUE]]
  BY DEF Ask
<1>b. PICK q : q = IF users[Me].admin THEN Asked(kind, Me, page.user, to, admin, TRUE)
                   ELSE [Idle EXCEPT !.pc = "failed", !.kind = kind, !.mine = TRUE]
  OBVIOUS
<1>1. request' = [request EXCEPT ![r] = q]
  BY <1>a, <1>b
<1>0. made \in Nat /\ made' \in Nat /\ made <= made'
  BY NamesAssumption DEF Typed, TypeOK
<1>2. CASE users[Me].admin
  <2>1. Exists(Me)
    BY <1>2 DEF Exists, NoUser
  <2>2. users[Me].id \in 1..made /\ made \in 0..MaxIds
    BY <2>1, NamesAssumption DEF Typed, TypeOK, Numbered, Registered
  <2>3. page.user \in Names
    BY DEF Typed, Numbered
  <2>4. q = Asked(kind, Me, page.user, to, admin, TRUE)
    BY <1>b, <1>2
  <2>5. q = [pc |-> "ready", kind |-> kind, actor |-> users[Me].id, as |-> Me, target |-> page.user,
             to |-> to, admin |-> admin, early |-> FALSE, mine |-> TRUE]
    BY <2>4 DEF Asked, Idle
  <2>6. q \in RequestRecords
    BY <2>2, <2>3, <2>5, NamesAssumption DEF RequestRecords, Kinds
  <2>7. RequestFormed(q)'
    BY <2>2, <2>3, <2>5, NamesAssumption DEF RequestFormed
  <2> QED
    BY <1>1, <1>0, <2>6, <2>7, RequestStep DEF Typed
<1>3. CASE ~users[Me].admin
  <2>1. q = [pc |-> "failed", kind |-> kind, actor |-> 0, as |-> None, target |-> None,
             to |-> None, admin |-> FALSE, early |-> FALSE, mine |-> TRUE]
    BY <1>b, <1>3 DEF Idle
  <2>2. q \in RequestRecords /\ RequestFormed(q)'
    BY <2>1, NamesAssumption DEF RequestRecords, RequestFormed, Kinds
  <2> QED
    BY <1>1, <1>0, <2>2, RequestStep DEF Typed
<1> QED
  BY <1>2, <1>3

-----------------------------------------------------------------------------
(* Every action keeps the types.                                           *)

\* What Typed says of the tables: an action that leaves them alone keeps it.
Tables ==
    /\ users \in [Names -> Rows]
    /\ \A a, b \in Registered : users[a].id = users[b].id => a = b
    /\ log \subseteq Entries
    /\ made \in 0..MaxIds
    /\ touched \in BOOLEAN
    /\ \A name \in Registered : users[name].id \in 1..made

PageFormed == page \in Pages /\ (page.modal # "none" => page.user \in Names)

LEMMA TypedParts ==
    /\ Typed <=> Tables /\ PageFormed /\ RequestsFormed
    /\ Typed' <=> Tables' /\ PageFormed' /\ RequestsFormed'
BY DEF Typed, Tables, PageFormed, RequestsFormed, TypeOK, Numbered

LEMMA TablesKept ==
    ASSUME Tables, UNCHANGED <<users, made, touched>>, log' \subseteq Entries
    PROVE  Tables' /\ made \in Nat /\ made' \in Nat /\ made <= made'
<1>1. made \in Nat /\ made' \in Nat /\ made <= made'
  BY NamesAssumption DEF Tables
<1>2. Registered' = Registered
  BY DEF Registered, Exists
<1> QED
  BY <1>1, <1>2 DEF Tables

LEMMA CountStep ==
    ASSUME Typed, NEW r \in Requests, NEW name \in Names, Count(r, name)
    PROVE  Typed'
<1>1. Tables' /\ PageFormed' /\ made \in Nat /\ made' \in Nat /\ made <= made'
  BY TypedParts, TablesKept DEF Count, Tables, PageFormed
<1>2. PICK q : q = [Idle EXCEPT !.pc = "ready", !.kind = "register", !.target = name,
                                !.admin = FirstRoles(r), !.early = (made = 0)]
  OBVIOUS
<1>3. q = [pc |-> "ready", kind |-> "register", actor |-> 0, as |-> None, target |-> name,
           to |-> None, admin |-> FirstRoles(r), early |-> (made = 0), mine |-> FALSE]
  BY <1>2 DEF Idle
<1>4. FirstRoles(r) \in BOOLEAN /\ (made = 0) \in BOOLEAN
  BY DEF FirstRoles
<1>5. q \in RequestRecords
  BY <1>3, <1>4, NamesAssumption DEF RequestRecords, Kinds
<1>6. RequestFormed(q)'
  BY <1>3 DEF RequestFormed
<1> QED
  BY <1>1, <1>2, <1>5, <1>6, RequestStep, TypedParts DEF Count

LEMMA AdmitStep ==
    ASSUME Typed, NEW r \in Requests, NEW name \in Names, NEW target \in Names, NEW to \in Names,
           NEW kind \in {"edit", "delete"}, NEW admin \in BOOLEAN,
           Admit(r, name, kind, target, to, admin)
    PROVE  Typed'
<1>1. Tables' /\ PageFormed' /\ made \in Nat /\ made' \in Nat /\ made <= made' /\ made' = made
  BY TypedParts, TablesKept DEF Admit, Tables, PageFormed
<1>2. PICK q : q = Asked(kind, name, target, to, admin, FALSE)
  OBVIOUS
<1>3. q = [pc |-> "ready", kind |-> kind, actor |-> users[name].id, as |-> name, target |-> target,
           to |-> to, admin |-> admin, early |-> FALSE, mine |-> FALSE]
  BY <1>2 DEF Asked, Idle
<1>4. Exists(name)
  BY DEF Admit, Exists, NoUser
<1>5. users[name].id \in 1..made /\ made \in 0..MaxIds
  BY <1>4, TypedParts DEF Tables, Registered
<1>6. q \in RequestRecords
  BY <1>3, <1>5, NamesAssumption DEF RequestRecords, Kinds
<1>7. RequestFormed(q)'
  BY <1>1, <1>3, <1>5 DEF RequestFormed
<1> QED
  BY <1>1, <1>2, <1>6, <1>7, RequestStep, TypedParts DEF Admit

LEMMA InsertStep ==
    ASSUME Typed, NEW r \in Requests, Insert(r)
    PROVE  Typed'
<1> DEFINE q == request[r]
<1>1. q \in RequestRecords /\ RequestFormed(q) /\ q.pc = "ready" /\ q.target \in Names
  BY TypedParts DEF RequestsFormed, RequestFormed, Insert, Is
<1>2. Tables /\ PageFormed /\ RequestsFormed
  BY TypedParts
<1>3. made \in Nat
  BY <1>2, NamesAssumption DEF Tables
<1>4. PageFormed'
  BY <1>2 DEF Insert, PageFormed
<1>5. CASE Exists(q.target)
  <2>1. Answer(r, "failed") /\ UNCHANGED <<users, made, log, touched>>
    BY <1>5 DEF Insert
  <2>2. Tables' /\ RequestsFormed'
    BY <1>2, <1>3, <2>1, TablesKept, AnswerStep DEF Tables
  <2> QED
    BY <2>2, <1>4, TypedParts
<1>6. CASE ~Exists(q.target)
  <2>1. /\ made < MaxIds
        /\ made' = made + 1
        /\ users' = [users EXCEPT ![q.target] = [id |-> made', admin |-> q.admin, early |-> q.early]]
        /\ Changed(r)
        /\ UNCHANGED <<log, touched>>
    BY <1>6 DEF Insert
  <2>2. made' \in 1..MaxIds /\ made' \in Nat /\ made <= made'
    BY <1>3, <2>1, NamesAssumption
  <2>3. RequestsFormed'
    BY <1>1, <1>2, <1>3, <2>1, <2>2, ChangedStep
  <2>4. [id |-> made', admin |-> q.admin, early |-> q.early]
          \in [id: Ids, admin: BOOLEAN, early: BOOLEAN]
    BY <1>1, <2>2 DEF Ids, RequestRecords
  <2>5. users' \in [Names -> Rows]
    BY <1>1, <1>2, <2>1, <2>4 DEF Tables, Rows
  <2>6. \A name \in Names : users'[name] = IF name = q.target
            THEN [id |-> made', admin |-> q.admin, early |-> q.early] ELSE users[name]
    BY <1>1, <1>2, <2>1 DEF Tables
  <2>7. users'[q.target].id = made'
    BY <1>1, <2>6
  <2>8. \A name \in Registered' : name # q.target => name \in Registered /\ users'[name] = users[name]
    BY <2>6 DEF Registered, Exists
  <2>9. \A name \in Registered' : name # q.target => users'[name].id \in 1..made
    BY <1>2, <2>8 DEF Tables
  <2>10. \A name \in Registered' : users'[name].id \in 1..made'
    BY <1>3, <2>1, <2>2, <2>7, <2>9
  <2>11. ASSUME NEW a \in Registered', NEW b \in Registered', users'[a].id = users'[b].id
         PROVE a = b
    <3>1. CASE a # q.target /\ b # q.target
      BY <3>1, <1>2, <2>8, <2>11 DEF Tables
    <3>2. CASE a = q.target \/ b = q.target
      BY <3>2, <1>3, <2>1, <2>7, <2>9, <2>11
    <3> QED
      BY <3>1, <3>2
  <2>12. Tables'
    BY <1>2, <2>1, <2>2, <2>5, <2>10, <2>11 DEF Tables
  <2> QED
    BY <2>3, <2>12, <1>4, TypedParts
<1> QED
  BY <1>5, <1>6

LEMMA RenamedTyped ==
    ASSUME Tables, NEW from \in Names, NEW to \in Names \union {None}
    PROVE  Renamed(from, to) \subseteq Entries
BY DEF Tables, Renamed, Entries

LEMMA UpdateStep ==
    ASSUME Typed, NEW r \in Requests, Update(r)
    PROVE  Typed'
<1> DEFINE q == request[r]
           row == users[q.target]
<1>1. q \in RequestRecords /\ RequestFormed(q) /\ q.pc = "ready" /\ q.kind = "edit"
      /\ q.target \in Names /\ q.to \in Names
  BY TypedParts DEF RequestsFormed, RequestFormed, Update, Is
<1>2. Tables /\ PageFormed /\ RequestsFormed
  BY TypedParts
<1>3. made \in Nat /\ made' = made
  BY <1>2, NamesAssumption DEF Tables, Update
<1>4. PageFormed'
  BY <1>2 DEF Update, PageFormed
<1>5. CASE Exists(q.target) /\ q.to # q.target /\ Exists(q.to)
  <2>1. Answer(r, "failed") /\ UNCHANGED <<users, made, log, touched>>
    BY <1>5 DEF Update
  <2>2. Tables' /\ RequestsFormed'
    BY <1>2, <1>3, <2>1, TablesKept, AnswerStep DEF Tables
  <2> QED
    BY <2>2, <1>4, TypedParts
<1>6. CASE ~(Exists(q.target) /\ q.to # q.target /\ Exists(q.to))
  <2>1. /\ users' = IF Exists(q.target)
                    THEN [users EXCEPT ![q.target] = NoUser, ![q.to] = [row EXCEPT !.admin = q.admin]]
                    ELSE users
        /\ log' = IF Exists(q.target) THEN Renamed(q.target, q.to) ELSE log
        /\ touched' = TRUE
        /\ Changed(r)
    BY <1>6 DEF Update
  <2>2. RequestsFormed'
    BY <1>1, <1>2, <1>3, <2>1, ChangedStep
  <2>3. log' \subseteq Entries
    BY <1>1, <1>2, <2>1, RenamedTyped DEF Tables
  <2>4. CASE ~Exists(q.target)
    <3>1. users' = users /\ Registered' = Registered
      BY <2>1, <2>4 DEF Registered, Exists
    <3>2. touched' \in BOOLEAN
      BY <2>1
    <3>3. \A a, b \in Registered' : users'[a].id = users'[b].id => a = b
      BY <1>2, <3>1 DEF Tables
    <3>4. \A name \in Registered' : users'[name].id \in 1..made'
      BY <1>2, <1>3, <3>1 DEF Tables
    <3>5. users' \in [Names -> Rows] /\ made' \in 0..MaxIds
      BY <1>2, <1>3, <3>1 DEF Tables
    <3>6. Tables'
      BY <2>3, <3>2, <3>3, <3>4, <3>5 DEF Tables
    <3> QED
      BY <3>6, <2>2, <1>4, TypedParts
  <2>5. CASE Exists(q.target)
    <3>1. row \in [id: Ids, admin: BOOLEAN, early: BOOLEAN] /\ q.target \in Registered
      BY <1>1, <2>5, UsersTyped DEF Registered
    <3>2. PICK new : new = [row EXCEPT !.admin = q.admin]
      OBVIOUS
    <3>3a. q.admin \in BOOLEAN
      BY <1>1 DEF RequestRecords
    <3>3b. new = [id |-> row.id, admin |-> q.admin, early |-> row.early]
      BY <3>1, <3>2
    <3>3. new \in [id: Ids, admin: BOOLEAN, early: BOOLEAN] /\ new.id = row.id
      BY <3>1, <3>3a, <3>3b
    <3>4. \A name \in Names : users'[name] = IF name = q.to THEN new
                                 ELSE IF name = q.target THEN NoUser ELSE users[name]
      BY <1>1, <1>2, <2>1, <2>5, <3>2 DEF Tables
    <3>5. users' \in [Names -> Rows]
      BY <1>1, <1>2, <2>1, <2>5, <3>2, <3>3 DEF Tables, Rows
    <3>6. \A name \in Registered' : name # q.to => name # q.target /\ name \in Registered
                                                     /\ users'[name].id = users[name].id
      BY <3>4 DEF Registered, Exists
    <3>7. users'[q.to].id = row.id
      BY <1>1, <3>3, <3>4
    <3>8. row.id \in 1..made
      BY <1>2, <3>1 DEF Tables
    <3>9. \A name \in Registered' : users'[name].id \in 1..made'
      BY <1>2, <1>3, <3>6, <3>7, <3>8 DEF Tables
    <3>10. \A name \in Registered' : name # q.to => users'[name].id # row.id
      BY <1>2, <3>1, <3>6 DEF Tables
    <3>11. ASSUME NEW a \in Registered', NEW b \in Registered', users'[a].id = users'[b].id
           PROVE a = b
      <4>1. CASE a # q.to /\ b # q.to
        BY <4>1, <1>2, <3>6, <3>11 DEF Tables
      <4>2. CASE a = q.to \/ b = q.to
        BY <4>2, <3>7, <3>10, <3>11
      <4> QED
        BY <4>1, <4>2
    <3>12. Tables'
      BY <1>2, <1>3, <2>1, <2>3, <3>5, <3>9, <3>11 DEF Tables
    <3> QED
      BY <3>12, <2>2, <1>4, TypedParts
  <2> QED
    BY <2>4, <2>5
<1> QED
  BY <1>5, <1>6

LEMMA DeleteStep ==
    ASSUME Typed, NEW r \in Requests, Delete(r)
    PROVE  Typed'
<1> DEFINE q == request[r]
<1>1. q \in RequestRecords /\ RequestFormed(q) /\ q.pc = "ready" /\ q.target \in Names
  BY TypedParts DEF RequestsFormed, RequestFormed, Delete, Is
<1>2. Tables /\ PageFormed /\ RequestsFormed
  BY TypedParts
<1>3. made \in Nat /\ made' = made
  BY <1>2, NamesAssumption DEF Tables, Delete
<1>4. PageFormed'
  BY <1>2 DEF Delete, PageFormed
<1>5. RequestsFormed'
  BY <1>1, <1>2, <1>3, ChangedStep DEF Delete
<1>6. users' \in [Names -> Rows]
  BY <1>1, <1>2 DEF Delete, Tables, Rows
<1>7. \A name \in Registered' : name \in Registered /\ users'[name] = users[name]
  BY <1>1, <1>2 DEF Delete, Tables, Registered, Exists
<1>8. log' \subseteq Entries
  BY <1>1, <1>2, RenamedTyped DEF Delete
<1>9. touched' \in BOOLEAN
  BY DEF Delete
<1>10. Tables'
  BY <1>2, <1>3, <1>6, <1>7, <1>8, <1>9 DEF Tables
<1> QED
  BY <1>4, <1>5, <1>10, TypedParts

LEMMA WriteStep ==
    ASSUME Typed, NEW r \in Requests, WriteEntry(r)
    PROVE  Typed'
<1> DEFINE q == request[r]
<1>1. q \in RequestRecords /\ RequestFormed(q) /\ q.pc = "changed"
  BY TypedParts DEF RequestsFormed, WriteEntry
<1>2. Tables /\ PageFormed /\ RequestsFormed
  BY TypedParts
<1>3. Entry(q) \in Entries
  BY <1>1, NamesAssumption DEF Entry, Entries, RequestRecords
<1>4. log' \subseteq Entries
  BY <1>2, <1>3 DEF WriteEntry, Tables
<1>5. Tables' /\ made \in Nat
  BY <1>2, <1>4, TablesKept DEF WriteEntry
<1>6. RequestsFormed'
  BY <1>2, <1>5, AnswerStep DEF WriteEntry
<1> QED
  BY <1>2, <1>5, <1>6, TypedParts DEF WriteEntry, PageFormed

LEMMA IdleFormed == RequestFormed(Idle) /\ RequestFormed(Idle)'
BY DEF RequestFormed, Idle

LEMMA ReceiveStep ==
    ASSUME Typed, NEW r \in Requests, Receive(r)
    PROVE  Typed'
<1>1. Tables' /\ made \in Nat /\ made' \in Nat /\ made <= made'
  BY TypedParts, TablesKept DEF Receive, Tables
<1>2. PageFormed'
  BY TypedParts DEF Receive, PageFormed, Pages, CloseModal
<1>3. RequestsFormed'
  BY <1>1, TypedParts, RequestStep, IdleTyped, IdleFormed DEF Receive
<1> QED
  BY <1>1, <1>2, <1>3, TypedParts

LEMMA DisconnectStep ==
    ASSUME Typed, NEW r \in Requests, Disconnect(r)
    PROVE  Typed'
<1>1. Tables' /\ made \in Nat /\ made' \in Nat /\ made <= made'
  BY TypedParts, TablesKept DEF Disconnect, Tables
<1>2. PageFormed'
  BY TypedParts DEF Disconnect, PageFormed, Pages
<1>3. PICK q : q = [request[r] EXCEPT !.mine = FALSE]
  OBVIOUS
<1>4. request[r] \in RequestRecords /\ RequestFormed(request[r]) /\ made' = made
  BY TypedParts DEF RequestsFormed, Disconnect
<1>5. q \in RequestRecords /\ RequestFormed(q)'
  BY <1>3, <1>4 DEF RequestRecords, RequestFormed, Disconnect
<1>6. request' = [request EXCEPT ![r] = q]
  BY <1>3 DEF Disconnect
<1> QED
  BY <1>1, <1>2, <1>5, <1>6, RequestStep, TypedParts

LEMMA ModalStep ==
    ASSUME Typed, UNCHANGED <<users, log, request, made, touched>>, PageFormed'
    PROVE  Typed'
<1>1. Tables' /\ made \in Nat /\ made' \in Nat /\ made <= made'
  BY TypedParts, TablesKept DEF Tables
<1>2. RequestsFormed'
  BY TypedParts DEF RequestsFormed, RequestFormed
<1> QED
  BY <1>1, <1>2, TypedParts

LEMMA OpenStep ==
    ASSUME Typed, NEW name \in Names, Open("edit", name) \/ Open("delete", name)
    PROVE  Typed'
<1>1. PageFormed'
  BY TypedParts DEF Open, PageFormed, Pages
<1> QED
  BY <1>1, ModalStep DEF Open

LEMMA CancelStep ==
    ASSUME Typed, Cancel
    PROVE  Typed'
<1>1. PageFormed'
  BY TypedParts DEF Cancel, PageFormed, Pages, CloseModal
<1> QED
  BY <1>1, ModalStep DEF Cancel

LEMMA SubmitStep ==
    ASSUME Typed, NEW to \in Names, NEW admin \in BOOLEAN, Submit(to, admin)
    PROVE  Typed'
<1>1. Tables'
  BY TypedParts, TablesKept DEF Submit, Tables
<1>2. PageFormed'
  BY TypedParts DEF Submit, PageFormed, Pages
<1>3. RequestsFormed'
  BY AskStep DEF Submit
<1> QED
  BY <1>1, <1>2, <1>3, TypedParts

LEMMA ConfirmStep ==
    ASSUME Typed, Confirm
    PROVE  Typed'
<1>1. Tables' /\ PageFormed'
  BY TypedParts, TablesKept DEF Confirm, Tables, PageFormed
<1>2. page.user \in Names /\ FALSE \in BOOLEAN /\ page.modal # "none"
  BY TypedParts DEF Confirm, PageFormed
<1>3. RequestsFormed'
  BY <1>2, AskStep DEF Confirm
<1> QED
  BY <1>1, <1>3, TypedParts

LEMMA LeaveStep ==
    ASSUME Typed, Leave
    PROVE  Typed'
<1>1. Tables' /\ PageFormed' /\ made' = made
  BY TypedParts, TablesKept DEF Leave, Tables, PageFormed, Closed, Pages
<1>2. ASSUME NEW p \in Requests
      PROVE  request'[p] \in RequestRecords /\ RequestFormed(request[p])'
  <2>1. request[p] \in RequestRecords /\ RequestFormed(request[p])
    BY TypedParts DEF RequestsFormed
  <2>2. CASE request[p].pc \in {"done", "failed"}
    <3>1. request'[p] = Idle
      BY <2>2 DEF Leave
    <3> QED
      BY <3>1, IdleTyped DEF RequestFormed, Idle
  <2>3. CASE request[p].pc \notin {"done", "failed"}
    <3>1. request'[p] = [request[p] EXCEPT !.mine = FALSE]
      BY <2>3 DEF Leave
    <3>2. request'[p] \in RequestRecords
      BY <2>1, <3>1 DEF RequestRecords
    <3>3. RequestFormed(request[p])'
      BY <1>1, <2>1, <2>3, <3>1 DEF RequestRecords, RequestFormed
    <3> QED
      BY <3>2, <3>3
  <2> QED
    BY <2>2, <2>3
<1>3. RequestsFormed'
  BY <1>2 DEF Leave, RequestsFormed
<1> QED
  BY <1>1, <1>3, TypedParts

LEMMA TypeStep ==
    ASSUME Typed, [Next]_vars
    PROVE  Typed'
<1>1. ASSUME NEW r \in Requests,
             \/ \E name \in Names : Count(r, name)
             \/ \E name, target, to \in Names, kind \in {"edit", "delete"}, admin \in BOOLEAN :
                    Admit(r, name, kind, target, to, admin)
             \/ Handle(r) \/ Receive(r) \/ Disconnect(r)
      PROVE  Typed'
  BY <1>1, CountStep, AdmitStep, InsertStep, UpdateStep, DeleteStep, WriteStep, ReceiveStep,
     DisconnectStep DEF Handle
<1>2. CASE UNCHANGED vars
  <2>1. PageFormed'
    BY <1>2, TypedParts DEF vars, PageFormed
  <2> QED
    BY <1>2, <2>1, ModalStep DEF vars
<1> QED
  BY <1>1, <1>2, OpenStep, CancelStep, SubmitStep, ConfirmStep, LeaveStep DEF Next

-----------------------------------------------------------------------------
(* The log: an entry that is right stays right, and one is written right.  *)

EntriesRight == \A e \in log : EntryRight(e)

LEMMA InsertLog ==
    ASSUME Typed, Typed', EntriesRight, NEW r \in Requests, Insert(r)
    PROVE  EntriesRight'
<1> DEFINE q == request[r]
<1>1. Tables /\ Tables' /\ made \in Nat /\ log' = log
  BY TypedParts, NamesAssumption DEF Tables, Insert
<1>2. CASE Exists(q.target)
  BY <1>2 DEF Insert, EntriesRight, EntryRight, Gone, Registered, Exists
<1>3. CASE ~Exists(q.target)
  <2>1. /\ made' = made + 1
        /\ q.target \in Names
        /\ users' = [users EXCEPT ![q.target] = [id |-> made', admin |-> q.admin, early |-> q.early]]
    BY <1>3, TypedParts DEF Insert, Is, RequestsFormed, RequestFormed
  <2>2. \A name \in Names : name # q.target => users'[name] = users[name]
    BY <2>1, <1>1 DEF Tables
  <2>3. users'[q.target].id = made'
    BY <2>1, <1>1 DEF Tables
  <2>4. ASSUME NEW e \in log, ~e.stale
        PROVE  EntryRight(e)'
    <3>1. EntryRight(e) /\ e.name \in Names \union {None}
      BY <1>1 DEF EntriesRight, Tables, Entries
    <3>2. CASE e.system
      BY <2>4, <3>1, <3>2 DEF EntryRight
    <3>3. CASE ~e.system
      <4>1. e.actor \in 1..made /\ e.actor \in 1..made' /\ e.actor # made'
        BY <1>1, <2>1, <2>4, <3>1, <3>3 DEF EntryRight
      <4>2. CASE e.name = None
        <5>1. Gone(e.actor)
          BY <2>4, <3>1, <3>3, <4>2 DEF EntryRight
        <5>2. Gone(e.actor)'
          BY <2>2, <2>3, <4>1, <5>1 DEF Gone, Registered, Exists
        <5> QED
          BY <3>3, <4>1, <4>2, <5>2 DEF EntryRight
      <4>3. CASE e.name # None
        <5>1. Exists(e.name) /\ users[e.name].id = e.actor /\ e.name \in Names
          BY <2>4, <3>1, <3>3, <4>3 DEF EntryRight
        <5>2. users'[e.name] = users[e.name]
          BY <1>3, <2>2, <5>1
        <5> QED
          BY <3>3, <4>1, <4>3, <5>1, <5>2 DEF EntryRight, Exists
      <4> QED
        BY <4>2, <4>3
    <3> QED
      BY <3>2, <3>3
  <2> QED
    BY <1>1, <2>4 DEF EntriesRight, EntryRight
<1> QED
  BY <1>2, <1>3

LEMMA UpdateLog ==
    ASSUME Typed, Typed', EntriesRight, NEW r \in Requests, Update(r)
    PROVE  EntriesRight'
<1> DEFINE q == request[r]
           row == users[q.target]
<1>1. Tables /\ Tables' /\ made' = made /\ q.target \in Names /\ q.to \in Names /\ q \in RequestRecords
  BY TypedParts DEF Update, Is, RequestsFormed, RequestFormed
<1>2. CASE ~Exists(q.target) \/ (q.to # q.target /\ Exists(q.to))
  <2>1. UNCHANGED <<users, log>>
    BY <1>2 DEF Update
  <2> QED
    BY <1>1, <2>1 DEF EntriesRight, EntryRight, Gone, Registered, Exists
<1>3. CASE Exists(q.target) /\ ~(q.to # q.target /\ Exists(q.to))
  <2>1. /\ users' = [users EXCEPT ![q.target] = NoUser, ![q.to] = [row EXCEPT !.admin = q.admin]]
        /\ log' = Renamed(q.target, q.to)
    BY <1>3 DEF Update
  <2>2. row \in [id: Ids, admin: BOOLEAN, early: BOOLEAN]
    BY <1>1, <1>3, UsersTyped DEF Registered
  <2>3. [row EXCEPT !.admin = q.admin].id = row.id
    BY <2>2
  <2>4. \A name \in Names : /\ name = q.to => users'[name].id = row.id
                            /\ name # q.to /\ name = q.target => users'[name] = NoUser
                            /\ name # q.to /\ name # q.target => users'[name] = users[name]
    BY <1>1, <2>1, <2>3 DEF Tables
  <2>5. row.id # 0
    BY <2>2, NamesAssumption DEF Ids
  <2>6. ASSUME NEW e \in log, NEW f, f = [e EXCEPT !.name = IF @ = q.target THEN q.to ELSE @],
               ~f.stale
        PROVE  EntryRight(f)'
    <3>1. EntryRight(e) /\ e \in Entries
      BY <1>1 DEF EntriesRight, Tables
    <3>2. f = [system |-> e.system, name |-> IF e.name = q.target THEN q.to ELSE e.name,
               actor |-> e.actor, stale |-> e.stale]
      BY <2>6, <3>1 DEF Entries
    <3>3. e.name \in Names \union {None} /\ e.system \in BOOLEAN /\ ~e.stale
      BY <2>6, <3>1, <3>2 DEF Entries
    <3>4. CASE e.system
      BY <1>1, <3>1, <3>2, <3>3, <3>4, NamesAssumption DEF EntryRight
    <3>5. CASE ~e.system /\ e.name = None
      <4>1. Gone(e.actor) /\ e.actor \in 1..made
        BY <3>1, <3>3, <3>5 DEF EntryRight
      <4>2. row.id # e.actor
        BY <1>1, <1>3, <4>1 DEF Gone, Registered
      <4>3. Gone(e.actor)'
        BY <2>4, <4>1, <4>2 DEF Gone, Registered, Exists
      <4> QED
        BY <1>1, <3>2, <3>5, <4>1, <4>3, NamesAssumption DEF EntryRight
    <3>6. CASE ~e.system /\ e.name # None
      <4>1. Exists(e.name) /\ users[e.name].id = e.actor /\ e.actor \in 1..made /\ e.name \in Names
        BY <3>1, <3>3, <3>6 DEF EntryRight
      <4>2. f.name \in Names /\ users'[f.name].id = e.actor
        BY <1>1, <1>3, <2>4, <3>2, <4>1
      <4>3. Exists(f.name)'
        BY <4>1, <4>2, NoUserUntaken DEF Exists
      <4> QED
        BY <1>1, <3>2, <3>6, <4>1, <4>2, <4>3, NamesAssumption DEF EntryRight
    <3> QED
      BY <3>3, <3>4, <3>5, <3>6
  <2>7. ASSUME NEW f \in log'
        PROVE  EntryRight(f)'
    <3>1. PICK e \in log : f = [e EXCEPT !.name = IF @ = q.target THEN q.to ELSE @]
      BY <2>1 DEF Renamed
    <3> QED
      BY <2>6, <3>1 DEF EntryRight
  <2> QED
    BY <2>7 DEF EntriesRight
<1> QED
  BY <1>2, <1>3

LEMMA DeleteLog ==
    ASSUME Typed, Typed', EntriesRight, NEW r \in Requests, Delete(r)
    PROVE  EntriesRight'
<1> DEFINE q == request[r]
<1>1. Tables /\ Tables' /\ made' = made /\ q.target \in Names
  BY TypedParts DEF Delete, Is, RequestsFormed, RequestFormed
<1>2. \A name \in Names : users'[name] = IF name = q.target THEN NoUser ELSE users[name]
  BY <1>1 DEF Delete, Tables
<1>3. ASSUME NEW e \in log, NEW f, f = [e EXCEPT !.name = IF @ = q.target THEN None ELSE @], ~f.stale
      PROVE  EntryRight(f)'
  <2>1. EntryRight(e) /\ e \in Entries
    BY <1>1 DEF EntriesRight, Tables
  <2>2. f = [system |-> e.system, name |-> IF e.name = q.target THEN None ELSE e.name,
             actor |-> e.actor, stale |-> e.stale]
    BY <1>3, <2>1 DEF Entries
  <2>3. e.name \in Names \union {None} /\ e.system \in BOOLEAN /\ ~e.stale
    BY <1>3, <2>1, <2>2 DEF Entries
  <2>4. CASE e.system
    BY <1>1, <2>1, <2>2, <2>3, <2>4, NamesAssumption DEF EntryRight
  <2>5. CASE ~e.system /\ e.name = None
    <3>1. Gone(e.actor) /\ e.actor \in 1..made
      BY <2>1, <2>3, <2>5 DEF EntryRight
    <3>2. Gone(e.actor)'
      BY <1>2, <3>1 DEF Gone, Registered, Exists
    <3> QED
      BY <1>1, <2>2, <2>5, <3>1, <3>2, NamesAssumption DEF EntryRight
  <2>6. CASE ~e.system /\ e.name # None
    <3>1. Exists(e.name) /\ users[e.name].id = e.actor /\ e.actor \in 1..made /\ e.name \in Names
      BY <2>1, <2>3, <2>6 DEF EntryRight
    <3>2. CASE e.name = q.target
      <4>1. Gone(e.actor)'
        BY <1>1, <1>2, <3>1, <3>2 DEF Gone, Registered, Exists, Tables
      <4> QED
        BY <1>1, <2>2, <2>6, <3>1, <3>2, <4>1 DEF EntryRight
    <3>3. CASE e.name # q.target
      BY <1>1, <1>2, <2>2, <2>6, <3>1, <3>3 DEF EntryRight, Exists
    <3> QED
      BY <3>2, <3>3
  <2> QED
    BY <2>3, <2>4, <2>5, <2>6
<1>4. ASSUME NEW f \in log'
      PROVE  EntryRight(f)'
  <2>1. PICK e \in log : f = [e EXCEPT !.name = IF @ = q.target THEN None ELSE @]
    BY DEF Renamed, Delete
  <2> QED
    BY <1>3, <2>1 DEF EntryRight
<1> QED
  BY <1>4 DEF EntriesRight

LEMMA WriteLog ==
    ASSUME Typed, Typed', EntriesRight, NEW r \in Requests, WriteEntry(r)
    PROVE  EntriesRight'
<1> DEFINE q == request[r]
<1>1. Tables /\ made' = made /\ users' = users /\ RequestFormed(q) /\ q.pc = "changed"
  BY TypedParts DEF WriteEntry, RequestsFormed
<1>2. \A e \in log : EntryRight(e)'
  BY <1>1 DEF EntriesRight, EntryRight, Gone, Registered, Exists
<1>3. ASSUME NEW e, e = Entry(q)
      PROVE  EntryRight(e)'
  <2>1. CASE q.kind = "register"
    BY <1>3, <2>1 DEF Entry, EntryRight
  <2>2. CASE q.kind # "register"
    <3>1. e = [system |-> FALSE, name |-> q.as, actor |-> q.actor,
               stale |-> users[q.as].id # q.actor]
      BY <1>3, <2>2 DEF Entry
    <3>2. q.actor \in 1..made /\ q.as \in Names /\ made \in Nat
      BY <1>1, <2>2, NamesAssumption DEF RequestFormed, Tables
    <3>3. users[q.as].id = q.actor => Exists(q.as)
      BY <3>2, NoUserUntaken DEF Exists
    <3> QED
      BY <1>1, <3>1, <3>2, <3>3, NamesAssumption DEF EntryRight, Exists
  <2> QED
    BY <2>1, <2>2
<1> QED
  BY <1>2, <1>3 DEF WriteEntry, EntriesRight

LEMMA LogStep ==
    ASSUME Typed, Typed', EntriesRight, [Next]_vars
    PROVE  EntriesRight'
<1>1. ASSUME UNCHANGED <<users, log, made>>
      PROVE  EntriesRight'
  BY <1>1 DEF EntriesRight, EntryRight, Gone, Registered, Exists
<1>2. CASE UNCHANGED <<users, log, made>>
  BY <1>1, <1>2
<1>3. CASE \E r \in Requests : Handle(r)
  BY <1>3, InsertLog, UpdateLog, DeleteLog, WriteLog DEF Handle
<1>4. ASSUME NEW r \in Requests,
             \/ \E name \in Names : Count(r, name)
             \/ \E name, target, to \in Names, kind \in {"edit", "delete"}, admin \in BOOLEAN :
                    Admit(r, name, kind, target, to, admin)
             \/ Receive(r) \/ Disconnect(r)
      PROVE  UNCHANGED <<users, log, made>>
  BY <1>4 DEF Count, Admit, Receive, Disconnect
<1>5. ASSUME \/ \E name \in Names : Open("edit", name) \/ Open("delete", name)
             \/ Cancel
             \/ \E to \in Names, admin \in BOOLEAN : Submit(to, admin)
             \/ Confirm \/ Leave \/ UNCHANGED vars
      PROVE  UNCHANGED <<users, log, made>>
  BY <1>5 DEF Open, Cancel, Submit, Confirm, Leave, vars
<1> QED
  BY <1>2, <1>3, <1>4, <1>5 DEF Next

-----------------------------------------------------------------------------
(* The first account.                                                      *)

\* A step that leaves the accounts alone and makes no registration ready.
LEMMA EarlyKept ==
    ASSUME Early, UNCHANGED <<users, made, touched>>,
           \A p \in Requests : Is(p, "ready", "register")' =>
                /\ Is(p, "ready", "register")
                /\ request'[p].admin = request[p].admin
                /\ request'[p].early = request[p].early
    PROVE  Early'
BY DEF Early, Registered, Exists

LEMMA AnswerUnready ==
    ASSUME Typed, Early, NEW r \in Requests, NEW pc \in {"done", "failed"}, Answer(r, pc),
           UNCHANGED <<users, made, touched>>
    PROVE  Early'
<1>1. \A p \in Requests : p # r => request'[p] = request[p]
  BY TypedParts DEF RequestsFormed, Answer
<1>2. request'[r].pc # "ready"
  BY TypedParts DEF RequestsFormed, Answer, Idle
<1> QED
  BY <1>1, <1>2, EarlyKept DEF Is

LEMMA CountEarly ==
    ASSUME Typed, Early, NEW r \in Requests, NEW name \in Names, Count(r, name)
    PROVE  Early'
<1>1. Registered' = Registered /\ UNCHANGED <<users, made, touched>>
  BY DEF Count, Registered, Exists
<1>2. \A p \in Requests : p # r => request'[p] = request[p]
  BY TypedParts DEF RequestsFormed, Count
<1>3. request'[r].admin = FirstRoles(r) /\ request'[r].early = (made = 0)
  BY TypedParts DEF RequestsFormed, Count, Idle
<1> QED
  BY <1>1, <1>2, <1>3 DEF Early, Is, FirstRoles

LEMMA InsertEarly ==
    ASSUME Typed, Typed', Early, NEW r \in Requests, Insert(r)
    PROVE  Early'
<1> DEFINE q == request[r]
<1>1. CASE Exists(q.target)
  BY <1>1, AnswerUnready DEF Insert
<1>2. CASE ~Exists(q.target)
  <2>1. /\ made' = made + 1
        /\ q.target \in Names
        /\ users' = [users EXCEPT ![q.target] = [id |-> made', admin |-> q.admin, early |-> q.early]]
        /\ Changed(r)
        /\ Is(r, "ready", "register")
        /\ touched' = touched
    BY <1>2, TypedParts DEF Insert, Is, RequestsFormed, RequestFormed
  <2>2. made \in Nat /\ made' # 0
    BY <2>1, TypedParts, NamesAssumption DEF Tables
  <2>3. \A name \in Names : users'[name] = IF name = q.target
            THEN [id |-> made', admin |-> q.admin, early |-> q.early] ELSE users[name]
    BY <2>1, TypedParts DEF Tables
  <2>4. q.target \in Registered'
    BY <2>1, <2>2, <2>3, NoUserUntaken DEF Registered, Exists
  <2>5. \A p \in Requests : p # r => request'[p] = request[p]
    BY <2>1, TypedParts DEF RequestsFormed, Changed
  <2>6. request'[r].pc = "changed"
    BY <2>1, TypedParts DEF RequestsFormed, RequestRecords, Changed
  <2>7. ASSUME ~touched
        PROVE  \A name \in Registered' : /\ users'[name].admin <=> users'[name].early
                                         /\ users'[name].id = 1 => users'[name].early
    <3>1. (q.admin <=> q.early) /\ (made = 0 => q.early)
      BY <2>1, <2>7 DEF Early
    <3>2. \A name \in Registered' : name # q.target =>
            /\ users'[name].admin <=> users'[name].early
            /\ users'[name].id = 1 => users'[name].early
      BY <2>3, <2>7 DEF Early, Registered, Exists
    <3>3. users'[q.target].admin = q.admin /\ users'[q.target].early = q.early
          /\ users'[q.target].id = made + 1
      BY <2>1, <2>3
    <3>4. /\ users'[q.target].admin <=> users'[q.target].early
          /\ users'[q.target].id = 1 => users'[q.target].early
      BY <2>2, <3>1, <3>3
    <3> QED
      BY <3>2, <3>4
  <2>8. ASSUME NEW p \in Requests, ~touched, Is(p, "ready", "register")'
        PROVE  (request'[p].admin <=> request'[p].early) /\ made' # 0
    BY <2>2, <2>5, <2>6, <2>8 DEF Early, Is
  <2> QED
    BY <2>1, <2>2, <2>4, <2>7, <2>8 DEF Early
<1> QED
  BY <1>1, <1>2

LEMMA OtherEarly ==
    ASSUME Typed, Early, NEW r \in Requests, NEW q, request' = [request EXCEPT ![r] = q],
           UNCHANGED <<users, made, touched>>,
           q.pc = "ready" /\ q.kind = "register" =>
             /\ Is(r, "ready", "register")
             /\ q.admin = request[r].admin
             /\ q.early = request[r].early
    PROVE  Early'
<1>1. \A p \in Requests : request'[p] = IF p = r THEN q ELSE request[p]
  BY TypedParts DEF RequestsFormed
<1> QED
  BY <1>1, EarlyKept DEF Is

LEMMA AskEarly ==
    ASSUME Typed, Early, NEW kind \in {"edit", "delete"}, NEW to, NEW admin, Ask(kind, to, admin),
           UNCHANGED <<users, made, touched>>
    PROVE  Early'
<1>a. PICK r \in Requests :
        request' = [request EXCEPT ![r] =
                      IF users[Me].admin THEN Asked(kind, Me, page.user, to, admin, TRUE)
                      ELSE [Idle EXCEPT !.pc = "failed", !.kind = kind, !.mine = TRUE]]
  BY DEF Ask
<1>b. PICK q : q = IF users[Me].admin THEN Asked(kind, Me, page.user, to, admin, TRUE)
                   ELSE [Idle EXCEPT !.pc = "failed", !.kind = kind, !.mine = TRUE]
  OBVIOUS
<1>1. request' = [request EXCEPT ![r] = q]
  BY <1>a, <1>b
<1>2. ~(q.pc = "ready" /\ q.kind = "register")
  BY <1>b DEF Asked, Idle
<1> QED
  BY <1>1, <1>2, OtherEarly

LEMMA LeaveEarly ==
    ASSUME Typed, Early, Leave
    PROVE  Early'
<1>1. ASSUME NEW p \in Requests, Is(p, "ready", "register")'
      PROVE  /\ Is(p, "ready", "register")
             /\ request'[p].admin = request[p].admin
             /\ request'[p].early = request[p].early
  <2>1. request[p] \in RequestRecords
    BY TypedParts DEF RequestsFormed
  <2>2. request[p].pc \notin {"done", "failed"}
    BY <1>1 DEF Leave, Is, Idle
  <2>3. request'[p] = [request[p] EXCEPT !.mine = FALSE]
    BY <2>2 DEF Leave
  <2> QED
    BY <1>1, <2>1, <2>3 DEF Is, RequestRecords
<1> QED
  BY <1>1, EarlyKept DEF Leave

LEMMA EarlyStep ==
    ASSUME Typed, Typed', Early, [Next]_vars
    PROVE  Early'
<1>1. ASSUME NEW r \in Requests, NEW name \in Names, NEW target \in Names, NEW to \in Names,
             NEW kind \in {"edit", "delete"}, NEW admin \in BOOLEAN,
             Admit(r, name, kind, target, to, admin)
      PROVE  Early'
  <2>1. ~(Asked(kind, name, target, to, admin, FALSE).kind = "register")
    BY DEF Asked, Idle
  <2> QED
    BY <1>1, <2>1, OtherEarly DEF Admit
<1>2. ASSUME NEW r \in Requests, Update(r)
      PROVE  Early'
  <2>1. CASE touched' = TRUE
    BY <2>1 DEF Early
  <2>2. CASE touched' # TRUE
    <3>1. Answer(r, "failed") /\ UNCHANGED <<users, made, touched>>
      BY <1>2, <2>2 DEF Update
    <3> QED
      BY <3>1, AnswerUnready
  <2> QED
    BY <2>1, <2>2
<1>3. ASSUME NEW r \in Requests, Delete(r)
      PROVE  Early'
  BY <1>3 DEF Delete, Early
<1>4. ASSUME NEW r \in Requests, WriteEntry(r)
      PROVE  Early'
  BY <1>4, AnswerUnready DEF WriteEntry
<1>5. ASSUME NEW r \in Requests, Receive(r)
      PROVE  Early'
  <2>1. Idle.pc # "ready"
    BY DEF Idle
  <2> QED
    BY <1>5, <2>1, OtherEarly DEF Receive
<1>6. ASSUME NEW r \in Requests, Disconnect(r)
      PROVE  Early'
  <2>1. PICK q : q = [request[r] EXCEPT !.mine = FALSE]
    OBVIOUS
  <2>2. request[r] \in RequestRecords
    BY TypedParts DEF RequestsFormed
  <2>3. q.pc = request[r].pc /\ q.kind = request[r].kind /\ q.admin = request[r].admin
        /\ q.early = request[r].early
    BY <2>1, <2>2 DEF RequestRecords
  <2>4. request' = [request EXCEPT ![r] = q]
    BY <1>6, <2>1 DEF Disconnect
  <2> QED
    BY <1>6, <2>3, <2>4, OtherEarly DEF Disconnect, Is
<1>7. ASSUME Cancel \/ UNCHANGED vars \/ \E name \in Names : Open("edit", name) \/ Open("delete", name)
      PROVE  Early'
  BY <1>7, EarlyKept DEF Cancel, Open, vars, Is
<1>8. ASSUME Confirm \/ \E to \in Names, admin \in BOOLEAN : Submit(to, admin)
      PROVE  Early'
  BY <1>8, AskEarly DEF Confirm, Submit
<1> QED
  BY <1>1, <1>2, <1>3, <1>4, <1>5, <1>6, <1>7, <1>8, CountEarly, InsertEarly, LeaveEarly
     DEF Next, Handle

-----------------------------------------------------------------------------
(* The spinner of the form.                                                *)

\* Whom the page waits for, it waits for still.
LEMMA LoadingKept ==
    ASSUME LoadingHasCause, page'.loading => page.loading,
           \A p \in Requests : request[p].mine /\ request[p].kind = "edit" =>
                request'[p].mine /\ request'[p].kind = "edit"
    PROVE  LoadingHasCause'
BY DEF LoadingHasCause

LEMMA AnswerLoading ==
    ASSUME Typed, LoadingHasCause, NEW r \in Requests, NEW pc, Answer(r, pc), page' = page
    PROVE  LoadingHasCause'
<1>1. \A p \in Requests : p # r => request'[p] = request[p]
  BY TypedParts DEF RequestsFormed, Answer
<1>2. request[r].mine => request'[r].mine /\ request'[r].kind = request[r].kind
  BY TypedParts DEF RequestsFormed, Answer, Idle
<1> QED
  BY <1>1, <1>2, LoadingKept

LEMMA ChangedLoading ==
    ASSUME Typed, LoadingHasCause, NEW r \in Requests, Changed(r), page' = page
    PROVE  LoadingHasCause'
<1>1. \A p \in Requests : p # r => request'[p] = request[p]
  BY TypedParts DEF RequestsFormed, Changed
<1>2. request'[r].mine = request[r].mine /\ request'[r].kind = request[r].kind
  BY TypedParts DEF RequestsFormed, RequestRecords, Changed
<1> QED
  BY <1>1, <1>2, LoadingKept

\* A request begins where none was.
LEMMA BegunLoading ==
    ASSUME Typed, LoadingHasCause, NEW r \in Requests, request[r] = Idle, NEW q,
           request' = [request EXCEPT ![r] = q], page'.loading => page.loading
    PROVE  LoadingHasCause'
<1>1. \A p \in Requests : p # r => request'[p] = request[p]
  BY TypedParts DEF RequestsFormed
<1>2. ~request[r].mine
  BY DEF Idle
<1> QED
  BY <1>1, <1>2, LoadingKept

LEMMA AskLoading ==
    ASSUME Typed, LoadingHasCause, NEW kind, NEW to, NEW admin, Ask(kind, to, admin),
           kind = "edit" \/ page' = page
    PROVE  LoadingHasCause'
<1>a. PICK r \in Requests :
        /\ request[r] = Idle
        /\ request' = [request EXCEPT ![r] =
                      IF users[Me].admin THEN Asked(kind, Me, page.user, to, admin, TRUE)
                      ELSE [Idle EXCEPT !.pc = "failed", !.kind = kind, !.mine = TRUE]]
  BY DEF Ask
<1>b. PICK q : q = IF users[Me].admin THEN Asked(kind, Me, page.user, to, admin, TRUE)
                   ELSE [Idle EXCEPT !.pc = "failed", !.kind = kind, !.mine = TRUE]
  OBVIOUS
<1>1. request[r] = Idle /\ request' = [request EXCEPT ![r] = q]
  BY <1>a, <1>b
<1>2. CASE kind = "edit"
  <2>1. q.mine /\ q.kind = "edit"
    BY <1>b, <1>2 DEF Asked, Idle
  <2>2. request'[r] = q
    BY <1>1, TypedParts DEF RequestsFormed
  <2> QED
    BY <2>1, <2>2 DEF LoadingHasCause
<1>3. CASE page' = page
  BY <1>1, <1>3, BegunLoading
<1> QED
  BY <1>2, <1>3

\* Of a request that ends, only an edit could have been the cause: then loading ends.
LEMMA EndedLoading ==
    ASSUME Typed, LoadingHasCause, NEW r \in Requests, NEW q, request' = [request EXCEPT ![r] = q],
           page'.loading => page.loading /\ ~StopLoading(request[r])
    PROVE  LoadingHasCause'
<1>1. \A p \in Requests : p # r => request'[p] = request[p]
  BY TypedParts DEF RequestsFormed
<1>2. SUFFICES ASSUME page'.loading
               PROVE  \E p \in Requests : request'[p].mine /\ request'[p].kind = "edit"
  BY DEF LoadingHasCause
<1>3. PICK p \in Requests : request[p].mine /\ request[p].kind = "edit"
  BY <1>2 DEF LoadingHasCause
<1>4. p # r
  BY <1>2, <1>3 DEF StopLoading
<1> QED
  BY <1>1, <1>3, <1>4

LEMMA LoadingStep ==
    ASSUME Typed, Typed', LoadingHasCause, [Next]_vars
    PROVE  LoadingHasCause'
<1>1. ASSUME NEW r \in Requests, NEW name \in Names, Count(r, name)
      PROVE  LoadingHasCause'
  BY <1>1, BegunLoading DEF Count
<1>2. ASSUME NEW r \in Requests, NEW name \in Names, NEW target \in Names, NEW to \in Names,
             NEW kind \in {"edit", "delete"}, NEW admin \in BOOLEAN,
             Admit(r, name, kind, target, to, admin)
      PROVE  LoadingHasCause'
  BY <1>2, BegunLoading DEF Admit
<1>3. ASSUME NEW r \in Requests, Handle(r)
      PROVE  LoadingHasCause'
  <2>1. page' = page /\ (Changed(r) \/ \E pc \in {"done", "failed"} : Answer(r, pc))
    BY <1>3 DEF Handle, Insert, Update, Delete, WriteEntry
  <2> QED
    BY <2>1, AnswerLoading, ChangedLoading
<1>4. ASSUME NEW r \in Requests, Receive(r)
      PROVE  LoadingHasCause'
  <2>1. page \in Pages
    BY TypedParts DEF PageFormed
  <2>2. page'.loading => page.loading /\ ~StopLoading(request[r])
    BY <1>4, <2>1 DEF Receive, Pages, CloseModal
  <2> QED
    BY <1>4, <2>2, EndedLoading DEF Receive
<1>5. ASSUME NEW r \in Requests, Disconnect(r)
      PROVE  LoadingHasCause'
  <2>1. page \in Pages /\ request[r] \in RequestRecords
    BY TypedParts DEF PageFormed, RequestsFormed
  <2>2. StopLoading([request[r] EXCEPT !.pc = "failed"]) <=> StopLoading(request[r])
    BY <2>1 DEF StopLoading, RequestRecords
  <2>3. page'.loading => page.loading /\ ~StopLoading(request[r])
    BY <1>5, <2>1, <2>2 DEF Disconnect, Pages
  <2> QED
    BY <1>5, <2>3, EndedLoading DEF Disconnect
<1>6. ASSUME Cancel \/ UNCHANGED vars \/ \E name \in Names : Open("edit", name) \/ Open("delete", name)
      PROVE  LoadingHasCause'
  <2>1. page'.loading = page.loading /\ request' = request
    BY <1>6, TypedParts DEF PageFormed, Pages, Cancel, Open, CloseModal, vars
  <2> QED
    BY <2>1, LoadingKept
<1>7. ASSUME Confirm \/ \E to \in Names, admin \in BOOLEAN : Submit(to, admin)
      PROVE  LoadingHasCause'
  BY <1>7, AskLoading DEF Confirm, Submit
<1>8. ASSUME Leave
      PROVE  LoadingHasCause'
  BY <1>8 DEF Leave, Closed, LoadingHasCause
<1> QED
  BY <1>1, <1>2, <1>3, <1>4, <1>5, <1>6, <1>7, <1>8 DEF Next

-----------------------------------------------------------------------------

LEMMA IInvParts == IInv <=> Typed /\ EntriesRight /\ Early /\ LoadingHasCause
BY DEF IInv, Typed, RequestsFormed, EntriesRight, TypeOK

LEMMA IInvNext == IInv /\ [Next]_vars => IInv'
<1> SUFFICES ASSUME IInv, [Next]_vars PROVE IInv'
  OBVIOUS
<1>1. Typed'
  BY IInvParts, TypeStep
<1>2. EntriesRight' /\ Early' /\ LoadingHasCause'
  BY <1>1, IInvParts, LogStep, EarlyStep, LoadingStep
<1> QED
  BY <1>1, <1>2 DEF IInv, Typed, RequestsFormed, EntriesRight

LEMMA Invariance == Spec => []IInv
BY InitStep, IInvNext, PTL DEF Spec

\* The tables and the page keep their types, and no two names are one account's:
\* a rename moves the row (UpdateUser) and a registration fails on a taken name.
THEOREM AccountsTypeCorrect == Spec => []TypeOK
<1>1. IInv => TypeOK
  BY DEF IInv
<1> QED
  BY <1>1, Invariance, PTL

\* However many accounts, renames and deletions there are, the audit log's page shows
\* an entry under the present name of the account that acted, or as a deleted user's.
THEOREM LogNamesWhoActed == Spec => []LogNamesActors
<1>1. IInv => LogNamesActors
  <2> SUFFICES ASSUME IInv, NEW e \in log, ~e.stale
               PROVE  CASE ShownUser(e) = "System" -> e.system
                        [] ShownUser(e) = "Deleted User" -> Gone(e.actor)
                        [] OTHER -> Exists(e.name) /\ users[e.name].id = e.actor
    BY DEF LogNamesActors
  <2>1. EntryRight(e) /\ e \in Entries
    BY DEF IInv, TypeOK
  <2>2. e.name \in Names \union {None}
    BY <2>1 DEF Entries
  <2>3. CASE e.name = None
    <3>1. ShownUser(e) = IF e.system THEN "System" ELSE "Deleted User"
      BY <2>3 DEF ShownUser
    <3> QED
      BY <2>1, <2>3, <3>1 DEF EntryRight
  <2>4. CASE e.name # None
    <3>1. ShownUser(e) = e.name /\ e.name \notin {"System", "Deleted User"}
      BY <2>2, <2>4, LabelsAssumption DEF ShownUser
    <3> QED
      BY <2>1, <2>4, <3>1 DEF EntryRight
  <2> QED
    BY <2>3, <2>4
<1> QED
  BY <1>1, Invariance, PTL

\* However many registrations overlap, the first account is an administrator, and who
\* is one besides had counted the users before any was made (route_register).
THEOREM FirstRegisteredIsAdmin == Spec => []FirstIsAdmin
<1>1. IInv => FirstIsAdmin
  BY DEF IInv, Early, FirstIsAdmin
<1> QED
  BY <1>1, Invariance, PTL

\* However many requests are out, the form's spinner turns only while an edit it sent
\* goes on: then and catch both end it.
THEOREM SpinnerHasAnEdit == Spec => []LoadingHasCause
<1>1. IInv => LoadingHasCause
  BY DEF IInv
<1> QED
  BY <1>1, Invariance, PTL

=============================================================================
