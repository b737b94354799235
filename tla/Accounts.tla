------------------------------ MODULE Accounts ------------------------------
(***************************************************************************)
(* Accounts and the audit log.  The handlers that register, edit and       *)
(* delete a user each take several transactions: the middleware reads the  *)
(* account of the one who asks, the handler changes table users, and then  *)
(* writes an entry in table auditlog under the name the middleware read,   *)
(* without a look at the error.  A foreign key ties the entry to the       *)
(* account: it follows a change of name, and is set to null when the       *)
(* account goes.  The page of an administrator, with the two modals that   *)
(* edit and delete a user, sends some of the requests.                     *)
(*                                                                         *)
(* Of the fields of an account only the name and whether it has the role   *)
(* admin are kept.  An account has a number, as history, to tell it from   *)
(* one that takes its name.                                                *)
(***************************************************************************)
EXTENDS Naturals, FiniteSets

CONSTANTS
    Names,
    Me,         \* the name the administrator's token was made out to
    Requests,   \* bound: requests handled at once
    MaxIds,     \* bound: accounts registered
    MaxEntries, \* bound: entries followed, of those written
    None

ASSUME NamesAssumption == Me \in Names /\ None \notin Names /\ MaxIds \in Nat /\ MaxEntries \in Nat

\* What the audit page says of entries without a name.  (Nothing keeps a user from
\* taking these names: the page could not tell then.)
ASSUME LabelsAssumption == Names \intersect {"System", "Deleted User"} = {}

VARIABLES
    users,      \* table users, by name
    log,        \* table auditlog
    request,    \* what each request is doing
    page,       \* the modals of the administrator's page
    made,       \* history: accounts registered
    touched     \* history: an account has been edited or deleted

vars == <<users, log, request, page, made, touched>>

Ids == 1..MaxIds

NoUser == [id |-> 0, admin |-> FALSE, early |-> FALSE]

\* early: history, whether the registration counted the users before any was made.
Rows == {NoUser} \union [id: Ids, admin: BOOLEAN, early: BOOLEAN]

\* name None: null.  actor and stale are history: the account that made the request,
\* and whether the name was no longer its own when the entry was written.
Entries == [system: BOOLEAN, name: Names \union {None}, actor: 0..MaxIds, stale: BOOLEAN]

Kinds == {"register", "edit", "delete"}

Idle == [pc |-> "idle", kind |-> "edit", actor |-> 0, as |-> None, target |-> None, to |-> None,
         admin |-> FALSE, early |-> FALSE, mine |-> FALSE]

\* ready: admitted, or the users counted; changed: the table changed and no entry written
\* yet; done and failed: answered.  mine: the page waits for the answer.
RequestRecords ==
    [pc: {"idle", "ready", "changed", "done", "failed"}, kind: Kinds, actor: 0..MaxIds,
     as: Names \union {None}, target: Names \union {None}, to: Names \union {None},
     admin: BOOLEAN, early: BOOLEAN, mine: BOOLEAN]

Closed == [modal |-> "none", user |-> None, loading |-> FALSE]

Pages == [modal: {"none", "edit", "delete"}, user: Names \union {None}, loading: BOOLEAN]

Exists(name) == users[name] # NoUser

Registered == {name \in Names : Exists(name)}

TypeOK ==
    /\ users \in [Names -> Rows]
    /\ \A a, b \in Registered : users[a].id = users[b].id => a = b
    /\ log \subseteq Entries
    /\ request \in [Requests -> RequestRecords]
    /\ page \in Pages
    /\ made \in 0..MaxIds
    /\ touched \in BOOLEAN

-----------------------------------------------------------------------------
(* The handlers.                                                           *)

Is(r, pc, kind) == request[r].pc = pc /\ request[r].kind = kind

\* The change is made: what it was is no more needed.
Changed(r) ==
    request' = [request EXCEPT ![r] = [@ EXCEPT !.pc = "changed", !.target = None, !.to = None,
                                                !.admin = FALSE, !.early = FALSE]]

\* An answer no one waits for ends the request.
Answer(r, pc) ==
    request' = [request EXCEPT ![r] =
                  IF @.mine THEN [Idle EXCEPT !.pc = pc, !.kind = request[r].kind, !.mine = TRUE]
                  ELSE Idle]

\* Deviation: who comes second is an administrator, too.
FirstRolesLate(r) == Cardinality(Registered) <= 1

\* NumUsers is zero: the roles of the new account.
FirstRoles(r) == Registered = {}

\* route_register counts the users.
Count(r, name) ==
    /\ request[r] = Idle
    /\ request' = [request EXCEPT ![r] = [Idle EXCEPT !.pc = "ready", !.kind = "register",
                                            !.target = name, !.admin = FirstRoles(r),
                                            !.early = (made = 0)]]
    /\ UNCHANGED <<users, log, page, made, touched>>

\* InsertUser: the primary key is the name.
Insert(r) ==
    LET q == request[r]
    IN  /\ Is(r, "ready", "register")
        /\ IF Exists(q.target)
           THEN Answer(r, "failed") /\ UNCHANGED <<users, made>>
           ELSE /\ made < MaxIds
                /\ made' = made + 1
                /\ users' = [users EXCEPT ![q.target] = [id |-> made', admin |-> q.admin,
                                                         early |-> q.early]]
                /\ Changed(r)
        /\ UNCHANGED <<log, page, touched>>

Asked(kind, name, target, to, admin, mine) ==
    [Idle EXCEPT !.pc = "ready", !.kind = kind, !.actor = users[name].id, !.as = name,
                 !.target = target, !.to = to, !.admin = admin, !.mine = mine]

\* AllowedRoles for the requests of other administrators.
Admit(r, name, kind, target, to, admin) ==
    /\ request[r] = Idle
    /\ users[name].admin
    /\ kind = "delete" => to = target /\ ~admin
    /\ request' = [request EXCEPT ![r] = Asked(kind, name, target, to, admin, FALSE)]
    /\ UNCHANGED <<users, log, page, made, touched>>

\* Deviation: the log keeps the old name.
RenamedNotInLog(from, to) == log

\* ON UPDATE CASCADE and ON DELETE SET NULL.
Renamed(from, to) == {[e EXCEPT !.name = IF @ = from THEN to ELSE @] : e \in log}

\* Deviation: a rename leaves the row of the old name.
UpdateCopies(r) ==
    LET q == request[r]
        row == users[q.target]
    IN  /\ Is(r, "ready", "edit")
        /\ IF Exists(q.target) /\ q.to # q.target /\ Exists(q.to)
           THEN Answer(r, "failed") /\ UNCHANGED <<users, log, touched>>
           ELSE /\ users' = IF Exists(q.target)
                            THEN [users EXCEPT ![q.to] = [row EXCEPT !.admin = q.admin]]
                            ELSE users
                /\ log' = IF Exists(q.target) THEN Renamed(q.target, q.to) ELSE log
                /\ touched' = TRUE
                /\ Changed(r)
        /\ UNCHANGED <<page, made>>

\* UpdateUser.  To change an account that is not there is no error.
Update(r) ==
    LET q == request[r]
        row == users[q.target]
    IN  /\ Is(r, "ready", "edit")
        /\ IF Exists(q.target) /\ q.to # q.target /\ Exists(q.to)
           THEN Answer(r, "failed") /\ UNCHANGED <<users, log, touched>>
           ELSE /\ users' = IF Exists(q.target)
                            THEN [users EXCEPT ![q.target] = NoUser,
                                               ![q.to] = [row EXCEPT !.admin = q.admin]]
                            ELSE users
                /\ log' = IF Exists(q.target) THEN Renamed(q.target, q.to) ELSE log
                /\ touched' = TRUE
                /\ Changed(r)
        /\ UNCHANGED <<page, made>>

\* DeleteUser, the same.
Delete(r) ==
    LET q == request[r]
    IN  /\ Is(r, "ready", "delete")
        /\ users' = [users EXCEPT ![q.target] = NoUser]
        /\ log' = Renamed(q.target, None)
        /\ touched' = TRUE
        /\ Changed(r)
        /\ UNCHANGED <<page, made>>

Entry(q) ==
    IF q.kind = "register"
    THEN [system |-> TRUE, name |-> None, actor |-> 0, stale |-> FALSE]
    ELSE [system |-> FALSE, name |-> q.as, actor |-> q.actor,
          stale |-> users[q.as].id # q.actor]

\* InsertAuditEntry.  The entry is lost when its name is no account's, or when another
\* has the same millisecond; the request succeeds all the same.
WriteEntry(r) ==
    LET q == request[r]
    IN  /\ q.pc = "changed"
        /\ \/ /\ q.as \in Registered \union {None}
              /\ Cardinality(log \union {Entry(q)}) <= MaxEntries
              /\ log' = log \union {Entry(q)}
           \/ UNCHANGED log
        /\ Answer(r, "done")
        /\ UNCHANGED <<users, page, made, touched>>

-----------------------------------------------------------------------------
(* The administrator's page.                                               *)

\* A row's menu: its user may be gone or renamed by now.
Open(modal, name) ==
    /\ page.modal = "none"
    /\ page' = [page EXCEPT !.modal = modal, !.user = name]
    /\ UNCHANGED <<users, log, request, made, touched>>

CloseModal(p) == [p EXCEPT !.modal = "none", !.user = None]

Cancel ==
    /\ page.modal # "none"
    /\ page' = CloseModal(page)
    /\ UNCHANGED <<users, log, request, made, touched>>

\* Refused with 401 when the account of the token is no administrator.
Ask(kind, to, admin) ==
    \E r \in Requests :
        /\ request[r] = Idle
        /\ request' = [request EXCEPT ![r] =
                         LET q == Asked(kind, Me, page.user, to, admin, TRUE)
                         IN  IF users[Me].admin THEN q ELSE [Idle EXCEPT !.pc = "failed", !.kind = kind, !.mine = TRUE]]

\* "Submit": disabled while it loads.  The form sends every field.
Submit(to, admin) ==
    /\ page.modal = "edit"
    /\ ~page.loading
    /\ Ask("edit", to, admin)
    /\ page' = [page EXCEPT !.loading = TRUE]
    /\ UNCHANGED <<users, log, made, touched>>

\* "Yes, delete user": enabled still while the request is under way.
Confirm ==
    /\ page.modal = "delete"
    /\ Ask("delete", page.user, FALSE)
    /\ UNCHANGED <<users, log, page, made, touched>>

\* Deviation: only success stops the spinner.
StopLoadingOnSuccess(q) == q.kind = "edit" /\ q.pc = "done"

\* setLoading(false) in then and in catch.
StopLoading(q) == q.kind = "edit"

\* Success closes whatever modal is open by now.
Receive(r) ==
    LET q == request[r]
        p == IF StopLoading(q) THEN [page EXCEPT !.loading = FALSE] ELSE page
    IN  /\ q.pc \in {"done", "failed"}
        /\ page' = IF q.pc = "done" /\ page.modal = q.kind THEN CloseModal(p) ELSE p
        /\ request' = [request EXCEPT ![r] = Idle]
        /\ UNCHANGED <<users, log, made, touched>>

\* The connection breaks: the page takes it for a failure and the handler goes on.
Disconnect(r) ==
    LET q == request[r]
    IN  /\ q.mine
        /\ q.pc \in {"ready", "changed"}
        /\ page' = IF StopLoading([q EXCEPT !.pc = "failed"])
                   THEN [page EXCEPT !.loading = FALSE] ELSE page
        /\ request' = [request EXCEPT ![r].mine = FALSE]
        /\ UNCHANGED <<users, log, made, touched>>

\* The user of an entry, as the audit log's page shows it.
ShownUser(e) == IF e.name # None THEN e.name ELSE IF e.system THEN "System" ELSE "Deleted User"

Leave ==
    /\ page' = Closed
    /\ request' = [r \in Requests |->
                     IF request[r].pc \in {"done", "failed"} THEN Idle
                     ELSE [request[r] EXCEPT !.mine = FALSE]]
    /\ UNCHANGED <<users, log, made, touched>>

-----------------------------------------------------------------------------

Init ==
    /\ users = [name \in Names |-> NoUser]
    /\ log = {}
    /\ request = [r \in Requests |-> Idle]
    /\ page = Closed
    /\ made = 0
    /\ touched = FALSE

Handle(r) == Insert(r) \/ Update(r) \/ Delete(r) \/ WriteEntry(r)

Next ==
    \/ \E r \in Requests :
        \/ \E name \in Names : Count(r, name)
        \/ \E name, target, to \in Names, kind \in {"edit", "delete"}, admin \in BOOLEAN :
              Admit(r, name, kind, target, to, admin)
        \/ Handle(r)
        \/ Receive(r)
        \/ Disconnect(r)
    \/ \E name \in Names : Open("edit", name) \/ Open("delete", name)
    \/ Cancel
    \/ \E to \in Names, admin \in BOOLEAN : Submit(to, admin)
    \/ Confirm
    \/ Leave

Spec == Init /\ [][Next]_vars

-----------------------------------------------------------------------------
(* Properties.                                                             *)

Gone(id) == \A name \in Registered : users[name].id # id

\* Whatever accounts are renamed, deleted and made anew under an old name, an entry of
\* the log stands under the present name of the account that made the change, and under
\* "Deleted User" once that account is gone.  The exception is an entry written after
\* the account had lost the name it was admitted with (getUsername): if another account
\* has that name by then, the entry is taken for the other's.
LogNamesActors ==
    \A e \in log :
        ~e.stale => CASE ShownUser(e) = "System" -> e.system
                      [] ShownUser(e) = "Deleted User" -> Gone(e.actor)
                      [] OTHER -> Exists(e.name) /\ users[e.name].id = e.actor

\* "The first registered user will be made an admin" (routes_api.go:173): until an
\* account is edited or deleted, the first account is one, and the others are those only
\* whose registration counted the users before the first was inserted.
FirstIsAdmin ==
    ~touched => \A name \in Registered :
        /\ users[name].admin <=> users[name].early
        /\ users[name].id = 1 => users[name].admin

\* The form is blocked only while an edit it sent goes on: refused, failed, cut off or
\* answered after the modal was closed and opened again, it ends in setLoading(false).
LoadingHasCause ==
    page.loading => \E r \in Requests : request[r].mine /\ request[r].kind = "edit"

=============================================================================
