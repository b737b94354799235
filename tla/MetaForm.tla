------------------------------ MODULE MetaForm ------------------------------
(***************************************************************************)
(* The form in which an administrator edits the metadata of a match: a     *)
(* download link and a date that stands in for the match's own.  Opened    *)
(* for a match, it asks the server for what is stored and fills itself     *)
(* with the answer when it comes, whatever it is open for by then; a save  *)
(* sends both fields, and the server stores both, or deletes the row when  *)
(* both are empty.                                                         *)
(*                                                                         *)
(* A link and a date are told apart by the match they were entered for, so *)
(* a match stands for the link, and for the date, that belongs to it.      *)
(***************************************************************************)
CONSTANTS
    Matches,
    Loads,      \* bound: requests for metadata under way at once
    Saves,      \* bound: requests to store under way at once
    None

ASSUME NoneAssumption ==
    None \notin Matches /\ Matches \intersect {"unset", "part", "zero"} = {}

VARIABLES
    meta,       \* table usermeta; a match without a row has no link and no date
    form,       \* the modal of the home page
    load,       \* GET /usermeta
    save,       \* PUT /usermeta
    crossed     \* history: an answer was put into a form that had not asked for it

vars == <<meta, form, load, save, crossed>>

Values == Matches \union {None}

Metas == [link: Values, date: Values]

NoMeta == [link |-> None, date |-> None]

\* dateOverride: not there, some of its five parts, 1970-01-01 (which stands for no
\* date), or all of a date.
Dates == {"unset", "part", "zero"} \union Matches

\* History: typed and dated, the field holds the user's input; filled, an answer, seen,
\* has been put into the form.
Forms ==
    [open: BOOLEAN, match: Values, link: Values, date: Dates, loadingMeta: BOOLEAN,
     loading: BOOLEAN, typed: BOOLEAN, dated: BOOLEAN, filled: BOOLEAN, seen: Metas]

Closed ==
    [open |-> FALSE, match |-> None, link |-> None, date |-> "unset", loadingMeta |-> FALSE,
     loading |-> FALSE, typed |-> FALSE, dated |-> FALSE, filled |-> FALSE, seen |-> NoMeta]

\* found: the answer; own: the opening that asked is the present one.
IdleLoad == [pc |-> "idle", match |-> None, found |-> NoMeta, own |-> FALSE]

LoadRecords ==
    [pc: {"idle", "sent", "stored", "nothing"}, match: Values, found: Metas, own: BOOLEAN]

\* what: the body; mine: the page waits for the answer.
IdleSave == [pc |-> "idle", match |-> None, what |-> NoMeta, mine |-> FALSE]

SaveRecords ==
    [pc: {"idle", "sent", "done", "failed"}, match: Values, what: Metas, mine: BOOLEAN]

TypeOK ==
    /\ meta \in [Matches -> Metas]
    /\ form \in Forms
    /\ load \in [Loads -> LoadRecords]
    /\ save \in [Saves -> SaveRecords]
    /\ crossed \in BOOLEAN

-----------------------------------------------------------------------------
(* The server.                                                             *)

\* GetUserMeta.  No row, and an error that is no 404, are both undefined to the form.
ServeLoad(r) ==
    LET found == meta[load[r].match]
    IN  /\ load[r].pc = "sent"
        /\ \/ found # NoMeta /\ load' = [load EXCEPT ![r].pc = "stored", ![r].found = found]
           \/ load' = [load EXCEPT ![r].pc = "nothing"]
        /\ UNCHANGED <<meta, form, save, crossed>>

\* The answer to a page that is gone, or has given up, is nobody's.
Answer(s, pc) ==
    save' = [save EXCEPT ![s] = IF @.mine THEN [IdleSave EXCEPT !.pc = pc, !.mine = TRUE]
                                ELSE IdleSave]

\* UpsertMatchMeta: both columns are written.
Stored(q) == [meta EXCEPT ![q.match] = q.what]

\* Or the row is refused, with the match gone or the user no more admitted.
ServeSave(s) ==
    /\ save[s].pc = "sent"
    /\ \/ meta' = Stored(save[s]) /\ Answer(s, "done")
       \/ UNCHANGED meta /\ Answer(s, "failed")
    /\ UNCHANGED <<form, load, crossed>>

OwnMetas(m) == [link: {None, m}, date: {None, m}]

\* Another administrator, or the match is deleted for good.
Elsewhere ==
    /\ \E m \in Matches : \E new \in OwnMetas(m) : meta' = [meta EXCEPT ![m] = new]
    /\ UNCHANGED <<form, load, save, crossed>>

-----------------------------------------------------------------------------
(* The form.                                                               *)

\* Deviation: the date of the last opening stays.
FreshKeepsDate(m) ==
    [Closed EXCEPT !.open = TRUE, !.match = m, !.loadingMeta = TRUE, !.date = form.date]

\* What the effect resets when the form is opened.
Fresh(m) == [Closed EXCEPT !.open = TRUE, !.match = m, !.loadingMeta = TRUE]

\* "Edit metadata" of a row.
Open(m, r) ==
    /\ ~form.open
    /\ load[r] = IdleLoad
    /\ form' = Fresh(m)
    /\ load' = [load EXCEPT ![r] = [IdleLoad EXCEPT !.pc = "sent", !.match = m, !.own = TRUE]]
    /\ UNCHANGED <<meta, save, crossed>>

\* Deviation: without a date nothing is filled in.
FilledByDate(f, q) ==
    LET g == [f EXCEPT !.loadingMeta = FALSE, !.filled = TRUE, !.seen = q.found]
    IN  IF q.found.date = None THEN g
        ELSE [g EXCEPT !.link = q.found.link, !.typed = FALSE,
                       !.date = q.found.date, !.dated = FALSE]

\* The answer of userMeta: the date stays as it is when nothing is stored.
Filled(f, q) ==
    LET g == [f EXCEPT !.link = q.found.link, !.typed = FALSE, !.loadingMeta = FALSE,
                       !.filled = TRUE, !.seen = q.found]
    IN  IF q.pc = "nothing" THEN g
        ELSE [g EXCEPT !.date = IF q.found.date = None THEN "zero" ELSE q.found.date,
                       !.dated = FALSE]

\* Of a form that is closed the fields are kept.
Shut(f) == [Closed EXCEPT !.link = f.link, !.date = f.date]

\* Nothing ties the answer to the opening that asked for it.
ReceiveLoad(r) ==
    /\ load[r].pc \in {"stored", "nothing"}
    /\ form' = IF form.open THEN Filled(form, load[r]) ELSE Shut(Filled(form, load[r]))
    /\ crossed' = (crossed \/ (form.open /\ ~load[r].own))
    /\ load' = [load EXCEPT ![r] = IdleLoad]
    /\ UNCHANGED <<meta, save>>

\* Caught by nobody: the field of the link stays disabled.
FailLoad(r) ==
    /\ load[r].pc # "idle"
    /\ load' = [load EXCEPT ![r] = IdleLoad]
    /\ UNCHANGED <<meta, form, save, crossed>>

TypeLink(link) ==
    /\ form.open
    /\ ~form.loadingMeta
    /\ link \in {None, form.match}
    /\ form' = [form EXCEPT !.link = link, !.typed = TRUE]
    /\ UNCHANGED <<meta, load, save, crossed>>

\* The five menus, which are enabled from the start: a date that is there is changed, a
\* new one is not there before all its parts are.
PickDate(date) ==
    /\ form.open
    /\ \/ date = form.match
       \/ date = "part" /\ form.date \in {"unset", "part"}
    /\ form' = [form EXCEPT !.date = date, !.dated = TRUE]
    /\ UNCHANGED <<meta, load, save, crossed>>

\* Deviation: parts of a date, and 1970, are sent like a date.
EncodedAsIs(date) == IF date = "unset" THEN None ELSE date

\* What is sent of a date: a number that is zero, or none at all, for what is no date.
Encoded(date) == IF date \in Matches THEN date ELSE None

\* The button, enabled although the form is still loading.
Submit(s) ==
    /\ form.open
    /\ ~form.loading
    /\ save[s] = IdleSave
    /\ save' = [save EXCEPT ![s] =
                  [pc |-> "sent", match |-> form.match, mine |-> TRUE,
                   what |-> [link |-> form.link, date |-> Encoded(form.date)]]]
    /\ form' = [form EXCEPT !.loading = TRUE]
    /\ UNCHANGED <<meta, load, crossed>>

\* onClose.
Close ==
    /\ form' = Shut(form)
    /\ load' = [r \in Loads |-> [load[r] EXCEPT !.own = FALSE]]

Cancel ==
    /\ form.open
    /\ Close
    /\ UNCHANGED <<meta, save, crossed>>

\* Success closes the form, whichever match it is open for by now.
ReceiveSave(s) ==
    /\ save[s].pc \in {"done", "failed"}
    /\ IF save[s].pc = "done" THEN Close
       ELSE form' = [form EXCEPT !.loading = FALSE] /\ UNCHANGED load
    /\ save' = [save EXCEPT ![s] = IdleSave]
    /\ UNCHANGED <<meta, crossed>>

\* The connection breaks; the server may store what was sent all the same.
FailSave(s) ==
    /\ save[s].mine
    /\ form' = [form EXCEPT !.loading = FALSE]
    /\ save' = [save EXCEPT ![s] = IF @.pc = "sent" THEN [@ EXCEPT !.mine = FALSE] ELSE IdleSave]
    /\ UNCHANGED <<meta, load, crossed>>

\* The home page is left: its requests may end, but no one sees the answers.
Leave ==
    /\ form' = Closed
    /\ load' = [r \in Loads |-> IdleLoad]
    /\ save' = [s \in Saves |-> IF save[s].pc = "sent" THEN [save[s] EXCEPT !.mine = FALSE]
                                ELSE IdleSave]
    /\ UNCHANGED <<meta, crossed>>

-----------------------------------------------------------------------------

Init ==
    /\ meta \in {f \in [Matches -> Metas] : \A m \in Matches : f[m] \in OwnMetas(m)}
    /\ form = Closed
    /\ load = [r \in Loads |-> IdleLoad]
    /\ save = [s \in Saves |-> IdleSave]
    /\ crossed = FALSE

Edit ==
    \/ \E m \in Matches, r \in Loads : Open(m, r)
    \/ \E link \in Values : TypeLink(link)
    \/ \E date \in Dates : PickDate(date)
    \/ \E s \in Saves : Submit(s)
    \/ Cancel
    \/ Leave

Next ==
    \/ Edit
    \/ \E r \in Loads : ServeLoad(r) \/ ReceiveLoad(r) \/ FailLoad(r)
    \/ \E s \in Saves : ServeSave(s) \/ ReceiveSave(s) \/ FailSave(s)
    \/ Elsewhere

Spec == Init /\ [][Next]_vars

-----------------------------------------------------------------------------
(* Properties.                                                             *)

\* A match has the link and the date that were entered for it, however often forms are
\* opened, filled, saved and closed over each other's requests, until a form is filled
\* with an answer that was asked for another match (UpdateMetaModal.tsx:115).
MetaIsTheMatchs == ~crossed => \A m \in Matches : meta[m] \in OwnMetas(m)

\* What is sent differs from what the server answered only in what was edited, be it
\* one of the two fields, and although a date that is not there comes as 1970 and goes as
\* zero; the server writes both columns, so the rest would be lost.  The exceptions:
\* sent before the answer came, and a form filled for another match.
Untouched(seen, sent) ==
    /\ form.typed \/ sent.link = seen.link
    /\ form.dated \/ sent.date = seen.date

EditKeepsTheRest ==
    [][\A s \in Saves :
         Submit(s) /\ form.filled /\ ~crossed => Untouched(form.seen, save'[s].what)]_vars

=============================================================================
