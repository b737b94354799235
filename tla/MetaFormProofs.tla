--------------------------- MODULE MetaFormProofs ---------------------------
(* Theorems about MetaForm, for any number of matches and requests.        *)
EXTENDS MetaForm, TLAPS

\* A request for metadata names its match, and has found nothing before it is served.
LoadsNamed ==
    \A r \in Loads :
        /\ load[r].pc # "idle" => load[r].match \in Matches
        /\ load[r].pc # "stored" => load[r].found = NoMeta

\* An open form holds what belongs to its match; what was not edited since an answer
\* filled it is what the answer said; and before that its date is not there.
FormCoherent ==
    form.open =>
        /\ form.match \in Matches
        /\ form.link \in {None, form.match}
        /\ form.date \in {"unset", "part", "zero", form.match}
        /\ form.filled => /\ form.typed \/ form.link = form.seen.link
                          /\ form.dated \/ Encoded(form.date) = form.seen.date
        /\ ~form.filled /\ ~form.dated => form.date = "unset"

\* One request at most belongs to the present opening, and it has not been answered.
LoadsCoherent ==
    /\ \A r \in Loads :
          /\ load[r].pc # "idle" => load[r].found \in OwnMetas(load[r].match)
          /\ load[r].own => form.open /\ ~form.filled /\ load[r].match = form.match
    /\ \A r, q \in Loads : load[r].own /\ load[q].own => r = q

SavesCoherent ==
    \A s \in Saves :
        save[s].pc = "sent" => /\ save[s].match \in Matches
                               /\ save[s].what \in OwnMetas(save[s].match)

Coherent ==
    /\ \A m \in Matches : meta[m] \in OwnMetas(m)
    /\ FormCoherent
    /\ LoadsCoherent
    /\ SavesCoherent

IInv == TypeOK /\ LoadsNamed /\ (~crossed => Coherent)

\* The types of what the handlers make of a form and of a body.
LEMMA ClosedTyped == Closed \in Forms
BY DEF Closed, Forms, Values, Dates, Metas, NoMeta

LEMMA FreshTyped == \A m \in Matches : Fresh(m) \in Forms
BY DEF Fresh, Closed, Forms, Values, Dates, Metas, NoMeta

LEMMA ShutTyped == \A f \in Forms : Shut(f) \in Forms
BY DEF Shut, Closed, Forms, Values, Dates, Metas, NoMeta

LEMMA FilledTyped ==
    ASSUME NEW f \in Forms, NEW q \in LoadRecords
    PROVE  Filled(f, q) \in Forms
<1>1. q.found \in Metas /\ q.found.link \in Values /\ q.found.date \in Values
  BY DEF LoadRecords, Metas
<1>2. (IF q.found.date = None THEN "zero" ELSE q.found.date) \in Dates
  BY <1>1 DEF Dates, Values
<1> QED
  BY <1>1, <1>2 DEF Filled, Forms, Values

LEMMA EncodedTyped == \A date : Encoded(date) \in Values
BY DEF Encoded, Values

LEMMA IdleTyped == IdleLoad \in LoadRecords /\ IdleSave \in SaveRecords /\ NoMeta \in Metas
BY DEF IdleLoad, IdleSave, NoMeta, LoadRecords, SaveRecords, Metas, Values

LEMMA InitStep == Init => IInv
<1> SUFFICES ASSUME Init PROVE IInv
  OBVIOUS
<1>1. \A m \in Matches : OwnMetas(m) \subseteq Metas
  BY DEF OwnMetas, Metas, Values
<1>2. TypeOK
  BY <1>1, ClosedTyped, IdleTyped DEF Init, TypeOK
<1>3. LoadsNamed
  BY DEF Init, LoadsNamed, IdleLoad
<1>4. Coherent
  BY DEF Init, Coherent, FormCoherent, LoadsCoherent, SavesCoherent, Closed, IdleLoad, IdleSave
<1> QED
  BY <1>2, <1>3, <1>4 DEF IInv

\* Every step keeps the types and the names of the loads.
LEMMA TypeStep ==
    ASSUME TypeOK, LoadsNamed, [Next]_vars
    PROVE  TypeOK' /\ LoadsNamed'
<1> USE DEF TypeOK, LoadsNamed
<1>1. ASSUME NEW m \in Matches, NEW r \in Loads, Open(m, r) PROVE TypeOK' /\ LoadsNamed'
  BY <1>1, FreshTyped, IdleTyped DEF Open, IdleLoad, LoadRecords, Values
<1>2. ASSUME NEW link \in Values, TypeLink(link) PROVE TypeOK' /\ LoadsNamed'
  BY <1>2 DEF TypeLink, Forms
<1>3. ASSUME NEW date \in Dates, PickDate(date) PROVE TypeOK' /\ LoadsNamed'
  BY <1>3 DEF PickDate, Forms
<1>4. ASSUME NEW s \in Saves, Submit(s) PROVE TypeOK' /\ LoadsNamed'
  BY <1>4, EncodedTyped DEF Submit, Forms, SaveRecords, Metas
<1>5. ASSUME Close PROVE /\ form' \in Forms
                        /\ load' \in [Loads -> LoadRecords]
                        /\ LoadsNamed'
  BY <1>5, ShutTyped DEF Close, LoadRecords
<1>6. CASE Cancel
  BY <1>5, <1>6 DEF Cancel
<1>7. CASE Leave
  BY <1>7, ClosedTyped, IdleTyped DEF Leave, IdleLoad, SaveRecords
<1>8. ASSUME NEW r \in Loads, ServeLoad(r) PROVE TypeOK' /\ LoadsNamed'
  BY <1>8 DEF ServeLoad, LoadRecords
<1>9. ASSUME NEW r \in Loads, ReceiveLoad(r) PROVE TypeOK' /\ LoadsNamed'
  <2>1. Filled(form, load[r]) \in Forms /\ Shut(Filled(form, load[r])) \in Forms
    BY FilledTyped, ShutTyped
  <2> QED
    BY <1>9, <2>1, IdleTyped DEF ReceiveLoad, IdleLoad
<1>10. ASSUME NEW r \in Loads, FailLoad(r) PROVE TypeOK' /\ LoadsNamed'
  BY <1>10, IdleTyped DEF FailLoad, IdleLoad
<1>11. ASSUME NEW s \in Saves, NEW pc \in {"done", "failed"}, Answer(s, pc)
       PROVE  save' \in [Saves -> SaveRecords]
  BY <1>11, IdleTyped DEF Answer, IdleSave, SaveRecords
<1>12. ASSUME NEW s \in Saves, ServeSave(s) PROVE TypeOK' /\ LoadsNamed'
  <2>1. Stored(save[s]) \in [Matches -> Metas]
    BY DEF Stored, SaveRecords
  <2> QED
    BY <1>11, <1>12, <2>1 DEF ServeSave
<1>13. ASSUME NEW s \in Saves, ReceiveSave(s) PROVE TypeOK' /\ LoadsNamed'
  <2>1. [form EXCEPT !.loading = FALSE] \in Forms
    BY DEF Forms
  <2> QED
    BY <1>5, <1>13, <2>1, IdleTyped DEF ReceiveSave
<1>14. ASSUME NEW s \in Saves, FailSave(s) PROVE TypeOK' /\ LoadsNamed'
  BY <1>14, IdleTyped DEF FailSave, Forms, SaveRecords
<1>15. CASE Elsewhere
  BY <1>15 DEF Elsewhere, OwnMetas, Metas, Values
<1>16. CASE UNCHANGED vars
  BY <1>16 DEF vars
<1> QED
  BY <1>1, <1>2, <1>3, <1>4, <1>6, <1>7, <1>8, <1>9, <1>10, <1>12, <1>13, <1>14, <1>15, <1>16
     DEF Next, Edit

\* Closing ends what the present opening asked for.
LEMMA CloseStep ==
    ASSUME IInv, ~crossed, Close
    PROVE  FormCoherent' /\ LoadsCoherent'
BY DEF IInv, TypeOK, Coherent, LoadsCoherent, FormCoherent, Close, Shut, Closed, LoadRecords

LEMMA OpenStep ==
    ASSUME IInv, ~crossed, NEW m \in Matches, NEW r \in Loads, Open(m, r)
    PROVE  Coherent'
<1>1. FormCoherent'
  BY DEF Open, Fresh, Closed, FormCoherent
<1>2. \A q \in Loads : ~load[q].own
  BY DEF Open, IInv, Coherent, LoadsCoherent
<1>3. LoadsCoherent'
  BY <1>2 DEF Open, Fresh, Closed, IInv, TypeOK, Coherent, LoadsCoherent, IdleLoad, NoMeta, OwnMetas
<1>4. SavesCoherent'
  BY DEF Open, IInv, Coherent, SavesCoherent
<1> QED
  BY <1>1, <1>3, <1>4 DEF Open, IInv, Coherent

\* The answer that fills an open form is that of its own opening, the first one.
LEMMA ReceiveLoadStep ==
    ASSUME IInv, ~crossed', NEW r \in Loads, ReceiveLoad(r)
    PROVE  Coherent'
<1>1. ~crossed /\ Coherent /\ (form.open => load[r].own)
  BY DEF ReceiveLoad, IInv
<1>2. load[r].found \in OwnMetas(load[r].match)
  BY <1>1 DEF ReceiveLoad, Coherent, LoadsCoherent
<1>3. FormCoherent'
  <2>1. CASE form.open
    <3>1. /\ ~form.filled /\ load[r].match = form.match
          /\ form.match \in Matches
          /\ load[r].found.link \in {None, form.match}
          /\ load[r].found.date \in {None, form.match}
      BY <1>1, <1>2, <2>1 DEF Coherent, LoadsCoherent, FormCoherent, OwnMetas
    <3>2. form' = Filled(form, load[r]) /\ form \in Forms
      BY <2>1 DEF ReceiveLoad, IInv, TypeOK
    <3>3. CASE load[r].pc = "nothing"
      <4>1. load[r].found = NoMeta
        BY <3>3 DEF IInv, LoadsNamed
      <4>2. ~form.dated => Encoded(form.date) = None
        BY <1>1, <2>1, <3>1, NoneAssumption DEF Coherent, FormCoherent, Encoded
      <4>3. form' = [form EXCEPT !.link = None, !.typed = FALSE, !.loadingMeta = FALSE,
                                 !.filled = TRUE, !.seen = NoMeta]
        BY <3>2, <3>3, <4>1 DEF Filled, NoMeta
      <4> QED
        BY <1>1, <2>1, <3>1, <3>2, <4>2, <4>3 DEF Coherent, FormCoherent, Forms, NoMeta, Encoded
    <3>4. CASE load[r].pc # "nothing"
      <4>1. PICK date : date = IF load[r].found.date = None THEN "zero" ELSE load[r].found.date
        OBVIOUS
      <4>2. date \in {"zero", form.match} /\ Encoded(date) = load[r].found.date
        BY <3>1, <4>1, NoneAssumption DEF Encoded
      <4>3. form' = [form EXCEPT !.link = load[r].found.link, !.typed = FALSE, !.loadingMeta = FALSE,
                                 !.filled = TRUE, !.seen = load[r].found,
                                 !.date = date, !.dated = FALSE]
        BY <3>2, <3>4, <4>1 DEF Filled
      <4> QED
        BY <2>1, <3>1, <3>2, <4>2, <4>3 DEF FormCoherent, Forms, Encoded
    <3> QED
      BY <3>3, <3>4
  <2>2. CASE ~form.open
    BY <2>2 DEF ReceiveLoad, Shut, Closed, FormCoherent
  <2> QED
    BY <2>1, <2>2
<1>4. LoadsCoherent'
  <2>1. \A q \in Loads : load'[q] = IF q = r THEN IdleLoad ELSE load[q]
    BY DEF ReceiveLoad, IInv, TypeOK
  <2>2. ~IdleLoad.own /\ IdleLoad.pc = "idle"
    BY DEF IdleLoad
  <2>3. \A q \in Loads : load'[q].own => q # r /\ load[q].own
    BY <2>1, <2>2
  <2>4. \A q \in Loads : ~load'[q].own
    <3>1. form.open => load[r].own
      BY <1>1
    <3> QED
      BY <1>1, <2>3, <3>1 DEF Coherent, LoadsCoherent
  <2> QED
    BY <1>1, <2>1, <2>2, <2>4 DEF Coherent, LoadsCoherent
<1> QED
  BY <1>1, <1>3, <1>4 DEF ReceiveLoad, Coherent, SavesCoherent

LEMMA SubmitStep ==
    ASSUME IInv, ~crossed, NEW s \in Saves, Submit(s)
    PROVE  Coherent'
<1>1. form \in Forms /\ form' = [form EXCEPT !.loading = TRUE]
  BY DEF Submit, IInv, TypeOK
<1>2. Encoded(form.date) \in {None, form.match}
  BY NoneAssumption DEF Submit, IInv, Coherent, FormCoherent, Encoded
<1>3. FormCoherent'
  BY <1>1 DEF IInv, Coherent, FormCoherent, Forms, Encoded
<1>4. LoadsCoherent'
  BY <1>1 DEF Submit, IInv, Coherent, LoadsCoherent, Forms
<1>5. SavesCoherent'
  BY <1>2 DEF Submit, IInv, TypeOK, Coherent, FormCoherent, SavesCoherent, OwnMetas
<1> QED
  BY <1>3, <1>4, <1>5 DEF Submit, IInv, Coherent

\* Requests to store come to an end, or go on without their page, as they are.
LEMMA SavesShrink ==
    ASSUME IInv, ~crossed, save' \in [Saves -> SaveRecords],
           \A s \in Saves : save'[s].pc = "sent" => /\ save[s].pc = "sent"
                                                   /\ save'[s].match = save[s].match
                                                   /\ save'[s].what = save[s].what
    PROVE  SavesCoherent'
BY DEF IInv, Coherent, SavesCoherent, OwnMetas

LEMMA AnswerShrinks ==
    ASSUME TypeOK, NEW s \in Saves, NEW pc \in {"done", "failed"}, Answer(s, pc)
    PROVE  \A q \in Saves : save'[q].pc = "sent" => save'[q] = save[q] /\ q # s
BY DEF Answer, TypeOK, IdleSave

LEMMA Step == IInv /\ [Next]_vars => IInv'
<1> SUFFICES ASSUME IInv, [Next]_vars, ~crossed' PROVE Coherent'
  BY TypeStep DEF IInv
<1>1. TypeOK /\ TypeOK'
  BY TypeStep DEF IInv
<1>2. ~crossed
  BY DEF Next, Edit, Open, TypeLink, PickDate, Submit, Cancel, Leave, ServeLoad, ReceiveLoad, FailLoad,
         ServeSave, ReceiveSave, FailSave, Elsewhere, vars
<1>3. Coherent
  BY <1>2 DEF IInv
<1>4. ASSUME NEW m \in Matches, NEW r \in Loads, Open(m, r) PROVE Coherent'
  BY <1>2, <1>4, OpenStep
<1>5. ASSUME NEW link \in Values, TypeLink(link) PROVE Coherent'
  BY <1>1, <1>3, <1>5
     DEF TypeLink, Coherent, FormCoherent, LoadsCoherent, SavesCoherent, TypeOK, Forms, Encoded
<1>6. ASSUME NEW date \in Dates, PickDate(date) PROVE Coherent'
  BY <1>1, <1>3, <1>6
     DEF PickDate, Coherent, FormCoherent, LoadsCoherent, SavesCoherent, TypeOK, Forms, Encoded
<1>7. ASSUME NEW s \in Saves, Submit(s) PROVE Coherent'
  BY <1>2, <1>7, SubmitStep
<1>8. CASE Cancel
  BY <1>2, <1>3, <1>8, CloseStep DEF Cancel, Coherent, SavesCoherent
<1>9. CASE Leave
  <2>1. FormCoherent' /\ LoadsCoherent'
    BY <1>9 DEF Leave, Closed, FormCoherent, LoadsCoherent, IdleLoad
  <2>2. SavesCoherent'
    BY <1>1, <1>2, <1>9, SavesShrink DEF Leave, IdleSave, SaveRecords, TypeOK
  <2> QED
    BY <1>3, <1>9, <2>1, <2>2 DEF Leave, Coherent
<1>10. ASSUME NEW r \in Loads, ServeLoad(r) PROVE Coherent'
  <2>1. load[r].match \in Matches /\ meta[load[r].match] \in OwnMetas(load[r].match)
    BY <1>3, <1>10 DEF ServeLoad, IInv, LoadsNamed, Coherent
  <2>2. LoadsCoherent'
    BY <1>1, <1>3, <1>10, <2>1 DEF ServeLoad, Coherent, LoadsCoherent, TypeOK, LoadRecords
  <2> QED
    BY <1>3, <1>10, <2>2 DEF ServeLoad, Coherent, FormCoherent, SavesCoherent
<1>11. ASSUME NEW r \in Loads, ReceiveLoad(r) PROVE Coherent'
  BY <1>11, ReceiveLoadStep
<1>12. ASSUME NEW r \in Loads, FailLoad(r) PROVE Coherent'
  BY <1>1, <1>3, <1>12
     DEF FailLoad, Coherent, FormCoherent, LoadsCoherent, SavesCoherent, TypeOK, IdleLoad
<1>13. ASSUME NEW s \in Saves, ServeSave(s) PROVE Coherent'
  <2>1. /\ save[s].match \in Matches
        /\ save[s].what \in OwnMetas(save[s].match)
    BY <1>3, <1>13 DEF ServeSave, Coherent, SavesCoherent
  <2>2. \A m \in Matches : meta'[m] \in OwnMetas(m)
    BY <1>1, <1>3, <1>13, <2>1 DEF ServeSave, Stored, Coherent, TypeOK
  <2>3. PICK pc \in {"done", "failed"} : Answer(s, pc)
    BY <1>13 DEF ServeSave
  <2>4. SavesCoherent'
    BY <1>1, <1>2, <2>3, SavesShrink, AnswerShrinks DEF TypeOK
  <2> QED
    BY <1>3, <1>13, <2>2, <2>4 DEF ServeSave, Coherent, FormCoherent, LoadsCoherent
<1>14. ASSUME NEW s \in Saves, ReceiveSave(s) PROVE Coherent'
  <2>1. SavesCoherent'
    BY <1>1, <1>2, <1>14, SavesShrink DEF ReceiveSave, IdleSave, TypeOK
  <2>2. FormCoherent' /\ LoadsCoherent'
    <3>1. CASE Close
      BY <1>2, <3>1, CloseStep
    <3>2. CASE form' = [form EXCEPT !.loading = FALSE] /\ UNCHANGED load
      BY <1>1, <1>3, <3>2 DEF Coherent, FormCoherent, LoadsCoherent, TypeOK, Forms, Encoded
    <3> QED
      BY <1>14, <3>1, <3>2 DEF ReceiveSave
  <2> QED
    BY <1>3, <1>14, <2>1, <2>2 DEF ReceiveSave, Coherent
<1>15. ASSUME NEW s \in Saves, FailSave(s) PROVE Coherent'
  <2>1. SavesCoherent'
    BY <1>1, <1>2, <1>15, SavesShrink DEF FailSave, IdleSave, TypeOK, SaveRecords
  <2> QED
    BY <1>1, <1>3, <1>15, <2>1 DEF FailSave, Coherent, FormCoherent, LoadsCoherent, TypeOK, Forms, Encoded
<1>16. CASE Elsewhere
  <2>1. \A m \in Matches : meta'[m] \in OwnMetas(m)
    BY <1>1, <1>3, <1>16 DEF Elsewhere, Coherent, TypeOK
  <2> QED
    BY <1>3, <1>16, <2>1 DEF Elsewhere, Coherent, FormCoherent, LoadsCoherent, SavesCoherent
<1>17. CASE UNCHANGED vars
  BY <1>3, <1>17 DEF vars, Coherent, FormCoherent, LoadsCoherent, SavesCoherent
<1> QED
  BY <1>4, <1>5, <1>6, <1>7, <1>8, <1>9, <1>10, <1>11, <1>12, <1>13, <1>14, <1>15, <1>16, <1>17
     DEF Next, Edit

LEMMA Invariance == Spec => []IInv
BY InitStep, Step, PTL DEF Spec

\* Every value has its type, for any number of matches and requests.
THEOREM FormTypeCorrect == Spec => []TypeOK
BY Invariance, PTL DEF IInv

\* Links and dates stay with the match they were entered for, for any number of matches
\* and requests, until an answer fills a form that had not asked for it.
THEOREM MetadataStaysApart == Spec => []MetaIsTheMatchs
<1>1. IInv => MetaIsTheMatchs
  BY DEF IInv, Coherent, MetaIsTheMatchs
<1> QED
  BY <1>1, Invariance, PTL

\* A save changes nothing but what was edited since an answer filled the form.
THEOREM SavesWhatWasEdited == Spec => EditKeepsTheRest
<1>1. ASSUME IInv, NEW s \in Saves, Submit(s), form.filled, ~crossed
      PROVE  Untouched(form.seen, save'[s].what)
  <2>1. save'[s].what = [link |-> form.link, date |-> Encoded(form.date)]
    BY <1>1 DEF IInv, TypeOK, Submit
  <2> QED
    BY <1>1, <2>1 DEF IInv, Coherent, FormCoherent, Submit, Untouched
<1>2. IInv /\ [Next]_vars =>
        [\A s \in Saves :
            Submit(s) /\ form.filled /\ ~crossed => Untouched(form.seen, save'[s].what)]_vars
  BY <1>1
<1> QED
  BY <1>2, Invariance, PTL DEF Spec, EditKeepsTheRest

=============================================================================
