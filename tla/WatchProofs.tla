---------------------------- MODULE WatchProofs ----------------------------
(* Theorems about Watch, for any set of demos, any delay and channels of any *)
(* capacity.                                                                *)
EXTENDS Watch, SequenceTheorems, TLAPS

IInv == TypeOK /\ NoWaiterLeft /\ ReportsAreDue

\* What the loop and the goroutines share.
Waiting ==
    /\ DOMAIN timers \subseteq Paths
    /\ timers \in [DOMAIN timers -> Timers]
    /\ waiter \in [Paths -> {"none", "wait", "send", "delete"}]
    /\ unreported \subseteq Paths
    /\ NoWaiterLeft
    /\ ReportsAreDue

\* What is sent and received.
Queues ==
    /\ files \subseteq Paths
    /\ events \in Seq(Events) /\ Len(events) <= MaxEvents
    /\ prev \in Paths \union {NoPath}
    /\ fileCreated \in Seq(Paths) /\ Len(fileCreated) <= Buffer
    /\ fileRenamed \in Seq([old: Paths, new: Paths]) /\ Len(fileRenamed) <= Buffer

LEMMA Parts == (IInv <=> Waiting /\ Queues) /\ (IInv' <=> Waiting' /\ Queues')
BY DEF IInv, Waiting, Queues, TypeOK

LEMMA InitStep == Init => IInv
<1> SUFFICES ASSUME Init PROVE IInv
  OBVIOUS
<1>1. DOMAIN timers = {}
  BY DEF Init
<1>2. Queues
  BY WatchAssumption DEF Init, Queues
<1>3. Waiting
  BY <1>1 DEF Init, Waiting, NoWaiterLeft, ReportsAreDue
<1> QED
  BY <1>2, <1>3, Parts

\* A queue that is taken from, or added to where there is room.
LEMMA Taken ==
    ASSUME NEW S, NEW s \in Seq(S), s # <<>>, NEW N \in Nat, Len(s) <= N
    PROVE  Head(s) \in S /\ Tail(s) \in Seq(S) /\ Len(Tail(s)) <= N
BY HeadTailProperties

LEMMA Added ==
    ASSUME NEW S, NEW s \in Seq(S), NEW e \in S, NEW N \in Nat, Len(s) < N
    PROVE  Append(s, e) \in Seq(S) /\ Len(Append(s, e)) <= N
BY AppendProperties

LEMMA FolderStep ==
    ASSUME IInv, ChangeFolder
    PROVE  IInv'
<1>1. UNCHANGED <<prev, timers, waiter, fileCreated, fileRenamed, unreported>>
  BY DEF ChangeFolder, Appear, WriteTo, Remove, MoveOut, Rename, KeepWatcher
<1>2. Waiting'
  BY <1>1, Parts DEF Waiting, NoWaiterLeft, ReportsAreDue
<1>3. ASSUME NEW es \in Seq(Events), Notify(es)
      PROVE  events' \in Seq(Events) /\ Len(events') <= MaxEvents
  BY <1>3, Parts, ConcatProperties DEF Notify, Queues
<1>4. \A op \in Ops, p \in Paths : <<Event(op, p)>> \in Seq(Events)
  BY DEF Event, Events
<1>5. \A p, q \in Paths : <<Event("rename", p), Event("arrival", q)>> \in Seq(Events)
  BY DEF Event, Events, Ops
<1>6. \E es \in Seq(Events) : Notify(es)
  BY <1>4, <1>5 DEF ChangeFolder, Appear, WriteTo, Remove, MoveOut, Rename, Ops
<1>7. files' \subseteq Paths
  BY Parts DEF Queues, ChangeFolder, Appear, WriteTo, Remove, MoveOut, Rename
<1>8. Queues'
  BY <1>1, <1>3, <1>6, <1>7, Parts DEF Queues
<1> QED
  BY <1>2, <1>8, Parts

LEMMA FreshTyped == FreshTimer \in Timers /\ FreshTimer.armed
BY WatchAssumption DEF FreshTimer, Timers

LEMMA ResetTyped ==
    ASSUME NEW t \in Timers
    PROVE  ResetTimer(t) \in Timers /\ ResetTimer(t).armed
<1>1. Delay \in 0..Delay
  BY WatchAssumption
<1> QED
  BY <1>1 DEF ResetTimer, Timers

LEMMA TickTyped ==
    ASSUME NEW t \in Timers
    PROVE  /\ AfterTick(t) \in Timers
           /\ t.armed \/ t.tick => AfterTick(t).armed \/ AfterTick(t).tick
<1>1. CASE ~t.armed
  BY <1>1 DEF AfterTick
<1>2. CASE t.armed /\ t.left > 1
  <2>1. t.left - 1 \in 0..Delay
    BY <1>2, WatchAssumption DEF Timers
  <2>2. AfterTick(t) = [t EXCEPT !.left = t.left - 1]
    BY <1>2 DEF AfterTick
  <2> QED
    BY <1>2, <2>1, <2>2 DEF Timers
<1>3. CASE t.armed /\ ~(t.left > 1)
  <2>1. AfterTick(t) = [left |-> 0, armed |-> FALSE, tick |-> TRUE]
    BY <1>3 DEF AfterTick
  <2>2. 0 \in 0..Delay
    BY WatchAssumption
  <2> QED
    BY <2>1, <2>2 DEF Timers
<1> QED
  BY <1>1, <1>2, <1>3 DEF Timers

LEMMA LoopStep ==
    ASSUME IInv, Loop
    PROVE  IInv'
<1>1. /\ events # <<>> /\ events' = Tail(events)
      /\ files' = files /\ fileCreated' = fileCreated
  BY DEF Loop, IgnoreEvent, TakeDeparture, TakeRename, TakeArrival
<1>2. Head(events) \in Events /\ events' \in Seq(Events) /\ Len(events') <= MaxEvents
  BY <1>1, Parts, Taken, WatchAssumption DEF Queues
<1>3. Head(events).path \in Paths
  BY <1>2 DEF Events
<1>4. prev' \in Paths \union {NoPath}
  BY <1>3, Parts DEF Loop, IgnoreEvent, TakeDeparture, TakeRename, TakeArrival, Queues
<1>5. fileRenamed' \in Seq([old: Paths, new: Paths]) /\ Len(fileRenamed') <= Buffer
  <2>1. CASE TakeRename
    <3>1. prev \in Paths
      BY <2>1, Parts DEF TakeRename, Queues
    <3>2. [old |-> prev, new |-> Head(events).path] \in [old: Paths, new: Paths]
      BY <1>3, <3>1
    <3>3. fileRenamed' = Append(fileRenamed, [old |-> prev, new |-> Head(events).path])
          /\ Len(fileRenamed) < Buffer
      BY <2>1 DEF TakeRename
    <3> QED
      BY <3>2, <3>3, Parts, Added, WatchAssumption DEF Queues
  <2>2. CASE ~TakeRename
    <3>1. fileRenamed' = fileRenamed
      BY <2>2 DEF Loop, IgnoreEvent, TakeDeparture, TakeArrival
    <3> QED
      BY <3>1, Parts DEF Queues
  <2> QED
    BY <2>1, <2>2
<1>6. Queues'
  BY <1>1, <1>2, <1>4, <1>5, Parts DEF Queues
<1>7. Waiting'
  <2>1. CASE ~TakeArrival
    <3>1. UNCHANGED <<timers, waiter, unreported>>
      BY <2>1 DEF Loop, IgnoreEvent, TakeDeparture, TakeRename
    <3> QED
      BY <3>1, Parts DEF Waiting, NoWaiterLeft, ReportsAreDue
  <2>2. CASE TakeArrival
    <3> DEFINE p == Head(events).path
    <3>1. unreported' = unreported \union {p}
      BY <2>2 DEF TakeArrival
    <3>2. CASE p \in DOMAIN timers
      <4>1. timers' = [timers EXCEPT ![p] = ResetTimer(@)] /\ waiter' = waiter
        BY <2>2, <3>2 DEF TakeArrival
      <4>2. ResetTimer(timers[p]) \in Timers /\ ResetTimer(timers[p]).armed
        BY <3>2, Parts, ResetTyped DEF Waiting
      <4>3. DOMAIN timers' = DOMAIN timers /\ timers' \in [DOMAIN timers' -> Timers]
        BY <4>1, <4>2, Parts DEF Waiting
      <4>4. timers'[p].armed /\ \A q \in DOMAIN timers : q # p => timers'[q] = timers[q]
        BY <3>2, <4>1, <4>2
      <4> QED
        BY <1>3, <3>1, <4>1, <4>3, <4>4, Parts DEF Waiting, NoWaiterLeft, ReportsAreDue
    <3>3. CASE p \notin DOMAIN timers
      <4>1. timers' = [q \in DOMAIN timers \union {p} |-> IF q = p THEN FreshTimer ELSE timers[q]]
            /\ waiter' = [waiter EXCEPT ![p] = "wait"]
        BY <2>2, <3>3 DEF TakeArrival
      <4>2. DOMAIN timers' = DOMAIN timers \union {p} /\ timers' \in [DOMAIN timers' -> Timers]
        BY <4>1, Parts, FreshTyped DEF Waiting
      <4>3. timers'[p].armed /\ \A q \in DOMAIN timers : q # p => timers'[q] = timers[q]
        BY <4>1, FreshTyped
      <4>4. \A q \in Paths : waiter'[q] = IF q = p THEN "wait" ELSE waiter[q]
        BY <4>1, Parts DEF Waiting
      <4>5. waiter' \in [Paths -> {"none", "wait", "send", "delete"}]
        BY <4>1, Parts DEF Waiting
      <4>6. NoWaiterLeft'
        BY <1>3, <4>2, <4>3, <4>4, Parts DEF Waiting, NoWaiterLeft
      <4>7. ReportsAreDue'
        BY <1>3, <3>1, <4>4, Parts DEF Waiting, ReportsAreDue
      <4> QED
        BY <1>3, <3>1, <4>2, <4>5, <4>6, <4>7, Parts DEF Waiting
    <3> QED
      BY <3>2, <3>3
  <2> QED
    BY <2>1, <2>2
<1> QED
  BY <1>6, <1>7, Parts

LEMMA ReportStep ==
    ASSUME IInv, NEW p \in Paths, Report(p)
    PROVE  IInv'
<1>1. /\ UNCHANGED <<files, events, prev, fileRenamed>>
      /\ \A q \in Paths : q # p => waiter'[q] = waiter[q]
      /\ waiter' \in [Paths -> {"none", "wait", "send", "delete"}]
  BY Parts DEF Report, Receive, Send, Delete, Waiting
<1>2. CASE Receive(p)
  <2>1. p \in DOMAIN timers
    BY <1>2, Parts DEF Receive, Waiting, NoWaiterLeft
  <2>2. timers[p] \in Timers /\ [timers[p] EXCEPT !.tick = FALSE] \in Timers
    BY <2>1, Parts DEF Waiting, Timers
  <2>3. DOMAIN timers' = DOMAIN timers /\ timers' \in [DOMAIN timers' -> Timers]
    BY <1>2, <2>2, Parts DEF Receive, Waiting
  <2>4. waiter'[p] = "send" /\ waiter[p] = "wait" /\ \A q \in DOMAIN timers : q # p => timers'[q] = timers[q]
    BY <1>2, Parts DEF Receive, Waiting
  <2>5. Waiting'
    BY <1>1, <1>2, <2>1, <2>3, <2>4, Parts DEF Receive, Waiting, NoWaiterLeft, ReportsAreDue
  <2> QED
    BY <1>1, <1>2, <2>5, Parts DEF Receive, Queues
<1>3. CASE Send(p)
  <2>1. fileCreated' \in Seq(Paths) /\ Len(fileCreated') <= Buffer
    BY <1>3, Parts, Added, WatchAssumption DEF Send, Queues
  <2>2. waiter'[p] = "delete" /\ waiter[p] = "send" /\ timers' = timers
    BY <1>3, Parts DEF Send, Waiting
  <2>3. Waiting'
    BY <1>1, <1>3, <2>2, Parts DEF Send, Waiting, NoWaiterLeft, ReportsAreDue
  <2> QED
    BY <1>1, <2>1, <2>3, Parts DEF Queues
<1>4. CASE Delete(p)
  <2>1. timers' = [q \in DOMAIN timers \ {p} |-> timers[q]]
    BY <1>4 DEF Delete, Forget
  <2>2. DOMAIN timers' = DOMAIN timers \ {p} /\ timers' \in [DOMAIN timers' -> Timers]
    BY <2>1, Parts DEF Waiting
  <2>3. waiter'[p] = "none" /\ \A q \in DOMAIN timers' : timers'[q] = timers[q]
    BY <1>4, <2>1, Parts DEF Delete, Waiting
  <2>4. Waiting'
    BY <1>1, <1>4, <2>2, <2>3, Parts DEF Delete, Waiting, NoWaiterLeft, ReportsAreDue
  <2> QED
    BY <1>1, <1>4, <2>4, Parts DEF Delete, Queues
<1> QED
  BY <1>2, <1>3, <1>4 DEF Report

LEMMA TickStep ==
    ASSUME IInv, Tick
    PROVE  IInv'
<1>1. DOMAIN timers' = DOMAIN timers /\ timers' \in [DOMAIN timers' -> Timers]
  BY Parts, TickTyped DEF Tick, Waiting
<1>2. \A p \in DOMAIN timers : timers[p].armed \/ timers[p].tick => timers'[p].armed \/ timers'[p].tick
  BY Parts, TickTyped DEF Tick, Waiting
<1>3. Waiting'
  BY <1>1, <1>2, Parts DEF Tick, Waiting, NoWaiterLeft, ReportsAreDue
<1> QED
  BY <1>3, Parts DEF Tick, Queues

LEMMA ConsumeStep ==
    ASSUME IInv, Consume
    PROVE  IInv'
<1>1. UNCHANGED <<files, events, prev, timers, waiter, unreported>>
  BY DEF Consume, TakeCreated, TakeRenamed
<1>2. Waiting'
  BY <1>1, Parts DEF Waiting, NoWaiterLeft, ReportsAreDue
<1>3. CASE TakeCreated
  BY <1>1, <1>2, <1>3, Parts, Taken, WatchAssumption DEF TakeCreated, Queues
<1>4. CASE TakeRenamed
  BY <1>1, <1>2, <1>4, Parts, Taken, WatchAssumption DEF TakeRenamed, Queues
<1> QED
  BY <1>3, <1>4 DEF Consume

LEMMA IInvNext == IInv /\ [Next]_vars => IInv'
<1>1. ASSUME IInv, UNCHANGED vars
      PROVE  IInv'
  BY <1>1 DEF vars, IInv, TypeOK, NoWaiterLeft, ReportsAreDue
<1> QED
  BY <1>1, FolderStep, LoopStep, ReportStep, TickStep, ConsumeStep DEF Next

LEMMA Invariance == Spec => []IInv
BY InitStep, IInvNext, PTL DEF Spec

\* The channels never hold more than their capacity, whatever it is, and the map of
\* timers has entries of demos alone.
THEOREM WatcherTypeCorrect == Spec => []TypeOK
<1>1. IInv => TypeOK
  BY DEF IInv
<1> QED
  BY <1>1, Invariance, PTL

\* However many demos are written at once, and however the loop puts their timers off,
\* a goroutine has its entry in the map and a tick to wait for (watch.go:67-76).
THEOREM WaitersHaveTimers == Spec => []NoWaiterLeft
<1>1. IInv => NoWaiterLeft
  BY DEF IInv
<1> QED
  BY <1>1, Invariance, PTL

\* For channels of any capacity, no demo is reported without an event that an earlier
\* report has not followed (watch.go:67-75).
THEOREM ReportsFollowEvents == Spec => []ReportsAreDue
<1>1. IInv => ReportsAreDue
  BY DEF IInv
<1> QED
  BY <1>1, Invariance, PTL

-----------------------------------------------------------------------------
(* No event is overlooked.                                                 *)

\* A goroutine of the demo has its report still to send.
Due(p) == waiter[p] \in {"wait", "send"}

\* An event of a demo is followed by a report of it, but for one case: it comes after its
\* goroutine has sent a report and before that deletes the entry, whose timer is then
\* reset for nobody (watch.go:71-76). Whatever else the loop and the clock do meanwhile,
\* the report that is due stays due until it is in the channel.
EventsLeadToReports ==
    [][\A p \in Paths :
          /\ TakeArrival /\ Head(events).path = p => Due(p)' \/ waiter[p] = "delete"
          /\ Due(p) => Due(p)' \/ fileCreated' = Append(fileCreated, p)]_vars

LEMMA ArrivalIsDue ==
    ASSUME IInv, TakeArrival, NEW p \in Paths, Head(events).path = p
    PROVE  Due(p)' \/ waiter[p] = "delete"
<1>1. waiter \in [Paths -> {"none", "wait", "send", "delete"}]
  BY DEF IInv, TypeOK
<1>2. CASE p \in DOMAIN timers
  <2>1. waiter[p] # "none"
    BY <1>2 DEF IInv, NoWaiterLeft
  <2> QED
    BY <1>1, <1>2, <2>1 DEF TakeArrival, Due
<1>3. CASE p \notin DOMAIN timers
  BY <1>1, <1>3 DEF TakeArrival, Due
<1> QED
  BY <1>2, <1>3

LEMMA DueUntilSent ==
    ASSUME IInv, [Next]_vars, NEW p \in Paths, Due(p)
    PROVE  Due(p)' \/ fileCreated' = Append(fileCreated, p)
<1>1. waiter \in [Paths -> {"none", "wait", "send", "delete"}]
      /\ waiter[p] # "none" /\ p \in DOMAIN timers
  BY DEF IInv, TypeOK, NoWaiterLeft, Due
<1>2. CASE UNCHANGED waiter
  BY <1>2 DEF Due
<1>3. CASE TakeArrival
  BY <1>1, <1>3 DEF TakeArrival, Due
<1>4. ASSUME NEW q \in Paths, Report(q)
      PROVE  Due(p)' \/ fileCreated' = Append(fileCreated, p)
  BY <1>1, <1>4 DEF Report, Receive, Send, Delete, Due
<1>5. ChangeFolder => UNCHANGED waiter
  BY DEF ChangeFolder, Appear, WriteTo, Remove, MoveOut, Rename, KeepWatcher
<1>6. Loop => TakeArrival \/ UNCHANGED waiter
  BY DEF Loop, IgnoreEvent, TakeDeparture, TakeRename
<1>7. Tick \/ Consume \/ UNCHANGED vars => UNCHANGED waiter
  BY DEF Tick, Consume, TakeCreated, TakeRenamed, vars
<1> QED
  BY <1>2, <1>3, <1>4, <1>5, <1>6, <1>7 DEF Next

\* However timers go off and are put off, no event but one in that window is overlooked.
THEOREM EventsAreReported == Spec => EventsLeadToReports
<1>1. IInv /\ [Next]_vars =>
        [\A p \in Paths :
            /\ TakeArrival /\ Head(events).path = p => Due(p)' \/ waiter[p] = "delete"
            /\ Due(p) => Due(p)' \/ fileCreated' = Append(fileCreated, p)]_vars
  BY ArrivalIsDue, DueUntilSent
<1> QED
  BY <1>1, Invariance, PTL DEF Spec, EventsLeadToReports

=============================================================================
