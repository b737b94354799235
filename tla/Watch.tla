------------------------------- MODULE Watch -------------------------------
(***************************************************************************)
(* The watcher of the demos folder (watchDemoDir): the events of the       *)
(* folder, the loop that takes them one by one, a timer and a goroutine    *)
(* for every demo that is being written, and the two channels through      *)
(* which demos and renames are reported to watchFileChanges.               *)
(*                                                                         *)
(* The loop and the goroutines share the map of timers and run freely      *)
(* between the steps below: a timer that has gone off holds its tick in    *)
(* its channel until the goroutine comes to receive it, and the entry of   *)
(* the map goes only after the report is sent.                             *)
(***************************************************************************)
EXTENDS Naturals, Sequences

CONSTANTS
    Paths,      \* names ending in .dem; events of other names are skipped
    NoPath,     \* no name
    Delay,      \* ticks of the clock that count as quiet (3 seconds)
    Buffer,     \* capacity of each channel (100)
    MaxEvents   \* bound: events the kernel holds for the watcher

ASSUME WatchAssumption ==
    /\ NoPath \notin Paths
    /\ Delay \in Nat \ {0} /\ Buffer \in Nat \ {0} /\ MaxEvents \in Nat

\* The loop tells three kinds of event apart: Create or Write, Rename, and the rest.
Ops == {"arrival", "rename", "other"}

Event(op, path) == [op |-> op, path |-> path]

Events == [op: Ops, path: Paths]

Timers == [left: 0..Delay, armed: BOOLEAN, tick: BOOLEAN]

VARIABLES
    files,        \* demos in the folder
    events,       \* events of the folder the loop has not taken yet
    prev,         \* the demo the event taken last moved away, if it was a Rename
    timers,       \* the map of timers
    waiter,       \* the goroutine of each demo
    fileCreated,  \* channel of demos to ingest
    fileRenamed,  \* channel of renames
    unreported    \* history: demos with an event that no report has followed

vars == <<files, events, prev, timers, waiter, fileCreated, fileRenamed, unreported>>

TypeOK ==
    /\ files \subseteq Paths
    /\ events \in Seq(Events) /\ Len(events) <= MaxEvents
    /\ prev \in Paths \union {NoPath}
    /\ DOMAIN timers \subseteq Paths
    /\ timers \in [DOMAIN timers -> Timers]
    /\ waiter \in [Paths -> {"none", "wait", "send", "delete"}]
    /\ fileCreated \in Seq(Paths) /\ Len(fileCreated) <= Buffer
    /\ fileRenamed \in Seq([old: Paths, new: Paths]) /\ Len(fileRenamed) <= Buffer
    /\ unreported \subseteq Paths

-----------------------------------------------------------------------------
(* The folder, and what the kernel tells of it.                            *)

Notify(es) == Len(events) + Len(es) <= MaxEvents /\ events' = events \o es

KeepWatcher == UNCHANGED <<prev, timers, waiter, fileCreated, fileRenamed, unreported>>

\* A demo appears: created, or moved here from elsewhere or from another name.
Appear(p) ==
    /\ p \notin files
    /\ files' = files \union {p}
    /\ Notify(<<Event("arrival", p)>>)
    /\ KeepWatcher

WriteTo(p) ==
    /\ p \in files
    /\ Notify(<<Event("arrival", p)>>)
    /\ KeepWatcher
    /\ UNCHANGED files

Remove(p) ==
    /\ p \in files
    /\ files' = files \ {p}
    /\ Notify(<<Event("other", p)>>)
    /\ KeepWatcher

MoveOut(p) ==
    /\ p \in files
    /\ files' = files \ {p}
    /\ Notify(<<Event("rename", p)>>)
    /\ KeepWatcher

Rename(p, q) ==
    /\ p \in files /\ p # q
    /\ files' = (files \ {p}) \union {q}
    /\ Notify(<<Event("rename", p), Event("arrival", q)>>)
    /\ KeepWatcher

-----------------------------------------------------------------------------
(* The loop.                                                               *)

FreshTimer == [left |-> Delay, armed |-> TRUE, tick |-> FALSE]

\* Deviation: the timer is stopped and not started again.
ResetStops(timer) == [timer EXCEPT !.armed = FALSE]

\* Reset starts the timer again; a tick already in its channel stays there.
ResetTimer(timer) == [timer EXCEPT !.left = Delay, !.armed = TRUE]

\* fsnotify drops a create or write event of a file that is gone.
Ignored(e) == e.op = "arrival" /\ e.path \notin files

IsArrival(e) == e.op = "arrival"

IgnoreEvent ==
    /\ events # <<>>
    /\ Ignored(Head(events))
    /\ events' = Tail(events)
    /\ UNCHANGED <<files, prev, timers, waiter, fileCreated, fileRenamed, unreported>>

\* A rename or a removal is only remembered.
TakeDeparture ==
    /\ events # <<>>
    /\ ~IsArrival(Head(events))
    /\ prev' = IF Head(events).op = "rename" THEN Head(events).path ELSE NoPath
    /\ events' = Tail(events)
    /\ UNCHANGED <<files, timers, waiter, fileCreated, fileRenamed, unreported>>

\* An arrival right after a rename is taken for the new name of that demo.
TakeRename ==
    /\ events # <<>>
    /\ LET e == Head(events)
       IN  /\ IsArrival(e) /\ ~Ignored(e)
           /\ prev # NoPath
           /\ Len(fileRenamed) < Buffer
           /\ fileRenamed' = Append(fileRenamed, [old |-> prev, new |-> e.path])
           /\ prev' = NoPath
    /\ events' = Tail(events)
    /\ UNCHANGED <<files, timers, waiter, fileCreated, unreported>>

\* Any other arrival starts the demo's timer and goroutine, or puts them off.
TakeArrival ==
    /\ events # <<>>
    /\ LET e == Head(events)
       IN  /\ IsArrival(e) /\ ~Ignored(e)
           /\ prev = NoPath
           /\ IF e.path \in DOMAIN timers
                THEN /\ timers' = [timers EXCEPT ![e.path] = ResetTimer(@)]
                     /\ UNCHANGED waiter
                ELSE /\ timers' = [p \in DOMAIN timers \union {e.path} |->
                                      IF p = e.path THEN FreshTimer ELSE timers[p]]
                     /\ waiter' = [waiter EXCEPT ![e.path] = "wait"]
           /\ unreported' = unreported \union {e.path}
           /\ prev' = NoPath
    /\ events' = Tail(events)
    /\ UNCHANGED <<files, fileCreated, fileRenamed>>

-----------------------------------------------------------------------------
(* The goroutine of a demo, and the clock.                                 *)

Receive(p) ==
    /\ waiter[p] = "wait"
    /\ timers[p].tick
    /\ timers' = [timers EXCEPT ![p].tick = FALSE]
    /\ waiter' = [waiter EXCEPT ![p] = "send"]
    /\ UNCHANGED <<files, events, prev, fileCreated, fileRenamed, unreported>>

Forget(p) == timers' = [q \in DOMAIN timers \ {p} |-> timers[q]]

\* Deviation: the goroutine goes on waiting after it has reported.
SendAgain(p) ==
    /\ waiter[p] = "send"
    /\ Len(fileCreated) < Buffer
    /\ fileCreated' = Append(fileCreated, p)
    /\ waiter' = [waiter EXCEPT ![p] = "wait"]
    /\ unreported' = unreported \ {p}
    /\ UNCHANGED <<files, events, prev, timers, fileRenamed>>

\* Deviation: the channel is taken for unbounded.
SendAnyway(p) ==
    /\ waiter[p] = "send"
    /\ fileCreated' = Append(fileCreated, p)
    /\ waiter' = [waiter EXCEPT ![p] = "delete"]
    /\ unreported' = unreported \ {p}
    /\ UNCHANGED <<files, events, prev, timers, fileRenamed>>

Send(p) ==
    /\ waiter[p] = "send"
    /\ Len(fileCreated) < Buffer
    /\ fileCreated' = Append(fileCreated, p)
    /\ waiter' = [waiter EXCEPT ![p] = "delete"]
    /\ unreported' = unreported \ {p}
    /\ UNCHANGED <<files, events, prev, timers, fileRenamed>>

Delete(p) ==
    /\ waiter[p] = "delete"
    /\ Forget(p)
    /\ waiter' = [waiter EXCEPT ![p] = "none"]
    /\ UNCHANGED <<files, events, prev, fileCreated, fileRenamed, unreported>>

AfterTick(timer) ==
    IF ~timer.armed THEN timer
    ELSE IF timer.left > 1 THEN [timer EXCEPT !.left = @ - 1]
    ELSE [left |-> 0, armed |-> FALSE, tick |-> TRUE]

Tick ==
    /\ timers' = [p \in DOMAIN timers |-> AfterTick(timers[p])]
    /\ UNCHANGED <<files, events, prev, waiter, fileCreated, fileRenamed, unreported>>

-----------------------------------------------------------------------------
(* The consumer: select takes from either channel.                         *)

TakeCreated ==
    /\ fileCreated # <<>>
    /\ fileCreated' = Tail(fileCreated)
    /\ UNCHANGED <<files, events, prev, timers, waiter, fileRenamed, unreported>>

TakeRenamed ==
    /\ fileRenamed # <<>>
    /\ fileRenamed' = Tail(fileRenamed)
    /\ UNCHANGED <<files, events, prev, timers, waiter, fileCreated, unreported>>

-----------------------------------------------------------------------------

Init ==
    /\ files \in SUBSET Paths
    /\ events = <<>>
    /\ prev = NoPath
    /\ timers = [p \in {} |-> FreshTimer]
    /\ waiter = [p \in Paths |-> "none"]
    /\ fileCreated = <<>>
    /\ fileRenamed = <<>>
    /\ unreported = {}

ChangeFolder ==
    \E p \in Paths :
        \/ Appear(p)
        \/ WriteTo(p)
        \/ Remove(p)
        \/ MoveOut(p)
        \/ \E q \in Paths : Rename(p, q)

Loop == IgnoreEvent \/ TakeDeparture \/ TakeRename \/ TakeArrival

Report(p) == Receive(p) \/ Send(p) \/ Delete(p)

Consume == TakeCreated \/ TakeRenamed

Next ==
    \/ ChangeFolder
    \/ Loop
    \/ \E p \in Paths : Report(p)
    \/ Tick
    \/ Consume

Spec == Init /\ [][Next]_vars

\* Time passes, and the Go runtime lets every goroutine go on.
Fairness ==
    /\ WF_vars(Loop)
    /\ WF_vars(Tick)
    /\ WF_vars(Consume)
    /\ \A p \in Paths : WF_vars(Report(p))

FairSpec == Spec /\ Fairness

-----------------------------------------------------------------------------
(* Properties.                                                             *)

\* One goroutine per entry of the map, and none waits for a tick that cannot come:
\* an entry is removed and a timer started again behind the goroutine's back, and
\* still no goroutine is left over or reads a missing entry (watch.go:67-76).
NoWaiterLeft ==
    \A p \in Paths :
        /\ waiter[p] # "none" <=> p \in DOMAIN timers
        /\ waiter[p] = "wait" => timers[p].armed \/ timers[p].tick

\* A burst of events is reported once: every report is preceded by an event that
\* no earlier report has followed (watch.go:67-75).
ReportsAreDue ==
    \A p \in Paths : waiter[p] \in {"wait", "send"} => p \in unreported

\* When the folder is left alone, every goroutine reports and ends and every message
\* is taken: full channels hold the loop and the goroutines up, never for ever.
EverythingReported ==
    <>[][~ChangeFolder]_vars
        => <>[](events = <<>> /\ fileCreated = <<>> /\ fileRenamed = <<>>
                /\ \A p \in Paths : waiter[p] = "none")

=============================================================================
