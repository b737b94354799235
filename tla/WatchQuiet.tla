----------------------------- MODULE WatchQuiet -----------------------------
(***************************************************************************)
(* Watch with one history variable, the time since the last arrival of     *)
(* each demo, to state what the comment in watchDemoDir says of the        *)
(* reports it sends.                                                       *)
(***************************************************************************)
EXTENDS Watch

VARIABLE quiet  \* ticks since the last arrival of each demo, up to Delay

QuietInit == Init /\ quiet = [p \in Paths |-> Delay]

Arrive == TakeArrival \/ TakeRename

Elsewhere ==
    \/ ChangeFolder
    \/ IgnoreEvent
    \/ TakeDeparture
    \/ \E p \in Paths : Report(p)
    \/ Consume

QuietNext ==
    \/ Arrive /\ quiet' = [quiet EXCEPT ![Head(events).path] = 0]
    \/ Tick /\ quiet' = [p \in Paths |-> IF quiet[p] < Delay THEN quiet[p] + 1 ELSE Delay]
    \/ Elsewhere /\ UNCHANGED quiet

QuietSpec == QuietInit /\ [][QuietNext]_<<vars, quiet>>

\* watch.go:65: "only send to the channel after we have stopped receiving write
\* events for 3 seconds".
SentWhenQuiet ==
    [][\A p \in Paths :
          waiter[p] = "send" /\ waiter'[p] = "delete" => quiet[p] = Delay]_<<vars, quiet>>

=============================================================================
