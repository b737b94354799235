----------------------------- MODULE MCLibrary -----------------------------
(* Instances of Library for TLC.                                           *)
EXTENDS Library, TLC

CONSTANTS good, unstorable, fatal, none

MCKind ==
    [d \in Demos |-> CASE d = good -> "good"
                      [] d = unstorable -> "unstorable"
                      [] OTHER -> "fatal"]

\* What the build before this one may have left: a listed match, a deleted one.
MCMigratedRows ==
    {[version |-> 1, deleted |-> FALSE, data |-> good],
     [version |-> 0, deleted |-> TRUE, data |-> none]}
=============================================================================
