------------------------------- MODULE MCHome -------------------------------
(* An instance of Home for TLC.                                            *)
EXTENDS Home, TLC

Symmetry == Permutations(Refreshes) \union Permutations(Deletions)

Older == CHOOSE m \in Matches : TRUE

\* Of two matches Older has the earlier date at first, and they may come to be of one
\* date, which is the earlier then: dates are only compared.
Dated ==
    /\ \E m \in Matches : \A day \in Days : date[m] <= day
    /\ changes = 0 => \A m \in Matches \ {Older} : date[Older] < date[m]

\* Two refreshes and a deletion overlap with no change elsewhere, and so do a refresh
\* and two deletions, of one match (the button pressed again) or of two.
Overlaps ==
    LET someDeletion == \E d \in Deletions : deletion[d] # IdleDeletion
        allDeletions == \A d \in Deletions : deletion[d] # IdleDeletion
        allRefreshes == \A r \in Refreshes : refresh[r] # IdleRefresh
    IN  /\ allRefreshes /\ someDeletion => changes = 0 /\ ~allDeletions
        /\ allDeletions => changes = 0
=============================================================================
