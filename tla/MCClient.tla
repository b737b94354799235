------------------------------ MODULE MCClient ------------------------------
(* Instances of Client for TLC.                                            *)
EXTENDS Client, TLC

Symmetry ==
    UNION {Permutations(S) : S \in {Users, Tokens, Tabs, Requests}}
=============================================================================
