------------------------------ MODULE MCRounds ------------------------------
(* An instance of Rounds for TLC.                                          *)
EXTENDS Rounds

CONSTANTS LiveModeRounds, OtherRounds

MCMaxRoundStarts == [m \in Modes |-> IF m = "other" THEN OtherRounds ELSE LiveModeRounds]
=============================================================================
