------------------------------ MODULE MCScores ------------------------------
(* An instance of Scores and MatchView for TLC.                            *)
EXTENDS MatchView
=============================================================================
