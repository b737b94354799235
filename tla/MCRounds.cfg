SPECIFICATION ParseSpec
CONSTANTS
    LiveModeRounds = 3
    OtherRounds = 5
    MaxRoundStarts <- MCMaxRoundStarts
    MaxStarts = 5
    MaxKills = 1
INVARIANTS
    ParseTypeOK
    Aligned
    BombInItsRound
    KeptRoundsAreReal
PROPERTIES
    NoPlayedRoundLost
CHECK_DEADLOCK FALSE
