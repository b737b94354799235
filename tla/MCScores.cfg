SPECIFICATION Spec
CONSTANTS
    Half = 3
    ShortHalf = 2
    MaxRounds = 16
INVARIANTS
    TypeOK
    FinalScoreRight
    FeedRight
    GridsRight
CHECK_DEADLOCK FALSE
