SPECIFICATION FairSpec
CONSTANTS
    Users = {u1, u2}
    Requests = {q1, q2}
    SessionLength = 1
    Grace = 2
    MaxLatency = 1
    MaxTime = 5
    MaxTokens = 2
INVARIANTS
    TypeOK
    NoAccessAfterLogout
    ListCoversLoggedOut
PROPERTIES
    RowsAreRemoved
