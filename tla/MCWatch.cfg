SPECIFICATION FairSpec
CONSTANTS
    Paths = {a, b}
    NoPath = none
    Delay = 2
    Buffer = 1
    MaxEvents = 2
INVARIANTS
    TypeOK
    NoWaiterLeft
    ReportsAreDue
PROPERTIES
    EverythingReported
