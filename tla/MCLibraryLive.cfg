SPECIFICATION FairSpec
CONSTANTS
    good = good
    unstorable = unstorable
    fatal = fatal
    none = none
    Ids = {1, 2}
    Demos = {good, unstorable, fatal}
    Kind <- MCKind
    NoDemo = none
    ParserVersion = 2
    MigratedRows <- MCMigratedRows
    Rescanners = {r1}
    Watchers = {w1}
    Handlers = {}
    MaxFaults = 1
PROPERTIES
    GoodFolderRecorded
    EveryJobEnds
