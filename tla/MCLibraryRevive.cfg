SPECIFICATION Spec
CONSTANTS
    good = good
    unstorable = unstorable
    fatal = fatal
    none = none
    Ids = {1, 2}
    Demos = {good}
    Kind <- MCKind
    NoDemo = none
    ParserVersion = 2
    MigratedRows <- MCMigratedRows
    Rescanners = {r1}
    Watchers = {}
    Handlers = {h1}
    MaxFaults = 0
PROPERTIES
    OnlyRestoreUndeletes
