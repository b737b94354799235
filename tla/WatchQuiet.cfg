SPECIFICATION QuietSpec
CONSTANTS
    Paths = {a, b}
    NoPath = none
    Delay = 2
    Buffer = 1
    MaxEvents = 2
PROPERTIES
    SentWhenQuiet
