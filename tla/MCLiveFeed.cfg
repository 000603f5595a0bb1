CONSTANTS
    r1 = r1
    r2 = r2
    r3 = r3
    v1 = v1
    v2 = v2
    Captures <- MCTwoCaptures
    Viewers <- MCOneViewer
    Buffer = 1
    WireSize = 1
    MaxStreams = 2
    MaxRefetches = 1
SPECIFICATION LiveSpec
INVARIANTS
    TypeOK
    NoRowTwice
    ReportsAreExact
    WatchedIsShown
PROPERTIES
    DeadStreamsAreForgotten
    DropsAreTold
CHECK_DEADLOCK FALSE
