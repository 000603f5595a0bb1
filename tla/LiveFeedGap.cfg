CONSTANTS
    r1 = r1
    r2 = r2
    r3 = r3
    v1 = v1
    v2 = v2
    Captures <- MCOneCapture
    Viewers <- MCOneViewer
    Buffer = 1
    WireSize = 1
    MaxStreams = 2
    MaxRefetches = 0
SPECIFICATION Spec
INVARIANT SettledListIsComplete
CHECK_DEADLOCK FALSE
