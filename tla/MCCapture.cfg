CONSTANTS
    e1 = e1
    e2 = e2
    None = None
    Events <- MCOneEvent
    MaxAttempts = 3
    MaxFaults = 2
SPECIFICATION FairSpec
INVARIANTS
    TypeOK
    AcknowledgedIsStored
    RefusalsAreAboveTheLine
    FeedIsConfirmed
PROPERTIES
    EventuallyStored
CHECK_DEADLOCK FALSE
