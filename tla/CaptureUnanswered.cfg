CONSTANTS
    e1 = e1
    e2 = e2
    None = None
    Events <- MCOneEvent
    MaxAttempts = 1
    MaxFaults = 0
SPECIFICATION Spec
INVARIANT GivingUpIsAnswered
CHECK_DEADLOCK FALSE
