CONSTANTS
    e1 = e1
    c1 = c1
    c2 = c2
    f1 = f1
    f2 = f2
    None = None
    Endpoints <- MCEndpoints
    Clients <- MCTwoClients
    Callers <- MCTwoCallers
    Inbox <- MCInbox
    MaxInFlight = 1
SPECIFICATION LiveSpec
INVARIANT TypeOK
PROPERTIES
    DropWakesCallers
    DeadlineReturns
    DisplacedEnds
CHECK_DEADLOCK FALSE
