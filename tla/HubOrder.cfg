CONSTANTS
    e1 = e1
    c1 = c1
    c2 = c2
    f1 = f1
    f2 = f2
    None = None
    Endpoints <- MCEndpoints
    Clients <- MCOneClient
    Callers <- MCOneCaller
    Inbox <- MCInbox
    MaxInFlight = 2
SPECIFICATION Spec
PROPERTY WokenBeforeVacated
CHECK_DEADLOCK FALSE
