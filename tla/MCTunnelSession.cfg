CONSTANTS
    k1 = k1
    k2 = k2
    n1 = n1
    n2 = n2
    n3 = n3
    None = None
    Clis <- MCTwoClis
    Conns <- MCThreeConns
    MaxFaults = 1
SPECIFICATION FairSpec
INVARIANTS
    TypeOK
    NoZombieCli
    HolderIsAuthenticated
PROPERTIES
    SessionsSettle
    DeadPeerIsNoticed
CHECK_DEADLOCK FALSE
