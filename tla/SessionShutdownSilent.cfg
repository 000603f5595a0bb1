CONSTANTS
    k1 = k1
    k2 = k2
    n1 = n1
    n2 = n2
    n3 = n3
    None = None
    Clis <- MCOneCli
    Conns <- MCTwoConns
    MaxFaults = 1
SPECIFICATION Spec
PROPERTY ShutdownIsExplained
CHECK_DEADLOCK FALSE
