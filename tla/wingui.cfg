CONSTANTS
    Ports = {p1, p2}
    Addrs = {a1, a2}
    Undefined = Undefined
SPECIFICATION FairSpec
INVARIANTS TypeOK StaleIsFlagged ExitInOrder
PROPERTIES StaleLinkDropped ExitCompletes
CHECK_DEADLOCK FALSE
