CONSTANTS
    a1 = a1
    a2 = a2
    empty = empty
    Addrs <- OneAddr
    NoAddr = empty
    Keepalives <- KeepaliveChoices
    IdleLimit = 4
    ReconnectLimit = 3
    FdLimit = 3
    TickCap = 6
    GuiEdits = FALSE
SPECIFICATION Spec
INVARIANT RetriesConfiguredAddress
