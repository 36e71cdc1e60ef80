CONSTANTS
    x = x
    cr = cr
    lf = lf
    iac = iac
    Letters <- OneLetter
    CR = cr
    LF = lf
    IAC = iac
    BufSize = 4
    MaxTyped = 5
    Length = 3
    Room = 4
    MaxRead = 3
SPECIFICATION FairSpec
INVARIANTS TypeOK EveryLineOnce RepliesIntact
PROPERTY InputHandled
CHECK_DEADLOCK FALSE
