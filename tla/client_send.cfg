CONSTANTS
    x = x
    cr = cr
    lf = lf
    iac = iac
    Letters <- OneLetter
    CR = cr
    LF = lf
    IAC = iac
    BufSize = 3
    MaxTyped = 4
    Length = 3
    Room = 4
    MaxRead = 3
SPECIFICATION Spec
INVARIANT ReportsBytesSent
CHECK_DEADLOCK FALSE
