CONSTANTS
    u1 = u1
    u2 = u2
    u3 = u3
    f1 = f1
    f2 = f2
    f3 = f3
    listenFd = listenFd
    noFd = noFd
    cached = cached
    Users <- ThreeUsers
    Fds <- ThreeFds
    ListenFd = listenFd
    NoFd = noFd
    Providers <- OneProvider
    Lines <- EveryLine
    MaxLines = 1
    GuiEdits = TRUE
SPECIFICATION Spec
SYMMETRY Symmetry
INVARIANTS TypeOK IteratorValid SelectSetExact AcceptNeverBlocks OnlyHeadSkipped CleanExit
PROPERTY OnlyProvedActs
