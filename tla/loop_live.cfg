CONSTANTS
    u1 = u1
    u2 = u2
    u3 = u3
    f1 = f1
    f2 = f2
    f3 = f3
    listenFd = listenFd
    noFd = noFd
    cached = cached
    Users <- TwoUsers
    Fds <- TwoFds
    ListenFd = listenFd
    NoFd = noFd
    Providers <- OneProvider
    Lines <- SessionLines
    MaxLines = 2
    GuiEdits = FALSE
SPECIFICATION FairSpec
INVARIANT NoStaleFlag
PROPERTIES InputServed HangUpReleased ShutdownCompletes
