------------------------------ MODULE MCMainLoop ------------------------------
(***************************************************************************)
(* Small instances of MainLoop.tla.                                        *)
(***************************************************************************)
EXTENDS MainLoop, TLC

CONSTANTS u1, u2, u3, f1, f2, f3, listenFd, noFd, cached

TwoUsers == {u1, u2}
ThreeUsers == {u1, u2, u3}
TwoFds == {f1, f2}
ThreeFds == {f1, f2, f3}
OneProvider == {cached}

EveryLine == LineKinds
SessionLines == {"login", "shutdown", "help"}

Symmetry == Permutations(Users) \cup Permutations(Fds)

===============================================================================
