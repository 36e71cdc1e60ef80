----------------------------- MODULE ServerClock -----------------------------
(***************************************************************************)
(* Server.tla with two measures beside it that the code does not keep: a   *)
(* clock, to compare the ticks of main_loop with the seconds the code      *)
(* takes them for, and a count of the ticks since a descriptor was last    *)
(* leaked.  Only select waits: for one second, or less when there is       *)
(* input.  Commands are served in no time.                                 *)
(***************************************************************************)
EXTENDS Server

VARIABLES
    elapsed,  \* seconds since the provider was lost or last tried
    quiet     \* ticks since a failed attempt left a descriptor open

clockVars == <<vars, elapsed, quiet>>

ClockCap == ReconnectLimit + 2

ClockTypeOK ==
    /\ elapsed \in 0..ClockCap
    /\ quiet \in 0..ReconnectLimit

ClockInit ==
    /\ Init
    /\ elapsed = 0
    /\ quiet = ReconnectLimit

-------------------------------------------------------------------------------

\* The provider is lost, or was tried and not reached.  A wait that lost_server
\* starts anew, for a provider that is down already, is still the same wait.
WaitStarts ==
    /\ srv'.reconnect
    /\ ~srv.reconnect \/ (phase = "tick" /\ AttemptDue(srv))

\* Descriptors that are open and belong to no connection.
Leaked(s) == s.fds - (IF IsConnected(s) THEN 1 ELSE 0)

Leaks == Leaked(srv') > Leaked(srv)

\* The ticks since the last leak, up to now.
QuietNow ==
    IF phase = "tick" /\ phase' = "idle" /\ quiet < ReconnectLimit
    THEN quiet + 1
    ELSE quiet

\* g_select.select(&tv): a second passes, or input arrives before it is over.
SelectWaits ==
    /\ Select
    /\ elapsed' \in {elapsed, IF elapsed < ClockCap THEN elapsed + 1 ELSE elapsed}
    /\ UNCHANGED quiet

Instant ==
    /\ Next /\ ~Select
    /\ elapsed' = IF WaitStarts THEN 0 ELSE elapsed
    /\ quiet' = IF Leaks THEN 0 ELSE QuietNow

ClockNext == SelectWaits \/ Instant

ClockSpec == ClockInit /\ [][ClockNext]_clockVars

FairClockSpec == ClockSpec /\ Fairness

-------------------------------------------------------------------------------

\* Comment "1-second ticks" and the constant 60 in Server::tick: while nothing
\* blocks the loop, a provider that is down is tried within ReconnectLimit
\* seconds.  It does not hold once an address was edited in the dialog.
RetryInTime == srv.reconnect => elapsed <= ReconnectLimit

\* Server::connect deletes the Socket of a failed attempt without closing it.
\* Whatever commands, ticks, losses and short reconnections lie between, two
\* such attempts are ReconnectLimit ticks apart: the descriptors of the process
\* go no faster than that, one at a time.
LeaksArePaced ==
    [][Leaks => Leaked(srv') = Leaked(srv) + 1 /\ QuietNow >= ReconnectLimit]_clockVars

===============================================================================
