------------------------------- MODULE MainLoop -------------------------------
(***************************************************************************)
(* The main loop of l2netmgr and the clients it serves (main_loop,         *)
(* accept_client, auth_user, handle_client_input, send_command, cleanup of *)
(* l2netmgr.cpp), the select set (sockets/select.cpp) and the flags of     *)
(* class Client (client.hpp).                                              *)
(*                                                                         *)
(* One thread goes through the phases of a pass; users dial, type and hang *)
(* up between any two of its steps.  A line is one complete line of input, *)
(* named by what handle_client_input does with it.  A provider connection  *)
(* is in one of the states of ProviderLink; how long a provider stays down *)
(* is the subject of Server and left open here.                            *)
(***************************************************************************)
EXTENDS Integers, Sequences, SequencesExt

CONSTANTS
    Users,        \* the people who connect with telnet, one connection each
    Fds,          \* descriptors left for client connections
    ListenFd,     \* the descriptor of g_listener
    NoFd,         \* the descriptor of a closed socket, -1
    Providers,    \* cached and authd
    Lines,        \* the kinds of lines that are typed
    MaxLines,     \* bound on the lines waiting in all connections together
    GuiEdits      \* TRUE where a settings dialog can raise g_reconnect

LineKinds == {"login", "badlogin", "logout", "blank",
              "shutdown", "reload", "help", "command"}

ASSUME FdAssumption == ListenFd \notin Fds /\ NoFd \notin Fds /\ NoFd # ListenFd

ASSUME LineAssumption == Lines \subseteq LineKinds /\ MaxLines \in Nat

ASSUME GuiAssumption == GuiEdits \in BOOLEAN

VARIABLES
    phase,        \* where the program is
    vec,          \* g_clients
    pos,          \* the iterator of the scan over g_clients
    batch,        \* what is left of the lines getCommands returned
    readers,      \* g_select._readSockets
    ready,        \* g_select._readFds after select
    fd,           \* the descriptor of each user's Client object
    auth,         \* its _authenticated
    disc,         \* its _disconnect
    shutdown,     \* g_shutdown
    listening,    \* g_listener # NULL
    link,         \* the state of each provider connection
    net,          \* the user's side: "out", "open", or "gone" (has hung up)
    backlog,      \* connections the kernel has established and not handed over
    inbox,        \* lines that have arrived and have not been read
    served,       \* history: the clients that were read in this pass
    proved        \* history: the password was given on this connection

clientVars == <<vec, fd, auth, disc, readers>>
userVars   == <<net, backlog, inbox, proved>>
progVars   == <<shutdown, listening, link>>
vars == <<phase, vec, pos, batch, readers, ready, fd, auth, disc, shutdown,
          listening, link, net, backlog, inbox, served, proved>>

Phases == {"select", "reconnect", "accept", "scan", "input", "after",
           "tick", "idle", "exit", "done"}

LinkStates == {"idle", "connected", "down"}

TypeOK ==
    /\ phase \in Phases
    /\ vec \in Seq(Users)
    /\ pos \in Nat \ {0}
    /\ batch \in Seq(Lines)
    /\ readers \subseteq Fds \cup {ListenFd, NoFd}
    /\ ready \subseteq Fds \cup {ListenFd, NoFd}
    /\ fd \in [Users -> Fds \cup {NoFd}]
    /\ auth \in [Users -> BOOLEAN]
    /\ disc \in [Users -> BOOLEAN]
    /\ shutdown \in BOOLEAN
    /\ listening \in BOOLEAN
    /\ link \in [Providers -> LinkStates]
    /\ net \in [Users -> {"out", "open", "gone"}]
    /\ backlog \in Seq(Users)
    /\ inbox \in [Users -> Seq(Lines)]
    /\ served \subseteq Users
    /\ proved \in [Users -> BOOLEAN]

\* main has loaded the command files and init_listener has succeeded.
Init ==
    /\ phase = "select"
    /\ vec = <<>>
    /\ pos = 1
    /\ batch = <<>>
    /\ readers = {ListenFd}
    /\ ready = {}
    /\ fd = [u \in Users |-> NoFd]
    /\ auth = [u \in Users |-> FALSE]
    /\ disc = [u \in Users |-> FALSE]
    /\ shutdown = FALSE
    /\ listening = TRUE
    /\ link = [p \in Providers |-> "idle"]
    /\ net = [u \in Users |-> "out"]
    /\ backlog = <<>>
    /\ inbox = [u \in Users |-> <<>>]
    /\ served = {}
    /\ proved = [u \in Users |-> FALSE]

-------------------------------------------------------------------------------
(* The users.                                                              *)

Dial(u) ==
    /\ listening
    /\ net[u] = "out"
    /\ net' = [net EXCEPT ![u] = "open"]
    /\ backlog' = Append(backlog, u)
    /\ inbox' = [inbox EXCEPT ![u] = <<>>]
    /\ proved' = [proved EXCEPT ![u] = FALSE]
    /\ UNCHANGED <<clientVars, phase, pos, batch, ready, served, progVars>>

LinesWaiting == FoldFunction(LAMBDA lines, n : Len(lines) + n, 0, inbox)

Type(u) ==
    /\ net[u] = "open"
    /\ LinesWaiting < MaxLines
    /\ \E l \in Lines : inbox' = [inbox EXCEPT ![u] = Append(@, l)]
    /\ UNCHANGED <<clientVars, phase, pos, batch, ready, served, progVars, net,
                   backlog, proved>>

HangUp(u) ==
    /\ net[u] = "open"
    /\ net' = [net EXCEPT ![u] = "gone"]
    /\ UNCHANGED <<clientVars, phase, pos, batch, ready, served, progVars,
                   backlog, inbox, proved>>

User == \E u \in Users : Dial(u) \/ Type(u) \/ HangUp(u)

-------------------------------------------------------------------------------
(* select, the pending reconnection and new clients.                       *)

OpenFds == {ListenFd} \cup {fd[u] : u \in ToSet(vec)}

Readable(f) ==
    \/ f = ListenFd /\ backlog # <<>>
    \/ \E u \in ToSet(vec) : fd[u] = f /\ (inbox[u] # <<>> \/ net[u] = "gone")

\* The result of ::select is not checked: with a descriptor in the set that is
\* not open it fails and leaves the set as it was, every member "ready".
Select ==
    /\ phase = "select"
    /\ ~shutdown
    /\ phase' = "reconnect"
    /\ ready' = IF readers \subseteq OpenFds
                THEN {f \in readers : Readable(f)}
                ELSE readers
    /\ served' = {}
    /\ UNCHANGED <<clientVars, userVars, pos, batch, progVars>>

\* g_reconnect, which only a settings dialog raises, loses both providers.
Reconnect ==
    /\ phase = "reconnect"
    /\ phase' = "accept"
    /\ \/ UNCHANGED link
       \/ /\ GuiEdits
          /\ vec # <<>>
          /\ link' = [p \in Providers |-> "down"]
    /\ UNCHANGED <<clientVars, userVars, pos, batch, ready, served, shutdown,
                   listening>>

NoNewClient ==
    /\ phase = "accept"
    /\ ListenFd \notin ready
    /\ phase' = "scan"
    /\ pos' = 1
    /\ UNCHANGED <<clientVars, userVars, batch, ready, served, progVars>>

FreeFds == Fds \ {fd[u] : u \in ToSet(vec)}

\* The constructor of Client.
CtorForgets(u) ==       \* mutant: _authenticated is not initialised
    disc' = [disc EXCEPT ![u] = FALSE] /\ UNCHANGED auth

Ctor(u) ==
    /\ auth' = [auth EXCEPT ![u] = FALSE]
    /\ disc' = [disc EXCEPT ![u] = FALSE]

AddReaderForgotten(f) == readers       \* mutant: the call is missing

AddReader(f) == readers \cup {f}

\* accept() blocks while no connection is waiting.  What can throw behind it
\* changes nothing here: setSockOpt does not fail on a descriptor that is open,
\* and when the greeting cannot be sent the client is in both lists already.
AcceptClient ==
    /\ phase = "accept"
    /\ ListenFd \in ready
    /\ backlog # <<>>
    /\ LET u == Head(backlog)
       IN \E f \in FreeFds :
            /\ fd' = [fd EXCEPT ![u] = f]
            /\ Ctor(u)
            /\ vec' = Append(vec, u)
            /\ readers' = AddReader(f)
    /\ backlog' = Tail(backlog)
    /\ phase' = "scan"
    /\ pos' = 1
    /\ UNCHANGED <<batch, ready, served, progVars, net, inbox, proved>>

\* No descriptor is left, because of the clients or of the ones that failed
\* connects to providers have leaked (Server): the error is logged and the
\* connection keeps waiting.
AcceptFails ==
    /\ phase = "accept"
    /\ ListenFd \in ready
    /\ backlog # <<>>
    /\ phase' = "scan"
    /\ pos' = 1
    /\ UNCHANGED <<clientVars, userVars, batch, ready, served, progVars>>

-------------------------------------------------------------------------------
(* The scan over g_clients.                                                *)

cur == vec[pos]

ScanEnds ==
    /\ phase = "scan"
    /\ pos > Len(vec)
    /\ phase' = "tick"
    /\ UNCHANGED <<clientVars, userVars, pos, batch, ready, served, progVars>>

ScanSkips ==
    /\ phase = "scan"
    /\ pos <= Len(vec)
    /\ fd[cur] \notin ready
    /\ pos' = pos + 1
    /\ UNCHANGED <<clientVars, userVars, phase, batch, ready, served, progVars>>

PeerClosedMissed(u) == FALSE     \* mutant: end of file read as "no data"

PeerClosed(u) == net[u] = "gone"

\* getCommands: everything that has arrived.  When the peer has closed, recv
\* throws after the last byte and what it had read is lost.
ReadInput ==
    /\ phase = "scan"
    /\ pos <= Len(vec)
    /\ fd[cur] \in ready
    /\ IF PeerClosed(cur)
       THEN /\ disc' = [disc EXCEPT ![cur] = TRUE]
            /\ batch' = <<>>
       ELSE /\ batch' = inbox[cur]
            /\ UNCHANGED disc
    /\ inbox' = [inbox EXCEPT ![cur] = <<>>]
    /\ phase' = IF batch' = <<>> THEN "after" ELSE "input"
    /\ served' = served \cup {cur}
    /\ UNCHANGED <<vec, pos, readers, ready, fd, auth, progVars, net, backlog,
                   proved>>

\* A reply fails at most when the user has hung up; the error marks the client.
ReplySent ==
    \/ UNCHANGED disc
    \/ net[cur] = "gone" /\ disc' = [disc EXCEPT ![cur] = TRUE]

Handles(l) == phase = "input" /\ Head(batch) = l

\* handle_client_input returns: the rest of the batch is dropped.
Return == phase' = "after" /\ batch' = <<>>

\* The next line of the batch is looked at, whatever became of the client.
Continue ==
    /\ batch' = Tail(batch)
    /\ phase' = IF batch' = <<>> THEN "after" ELSE "input"

\* auth_user: the flag is set whether or not the reply could be sent.
Login ==
    /\ Handles("login")
    /\ auth' = [auth EXCEPT ![cur] = TRUE]
    /\ proved' = [proved EXCEPT ![cur] = TRUE]
    /\ ReplySent
    /\ Return
    /\ UNCHANGED <<vec, pos, readers, ready, served, fd, progVars, net,
                   backlog, inbox>>

\* A wrong password or "logout".
Leave ==
    /\ Handles("badlogin") \/ Handles("logout")
    /\ disc' = [disc EXCEPT ![cur] = TRUE]
    /\ Return
    /\ UNCHANGED <<userVars, vec, pos, readers, ready, served, fd, auth,
                   progVars>>

Blank ==
    /\ Handles("blank")
    /\ Return
    /\ UNCHANGED <<clientVars, userVars, pos, ready, served, progVars>>

Privileged ==
    phase = "input" /\ Head(batch) \in {"shutdown", "reload", "help", "command"}

Refuse ==
    /\ Privileged
    /\ ~auth[cur]
    /\ ReplySent
    /\ Return
    /\ UNCHANGED <<userVars, vec, pos, readers, ready, served, fd, auth,
                   progVars>>

Shutdown ==
    /\ Handles("shutdown")
    /\ auth[cur]
    /\ shutdown' = TRUE
    /\ Return
    /\ UNCHANGED <<clientVars, userVars, pos, ready, served, listening, link>>

\* A command file that cannot be read shuts the program down.
Reload ==
    /\ Handles("reload")
    /\ auth[cur]
    /\ shutdown' \in {shutdown, TRUE}
    /\ Continue
    /\ UNCHANGED <<clientVars, userVars, pos, ready, served, listening, link>>

Help ==
    /\ Handles("help")
    /\ auth[cur]
    /\ ReplySent
    /\ Continue
    /\ UNCHANGED <<userVars, vec, pos, readers, ready, served, fd, auth,
                   progVars>>

\* What a command makes of the connection of its provider (Server): it is
\* refused while the provider is down, and otherwise leaves it connected or
\* lost.
AfterCommand(l) == IF l = "down" THEN {"down"} ELSE {"connected", "down"}

\* send_command; a command that no provider provides is only answered.
Forward ==
    /\ Handles("command")
    /\ auth[cur]
    /\ \/ \E p \in Providers : \E l \in AfterCommand(link[p]) :
             link' = [link EXCEPT ![p] = l]
       \/ UNCHANGED link
    /\ ReplySent
    /\ Continue
    /\ UNCHANGED <<userVars, vec, pos, readers, ready, served, fd, auth,
                   shutdown, listening>>

KeepAnyClient ==       \* mutant: getDisconnect is not looked at
    /\ phase = "after"
    /\ phase' = "scan"
    /\ pos' = pos + 1
    /\ UNCHANGED <<clientVars, userVars, batch, ready, served, progVars>>

KeepClient ==
    /\ phase = "after"
    /\ ~disc[cur]
    /\ phase' = "scan"
    /\ pos' = pos + 1
    /\ UNCHANGED <<clientVars, userVars, batch, ready, served, progVars>>

\* The entry is found by the descriptor the Client has at the time.
RemoveReaderLate(u) == readers \ {NoFd}      \* mutant: called after close

RemoveReader(u) == readers \ {fd[u]}

\* The iterator is set to begin() and "continue" steps over the first client.
AfterEraseBack == pos - 1         \* mutant: stepped back, not forward again
AfterEraseOn == pos + 1           \* mutant: the iterator is not restarted

AfterErase == 2

ResumeAlways(v) == "scan"         \* mutant: no test for end() after the restart

Resume(v) == IF v = <<>> THEN "tick" ELSE "scan"

\* removeReader, disconnect_user, erase.
DropClient ==
    /\ phase = "after"
    /\ disc[cur]
    /\ readers' = RemoveReader(cur)
    /\ fd' = [fd EXCEPT ![cur] = NoFd]
    /\ net' = [net EXCEPT ![cur] = "out"]
    /\ inbox' = [inbox EXCEPT ![cur] = <<>>]
    /\ vec' = RemoveAt(vec, pos)
    /\ phase' = Resume(vec')
    /\ pos' = AfterErase
    /\ UNCHANGED <<batch, ready, served, auth, disc, progVars, backlog, proved>>

-------------------------------------------------------------------------------
(* The end of a pass, and of the program.                                  *)

\* What a tick makes of the connection of a provider (Server): an unused one
\* may be closed, one that is down may be reached again.
AfterTick(l) ==
    CASE l = "idle"      -> {"idle"}
      [] l = "connected" -> {"connected", "idle"}
      [] l = "down"      -> {"down", "connected"}

Tick ==
    /\ phase = "tick"
    /\ phase' = "idle"
    /\ link' \in {t \in [Providers -> LinkStates] :
                      \A p \in Providers : t[p] \in AfterTick(link[p])}
    /\ UNCHANGED <<clientVars, userVars, pos, batch, ready, served, shutdown,
                   listening>>

Closed(l) == IF l = "connected" THEN "idle" ELSE l

IdleDisconnect ==
    /\ phase = "idle"
    /\ phase' = "select"
    /\ link' = IF vec = <<>> THEN [p \in Providers |-> Closed(link[p])] ELSE link
    /\ UNCHANGED <<clientVars, userVars, pos, batch, ready, served, shutdown,
                   listening>>

CloseProvidersSkipped == UNCHANGED link      \* mutant: the last step is missing

CloseProviders == link' = [p \in Providers |-> Closed(link[p])]

\* cleanup, as called at the end of main and by on_exit.
Cleanup ==
    /\ fd' = [u \in Users |-> IF u \in ToSet(vec) THEN NoFd ELSE fd[u]]
    /\ net' = [u \in Users |-> "out"]
    /\ vec' = <<>>
    /\ backlog' = <<>>
    /\ listening' = FALSE
    /\ CloseProviders
    /\ UNCHANGED <<pos, batch, readers, ready, served, auth, disc, shutdown,
                   inbox, proved>>

LeaveLoopWhenEmpty ==      \* mutant: the loop waits for its clients to leave
    /\ phase = "select"
    /\ shutdown /\ vec = <<>>
    /\ phase' = "exit"
    /\ Cleanup

LeaveLoop ==
    /\ phase = "select"
    /\ shutdown
    /\ phase' = "exit"
    /\ Cleanup

AtExit ==
    /\ phase = "exit"
    /\ phase' = "done"
    /\ Cleanup

Terminated == phase = "done" /\ UNCHANGED vars

-------------------------------------------------------------------------------

Handle ==
    \/ Login
    \/ Leave
    \/ Blank
    \/ Refuse
    \/ Shutdown
    \/ Reload
    \/ Help
    \/ Forward

Scan == ScanEnds \/ ScanSkips \/ ReadInput \/ KeepClient \/ DropClient

Program ==
    \/ Select
    \/ Reconnect
    \/ NoNewClient
    \/ AcceptClient
    \/ AcceptFails
    \/ Scan
    \/ Handle
    \/ Tick
    \/ IdleDisconnect
    \/ LeaveLoop
    \/ AtExit

Next == Program \/ User \/ Terminated

Spec == Init /\ [][Next]_vars

\* The one thread of the program is scheduled; users may stay silent.
FairSpec == Spec /\ WF_vars(Program)

-------------------------------------------------------------------------------
(* Safety.                                                                 *)

\* The select set and g_clients are two lists kept in step by hand
\* (accept_client, main_loop): while the loop runs the set holds the listener
\* and each client once, under a descriptor of its own that is open.
\* removeReader looks the descriptor up in the Client, so it has to come
\* before close.
SelectSetExact ==
    listening =>
        /\ readers = OpenFds
        /\ NoFd \notin readers
        /\ \A i, j \in 1..Len(vec) : fd[vec[i]] = fd[vec[j]] => i = j

\* accept is called on a blocking socket: when the loop calls it a connection
\* is waiting, so a pass never stops there.
AcceptNeverBlocks ==
    (phase = "accept" /\ ListenFd \in ready) => backlog # <<>>

\* g_clients is changed while it is being iterated over: the iterator stays in
\* the vector where it is dereferenced, and at most one past it.
IteratorValid ==
    /\ phase = "scan" => pos \in 1..(Len(vec) + 1)
    /\ phase \in {"input", "after"} => pos \in 1..Len(vec)

\* A client marked for disconnection is gone before another one is looked at.
NoStaleFlag ==
    \A i \in 1..Len(vec) :
        disc[vec[i]] => phase \in {"input", "after"} /\ i = pos

\* The restart of the scan after a disconnection steps over one client at
\* most: when the pass ends, only the first one can be left unread.
OnlyHeadSkipped ==
    phase = "tick" =>
        \A i \in 2..Len(vec) : fd[vec[i]] \in ready => vec[i] \in served

\* A client shuts the program down or makes it use a provider only after the
\* password was given on the very connection the line came from.
OnlyProvedActs ==
    [][(phase = "input" /\ (shutdown' # shutdown \/ link' # link)) => proved[cur]]_vars

\* When the process ends every client connection, the listener and the
\* provider connections are closed, whatever was pending at the shutdown;
\* cleanup runs twice and the second call finds nothing left to close.
CleanExit ==
    phase = "done" =>
        /\ vec = <<>>
        /\ ~listening
        /\ \A u \in Users : fd[u] = NoFd
        /\ \A p \in Providers : link[p] # "connected"

-------------------------------------------------------------------------------
(* Liveness.                                                               *)

\* What a connected user has typed is read, although the scan may step over
\* clients when others are disconnected.
InputServed ==
    \A u \in Users :
        (u \in ToSet(vec) /\ inbox[u] # <<>>) ~> (inbox[u] = <<>> \/ ~listening)

\* The descriptor of a user who has hung up is released.
HangUpReleased ==
    \A u \in Users : (fd[u] # NoFd /\ net[u] = "gone") ~> fd[u] = NoFd

\* After "shutdown" the program ends, whatever its users go on doing.
ShutdownCompletes == shutdown ~> phase = "done"

===============================================================================
