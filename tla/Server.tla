-------------------------------- MODULE Server --------------------------------
(***************************************************************************)
(* One provider connection of l2netmgr: class Server (server.cpp,          *)
(* server.hpp) together with the steps of the main loop that drive it      *)
(* (main_loop, connect_server, lost_server and send_command of             *)
(* l2netmgr.cpp).  g_cached and g_authd are two instances of this module   *)
(* that share nothing but the configuration.                               *)
(*                                                                         *)
(* The program is single threaded: one pass of main_loop goes through the  *)
(* phases "select", "reconnect", "work" (clients accepted and served),     *)
(* "tick" and "idle".  While a command is at the provider the whole        *)
(* program is blocked in recv, which is the phase "await".  The provider,  *)
(* the network and the thread of the Windows settings dialog act between   *)
(* any two steps.                                                          *)
(*                                                                         *)
(* Abstracted: the text of commands and answers (ResponseStream), which    *)
(* client sent them and how the clients are scheduled (MainLoop).          *)
(***************************************************************************)
EXTENDS Integers

CONSTANTS
    Addrs,           \* host and port pairs a provider can be configured at
    NoAddr,          \* an empty address: undefined, nothing ever answers there
    Keepalives,      \* values of the option "keepalive"; 0 disables keepalives
    IdleLimit,       \* 240: ticks an unused connection is kept, keepalive = 0
    ReconnectLimit,  \* 60: ticks between two attempts to reconnect
    FdLimit,         \* descriptors the process can hold for this provider
    TickCap,         \* bound on _timeoutTicks (see Tock)
    GuiEdits         \* TRUE in the Windows build, where settings can be edited

ASSUME AddrAssumption == NoAddr \notin Addrs

ASSUME TimingAssumption ==
    /\ Keepalives \subseteq Nat
    /\ IdleLimit \in Nat
    /\ ReconnectLimit \in Nat \ {0}
    /\ TickCap \in Nat
    /\ TickCap > IdleLimit
    /\ \A k \in Keepalives : k < TickCap

ASSUME ResourceAssumption ==
    /\ FdLimit \in Nat \ {0}
    /\ GuiEdits \in BOOLEAN

VARIABLES
    phase,           \* where main_loop is
    srv,             \* the Server object
    cfg,             \* the part of g_config that concerns this provider
    gReconnect,      \* g_reconnect, raised by the settings dialog
    clients,         \* g_clients.size() > 0
    up,              \* the addresses at which a provider accepts connections
    reply            \* the kind of the last answer given to a client

vars == <<phase, srv, cfg, gReconnect, clients, up, reply>>

Phases == {"select", "reconnect", "work", "await", "tick", "idle"}

\* "unknown": "-> unknown command", "invalid": "-> Invalid command or
\* arguments", "answered": what the provider said, "down": "-> ... is down"
Replies == {"none", "unknown", "invalid", "answered", "down"}

\* sock is "none" when _sock == NULL; a connection is "broken" when the peer
\* is gone and the program has not noticed.  fds counts the descriptors this
\* Server has opened and not closed.
ServerState ==
    [sock           : {"none", "open", "broken"},
     timeoutTicks   : 0..TickCap,
     timeout        : Keepalives \cup {0},
     reconnect      : BOOLEAN,
     reconnectTicks : 0..(ReconnectLimit - 1),
     addr           : Addrs \cup {NoAddr},
     fds            : 0..FdLimit]

TypeOK ==
    /\ phase \in Phases
    /\ srv \in ServerState
    /\ cfg \in [addr : Addrs \cup {NoAddr}, keepalive : Keepalives]
    /\ gReconnect \in BOOLEAN
    /\ clients \in BOOLEAN
    /\ up \subseteq Addrs
    /\ reply \in Replies

\* The constructor (server.hpp); g_cached and g_authd are static, so what it
\* does not name is zero.
NewServer ==
    [sock |-> "none", timeoutTicks |-> 0, timeout |-> 0, reconnect |-> FALSE,
     reconnectTicks |-> 0, addr |-> NoAddr, fds |-> 0]

\* main_loop is entered with a listener, no client and a complete configuration.
Init ==
    /\ phase = "select"
    /\ srv = NewServer
    /\ cfg \in [addr : Addrs, keepalive : Keepalives]
    /\ gReconnect = FALSE
    /\ clients = FALSE
    /\ up \in SUBSET Addrs
    /\ reply = "none"

-------------------------------------------------------------------------------
(* Member functions of Server, as functions of its state.                  *)

IsConnected(s) == s.sock # "none"

DisconnectAlways(s) ==       \* mutant: no test of isConnected()
    [s EXCEPT !.sock = "none", !.fds = @ - 1]

Disconnect(s) ==
    IF IsConnected(s) THEN [s EXCEPT !.sock = "none", !.fds = @ - 1] ELSE s

OpenedTicking(s, a) ==       \* mutant: the inactive ticks are not reset
    [s EXCEPT !.sock = "open", !.reconnect = FALSE, !.addr = a, !.fds = @ + 1]

OpenedWaiting(s, a) ==       \* mutant: _reconnect is not cleared
    [s EXCEPT !.sock = "open", !.timeoutTicks = 0, !.addr = a, !.fds = @ + 1]

\* What a successful connect() stores.
Opened(s, a) ==
    [s EXCEPT !.sock = "open", !.timeoutTicks = 0, !.reconnect = FALSE,
              !.addr = a, !.fds = @ + 1]

\* connect() succeeds when a provider listens at a and a descriptor is left.
\* A failed attempt deletes the Socket without closing it: the descriptor
\* stays open, unless there was none to open.
Connect(s, a) ==
    LET t == Disconnect(s)
        reached == a \in up /\ t.fds < FdLimit
    IN  IF reached
        THEN Opened(t, a)
        ELSE [t EXCEPT !.fds = IF @ < FdLimit THEN @ + 1 ELSE @]

LostConnection(s) == [s EXCEPT !.reconnect = TRUE, !.reconnectTicks = 0]

\* _timeoutTicks is only compared for equality with a keepalive interval and
\* for order with IdleLimit, all below TickCap: counting stops there.
Tock(n) == IF n < TickCap THEN n + 1 ELSE n

\* Whether the send succeeded is ignored, and the answer is not read.
SendKeepalive(s) == [s EXCEPT !.timeoutTicks = 0]

\* First half of tick().
TimeoutTick(s) ==
    LET t == [s EXCEPT !.timeoutTicks = Tock(@)]
        keepalive == t.timeout > 0 /\ IsConnected(t) /\ t.timeoutTicks = t.timeout
        expired   == t.timeout = 0 /\ IsConnected(t) /\ t.timeoutTicks > IdleLimit
    IN  IF keepalive THEN SendKeepalive(t)
        ELSE IF expired THEN [Disconnect(t) EXCEPT !.timeoutTicks = 0]
        ELSE t

AttemptDueLate(s) == s.reconnectTicks + 1 > ReconnectLimit    \* mutant: ">" for ">="

AttemptDue(s) == s.reconnectTicks + 1 >= ReconnectLimit

\* The attempt is made at the host and port of the last successful connect.
Attempt(s) == [Connect(s, s.addr) EXCEPT !.reconnectTicks = 0]

\* Second half of tick().
ReconnectTick(s) ==
    IF ~s.reconnect THEN s
    ELSE IF AttemptDue(s) THEN Attempt(s) ELSE [s EXCEPT !.reconnectTicks = @ + 1]

-------------------------------------------------------------------------------
(* Functions of l2netmgr.cpp that act on one Server.                       *)

\* FALSE is returned without an attempt when the address is undefined.
ConnectServer(s) == IF cfg.addr = NoAddr THEN s ELSE Connect(s, cfg.addr)

LostServerDirty(s) == LostConnection(s)      \* mutant: the old socket is kept

LostServer(s) == LostConnection(Disconnect(s))

\* mutant: a failed connect_server is not taken for a loss
ConnectOnly(s) == ConnectServer(s)

\* connect_server, or lost_server if that failed.
ConnectOrLose(s) ==
    LET t == ConnectServer(s) IN IF IsConnected(t) THEN t ELSE LostServer(t)

-------------------------------------------------------------------------------
(* One pass of main_loop.                                                  *)

\* The keepalive interval is read from the configuration, then select waits
\* for input or for one second.
Select ==
    /\ phase = "select"
    /\ phase' = "reconnect"
    /\ srv' = [srv EXCEPT !.timeout = cfg.keepalive]
    /\ UNCHANGED <<cfg, gReconnect, clients, up, reply>>

\* g_reconnect is obeyed, and not lowered.
IssueReconnect ==
    /\ phase = "reconnect"
    /\ phase' = "work"
    /\ srv' = IF gReconnect /\ clients THEN LostServer(srv) ELSE srv
    /\ UNCHANGED <<cfg, gReconnect, clients, up, reply>>

FirstClientArrives ==
    /\ phase = "work"
    /\ ~clients
    /\ clients' = TRUE
    /\ UNCHANGED <<phase, srv, cfg, gReconnect, up, reply>>

LastClientLeaves ==
    /\ phase = "work"
    /\ clients
    /\ clients' = FALSE
    /\ UNCHANGED <<phase, srv, cfg, gReconnect, up, reply>>

(* send_command, for a command this provider provides.                     *)

RefusedAgainLost(s) == LostServer(s)       \* mutant: the wait starts again

\* What a command does to the Server that refuses it.
Refused(s) == s

CommandWhileDown ==
    /\ phase = "work"
    /\ clients
    /\ srv.reconnect
    /\ srv' = Refused(srv)
    /\ reply' = "down"
    /\ UNCHANGED <<phase, cfg, gReconnect, clients, up>>

\* The connection send_command uses, opened if there is none.
Ensured == IF IsConnected(srv) THEN srv ELSE ConnectServer(srv)

\* The answer keeps its initial value, "-> unknown command".
CommandUnreachable ==
    /\ phase = "work"
    /\ clients
    /\ ~srv.reconnect
    /\ ~IsConnected(Ensured)
    /\ srv' = LostServer(Ensured)
    /\ reply' = "unknown"
    /\ UNCHANGED <<phase, cfg, gReconnect, clients, up>>

\* CommandFactory::build rejects the arguments: nothing is sent.
CommandInvalid ==
    /\ phase = "work"
    /\ clients
    /\ ~srv.reconnect
    /\ IsConnected(Ensured)
    /\ srv' = Ensured
    /\ reply' = "invalid"
    /\ UNCHANGED <<phase, cfg, gReconnect, clients, up>>

\* The command is sent; the program blocks until the first byte of the answer.
CommandSent ==
    /\ phase = "work"
    /\ clients
    /\ ~srv.reconnect
    /\ IsConnected(Ensured)
    /\ srv' = Ensured
    /\ phase' = "await"
    /\ UNCHANGED <<cfg, gReconnect, clients, up, reply>>

CommandAnswered ==
    /\ phase = "await"
    /\ srv.sock = "open"
    /\ phase' = "work"
    /\ srv' = [srv EXCEPT !.timeoutTicks = 0]
    /\ reply' = "answered"
    /\ UNCHANGED <<cfg, gReconnect, clients, up>>

\* A new connection is tried at once; the command is not sent again.
CommandFailed ==
    /\ phase = "await"
    /\ srv.sock = "broken"
    /\ phase' = "work"
    /\ srv' = ConnectOrLose(Disconnect(srv))
    /\ reply' = "down"
    /\ UNCHANGED <<cfg, gReconnect, clients, up>>

EndWork ==
    /\ phase = "work"
    /\ phase' = "tick"
    /\ UNCHANGED <<srv, cfg, gReconnect, clients, up, reply>>

Tick ==
    /\ phase = "tick"
    /\ phase' = "idle"
    /\ srv' = ReconnectTick(TimeoutTick(srv))
    /\ UNCHANGED <<cfg, gReconnect, clients, up, reply>>

\* The comment there adds "and keepalives are disabled", the code does not.
Unused == ~clients

IdleDisconnect ==
    /\ phase = "idle"
    /\ phase' = "select"
    /\ srv' = IF Unused THEN Disconnect(srv) ELSE srv
    /\ UNCHANGED <<cfg, gReconnect, clients, up, reply>>

-------------------------------------------------------------------------------
(* The provider, the network and the settings dialog.                      *)

ProviderStarts ==
    /\ \E a \in Addrs \ up : up' = up \cup {a}
    /\ UNCHANGED <<phase, srv, cfg, gReconnect, clients, reply>>

ProviderStops ==
    /\ \E a \in up : up' = up \ {a}
    /\ UNCHANGED <<phase, srv, cfg, gReconnect, clients, reply>>

PeerCloses ==
    /\ srv.sock = "open"
    /\ srv' = [srv EXCEPT !.sock = "broken"]
    /\ UNCHANGED <<phase, cfg, gReconnect, clients, up, reply>>

\* A new address or port for this provider; an address field left blank makes
\* it undefined.
GuiSetsAddress ==
    /\ GuiEdits
    /\ \E a \in (Addrs \cup {NoAddr}) \ {cfg.addr} : cfg' = [cfg EXCEPT !.addr = a]
    /\ gReconnect' = TRUE
    /\ UNCHANGED <<phase, srv, clients, up, reply>>

\* The address of the other provider changed: g_reconnect is common to both.
GuiSetsOther ==
    /\ GuiEdits
    /\ gReconnect' = TRUE
    /\ UNCHANGED <<phase, srv, cfg, clients, up, reply>>

GuiSetsKeepalive ==
    /\ GuiEdits
    /\ \E k \in Keepalives \ {cfg.keepalive} : cfg' = [cfg EXCEPT !.keepalive = k]
    /\ UNCHANGED <<phase, srv, gReconnect, clients, up, reply>>

-------------------------------------------------------------------------------

Command ==
    \/ CommandWhileDown
    \/ CommandUnreachable
    \/ CommandInvalid
    \/ CommandSent

CommandEnds == CommandAnswered \/ CommandFailed

LoopStep == Select \/ IssueReconnect \/ Tick \/ IdleDisconnect

Clients == FirstClientArrives \/ LastClientLeaves \/ Command

Environment ==
    \/ ProviderStarts
    \/ ProviderStops
    \/ PeerCloses
    \/ GuiSetsAddress
    \/ GuiSetsOther
    \/ GuiSetsKeepalive

Next == LoopStep \/ EndWork \/ Clients \/ CommandEnds \/ Environment

\* The thread runs; a pass serves finitely many commands, each of which the
\* provider answers, or drops with its connection, in finite time.
Fairness ==
    /\ WF_vars(LoopStep)
    /\ SF_vars(EndWork)
    /\ WF_vars(CommandEnds)

Spec == Init /\ [][Next]_vars

FairSpec == Spec /\ Fairness

-------------------------------------------------------------------------------
(* Safety.                                                                 *)

\* A provider that is being waited for has no connection, and a command is at
\* the provider only over a connection the program holds: lost_server closes
\* what is left of the old connection before the wait starts, and connect ends
\* the wait together with opening the new one.
LinkConsistent ==
    /\ srv.reconnect => ~IsConnected(srv)
    /\ phase = "await" => IsConnected(srv) /\ ~srv.reconnect

\* Server::tick compares the counter of inactive ticks with "=": it must never
\* pass the keepalive interval of a connection unnoticed, and without
\* keepalives no connection stays unused for more than IdleLimit ticks.
IdleBounded ==
    IsConnected(srv) =>
        IF srv.timeout > 0
        THEN srv.timeoutTicks < srv.timeout
        ELSE srv.timeoutTicks <= IdleLimit

-------------------------------------------------------------------------------
(* Liveness.                                                               *)

\* While a provider is down the retry comes up again and again, whatever the
\* clients do meanwhile: nothing restarts the wait.
EventuallyRetries ==
    srv.reconnect ~> (~srv.reconnect \/ srv.reconnectTicks = ReconnectLimit - 1)

\* A provider that was reached before and listens again at that address does
\* not stay down, as long as the process has a descriptor left.
RecoversFromLoss ==
    (srv.reconnect /\ srv.addr \in up /\ srv.fds < FdLimit)
        ~> (~srv.reconnect \/ srv.addr \notin up)

-------------------------------------------------------------------------------
(* Refinement.                                                             *)

link ==
    IF srv.reconnect THEN "down"
    ELSE IF IsConnected(srv) THEN "connected" ELSE "idle"

wait == IF srv.reconnect THEN srv.reconnectTicks ELSE 0

Link == INSTANCE ProviderLink WITH Limit <- ReconnectLimit

\* The connection goes through "idle", "connected" and "down" as ProviderLink
\* allows: in particular only the paced retry leaves "down".
ImplementsLink == Link!Spec

-------------------------------------------------------------------------------
(* What documents and comments say of the program and the code does not do. *)

\* Log text of lost_server: "will attempt to reconnect" to the provider.  The
\* retry goes to the address of the last successful connect instead of the
\* configured one, and there is none if the very first connect failed.
RetriesConfiguredAddress == srv.reconnect => srv.addr = cfg.addr

===============================================================================
