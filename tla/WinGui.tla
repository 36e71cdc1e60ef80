-------------------------------- MODULE WinGui --------------------------------
(***************************************************************************)
(* The two threads of the Windows program: the GUI thread (_tWinMain,      *)
(* WndProc and Settings, wingui.cpp) and the network thread, which runs    *)
(* main (l2netmgr.cpp).  They share the configuration and two flags        *)
(* without a lock, and wait for each other: the network thread in          *)
(* SendMessage whenever it logs (log.cpp), the GUI thread for the end of   *)
(* the network thread.                                                     *)
(*                                                                         *)
(* Of the network thread only what touches the shared state is here, with  *)
(* one provider; the tick counters are in Server, the clients in MainLoop. *)
(***************************************************************************)
EXTENDS Naturals

CONSTANTS
    Ports,      \* "cached_port"
    Addrs,      \* "cached_addr"
    Undefined   \* a key without a value, a blank field, no connection

Pairs == [port : Ports, addr : Addrs]

\* A port field that is left blank counts as 0, a blank address is stored as it is.
Filled == [port : Ports, addr : Addrs \cup {Undefined}]
Partial == [port : Ports \cup {Undefined}, addr : Addrs \cup {Undefined}]
Nothing == [port |-> Undefined, addr |-> Undefined]

VARIABLES
    gui,        \* where the GUI thread is
    window,     \* the window and its edit control exist
    form,       \* what the settings dialog holds when OK is pressed
    shutdown,   \* g_shutdown
    reconnect,  \* g_reconnect
    config,     \* g_config: port and address of the provider
    saved,      \* l2netmgr.conf as the program left it
    net,        \* where the network thread is
    logging,    \* the network thread is inside SendMessage
    clients,    \* g_clients is not empty
    read,       \* what connect_server has read so far
    link,       \* what the provider connection is connected to
    last,       \* _host and _port
    waiting     \* the provider is down

guiVars == <<gui, window, form, saved>>
linkVars == <<clients, read, link, last, waiting>>
vars == <<gui, window, form, shutdown, reconnect, config, saved,
          net, logging, linkVars>>

GuiPlaces == {"pump", "dialog", "port", "flagport", "addr", "flagaddr", "authd",
              "destroy", "wait", "save", "ended", "crashed"}
NetPlaces == {"start", "top", "woken", "work", "port", "check", "addr", "connect",
              "tick", "unused", "cleanup", "done"}

Init ==
    /\ gui = "pump" /\ window = TRUE /\ form = Nothing
    /\ shutdown = FALSE /\ reconnect = FALSE
    /\ config = Nothing /\ saved = Nothing
    /\ net = "start" /\ logging = FALSE
    /\ clients = FALSE /\ waiting = FALSE
    /\ read = Nothing /\ link = Nothing /\ last = Nothing

Running == gui \notin {"ended", "crashed"}

-------------------------------------------------------------------------------
(* The GUI thread.  GetMessage, also in the loop of a dialog, first serves *)
(* what other threads send, and only then takes what the user posted.      *)

Pumping == gui \in {"pump", "dialog"}

Deliver ==
    /\ Pumping /\ logging
    /\ logging' = FALSE
    /\ UNCHANGED <<guiVars, shutdown, reconnect, config, net, linkVars>>

\* Back to the message loop, which looks at g_shutdown.
BackToLoop == gui' = IF shutdown THEN "wait" ELSE "pump"

\* Any message that changes nothing here: paint, size, tray icon, about box.
OtherMessage ==
    /\ gui = "pump" /\ ~logging
    /\ BackToLoop
    /\ UNCHANGED <<window, form, saved, shutdown, reconnect, config, net, logging,
                   linkVars>>

OpenSettings ==
    /\ gui = "pump" /\ ~logging
    /\ gui' = "dialog"
    /\ UNCHANGED <<window, form, saved, shutdown, reconnect, config, net, logging,
                   linkVars>>

Cancel ==
    /\ gui = "dialog" /\ ~logging
    /\ BackToLoop
    /\ UNCHANGED <<window, form, saved, shutdown, reconnect, config, net, logging,
                   linkVars>>

PressOk ==
    /\ gui = "dialog" /\ ~logging
    /\ form' \in Filled
    /\ gui' = "port"
    /\ UNCHANGED <<window, saved, shutdown, reconnect, config, net, logging,
                   linkVars>>

\* Where the configuration has no port, the new one is compared with whatever
\* getInt left in oldport.
NewPort ==
    /\ gui = "port"
    /\ \/ /\ form.port # config.port
          /\ config' = [config EXCEPT !.port = form.port]
          /\ gui' = "flagport"
       \/ /\ config.port \in {form.port, Undefined}
          /\ gui' = "addr"
          /\ UNCHANGED config
    /\ UNCHANGED <<window, form, saved, shutdown, reconnect, net, logging, linkVars>>

\* strncmp does not survive the NULL that getString returns for a key without a
\* value: before parseFile, when main gave up before the defaults, or when the
\* last edit left the field blank.
NewAddr ==
    /\ gui = "addr"
    /\ IF config.addr = Undefined
       THEN UNCHANGED config /\ gui' = "crashed"
       ELSE IF form.addr # config.addr
       THEN config' = [config EXCEPT !.addr = form.addr] /\ gui' = "flagaddr"
       ELSE UNCHANGED config /\ gui' = "authd"
    /\ UNCHANGED <<window, form, saved, shutdown, reconnect, net, logging, linkVars>>

AfterFlag(place) == IF place = "flagport" THEN "addr" ELSE "authd"

RaiseFlag ==
    /\ gui \in {"flagport", "flagaddr"}
    /\ reconnect' = TRUE
    /\ gui' = AfterFlag(gui)
    /\ UNCHANGED <<window, form, saved, shutdown, config, net, logging, linkVars>>

\* The same for the other provider and the password, whose values are not here,
\* so that either may be the NULL that ends the program; EndDialog.
NewAuthd ==
    /\ gui = "authd"
    /\ reconnect' \in {reconnect, TRUE}
    /\ form' = Nothing
    /\ BackToLoop \/ gui' = "crashed"
    /\ UNCHANGED <<window, saved, shutdown, config, net, logging, linkVars>>

CloseWindowQuits ==     \* mutant: PostQuitMessage alone
    /\ gui = "pump" /\ window /\ ~logging
    /\ gui' = "destroy"
    /\ UNCHANGED <<window, form, saved, shutdown, reconnect, config, net, logging,
                   linkVars>>

\* IDM_EXIT, or SC_CLOSE by way of DefWindowProc: WM_DESTROY arrives, then the
\* children go.
CloseWindow ==
    /\ gui = "pump" /\ window /\ ~logging
    /\ shutdown' = TRUE
    /\ gui' = "destroy"
    /\ UNCHANGED <<window, form, saved, reconnect, config, net, logging, linkVars>>

\* A SendMessage to the edit control fails now, the one underway included.
DestroyChildren ==
    /\ gui = "destroy"
    /\ window' = FALSE
    /\ logging' = FALSE
    /\ gui' = "wait"
    /\ UNCHANGED <<form, saved, shutdown, reconnect, config, net, linkVars>>

ThreadGone == TRUE              \* mutant: nobody waits
ThreadEnded == net = "done"

Wait ==
    /\ gui = "wait"
    /\ ThreadEnded
    /\ gui' = "save"
    /\ UNCHANGED <<window, form, saved, shutdown, reconnect, config, net, logging,
                   linkVars>>

\* Each line is flushed as it is written; then saveFile dereferences end(),
\* which adds a line of rubbish, or ends the program.
SaveFile ==
    /\ gui = "save"
    /\ saved' = config
    /\ gui' \in {"ended", "crashed"}
    /\ UNCHANGED <<window, form, shutdown, reconnect, config, net, logging, linkVars>>

Handler ==
    \/ Deliver \/ NewPort \/ NewAddr \/ RaiseFlag \/ NewAuthd
    \/ DestroyChildren \/ Wait \/ SaveFile

User == OtherMessage \/ OpenSettings \/ Cancel \/ PressOk \/ CloseWindow

-------------------------------------------------------------------------------
(* The network thread.                                                     *)

\* A step that logs, level permitting, comes back from SendMessage when the
\* GUI thread has taken the message.
Log == logging' \in {FALSE, window}
Silent == logging' = FALSE

At(place) == Running /\ ~logging /\ net = place
Go(place) == net' = place

FromFileOnly == Partial    \* mutant: no defaults

\* What the file says, and the defaults.
FromFile == Pairs

Start ==
    /\ At("start")
    /\ config' \in FromFile
    /\ Go("top") /\ Log
    /\ UNCHANGED <<guiVars, shutdown, reconnect, linkVars>>

\* main returns 1: no command file, before the defaults, or no listener.
StartFails ==
    /\ At("start")
    /\ config' \in Partial
    /\ Go("done") /\ Log
    /\ UNCHANGED <<guiVars, shutdown, reconnect, linkVars>>

Top ==
    /\ At("top")
    /\ Go(IF shutdown THEN "cleanup" ELSE "woken") /\ Silent
    /\ UNCHANGED <<guiVars, shutdown, reconnect, config, linkVars>>

ReconnectDueWaiting == reconnect /\ waiting     \* mutant: the wrong condition
ReconnectDue == reconnect /\ clients

\* lost_server
Reconnect ==
    /\ At("woken") /\ ReconnectDue
    /\ link' = Nothing /\ waiting' = TRUE
    /\ Go("work") /\ Log
    /\ UNCHANGED <<guiVars, shutdown, reconnect, config, clients, read, last>>

NoReconnect ==
    /\ At("woken") /\ ~ReconnectDue
    /\ Go("work") /\ Silent
    /\ UNCHANGED <<guiVars, shutdown, reconnect, config, linkVars>>

\* Clients come (the listener is served first, but order does not matter to
\* the shared state) and go.
ClientsChange ==
    /\ At("work")
    /\ clients' \in BOOLEAN
    /\ Go("work") /\ Log
    /\ UNCHANGED <<guiVars, shutdown, reconnect, config, read, link, last, waiting>>

\* The command "shutdown".
ClientShutdown ==
    /\ At("work") /\ clients
    /\ shutdown' = TRUE
    /\ Go("work") /\ Log
    /\ UNCHANGED <<guiVars, reconnect, config, linkVars>>

\* A command needs a connection: there is none yet, or it fails.
Command ==
    /\ At("work") /\ clients /\ ~waiting
    /\ link' = Nothing
    /\ Go("port") /\ Log
    /\ UNCHANGED <<guiVars, shutdown, reconnect, config, clients, read, last, waiting>>

ReadPort ==
    /\ At("port")
    /\ read' = [read EXCEPT !.port = config.port]
    /\ Go("check") /\ Silent
    /\ UNCHANGED <<guiVars, shutdown, reconnect, config, clients, link, last, waiting>>

\* connect_server returns false, and lost_server is called.
NotConnected ==
    /\ waiting' = TRUE
    /\ read' = Nothing
    /\ Go("work") /\ Log

AddrDefined ==
    /\ At("check") /\ config.addr # Undefined
    /\ Go("addr") /\ Silent
    /\ UNCHANGED <<guiVars, shutdown, reconnect, config, linkVars>>

AddrUndefined ==
    /\ At("check") /\ config.addr = Undefined
    /\ NotConnected
    /\ UNCHANGED <<guiVars, shutdown, reconnect, config, clients, link, last>>

ReadAddr ==
    /\ At("addr") /\ config.addr # Undefined
    /\ read' = [read EXCEPT !.addr = config.addr]
    /\ Go("connect") /\ Silent
    /\ UNCHANGED <<guiVars, shutdown, reconnect, config, clients, link, last, waiting>>

\* The dialog has blanked the address since it was checked: gethostbyname takes
\* NULL for this machine.  Who answers there crashes the program (_host = NULL).
ReadNull ==
    /\ At("addr") /\ config.addr = Undefined
    /\ \/ NotConnected /\ UNCHANGED gui
       \/ gui' = "crashed" /\ UNCHANGED <<net, read, waiting, logging>>
    /\ UNCHANGED <<window, form, saved, shutdown, reconnect, config, clients, link, last>>

Connect ==
    /\ At("connect")
    /\ \/ /\ link' = read /\ last' = read
          /\ read' = Nothing
          /\ Go("work") /\ Log
          /\ UNCHANGED waiting
       \/ NotConnected /\ UNCHANGED <<link, last>>
    /\ UNCHANGED <<guiVars, shutdown, reconnect, config, clients>>

EndWorkLowers ==        \* mutant: lowered where it may just have been raised
    /\ At("work")
    /\ reconnect' = FALSE
    /\ Go("tick") /\ Silent
    /\ UNCHANGED <<guiVars, shutdown, config, linkVars>>

EndWork ==
    /\ At("work")
    /\ Go("tick") /\ Silent
    /\ UNCHANGED <<guiVars, shutdown, reconnect, config, linkVars>>

\* A retry may be due and succeed; a connection may be dropped as idle.
Tick ==
    /\ At("tick")
    /\ \/ UNCHANGED <<link, waiting>> /\ Log
       \/ waiting /\ link' = last /\ waiting' = (last = Nothing) /\ Log
       \/ link # Nothing /\ link' = Nothing /\ UNCHANGED waiting /\ Log
    /\ Go("unused")
    /\ UNCHANGED <<guiVars, shutdown, reconnect, config, clients, read, last>>

Unused ==
    /\ At("unused")
    /\ IF clients \/ link = Nothing
       THEN UNCHANGED link /\ Silent
       ELSE link' = Nothing /\ Log
    /\ Go("top")
    /\ UNCHANGED <<guiVars, shutdown, reconnect, config, clients, read, last, waiting>>

Cleanup ==
    /\ At("cleanup")
    /\ clients' = FALSE /\ link' = Nothing
    /\ Go("done") /\ Log
    /\ UNCHANGED <<guiVars, shutdown, reconnect, config, read, last, waiting>>

Network ==
    \/ Start \/ StartFails \/ Top \/ Reconnect \/ NoReconnect
    \/ ClientsChange \/ ClientShutdown \/ Command
    \/ ReadPort \/ AddrDefined \/ AddrUndefined \/ ReadAddr \/ ReadNull \/ Connect
    \/ EndWork \/ Tick \/ Unused \/ Cleanup

-------------------------------------------------------------------------------

Next == Handler \/ User \/ Network

Spec == Init /\ [][Next]_vars

\* Both threads run, and a pass serves finitely many lines.
FairSpec == Spec /\ WF_vars(Handler) /\ WF_vars(Network) /\ SF_vars(EndWork)

-------------------------------------------------------------------------------

\* Types.  main sees to a port and the dialog cannot take it away, so that
\* connect_server (l2netmgr.cpp) finds one.  The address it may miss, at either of
\* its looks; a connection that the program survives is to a whole pair.
TypeOK ==
    /\ gui \in GuiPlaces /\ net \in NetPlaces
    /\ {window, shutdown, reconnect, logging, clients, waiting} \subseteq BOOLEAN
    /\ form \in Filled \cup {Nothing}
    /\ {config, saved, read} \subseteq Partial
    /\ {link, last} \subseteq Pairs \cup {Nothing}
    /\ net \notin {"start", "done"} => config.port \in Ports
    /\ net = "connect" => read \in Pairs

Stale == link \notin {Nothing, config}

\* Settings, connect_server and tick: whatever pair of port and address the
\* network thread has read between two steps of the dialog, a connection to
\* anything but the configured provider is one the dialog is about to flag or
\* has flagged.
StaleIsFlagged ==
    (Running /\ Stale) => (reconnect \/ gui \in {"flagport", "flagaddr"})

\* Settings and main_loop: a connection to a provider that is not the
\* configured one does not last.
StaleLinkDropped == Stale ~> (~Stale \/ shutdown \/ ~Running)

\* WndProc, _tWinMain and log: when the window has been closed the program
\* ends, although the network thread may be waiting for the window at that
\* moment.
ExitCompletes == ~window ~> ~Running

\* _tWinMain: the program ends after the network thread, with the provider
\* disconnected and what the dialog set last in the file.
ExitInOrder ==
    gui = "ended" => net = "done" /\ link = Nothing /\ saved = config

===============================================================================
