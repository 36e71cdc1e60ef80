------------------------------ MODULE WinGuiProofs ------------------------------
(***************************************************************************)
(* Proofs about WinGui.tla, for any ports and addresses: types, that a     *)
(* connection to a provider that is not configured is flagged, and the     *)
(* order of the end of the program.                                        *)
(***************************************************************************)
EXTENDS WinGui, TLAPS

-------------------------------------------------------------------------------
(* The inductive invariant.                                                *)

\* The dialog has asked for a reconnection, or will in its next step, or nothing
\* runs any more.
Flagged == reconnect \/ gui \in {"flagport", "flagaddr", "crashed"}

\* What was read from the configuration is still there, or it is flagged.
ReadIsFlagged ==
    /\ net \in {"check", "addr", "connect"} =>
          read.port \in Ports /\ (read.port # config.port => Flagged)
    /\ net = "connect" =>
          read.addr \in Addrs /\ (read.addr # config.addr => Flagged)

\* So is what was connected to, which tick connects to again.
LastIsFlagged ==
    /\ link \in {Nothing, last}
    /\ last \notin {Nothing, config} => Flagged

BeforeAndAfter ==
    /\ net = "start" => link = Nothing /\ last = Nothing
    /\ net = "done" => link = Nothing
    /\ gui = "save" => net = "done"

FormFilled ==
    gui \in {"port", "flagport", "addr", "flagaddr", "authd"} => form \in Filled

IInv ==
    /\ TypeOK
    /\ ReadIsFlagged
    /\ LastIsFlagged
    /\ BeforeAndAfter
    /\ FormFilled
    /\ ExitInOrder

-------------------------------------------------------------------------------

\* Two configurations with the same values are the same.
LEMMA SameFields ==
    ASSUME NEW a \in Partial, NEW b \in Partial, a.port = b.port, a.addr = b.addr
    PROVE  a = b
BY DEF Partial

LEMMA Subtypes ==
    Pairs \subseteq Filled /\ Filled \subseteq Partial /\ Nothing \in Partial
BY DEF Pairs, Filled, Partial, Nothing

LEMMA InitInv == Init => IInv
<1>. SUFFICES ASSUME Init PROVE IInv
  OBVIOUS
<1>1. TypeOK
  BY Subtypes DEF Init, TypeOK, GuiPlaces, NetPlaces
<1>2. ReadIsFlagged /\ LastIsFlagged /\ BeforeAndAfter /\ FormFilled /\ ExitInOrder
  BY DEF Init, ReadIsFlagged, LastIsFlagged, BeforeAndAfter, FormFilled, ExitInOrder
<1>. QED  BY <1>1, <1>2 DEF IInv

-------------------------------------------------------------------------------
(* The GUI thread.                                                         *)

\* Steps that touch neither the values nor the network thread.
LEMMA GuiMoves ==
    ASSUME IInv,
           UNCHANGED <<config, saved, net, linkVars>>,
           gui' \in {"pump", "dialog", "port", "addr", "authd", "destroy", "wait", "crashed"},
           Flagged => Flagged',
           form' \in Filled \cup {Nothing},
           gui' \in {"port", "addr", "authd"} => form' \in Filled,
           {window', shutdown', reconnect', logging'} \subseteq BOOLEAN
    PROVE  IInv'
<1>1. TypeOK'
  BY DEF IInv, TypeOK, GuiPlaces, linkVars
<1>2. ReadIsFlagged' /\ LastIsFlagged' /\ BeforeAndAfter' /\ ExitInOrder'
  BY DEF IInv, ReadIsFlagged, LastIsFlagged, BeforeAndAfter, ExitInOrder, linkVars
<1>3. FormFilled'
  BY DEF FormFilled
<1>. QED  BY <1>1, <1>2, <1>3 DEF IInv

\* A value is changed and the flag not yet raised: nobody else need look.
LEMMA ValueChanges ==
    ASSUME IInv,
           UNCHANGED <<window, form, saved, shutdown, reconnect, net, logging, linkVars>>,
           gui \in {"port", "addr"},
           gui' \in {"flagport", "flagaddr"},
           config' \in Partial, config.port \in Ports => config'.port \in Ports
    PROVE  IInv'
<1>1. TypeOK'
  BY DEF IInv, TypeOK, GuiPlaces, linkVars
<1>2. Flagged'
  BY DEF Flagged
<1>3. ReadIsFlagged' /\ LastIsFlagged' /\ BeforeAndAfter' /\ ExitInOrder' /\ FormFilled'
  BY <1>2 DEF IInv, ReadIsFlagged, LastIsFlagged, BeforeAndAfter, ExitInOrder,
              FormFilled, linkVars
<1>. QED  BY <1>1, <1>3 DEF IInv

LEMMA UserStep == IInv /\ User => IInv'
<1>. SUFFICES ASSUME IInv, User PROVE IInv'
  OBVIOUS
<1>0. /\ {window, shutdown, reconnect, logging} \subseteq BOOLEAN
      /\ form \in Filled \cup {Nothing}
  BY DEF IInv, TypeOK
<1>1. CASE OtherMessage \/ OpenSettings \/ Cancel
  <2>1. /\ gui \in {"pump", "dialog"} /\ gui' \in {"pump", "dialog", "wait"}
        /\ UNCHANGED <<window, form, saved, shutdown, reconnect, config, net, logging,
                       linkVars>>
    BY <1>1 DEF OtherMessage, OpenSettings, Cancel, BackToLoop
  <2>2. Flagged => Flagged'
    BY <2>1 DEF Flagged
  <2>. QED  BY <1>0, <2>1, <2>2, GuiMoves
<1>2. CASE PressOk
  BY <1>0, <1>2, GuiMoves DEF PressOk, Flagged
<1>3. CASE CloseWindow
  BY <1>0, <1>3, GuiMoves DEF CloseWindow, Flagged
<1>. QED  BY <1>1, <1>2, <1>3 DEF User

LEMMA HandlerStep == IInv /\ Handler => IInv'
<1>. SUFFICES ASSUME IInv, Handler PROVE IInv'
  OBVIOUS
<1>0. /\ {window, shutdown, reconnect, logging} \subseteq BOOLEAN
      /\ form \in Filled \cup {Nothing}
      /\ FormFilled /\ config \in Partial
  BY DEF IInv, TypeOK
<1>1. CASE Deliver
  BY <1>0, <1>1, GuiMoves DEF Deliver, Pumping, guiVars, Flagged
<1>2. CASE NewPort
  <2>0. gui = "port" /\ form \in Filled
    BY <1>0, <1>2 DEF NewPort, FormFilled
  <2>1. CASE gui' = "flagport"
    <3>1. form.port \in Ports /\ config' = [config EXCEPT !.port = form.port]
      BY <1>2, <2>0, <2>1 DEF NewPort, Filled
    <3>2. config' \in Partial /\ config'.port \in Ports
      BY <1>0, <3>1 DEF Partial
    <3>. QED  BY <1>2, <2>1, <3>2, ValueChanges DEF NewPort
  <2>2. CASE gui' = "addr" /\ UNCHANGED config
    BY <1>0, <1>2, <2>0, <2>2, GuiMoves DEF NewPort, Flagged
  <2>. QED  BY <1>2, <2>1, <2>2 DEF NewPort
<1>3. CASE NewAddr
  <2>0. gui = "addr" /\ form \in Filled
    BY <1>0, <1>3 DEF NewAddr, FormFilled
  <2>1. CASE config.addr = Undefined
    BY <1>0, <1>3, <2>1, GuiMoves DEF NewAddr, Flagged
  <2>2. CASE config.addr # Undefined /\ form.addr # config.addr
    <3>1. form.addr \in Addrs \cup {Undefined} /\ config' = [config EXCEPT !.addr = form.addr]
      BY <1>3, <2>0, <2>2 DEF NewAddr, Filled
    <3>2. config' \in Partial /\ config'.port = config.port
      BY <1>0, <3>1 DEF Partial
    <3>. QED  BY <1>3, <2>2, <3>2, ValueChanges DEF NewAddr
  <2>3. CASE config.addr # Undefined /\ form.addr = config.addr
    BY <1>0, <1>3, <2>0, <2>3, GuiMoves DEF NewAddr, Flagged
  <2>. QED  BY <2>1, <2>2, <2>3
<1>4. CASE RaiseFlag
  BY <1>0, <1>4, GuiMoves DEF RaiseFlag, AfterFlag, Flagged, FormFilled
<1>5. CASE NewAuthd
  <2>1. /\ gui = "authd" /\ gui' \in {"pump", "wait", "crashed"} /\ form' = Nothing
        /\ UNCHANGED <<window, saved, shutdown, config, net, logging, linkVars>>
    BY <1>5 DEF NewAuthd, BackToLoop
  <2>2. reconnect' = reconnect \/ reconnect' = TRUE
    BY <1>5 DEF NewAuthd
  <2>3. CASE reconnect' = TRUE
    BY <1>0, <2>1, <2>3, GuiMoves DEF Flagged
  <2>4. CASE reconnect' = reconnect
    <3>1. Flagged => Flagged'
      BY <2>1, <2>4 DEF Flagged
    <3>. QED  BY <1>0, <2>1, <2>4, <3>1, GuiMoves
  <2>. QED  BY <2>2, <2>3, <2>4
<1>6. CASE DestroyChildren
  <2>1. /\ gui = "destroy" /\ gui' = "wait"
        /\ window' \in BOOLEAN /\ logging' \in BOOLEAN
        /\ UNCHANGED <<form, saved, shutdown, reconnect, config, net, linkVars>>
    BY <1>6 DEF DestroyChildren
  <2>2. Flagged => Flagged'
    BY <2>1 DEF Flagged
  <2>. QED  BY <1>0, <2>1, <2>2, GuiMoves
<1>7. CASE Wait
  <2>1. /\ gui = "wait" /\ gui' = "save" /\ net = "done"
        /\ UNCHANGED <<window, form, saved, shutdown, reconnect, config, net, logging, linkVars>>
    BY <1>7 DEF Wait, ThreadEnded
  <2>2. TypeOK'
    BY <2>1 DEF IInv, TypeOK, GuiPlaces, linkVars
  <2>. QED  BY <2>1, <2>2 DEF IInv, Flagged, ReadIsFlagged, LastIsFlagged,
                              BeforeAndAfter, ExitInOrder, FormFilled, linkVars
<1>8. CASE SaveFile
  <2>1. /\ gui = "save" /\ gui' \in {"ended", "crashed"} /\ saved' = config
        /\ UNCHANGED <<window, form, shutdown, reconnect, config, net, logging, linkVars>>
    BY <1>8 DEF SaveFile
  <2>2. TypeOK'
    BY <2>1 DEF IInv, TypeOK, GuiPlaces, linkVars
  <2>. QED  BY <2>1, <2>2 DEF IInv, Flagged, ReadIsFlagged, LastIsFlagged,
                              BeforeAndAfter, ExitInOrder, FormFilled, linkVars
<1>. QED  BY <1>1, <1>2, <1>3, <1>4, <1>5, <1>6, <1>7, <1>8 DEF Handler

-------------------------------------------------------------------------------
(* The network thread.                                                     *)

\* The network thread runs only before the GUI thread has seen its end.
LEMMA NetRuns ==
    ASSUME IInv, net # "done", Running
    PROVE  gui \notin {"save", "ended", "crashed"}
BY DEF IInv, BeforeAndAfter, Running

\* A step that connects to nothing new.
LEMMA NetMoves ==
    ASSUME IInv, net \notin {"start", "done"}, Running,
           UNCHANGED <<guiVars, reconnect, config, last>>,
           net' \in NetPlaces \ {"start", "check", "addr", "connect"},
           link' \in {Nothing, last},
           net' = "done" => link' = Nothing,
           read' \in Partial,
           {shutdown', logging', clients', waiting'} \subseteq BOOLEAN
    PROVE  IInv'
<1>1. gui \notin {"save", "ended", "crashed"}
  BY NetRuns
<1>2. TypeOK'
  <2>1. link' \in Pairs \cup {Nothing}
    BY DEF IInv, TypeOK
  <2>. QED  BY <2>1 DEF IInv, TypeOK, guiVars
<1>3. ReadIsFlagged' /\ LastIsFlagged' /\ BeforeAndAfter' /\ ExitInOrder' /\ FormFilled'
  BY <1>1 DEF IInv, ReadIsFlagged, LastIsFlagged, BeforeAndAfter, ExitInOrder,
              FormFilled, Flagged, guiVars
<1>. QED  BY <1>2, <1>3 DEF IInv

LEMMA NetworkStep == IInv /\ Network => IInv'
<1>. SUFFICES ASSUME IInv, Network PROVE IInv'
  OBVIOUS
<1>0. /\ {window, shutdown, logging, clients, waiting} \subseteq BOOLEAN
      /\ {config, read} \subseteq Partial
      /\ link \in {Nothing, last}
      /\ Nothing \in Partial
      /\ Log \/ Silent => logging' \in BOOLEAN
  BY Subtypes DEF IInv, TypeOK, LastIsFlagged, Log, Silent
<1>1. CASE Start \/ StartFails
  <2>1. /\ net = "start" /\ Running /\ net' \in {"top", "done"}
        /\ config' \in Partial /\ (net' = "top" => config'.port \in Ports)
        /\ UNCHANGED <<guiVars, shutdown, reconnect, linkVars>>
        /\ logging' \in BOOLEAN
    BY <1>0, <1>1, Subtypes DEF Start, StartFails, At, Go, FromFile, Pairs
  <2>2. link = Nothing /\ last = Nothing /\ gui \notin {"save", "ended", "crashed"}
    BY <2>1, NetRuns DEF IInv, BeforeAndAfter
  <2>3. TypeOK'
    BY <2>1 DEF IInv, TypeOK, NetPlaces, guiVars, linkVars
  <2>. QED  BY <2>1, <2>2, <2>3 DEF IInv, ReadIsFlagged, LastIsFlagged, BeforeAndAfter,
                                    ExitInOrder, FormFilled, guiVars, linkVars
<1>2. CASE Top \/ NoReconnect \/ ClientsChange \/ ClientShutdown \/ EndWork
  BY <1>0, <1>2, NetMoves DEF Top, NoReconnect, ClientsChange, ClientShutdown, EndWork,
                              At, Go, NetPlaces, linkVars
<1>3. CASE Reconnect \/ Command
  BY <1>0, <1>3, NetMoves DEF Reconnect, Command, At, Go, NetPlaces
<1>4. CASE ReadPort
  <2>1. /\ net = "port" /\ net' = "check" /\ Running /\ logging' \in BOOLEAN
        /\ read' = [read EXCEPT !.port = config.port]
        /\ UNCHANGED <<guiVars, shutdown, reconnect, config, clients, link, last, waiting>>
    BY <1>0, <1>4 DEF ReadPort, At, Go
  <2>2. config.port \in Ports
    BY <2>1 DEF IInv, TypeOK
  <2>3. read' \in Partial /\ read'.port = config.port
    BY <1>0, <2>1, <2>2 DEF Partial
  <2>4. TypeOK'
    BY <2>1, <2>2, <2>3 DEF IInv, TypeOK, NetPlaces, guiVars
  <2>. QED  BY <2>1, <2>2, <2>3, <2>4, NetRuns DEF IInv, ReadIsFlagged, LastIsFlagged,
                BeforeAndAfter, ExitInOrder, FormFilled, Flagged, guiVars
<1>5. CASE AddrDefined
  <2>1. /\ net = "check" /\ net' = "addr" /\ Running /\ logging' \in BOOLEAN
        /\ UNCHANGED <<guiVars, shutdown, reconnect, config, linkVars>>
    BY <1>0, <1>5 DEF AddrDefined, At, Go
  <2>2. TypeOK'
    BY <2>1 DEF IInv, TypeOK, NetPlaces, guiVars, linkVars
  <2>. QED  BY <2>1, <2>2, NetRuns DEF IInv, ReadIsFlagged, LastIsFlagged,
                BeforeAndAfter, ExitInOrder, FormFilled, Flagged, guiVars, linkVars
<1>6. CASE ReadAddr
  <2>1. /\ net = "addr" /\ net' = "connect" /\ Running /\ logging' \in BOOLEAN
        /\ read' = [read EXCEPT !.addr = config.addr] /\ config.addr # Undefined
        /\ UNCHANGED <<guiVars, shutdown, reconnect, config, clients, link, last, waiting>>
    BY <1>0, <1>6 DEF ReadAddr, At, Go
  <2>2. config.addr \in Addrs /\ read.port \in Ports
    BY <1>0, <2>1 DEF IInv, ReadIsFlagged, Partial
  <2>3. /\ read' \in Pairs /\ read'.addr = config.addr
        /\ read'.port = read.port
    BY <1>0, <2>1, <2>2 DEF Partial, Pairs
  <2>4. TypeOK'
    BY <2>1, <2>3, Subtypes DEF IInv, TypeOK, NetPlaces, guiVars
  <2>. QED  BY <2>1, <2>2, <2>3, <2>4, NetRuns DEF IInv, ReadIsFlagged, LastIsFlagged,
                BeforeAndAfter, ExitInOrder, FormFilled, Flagged, guiVars
<1>10. ASSUME NotConnected, net \in {"check", "addr", "connect"}, Running,
              UNCHANGED <<guiVars, shutdown, reconnect, config, clients, link, last>>
       PROVE  IInv'
  <2>1. /\ waiting' = TRUE /\ read' = Nothing /\ net' = "work" /\ logging' \in BOOLEAN
    BY <1>0, <1>10 DEF NotConnected, Go
  <2>. QED  BY <1>0, <1>10, <2>1, NetMoves DEF NetPlaces
<1>11. CASE AddrUndefined
  BY <1>10, <1>11 DEF AddrUndefined, At
<1>12. CASE ReadNull
  <2>1. CASE NotConnected /\ UNCHANGED gui
    BY <1>10, <1>12, <2>1 DEF ReadNull, At, guiVars
  <2>2. CASE gui' = "crashed" /\ UNCHANGED <<net, read, waiting, logging>>
    <3>1. /\ UNCHANGED <<window, form, saved, shutdown, reconnect, config, net, logging>>
          /\ UNCHANGED linkVars
          /\ net = "addr" /\ gui' = "crashed"
      BY <1>12, <2>2 DEF ReadNull, At, linkVars
    <3>2. Flagged'
      BY <3>1 DEF Flagged
    <3>3. TypeOK'
      BY <3>1 DEF IInv, TypeOK, GuiPlaces, linkVars
    <3>. QED  BY <3>1, <3>2, <3>3 DEF IInv, ReadIsFlagged, LastIsFlagged, BeforeAndAfter,
                                      ExitInOrder, FormFilled, linkVars
  <2>. QED  BY <1>12, <2>1, <2>2 DEF ReadNull
<1>13. CASE Connect
  <2>1. /\ net = "connect" /\ Running
        /\ UNCHANGED <<guiVars, shutdown, reconnect, config, clients>>
    BY <1>13 DEF Connect, At
  <2>2. CASE /\ link' = read /\ last' = read /\ waiting' = waiting
             /\ read' = Nothing /\ Go("work") /\ Log
    <3>1. read \in Pairs /\ net' = "work" /\ logging' \in BOOLEAN
      BY <1>0, <2>1, <2>2 DEF IInv, TypeOK, Go
    <3>2. read # config => Flagged
      BY <1>0, <2>1, SameFields DEF IInv, ReadIsFlagged
    <3>3. TypeOK'
      BY <1>0, <2>1, <2>2, <3>1 DEF IInv, TypeOK, NetPlaces, guiVars
    <3>. QED  BY <2>1, <2>2, <3>1, <3>2, <3>3, NetRuns DEF IInv, ReadIsFlagged, LastIsFlagged,
                  BeforeAndAfter, ExitInOrder, FormFilled, Flagged, guiVars
  <2>3. CASE NotConnected /\ UNCHANGED <<link, last>>
    BY <1>10, <2>1, <2>3
  <2>. QED  BY <1>13, <2>2, <2>3 DEF Connect
<1>7. CASE Tick
  BY <1>0, <1>7, NetMoves DEF Tick, At, Go, NetPlaces
<1>8. CASE Unused
  BY <1>0, <1>8, NetMoves DEF Unused, At, Go, NetPlaces
<1>9. CASE Cleanup
  BY <1>0, <1>9, NetMoves DEF Cleanup, At, Go, NetPlaces
<1>. QED  BY <1>1, <1>2, <1>3, <1>4, <1>5, <1>6, <1>7, <1>8, <1>9, <1>11, <1>12, <1>13
          DEF Network

-------------------------------------------------------------------------------
(* The theorems.                                                           *)

LEMMA NextInv == IInv /\ [Next]_vars => IInv'
<1>1. IInv /\ UNCHANGED vars => IInv'
  BY DEF vars, guiVars, linkVars, IInv, TypeOK, ReadIsFlagged, LastIsFlagged,
         BeforeAndAfter, FormFilled, ExitInOrder, Flagged
<1>. QED  BY <1>1, UserStep, HandlerStep, NetworkStep DEF Next

LEMMA Invariance == Spec => []IInv
BY InitInv, NextInv, PTL DEF Spec

\* Types, for any ports and addresses.  Whatever the dialog stores, connect_server
\* finds a port, and a connection that outlives it is to a whole pair.
THEOREM TypeCorrect == Spec => []TypeOK
<1>1. IInv => TypeOK
  BY DEF IInv
<1>. QED  BY <1>1, Invariance, PTL

\* A connection to a provider that is not the configured one is flagged for
\* reconnection, wherever the two threads are (Settings, connect_server, tick).
THEOREM StaleIsAlwaysFlagged == Spec => []StaleIsFlagged
<1>1. IInv => StaleIsFlagged
  BY DEF IInv, LastIsFlagged, StaleIsFlagged, Stale, Flagged, Running
<1>. QED  BY <1>1, Invariance, PTL

\* The program ends after the network thread, disconnected, with the settings
\* in the file (_tWinMain).
THEOREM ExitIsInOrder == Spec => []ExitInOrder
<1>1. IInv => ExitInOrder
  BY DEF IInv
<1>. QED  BY <1>1, Invariance, PTL

===============================================================================
