----------------------------- MODULE ServerProofs -----------------------------
(***************************************************************************)
(* Proofs about Server.tla and, at the end, ServerClock.tla, for every set *)
(* of addresses, every keepalive interval and every value of the limits.   *)
(*                                                                         *)
(* The argument is about the Server object alone: the lemmas of the first  *)
(* section say what each member function does to a valid object, and the   *)
(* steps of main_loop are compositions of those functions.                 *)
(***************************************************************************)
EXTENDS ServerClock, TLAPS

(* A connection is counted among the descriptors, so that closing it       *)
(* leaves a count that is not negative.                                    *)
Valid(s) ==
    /\ s \in ServerState
    /\ IsConnected(s) => s.fds > 0

AllAddrs == Addrs \cup {NoAddr}

-------------------------------------------------------------------------------
(* What the functions of Server do.                                        *)

(* Server::disconnect closes the connection and changes nothing else the   *)
(* program reads.                                                          *)
LEMMA DisconnectEffect ==
    ASSUME NEW s, Valid(s)
    PROVE  /\ Valid(Disconnect(s))
           /\ ~IsConnected(Disconnect(s))
           /\ Disconnect(s).reconnect = s.reconnect
           /\ Disconnect(s).reconnectTicks = s.reconnectTicks
           /\ Disconnect(s).timeout = s.timeout
           /\ Disconnect(s).timeoutTicks = s.timeoutTicks
           /\ Disconnect(s).addr = s.addr
<1>1. CASE IsConnected(s)
  <2>1. Disconnect(s) = [s EXCEPT !.sock = "none", !.fds = @ - 1]
    BY <1>1 DEF Disconnect
  <2>2. s.fds - 1 \in 0..FdLimit
    BY <1>1, ResourceAssumption DEF Valid, ServerState
  <2> QED
    BY <2>1, <2>2 DEF Valid, ServerState, IsConnected
<1>2. CASE ~IsConnected(s)
  BY <1>2 DEF Disconnect
<1> QED
  BY <1>1, <1>2

(* Server::connect either connects and ends the wait, or leaves the object *)
(* without a connection and the wait as it was.                            *)
LEMMA ConnectEffect ==
    ASSUME NEW s, Valid(s), NEW a \in AllAddrs
    PROVE  /\ Valid(Connect(s, a))
           /\ Connect(s, a).timeout = s.timeout
           /\ Connect(s, a).reconnectTicks = s.reconnectTicks
           /\ IsConnected(Connect(s, a)) =>
                 /\ ~Connect(s, a).reconnect
                 /\ Connect(s, a).timeoutTicks = 0
           /\ ~IsConnected(Connect(s, a)) =>
                 Connect(s, a).reconnect = s.reconnect
<1> DEFINE t == Disconnect(s)
<1>1. /\ Valid(t) /\ ~IsConnected(t)
      /\ t.reconnect = s.reconnect /\ t.timeout = s.timeout
      /\ t.reconnectTicks = s.reconnectTicks
  BY DisconnectEffect
<1>2. t \in ServerState /\ t.sock = "none"
  BY <1>1 DEF Valid, IsConnected, ServerState
<1> HIDE DEF t
<1>3. CASE a \in up /\ t.fds < FdLimit
  <2>1. Connect(s, a) = [t EXCEPT !.sock = "open", !.timeoutTicks = 0,
                                  !.reconnect = FALSE, !.addr = a, !.fds = @ + 1]
    BY <1>3 DEF Connect, Opened, t
  <2>2. t.fds + 1 \in 0..FdLimit /\ t.fds + 1 > 0 /\ 0 \in 0..TickCap
    BY <1>2, <1>3, ResourceAssumption, TimingAssumption DEF ServerState
  <2> QED
    BY <1>1, <1>2, <2>1, <2>2 DEF Valid, ServerState, IsConnected, AllAddrs
<1>4. CASE ~(a \in up /\ t.fds < FdLimit)
  <2>1. Connect(s, a) = [t EXCEPT !.fds = IF @ < FdLimit THEN @ + 1 ELSE @]
    BY <1>4 DEF Connect, t
  <2>2. (IF t.fds < FdLimit THEN t.fds + 1 ELSE t.fds) \in 0..FdLimit
    BY <1>2, ResourceAssumption DEF ServerState
  <2> QED
    BY <1>1, <1>2, <2>1, <2>2 DEF Valid, ServerState, IsConnected
<1> QED
  BY <1>3, <1>4

(* lost_server leaves a provider that is down, at the start of its wait.   *)
LEMMA LostServerEffect ==
    ASSUME NEW s, Valid(s)
    PROVE  /\ Valid(LostServer(s))
           /\ ~IsConnected(LostServer(s))
           /\ LostServer(s).reconnect
           /\ LostServer(s).reconnectTicks = 0
           /\ LostServer(s).timeout = s.timeout
<1> DEFINE t == Disconnect(s)
<1>1. Valid(t) /\ ~IsConnected(t) /\ t.timeout = s.timeout
  BY DisconnectEffect
<1>2. LostServer(s) = [t EXCEPT !.reconnect = TRUE, !.reconnectTicks = 0]
  BY DEF LostServer, LostConnection
<1> HIDE DEF t
<1>3. 0 \in 0..(ReconnectLimit - 1)
  BY TimingAssumption
<1> QED
  BY <1>1, <1>2, <1>3 DEF Valid, ServerState, IsConnected

(* connect_server followed, if it failed, by lost_server: the provider is  *)
(* connected or it is down, and nothing in between.                        *)
LEMMA ConnectOrLoseEffect ==
    ASSUME NEW s, Valid(s), ~IsConnected(s), cfg.addr \in AllAddrs,
           NEW t, t = ConnectServer(s)
    PROVE  /\ Valid(t)
           /\ t.timeout = s.timeout
           /\ t.reconnectTicks = s.reconnectTicks
           /\ IsConnected(t) => ~t.reconnect /\ t.timeoutTicks = 0
           /\ Valid(LostServer(t))
           /\ ConnectOrLose(s) = IF IsConnected(t) THEN t ELSE LostServer(t)
<1>1. /\ Valid(t)
      /\ t.timeout = s.timeout
      /\ t.reconnectTicks = s.reconnectTicks
      /\ IsConnected(t) => ~t.reconnect /\ t.timeoutTicks = 0
  BY ConnectEffect DEF ConnectServer
<1>2. Valid(LostServer(t))
  BY <1>1, LostServerEffect
<1> QED
  BY <1>1, <1>2 DEF ConnectOrLose

(* The first half of tick() leaves the wait alone; it may close a          *)
(* connection, and it never opens one.                                     *)
LEMMA TimeoutTickEffect ==
    ASSUME NEW s, Valid(s)
    PROVE  /\ Valid(TimeoutTick(s))
           /\ IsConnected(TimeoutTick(s)) => IsConnected(s)
           /\ TimeoutTick(s).reconnect = s.reconnect
           /\ TimeoutTick(s).reconnectTicks = s.reconnectTicks
           /\ TimeoutTick(s).timeout = s.timeout
<1> DEFINE t == [s EXCEPT !.timeoutTicks = Tock(@)]
           d == Disconnect(t)
<1>1. Tock(s.timeoutTicks) \in 0..TickCap
  BY TimingAssumption DEF Tock, Valid, ServerState
<1>2. /\ Valid(t) /\ t.reconnect = s.reconnect /\ t.reconnectTicks = s.reconnectTicks
      /\ t.timeout = s.timeout /\ t.sock = s.sock
  BY <1>1 DEF Valid, ServerState, IsConnected
<1>3. /\ Valid(d) /\ ~IsConnected(d) /\ d.reconnect = t.reconnect
      /\ d.reconnectTicks = t.reconnectTicks /\ d.timeout = t.timeout
  BY <1>2, DisconnectEffect
<1>4. \/ TimeoutTick(s) = [t EXCEPT !.timeoutTicks = 0]
      \/ TimeoutTick(s) = [d EXCEPT !.timeoutTicks = 0]
      \/ TimeoutTick(s) = t
  BY DEF TimeoutTick, SendKeepalive
<1> HIDE DEF t, d
<1>5. CASE TimeoutTick(s) = [t EXCEPT !.timeoutTicks = 0]
  BY <1>2, <1>5, TimingAssumption DEF Valid, ServerState, IsConnected
<1>6. CASE TimeoutTick(s) = [d EXCEPT !.timeoutTicks = 0]
  BY <1>2, <1>3, <1>6, TimingAssumption DEF Valid, ServerState, IsConnected
<1>7. CASE TimeoutTick(s) = t
  BY <1>2, <1>7 DEF Valid, IsConnected
<1> QED
  BY <1>4, <1>5, <1>6, <1>7

(* The second half of tick(): nothing, one more tick of the wait, or the   *)
(* attempt that is due.                                                    *)
LEMMA ReconnectTickEffect ==
    ASSUME NEW s, Valid(s), s.reconnect => ~IsConnected(s),
           NEW r, r = ReconnectTick(s)
    PROVE  /\ Valid(r)
           /\ r.reconnect => ~IsConnected(r)
           /\ r.timeout = s.timeout
           /\ ~s.reconnect => r = s
           /\ (s.reconnect /\ s.reconnectTicks + 1 < ReconnectLimit) =>
                 /\ r.reconnect
                 /\ r.reconnectTicks = s.reconnectTicks + 1
           /\ (s.reconnect /\ s.reconnectTicks + 1 >= ReconnectLimit) =>
                 /\ r.reconnectTicks = 0
                 /\ ~r.reconnect => IsConnected(r)
                 /\ IsConnected(r) => r.timeoutTicks = 0
<1>1. s \in ServerState /\ s.addr \in AllAddrs
  BY DEF Valid, ServerState, AllAddrs
<1>2. CASE ~s.reconnect
  BY <1>2 DEF ReconnectTick
<1>3. CASE s.reconnect /\ s.reconnectTicks + 1 < ReconnectLimit
  <2>1. r = [s EXCEPT !.reconnectTicks = @ + 1]
    BY <1>1, <1>3, TimingAssumption DEF ReconnectTick, AttemptDue, ServerState
  <2>2. s.reconnectTicks + 1 \in 0..(ReconnectLimit - 1)
    BY <1>1, <1>3, TimingAssumption DEF ServerState
  <2>3. /\ r \in ServerState /\ r.sock = s.sock /\ r.fds = s.fds
        /\ r.reconnect = s.reconnect /\ r.timeout = s.timeout
        /\ r.reconnectTicks = s.reconnectTicks + 1
    BY <1>1, <2>1, <2>2 DEF ServerState
  <2>4. ~(s.reconnectTicks + 1 >= ReconnectLimit)
    BY <1>1, <1>3, TimingAssumption DEF ServerState
  <2> QED
    BY <1>3, <2>3, <2>4 DEF Valid, IsConnected
<1>4. CASE s.reconnect /\ s.reconnectTicks + 1 >= ReconnectLimit
  <2> DEFINE t == Connect(s, s.addr)
  <2>1. r = [t EXCEPT !.reconnectTicks = 0]
    BY <1>4 DEF ReconnectTick, AttemptDue, Attempt
  <2>2. /\ Valid(t) /\ t.timeout = s.timeout
        /\ IsConnected(t) => ~t.reconnect /\ t.timeoutTicks = 0
        /\ ~IsConnected(t) => t.reconnect = s.reconnect
    BY <1>1, ConnectEffect
  <2> HIDE DEF t
  <2>3. /\ r \in ServerState /\ r.sock = t.sock /\ r.fds = t.fds
        /\ r.reconnect = t.reconnect /\ r.timeout = t.timeout
        /\ r.timeoutTicks = t.timeoutTicks /\ r.reconnectTicks = 0
    BY <2>1, <2>2, TimingAssumption DEF Valid, ServerState
  <2>4. ~(s.reconnectTicks + 1 < ReconnectLimit)
    BY <1>1, <1>4, TimingAssumption DEF ServerState
  <2> QED
    BY <1>4, <2>2, <2>3, <2>4 DEF Valid, IsConnected
<1> QED
  BY <1>1, <1>2, <1>3, <1>4, TimingAssumption DEF ServerState

-------------------------------------------------------------------------------
(* The inductive invariant: the object is valid in every phase, and a      *)
(* command is only ever at a provider that is connected.                   *)

IInv ==
    /\ TypeOK
    /\ Valid(srv)
    /\ LinkConsistent

THEOREM InitInv == Init => IInv
<1> SUFFICES ASSUME Init PROVE IInv
  OBVIOUS
<1>1. NewServer \in ServerState
  <2>1. 0 \in 0..TickCap /\ 0 \in 0..(ReconnectLimit - 1) /\ 0 \in 0..FdLimit
    BY TimingAssumption, ResourceAssumption
  <2> QED
    BY <2>1 DEF NewServer, ServerState
<1>2. TypeOK
  BY <1>1 DEF Init, TypeOK, Phases, Replies
<1>3. Valid(srv) /\ LinkConsistent
  BY <1>1 DEF Init, Valid, NewServer, IsConnected, LinkConsistent
<1> QED
  BY <1>2, <1>3 DEF IInv

(* What send_command finds: a connection, opened if need be, or an object  *)
(* that lost_server can be applied to.                                     *)
LEMMA EnsuredEffect ==
    ASSUME IInv, ~srv.reconnect
    PROVE  /\ Valid(Ensured)
           /\ IsConnected(Ensured) => ~Ensured.reconnect
           /\ Ensured.timeout = srv.timeout
           /\ Ensured.reconnectTicks = srv.reconnectTicks
           /\ Valid(LostServer(Ensured))
           /\ ~IsConnected(LostServer(Ensured))
           /\ LostServer(Ensured).reconnect
           /\ LostServer(Ensured).reconnectTicks = 0
<1>1. Valid(srv) /\ cfg.addr \in AllAddrs
  BY DEF IInv, TypeOK, AllAddrs
<1>2. CASE IsConnected(srv)
  BY <1>1, <1>2, LostServerEffect DEF Ensured
<1>3. CASE ~IsConnected(srv)
  <2>1. /\ Valid(ConnectServer(srv))
        /\ ConnectServer(srv).timeout = srv.timeout
        /\ ConnectServer(srv).reconnectTicks = srv.reconnectTicks
        /\ IsConnected(ConnectServer(srv)) => ~ConnectServer(srv).reconnect
    BY <1>1, <1>3, ConnectOrLoseEffect
  <2>2. Ensured = ConnectServer(srv)
    BY <1>3 DEF Ensured
  <2> QED
    BY <2>1, <2>2, LostServerEffect
<1> QED
  BY <1>2, <1>3

(* What the failure of a command leaves behind: the connection is replaced *)
(* or the provider is down.                                                *)
LEMMA FailureEffect ==
    ASSUME IInv, phase = "await",
           NEW r, r = ConnectOrLose(Disconnect(srv))
    PROVE  /\ Valid(r)
           /\ r.timeout = srv.timeout
           /\ \/ IsConnected(r) /\ ~r.reconnect /\ r.timeoutTicks = 0
              \/ ~IsConnected(r) /\ r.reconnect /\ r.reconnectTicks = 0
<1> DEFINE d == Disconnect(srv)
           t == ConnectServer(d)
<1>1. /\ Valid(d) /\ ~IsConnected(d) /\ d.timeout = srv.timeout
  BY DisconnectEffect DEF IInv
<1>2. cfg.addr \in AllAddrs
  BY DEF IInv, TypeOK, AllAddrs
<1> HIDE DEF d
<1>3. /\ Valid(t)
      /\ t.timeout = d.timeout
      /\ IsConnected(t) => ~t.reconnect /\ t.timeoutTicks = 0
      /\ ConnectOrLose(d) = IF IsConnected(t) THEN t ELSE LostServer(t)
  BY <1>1, <1>2, ConnectOrLoseEffect
<1>4. /\ Valid(LostServer(t)) /\ ~IsConnected(LostServer(t))
      /\ LostServer(t).reconnect /\ LostServer(t).reconnectTicks = 0
      /\ LostServer(t).timeout = t.timeout
  BY <1>3, LostServerEffect
<1>5. r = IF IsConnected(t) THEN t ELSE LostServer(t)
  BY <1>3 DEF d
<1> HIDE DEF t
<1> QED
  BY <1>1, <1>3, <1>4, <1>5

(* What tick() leaves behind.                                              *)
LEMMA TickEffect ==
    ASSUME IInv, NEW r, r = ReconnectTick(TimeoutTick(srv))
    PROVE  /\ Valid(r)
           /\ r.reconnect => ~IsConnected(r)
<1> DEFINE t == TimeoutTick(srv)
<1>1. /\ Valid(t) /\ t.reconnect = srv.reconnect
      /\ IsConnected(t) => IsConnected(srv)
  BY TimeoutTickEffect DEF IInv
<1>2. t.reconnect => ~IsConnected(t)
  BY <1>1 DEF IInv, LinkConsistent
<1>3. r = ReconnectTick(t)
  OBVIOUS
<1> HIDE DEF t
<1> QED
  BY <1>1, <1>2, <1>3, ReconnectTickEffect

(* Every step of the loop, the clients and the environment keeps it.       *)
THEOREM NextInv == IInv /\ [Next]_vars => IInv'
<1> SUFFICES ASSUME IInv, [Next]_vars PROVE IInv'
  OBVIOUS
<1>0. /\ TypeOK /\ Valid(srv) /\ LinkConsistent
      /\ srv \in ServerState
      /\ cfg \in [addr : Addrs \cup {NoAddr}, keepalive : Keepalives]
  BY DEF IInv, TypeOK
<1>1. CASE Select
  <2>1. /\ srv' = [srv EXCEPT !.timeout = cfg.keepalive] /\ phase' = "reconnect"
        /\ UNCHANGED <<cfg, gReconnect, clients, up, reply>>
    BY <1>1 DEF Select
  <2>2. srv' \in ServerState /\ srv'.sock = srv.sock /\ srv'.fds = srv.fds
        /\ srv'.reconnect = srv.reconnect
    BY <1>0, <2>1 DEF ServerState
  <2> QED
    BY <1>0, <2>1, <2>2 DEF IInv, TypeOK, Phases, Valid, LinkConsistent, IsConnected
<1>2. CASE IssueReconnect
  <2>1. /\ Valid(LostServer(srv)) /\ ~IsConnected(LostServer(srv))
    BY <1>0, LostServerEffect
  <2>2. /\ srv' \in {srv, LostServer(srv)} /\ phase' = "work"
        /\ UNCHANGED <<cfg, gReconnect, clients, up, reply>>
    BY <1>2 DEF IssueReconnect
  <2> QED
    BY <1>0, <2>1, <2>2 DEF IInv, TypeOK, Phases, Valid, LinkConsistent
<1>3. CASE FirstClientArrives
  BY <1>0, <1>3 DEF FirstClientArrives, IInv, TypeOK, Valid, LinkConsistent
<1>4. CASE LastClientLeaves
  BY <1>0, <1>4 DEF LastClientLeaves, IInv, TypeOK, Valid, LinkConsistent
<1>5. CASE CommandWhileDown
  BY <1>0, <1>5 DEF CommandWhileDown, Refused, IInv, TypeOK, Replies, Valid, LinkConsistent
<1>6. CASE CommandUnreachable
  <2>1. /\ phase = "work" /\ ~srv.reconnect /\ srv' = LostServer(Ensured)
        /\ reply' = "unknown" /\ UNCHANGED <<phase, cfg, gReconnect, clients, up>>
    BY <1>6 DEF CommandUnreachable
  <2>2. Valid(srv') /\ ~IsConnected(srv')
    BY <2>1, EnsuredEffect
  <2> QED
    BY <1>0, <2>1, <2>2 DEF IInv, TypeOK, Replies, Valid, LinkConsistent
<1>7. CASE CommandInvalid
  <2>1. /\ phase = "work" /\ ~srv.reconnect /\ srv' = Ensured /\ IsConnected(Ensured)
        /\ reply' = "invalid" /\ UNCHANGED <<phase, cfg, gReconnect, clients, up>>
    BY <1>7 DEF CommandInvalid
  <2>2. Valid(srv') /\ ~srv'.reconnect
    BY <2>1, EnsuredEffect
  <2> QED
    BY <1>0, <2>1, <2>2 DEF IInv, TypeOK, Replies, Valid, LinkConsistent
<1>8. CASE CommandSent
  <2>1. /\ ~srv.reconnect /\ srv' = Ensured /\ IsConnected(Ensured)
        /\ phase' = "await" /\ UNCHANGED <<cfg, gReconnect, clients, up, reply>>
    BY <1>8 DEF CommandSent
  <2>2. Valid(srv') /\ ~srv'.reconnect
    BY <2>1, EnsuredEffect
  <2> QED
    BY <1>0, <2>1, <2>2 DEF IInv, TypeOK, Phases, Valid, LinkConsistent
<1>9. CASE CommandAnswered
  <2>1. /\ srv' = [srv EXCEPT !.timeoutTicks = 0] /\ phase' = "work"
        /\ reply' = "answered" /\ UNCHANGED <<cfg, gReconnect, clients, up>>
    BY <1>9 DEF CommandAnswered
  <2>2. 0 \in 0..TickCap
    BY TimingAssumption
  <2>3. srv' \in ServerState /\ srv'.sock = srv.sock /\ srv'.fds = srv.fds
        /\ srv'.reconnect = srv.reconnect
    BY <1>0, <2>1, <2>2 DEF ServerState
  <2> QED
    BY <1>0, <2>1, <2>3
       DEF IInv, TypeOK, Phases, Replies, Valid, LinkConsistent, IsConnected
<1>10. CASE CommandFailed
  <2>1. /\ phase = "await" /\ srv' = ConnectOrLose(Disconnect(srv)) /\ phase' = "work"
        /\ reply' = "down" /\ UNCHANGED <<cfg, gReconnect, clients, up>>
    BY <1>10 DEF CommandFailed
  <2>2. /\ Valid(srv')
        /\ \/ IsConnected(srv') /\ ~srv'.reconnect
           \/ ~IsConnected(srv') /\ srv'.reconnect
    BY <2>1, FailureEffect
  <2> QED
    BY <1>0, <2>1, <2>2 DEF IInv, TypeOK, Phases, Replies, Valid, LinkConsistent
<1>11. CASE EndWork
  BY <1>0, <1>11 DEF EndWork, IInv, TypeOK, Phases, Valid, LinkConsistent
<1>12. CASE Tick
  <2>1. /\ srv' = ReconnectTick(TimeoutTick(srv)) /\ phase' = "idle"
        /\ UNCHANGED <<cfg, gReconnect, clients, up, reply>>
    BY <1>12 DEF Tick
  <2>2. Valid(srv') /\ (srv'.reconnect => ~IsConnected(srv'))
    BY <2>1, TickEffect
  <2> QED
    BY <1>0, <2>1, <2>2 DEF IInv, TypeOK, Phases, Valid, LinkConsistent
<1>13. CASE IdleDisconnect
  <2>1. /\ srv' \in {srv, Disconnect(srv)} /\ phase' = "select"
        /\ UNCHANGED <<cfg, gReconnect, clients, up, reply>>
    BY <1>13 DEF IdleDisconnect, Unused
  <2>2. Valid(Disconnect(srv)) /\ ~IsConnected(Disconnect(srv))
    BY <1>0, DisconnectEffect
  <2> QED
    BY <1>0, <2>1, <2>2 DEF IInv, TypeOK, Phases, Valid, LinkConsistent
<1>14. CASE ProviderStarts \/ ProviderStops
  BY <1>0, <1>14 DEF ProviderStarts, ProviderStops, IInv, TypeOK, Valid, LinkConsistent
<1>15. CASE PeerCloses
  <2>1. /\ srv' = [srv EXCEPT !.sock = "broken"] /\ srv.sock = "open"
        /\ UNCHANGED <<phase, cfg, gReconnect, clients, up, reply>>
    BY <1>15 DEF PeerCloses
  <2>2. srv' \in ServerState /\ srv'.sock # "none" /\ srv'.fds = srv.fds
        /\ srv'.reconnect = srv.reconnect
    BY <1>0, <2>1 DEF ServerState
  <2> QED
    BY <1>0, <2>1, <2>2 DEF IInv, TypeOK, Valid, LinkConsistent, IsConnected
<1>16. CASE GuiSetsAddress \/ GuiSetsOther \/ GuiSetsKeepalive
  BY <1>0, <1>16 DEF GuiSetsAddress, GuiSetsOther, GuiSetsKeepalive,
                     IInv, TypeOK, Valid, LinkConsistent
<1>17. CASE UNCHANGED vars
  BY <1>0, <1>17 DEF vars, IInv, TypeOK, Valid, LinkConsistent
<1> QED
  BY <1>1, <1>2, <1>3, <1>4, <1>5, <1>6, <1>7, <1>8, <1>9, <1>10, <1>11, <1>12,
     <1>13, <1>14, <1>15, <1>16, <1>17
     DEF Next, LoopStep, Clients, Command, CommandEnds, Environment

THEOREM Invariance == Spec => []IInv
<1> QED
  BY InitInv, NextInv, PTL DEF Spec

(* The state of the model is always well formed: the counters of class     *)
(* Server stay within their limits and the descriptors are never negative. *)
THEOREM TypeCorrect == Spec => []TypeOK
<1>1. IInv => TypeOK
  BY DEF IInv
<1> QED
  BY <1>1, Invariance, PTL

(* A provider that is waited for holds no connection, and a command waits  *)
(* only at a provider that holds one (lost_server, Server::connect).       *)
THEOREM LinkIsConsistent == Spec => []LinkConsistent
<1>1. IInv => LinkConsistent
  BY DEF IInv
<1> QED
  BY <1>1, Invariance, PTL

-------------------------------------------------------------------------------
(* Refinement of ProviderLink.                                             *)

LEMMA LinkInit == Init => Link!Init
BY DEF Init, NewServer, IsConnected, Link!Init, link, wait

(* A step that leaves a consistent object without a wait is at most one of *)
(* Connect and Drop.                                                       *)
LEMMA UnwaitedStep ==
    ASSUME ~srv.reconnect, ~srv'.reconnect
    PROVE  [Link!Next]_Link!vars
<1>1. /\ link = (IF IsConnected(srv) THEN "connected" ELSE "idle")
      /\ link' = (IF IsConnected(srv') THEN "connected" ELSE "idle")
      /\ wait = 0 /\ wait' = 0
  BY DEF link, wait
<1> QED
  BY <1>1 DEF Link!Next, Link!Connect, Link!Drop, Link!vars

(* A step after which the provider is down and its wait starts is Lose.    *)
LEMMA LosingStep ==
    ASSUME srv'.reconnect, srv'.reconnectTicks = 0
    PROVE  [Link!Next]_Link!vars
BY DEF link, wait, Link!Next, Link!Lose

(* A step that changes neither the wait nor whether there is a connection  *)
(* is not visible.                                                         *)
LEMMA InvisibleStep ==
    ASSUME srv'.reconnect = srv.reconnect, srv'.reconnectTicks = srv.reconnectTicks,
           IsConnected(srv') <=> IsConnected(srv)
    PROVE  [Link!Next]_Link!vars
<1>1. link' = link
  BY DEF link
<1>2. wait' = wait
  BY DEF wait
<1> QED
  BY <1>1, <1>2 DEF Link!vars

LEMMA LinkTick ==
    ASSUME IInv, Tick
    PROVE  [Link!Next]_Link!vars
<1> DEFINE t == TimeoutTick(srv)
<1>1. /\ Valid(t) /\ t.reconnect = srv.reconnect /\ t.reconnectTicks = srv.reconnectTicks
      /\ IsConnected(t) => IsConnected(srv)
  BY TimeoutTickEffect DEF IInv
<1>2. t.reconnect => ~IsConnected(t)
  BY <1>1 DEF IInv, LinkConsistent
<1>3. srv' = ReconnectTick(t)
  BY DEF Tick
<1>4. /\ srv.reconnectTicks \in 0..(ReconnectLimit - 1) /\ ReconnectLimit \in Nat \ {0}
      /\ srv.reconnect \in BOOLEAN
  BY TimingAssumption DEF IInv, Valid, ServerState
<1> HIDE DEF t
<1>5. CASE ~srv.reconnect
  <2>1. ~srv'.reconnect
    BY <1>1, <1>2, <1>3, <1>5, ReconnectTickEffect
  <2> QED
    BY <1>5, <2>1, UnwaitedStep
<1>6. CASE srv.reconnect /\ srv.reconnectTicks + 1 < ReconnectLimit
  <2>1. srv'.reconnect /\ srv'.reconnectTicks = srv.reconnectTicks + 1
    BY <1>1, <1>2, <1>3, <1>6, ReconnectTickEffect
  <2>2. link = "down" /\ link' = "down" /\ wait = srv.reconnectTicks
        /\ wait' = srv.reconnectTicks + 1
    BY <1>6, <2>1 DEF link, wait
  <2> QED
    BY <1>6, <2>2 DEF Link!Next, Link!Wait
<1>7. CASE srv.reconnect /\ srv.reconnectTicks + 1 >= ReconnectLimit
  <2>1. /\ srv'.reconnectTicks = 0
        /\ srv'.reconnect => ~IsConnected(srv')
        /\ ~srv'.reconnect => IsConnected(srv')
    BY <1>1, <1>2, <1>3, <1>7, ReconnectTickEffect
  <2>2. link = "down" /\ wait + 1 = ReconnectLimit
    BY <1>4, <1>7 DEF link, wait
  <2>3. link' \in {"connected", "down"} /\ wait' = 0
    BY <2>1 DEF link, wait
  <2> QED
    BY <2>2, <2>3 DEF Link!Next, Link!Retry
<1> QED
  BY <1>4, <1>5, <1>6, <1>7

LEMMA LinkStep == IInv /\ [Next]_vars => [Link!Next]_Link!vars
<1> SUFFICES ASSUME IInv, [Next]_vars PROVE [Link!Next]_Link!vars
  OBVIOUS
<1>0. srv \in ServerState /\ Valid(srv) /\ LinkConsistent
  BY DEF IInv, Valid
<1>1. CASE Select \/ CommandAnswered \/ PeerCloses
  <2>1. /\ srv'.reconnect = srv.reconnect
        /\ srv'.reconnectTicks = srv.reconnectTicks
        /\ IsConnected(srv') <=> IsConnected(srv)
    BY <1>0, <1>1 DEF Select, CommandAnswered, PeerCloses, ServerState, IsConnected
  <2> QED
    BY <2>1, InvisibleStep
<1>2. CASE IssueReconnect
  <2>1. CASE srv' = srv
    BY <2>1, InvisibleStep
  <2>2. CASE srv' = LostServer(srv)
    BY <1>0, <2>2, LostServerEffect, LosingStep
  <2> QED
    BY <1>2, <2>1, <2>2 DEF IssueReconnect
<1>3. CASE CommandUnreachable
  BY <1>3, EnsuredEffect, LosingStep DEF CommandUnreachable
<1>4. CASE CommandInvalid \/ CommandSent
  BY <1>4, EnsuredEffect, UnwaitedStep DEF CommandInvalid, CommandSent
<1>5. CASE CommandFailed
  <2>1. /\ phase = "await" /\ srv' = ConnectOrLose(Disconnect(srv))
    BY <1>5 DEF CommandFailed
  <2>2. ~srv.reconnect
    BY <1>0, <2>1 DEF LinkConsistent
  <2>3. CASE ~srv'.reconnect
    BY <2>2, <2>3, UnwaitedStep
  <2>4. CASE srv'.reconnect
    BY <2>1, <2>4, FailureEffect, LosingStep
  <2> QED
    BY <2>3, <2>4
<1>6. CASE Tick
  BY <1>6, LinkTick
<1>7. CASE IdleDisconnect
  <2>1. CASE srv' = srv
    BY <2>1, InvisibleStep
  <2>2. CASE srv' = Disconnect(srv) /\ ~IsConnected(srv)
    BY <2>2, InvisibleStep DEF Disconnect
  <2>3. CASE srv' = Disconnect(srv) /\ IsConnected(srv)
    BY <1>0, <2>3, DisconnectEffect, UnwaitedStep DEF LinkConsistent
  <2> QED
    BY <1>7, <2>1, <2>2, <2>3 DEF IdleDisconnect, Unused
<1>8. CASE UNCHANGED srv
  BY <1>8, InvisibleStep
<1> QED
  BY <1>1, <1>2, <1>3, <1>4, <1>5, <1>6, <1>7, <1>8
     DEF Next, vars, LoopStep, EndWork, Clients, FirstClientArrives, LastClientLeaves,
         Command, CommandWhileDown, Refused, CommandEnds, Environment, ProviderStarts,
         ProviderStops, GuiSetsAddress, GuiSetsOther, GuiSetsKeepalive

(* The Server object and the loop around it implement ProviderLink: the    *)
(* connection is opened on demand, and only the retry that is due after    *)
(* ReconnectLimit ticks brings a provider back that is down.               *)
THEOREM Refinement == Spec => ImplementsLink
<1> QED
  BY LinkInit, LinkStep, Invariance, PTL DEF Spec, ImplementsLink, Link!Spec

-------------------------------------------------------------------------------
(* Inactive connections, in a build without the settings dialog.           *)

Bounded(s) ==
    IsConnected(s) =>
        IF s.timeout > 0
        THEN s.timeoutTicks < s.timeout
        ELSE s.timeoutTicks <= IdleLimit

(* The interval is the configured one whenever there is a connection whose *)
(* ticks could be counted against it.                                      *)
IdleInv ==
    /\ Bounded(srv)
    /\ srv.timeout = cfg.keepalive \/ (phase = "select" /\ ~IsConnected(srv))

LEMMA TimeoutRange ==
    ASSUME NEW s, Valid(s)
    PROVE  s.timeout \in Nat /\ s.timeout < TickCap
<1>1. s.timeout \in Keepalives \cup {0}
  BY DEF Valid, ServerState
<1>2. CASE s.timeout \in Keepalives
  BY <1>2, TimingAssumption
<1>3. CASE s.timeout = 0
  BY <1>3, TimingAssumption
<1> QED
  BY <1>1, <1>2, <1>3

LEMMA FreshIsBounded ==
    ASSUME NEW s, Valid(s), s.timeoutTicks = 0
    PROVE  Bounded(s)
BY TimeoutRange, TimingAssumption DEF Bounded

(* The equality test of tick() is enough as long as the counter is below   *)
(* the interval before the tick.                                           *)
LEMMA TimeoutTickBounded ==
    ASSUME NEW s, Valid(s), Bounded(s)
    PROVE  Bounded(TimeoutTick(s))
<1> DEFINE n == Tock(s.timeoutTicks)
           t == [s EXCEPT !.timeoutTicks = Tock(@)]
<1>1. /\ s \in ServerState
      /\ s.timeoutTicks \in 0..TickCap /\ s.timeout \in Nat
      /\ s.timeout < TickCap /\ IdleLimit < TickCap
      /\ TickCap \in Nat /\ IdleLimit \in Nat
  BY TimeoutRange, TimingAssumption DEF Valid, ServerState
<1>2. t.timeoutTicks = n /\ t.timeout = s.timeout /\ t.sock = s.sock
  BY <1>1 DEF ServerState
<1>3. Valid(TimeoutTick(s)) /\ (IsConnected(TimeoutTick(s)) => IsConnected(s))
  BY TimeoutTickEffect
<1>4. CASE ~IsConnected(s)
  BY <1>3, <1>4 DEF Bounded
<1>5. CASE IsConnected(s) /\ s.timeout > 0
  <2>1. s.timeoutTicks < s.timeout /\ n = s.timeoutTicks + 1
    BY <1>1, <1>5 DEF Bounded, Tock
  <2>2. CASE n = s.timeout
    <3>1. TimeoutTick(s) = [t EXCEPT !.timeoutTicks = 0]
      BY <1>2, <1>5, <2>2 DEF TimeoutTick, SendKeepalive, IsConnected
    <3>2. TimeoutTick(s).timeoutTicks = 0
      BY <1>1, <3>1 DEF ServerState
    <3> QED
      BY <1>3, <3>2, FreshIsBounded
  <2>3. CASE n # s.timeout
    <3>1. TimeoutTick(s) = t
      BY <1>1, <1>2, <1>5, <2>3 DEF TimeoutTick
    <3> QED
      BY <1>1, <1>2, <1>5, <2>1, <2>3, <3>1 DEF Bounded, IsConnected
  <2> QED
    BY <2>2, <2>3
<1>6. CASE IsConnected(s) /\ s.timeout = 0
  <2>1. s.timeoutTicks <= IdleLimit /\ n = s.timeoutTicks + 1
    BY <1>1, <1>6 DEF Bounded, Tock
  <2>2. CASE n > IdleLimit
    <3>1. TimeoutTick(s) = [Disconnect(t) EXCEPT !.timeoutTicks = 0]
      BY <1>1, <1>2, <1>6, <2>2 DEF TimeoutTick, SendKeepalive, IsConnected
    <3>2. ~IsConnected(TimeoutTick(s))
      <4>1. Disconnect(t) = [t EXCEPT !.sock = "none", !.fds = @ - 1]
        BY <1>2, <1>6 DEF Disconnect, IsConnected
      <4> QED
        BY <1>1, <3>1, <4>1 DEF ServerState, IsConnected
    <3> QED
      BY <3>2 DEF Bounded
  <2>3. CASE ~(n > IdleLimit)
    <3>1. TimeoutTick(s) = t
      BY <1>1, <1>2, <1>6, <2>3 DEF TimeoutTick
    <3> QED
      BY <1>1, <1>2, <1>6, <2>1, <2>3, <3>1 DEF Bounded, IsConnected
  <2> QED
    BY <2>2, <2>3
<1> QED
  BY <1>1, <1>4, <1>5, <1>6

LEMMA IdleStep ==
    ASSUME ~GuiEdits
    PROVE  IInv /\ IdleInv /\ [Next]_vars => IdleInv'
<1> SUFFICES ASSUME IInv, IdleInv, [Next]_vars PROVE IdleInv'
  OBVIOUS
<1>0. /\ Valid(srv) /\ srv \in ServerState /\ cfg.keepalive \in Keepalives
      /\ cfg.addr \in AllAddrs
  BY DEF IInv, TypeOK, AllAddrs
<1>1. CASE Select
  <2>1. srv'.timeout = cfg.keepalive /\ cfg' = cfg /\ srv'.sock = srv.sock
        /\ srv'.timeoutTicks = srv.timeoutTicks
    BY <1>0, <1>1 DEF Select, ServerState
  <2> QED
    BY <2>1 DEF IdleInv, Bounded, IsConnected
<1>2. CASE IssueReconnect
  <2>1. cfg' = cfg /\ srv' \in {srv, LostServer(srv)} /\ phase = "reconnect"
    BY <1>2 DEF IssueReconnect
  <2>2. ~IsConnected(LostServer(srv)) /\ LostServer(srv).timeout = srv.timeout
    BY <1>0, LostServerEffect
  <2> QED
    BY <2>1, <2>2 DEF IdleInv, Bounded
<1>3. CASE CommandUnreachable \/ CommandInvalid \/ CommandSent
  <2>1. /\ phase = "work" /\ ~srv.reconnect /\ cfg' = cfg
        /\ srv' = Ensured \/ srv' = LostServer(Ensured)
    BY <1>3 DEF CommandUnreachable, CommandInvalid, CommandSent
  <2>2. /\ Valid(Ensured) /\ Ensured.timeout = srv.timeout
        /\ ~IsConnected(LostServer(Ensured))
        /\ LostServer(Ensured).timeout = srv.timeout
    BY <2>1, EnsuredEffect, LostServerEffect
  <2>3. Bounded(Ensured)
    <3>1. CASE IsConnected(srv)
      BY <3>1 DEF Ensured, IdleInv
    <3>2. CASE ~IsConnected(srv)
      <4>1. Ensured = ConnectServer(srv)
        BY <3>2 DEF Ensured
      <4>2. IsConnected(Ensured) => Ensured.timeoutTicks = 0
        BY <1>0, <3>2, <4>1, ConnectOrLoseEffect
      <4> QED
        BY <2>2, <4>2, FreshIsBounded DEF Bounded
    <3> QED
      BY <3>1, <3>2
  <2> QED
    BY <2>1, <2>2, <2>3 DEF IdleInv, Bounded
<1>4. CASE CommandAnswered
  <2>1. /\ phase = "await" /\ cfg' = cfg /\ srv'.timeoutTicks = 0
        /\ srv'.timeout = srv.timeout
    BY <1>0, <1>4 DEF CommandAnswered, ServerState
  <2>2. Valid(srv')
    BY NextInv DEF IInv
  <2> QED
    BY <2>1, <2>2, FreshIsBounded DEF IdleInv
<1>5. CASE CommandFailed
  <2>1. /\ phase = "await" /\ srv' = ConnectOrLose(Disconnect(srv)) /\ cfg' = cfg
    BY <1>5 DEF CommandFailed
  <2>2. /\ Valid(srv') /\ srv'.timeout = srv.timeout
        /\ IsConnected(srv') => srv'.timeoutTicks = 0
    BY <2>1, FailureEffect
  <2> QED
    BY <2>1, <2>2, FreshIsBounded DEF IdleInv, Bounded
<1>6. CASE Tick
  <2> DEFINE t == TimeoutTick(srv)
  <2>1. phase = "tick" /\ srv' = ReconnectTick(t) /\ cfg' = cfg
    BY <1>6 DEF Tick
  <2>2. /\ Valid(t) /\ Bounded(t) /\ t.timeout = srv.timeout
        /\ t.reconnect = srv.reconnect /\ t.reconnectTicks = srv.reconnectTicks
        /\ IsConnected(t) => IsConnected(srv)
    BY <1>0, TimeoutTickEffect, TimeoutTickBounded DEF IdleInv
  <2>3. t.reconnect => ~IsConnected(t)
    BY <2>2 DEF IInv, LinkConsistent
  <2>4. t.reconnectTicks \in Nat /\ ReconnectLimit \in Nat
    BY <2>2, TimingAssumption DEF Valid, ServerState
  <2> HIDE DEF t
  <2>5. Valid(srv') /\ srv'.timeout = t.timeout
    BY <2>1, <2>2, <2>3, ReconnectTickEffect
  <2>6. CASE ~t.reconnect
    BY <2>1, <2>2, <2>3, <2>6, ReconnectTickEffect DEF IdleInv
  <2>7. CASE t.reconnect /\ t.reconnectTicks + 1 < ReconnectLimit
    <3>1. srv'.reconnect /\ ~IsConnected(srv')
      BY <2>1, <2>2, <2>3, <2>7, ReconnectTickEffect
    <3> QED
      BY <2>1, <2>2, <2>5, <3>1 DEF IdleInv, Bounded
  <2>8. CASE t.reconnect /\ t.reconnectTicks + 1 >= ReconnectLimit
    <3>1. IsConnected(srv') => srv'.timeoutTicks = 0
      BY <2>1, <2>2, <2>3, <2>8, ReconnectTickEffect
    <3>2. Bounded(srv')
      BY <2>5, <3>1, FreshIsBounded DEF Bounded
    <3> QED
      BY <2>1, <2>2, <2>5, <3>2 DEF IdleInv
  <2> QED
    BY <2>4, <2>6, <2>7, <2>8
<1>7. CASE IdleDisconnect
  <2>1. cfg' = cfg /\ srv' \in {srv, Disconnect(srv)} /\ phase = "idle"
    BY <1>7 DEF IdleDisconnect, Unused
  <2>2. ~IsConnected(Disconnect(srv)) /\ Disconnect(srv).timeout = srv.timeout
    BY <1>0, DisconnectEffect
  <2> QED
    BY <2>1, <2>2 DEF IdleInv, Bounded
<1>8. CASE PeerCloses
  <2>1. /\ srv' = [srv EXCEPT !.sock = "broken"] /\ srv.sock = "open"
        /\ cfg' = cfg
    BY <1>8 DEF PeerCloses
  <2>2. /\ srv'.timeout = srv.timeout /\ srv'.timeoutTicks = srv.timeoutTicks
        /\ IsConnected(srv)
    BY <1>0, <2>1 DEF ServerState, IsConnected
  <2> QED
    BY <2>1, <2>2 DEF IdleInv, Bounded
<1>9. CASE UNCHANGED <<srv, cfg>> /\ (phase' = phase \/ phase # "select")
  BY <1>9 DEF IdleInv, Bounded
<1> QED
  BY <1>1, <1>2, <1>3, <1>4, <1>5, <1>6, <1>7, <1>8, <1>9
     DEF Next, vars, LoopStep, EndWork, Clients, FirstClientArrives, LastClientLeaves,
         Command, CommandWhileDown, Refused, CommandEnds, Environment, ProviderStarts,
         ProviderStops, GuiSetsAddress, GuiSetsOther, GuiSetsKeepalive

(* Without the settings dialog the inactivity of a provider connection is  *)
(* bounded: a keepalive is due before the counter passes the interval, or  *)
(* the connection is dropped after IdleLimit ticks (Server::tick).         *)
THEOREM InactivityIsBounded ==
    ASSUME ~GuiEdits
    PROVE  Spec => []IdleBounded
<1>1. Init => IdleInv
  BY DEF Init, IdleInv, Bounded, NewServer, IsConnected
<1>2. IdleInv => IdleBounded
  BY DEF IdleInv, Bounded, IdleBounded
<1>3. IInv /\ IdleInv /\ [Next]_vars => IdleInv'
  BY IdleStep
<1> QED
  BY <1>1, <1>2, <1>3, Invariance, PTL DEF Spec

-------------------------------------------------------------------------------
(* What a step does to a provider that is down.                            *)

LEMMA TicksRange ==
    ASSUME IInv
    PROVE  /\ srv.reconnectTicks \in Nat
           /\ srv.reconnectTicks + 1 <= ReconnectLimit
           /\ ReconnectLimit \in Nat \ {0}
BY TimingAssumption DEF IInv, Valid, ServerState

\* Only tick goes on with the wait or ends it; lost_server may start it anew,
\* which main_loop does where an edit in the dialog has raised g_reconnect.
LEMMA WaitUntouched ==
    ASSUME IInv, Next, ~Tick, srv.reconnect
    PROVE  /\ srv'.reconnect
           /\ \/ srv'.reconnectTicks = srv.reconnectTicks
              \/ gReconnect /\ srv'.reconnectTicks = 0
<1>0. Valid(srv) /\ srv \in ServerState /\ phase # "await"
  BY DEF IInv, Valid, LinkConsistent
<1>1. CASE Select \/ PeerCloses
  BY <1>0, <1>1 DEF Select, PeerCloses, ServerState
<1>2. CASE IssueReconnect
  <2>1. LostServer(srv).reconnect /\ LostServer(srv).reconnectTicks = 0
    BY <1>0, LostServerEffect
  <2>. QED  BY <1>2, <2>1 DEF IssueReconnect
<1>3. CASE IdleDisconnect
  <2>1. srv' \in {srv, Disconnect(srv)}
    BY <1>3 DEF IdleDisconnect, Unused
  <2>. QED  BY <1>0, <2>1, DisconnectEffect
<1>4. CASE UNCHANGED srv
  BY <1>4
<1>5. CASE CommandUnreachable \/ CommandInvalid \/ CommandSent
  BY <1>5 DEF CommandUnreachable, CommandInvalid, CommandSent
<1>6. CASE CommandEnds
  BY <1>0, <1>6 DEF CommandEnds, CommandAnswered, CommandFailed
<1>. QED
  BY <1>1, <1>2, <1>3, <1>4, <1>5, <1>6
     DEF Next, LoopStep, EndWork, Clients, FirstClientArrives, LastClientLeaves,
         Command, CommandWhileDown, Refused, Environment, ProviderStarts,
         ProviderStops, GuiSetsAddress, GuiSetsOther, GuiSetsKeepalive

\* tick goes on with the wait, or tries the provider at the end of it.
LEMMA TickWaits ==
    ASSUME IInv, Tick, srv.reconnect, ~AttemptDue(srv)
    PROVE  srv'.reconnect /\ srv'.reconnectTicks = srv.reconnectTicks + 1
<1>. DEFINE t == TimeoutTick(srv)
<1>1. /\ Valid(t) /\ t.reconnect = srv.reconnect /\ t.reconnectTicks = srv.reconnectTicks
      /\ t.reconnect => ~IsConnected(t)
  BY TimeoutTickEffect DEF IInv, LinkConsistent
<1>2. srv' = ReconnectTick(t)
  BY DEF Tick
<1>. HIDE DEF t
<1>3. t.reconnect /\ t.reconnectTicks + 1 < ReconnectLimit
  BY <1>1, TicksRange DEF AttemptDue
<1>. QED  BY <1>1, <1>2, <1>3, ReconnectTickEffect

-------------------------------------------------------------------------------
(* With the clock: for any limits a provider that is down is tried in      *)
(* time.  First the inductive invariant.                                   *)

\* select has waited for a second that tick has not counted yet.
Uncounted == phase \in {"reconnect", "work", "await", "tick"}

\* The ticks are not behind the clock by more than that second, as long as
\* lost_server is not called for a provider that is down.
TicksFollow ==
    srv.reconnect /\ ~gReconnect =>
        elapsed <= srv.reconnectTicks + (IF Uncounted THEN 1 ELSE 0)

ElapsedInv == elapsed \in 0..ClockCap /\ TicksFollow

\* The range of the clock, as arithmetic.
LEMMA ClockRange == elapsed \in 0..ClockCap <=> elapsed \in Nat /\ elapsed <= ReconnectLimit + 2
BY TimingAssumption DEF ClockCap

LEMMA ElapsedInit == ClockInit => ElapsedInv
<1>. SUFFICES ASSUME ClockInit PROVE ElapsedInv
  OBVIOUS
<1>1. elapsed = 0 /\ ~srv.reconnect
  BY DEF ClockInit, Init, NewServer
<1>. QED  BY <1>1, ClockRange, TimingAssumption DEF ElapsedInv, TicksFollow

\* Only select makes a second uncounted, only tick counts it, and nothing
\* lowers g_reconnect.
LEMMA StaysUncounted ==
    ASSUME Next
    PROVE  /\ ~Select /\ ~Tick => (Uncounted => Uncounted')
           /\ gReconnect => gReconnect'
BY DEF Next, LoopStep, Select, Tick, IssueReconnect, IdleDisconnect, EndWork, Clients,
       FirstClientArrives, LastClientLeaves, Command, CommandWhileDown,
       CommandUnreachable, CommandInvalid, CommandSent, CommandEnds, CommandAnswered,
       CommandFailed, Environment, ProviderStarts, ProviderStops, PeerCloses,
       GuiSetsAddress, GuiSetsOther, GuiSetsKeepalive, Uncounted

LEMMA ElapsedStep == IInv /\ ElapsedInv /\ [ClockNext]_clockVars => ElapsedInv'
<1>. SUFFICES ASSUME IInv, ElapsedInv, [ClockNext]_clockVars PROVE ElapsedInv'
  OBVIOUS
<1>0. /\ elapsed \in Nat /\ elapsed <= ReconnectLimit + 2
      /\ ReconnectLimit \in Nat \ {0} /\ srv.reconnectTicks \in Nat
      /\ TicksFollow /\ gReconnect \in BOOLEAN
  BY ClockRange, TicksRange DEF ElapsedInv, IInv, TypeOK
<1>1. CASE SelectWaits
  <2>1. elapsed' \in {elapsed, elapsed + 1} /\ elapsed' <= ReconnectLimit + 2
    BY <1>0, <1>1 DEF SelectWaits, ClockCap
  <2>2. /\ srv'.reconnect = srv.reconnect /\ srv'.reconnectTicks = srv.reconnectTicks
        /\ ~Uncounted /\ Uncounted' /\ gReconnect' = gReconnect
    BY <1>1 DEF SelectWaits, Select, Uncounted, IInv, Valid, ServerState
  <2>3. (elapsed \in 0..ClockCap)'
    BY <1>0, <2>1, TimingAssumption DEF ClockCap
  <2>4. TicksFollow'
    BY <1>0, <2>1, <2>2 DEF TicksFollow
  <2>. QED  BY <2>3, <2>4 DEF ElapsedInv
<1>2. CASE Instant /\ WaitStarts
  <2>1. elapsed' = 0 /\ Next
    BY <1>2 DEF Instant
  <2>2. srv'.reconnectTicks \in Nat
    BY <2>1, NextInv, TicksRange DEF IInv, Valid, ServerState
  <2>. QED  BY <1>0, <2>1, <2>2 DEF ElapsedInv, ClockCap, TicksFollow
<1>3. CASE Instant /\ ~WaitStarts
  <2>1. Next /\ ~Select /\ elapsed' = elapsed
    BY <1>3 DEF Instant
  <2>2. (elapsed \in 0..ClockCap)'
    BY <2>1 DEF ElapsedInv, ClockCap
  <2>3. ASSUME srv'.reconnect, ~gReconnect'
        PROVE  TicksFollow'
    <3>1. srv.reconnect /\ ~gReconnect
      BY <1>3, <2>1, <2>3, StaysUncounted DEF WaitStarts
    <3>2. CASE Tick
      <4>1. ~AttemptDue(srv)
        BY <1>3, <2>3, <3>2 DEF WaitStarts, Tick
      <4>2. srv'.reconnectTicks = srv.reconnectTicks + 1
        BY <3>1, <3>2, <4>1, TickWaits
      <4>. QED  BY <1>0, <2>1, <3>1, <4>2 DEF TicksFollow
    <3>3. CASE ~Tick
      <4>1. Uncounted => Uncounted'
        BY <2>1, <3>3, StaysUncounted
      <4>2. srv'.reconnectTicks = srv.reconnectTicks
        BY <2>1, <3>1, <3>3, WaitUntouched
      <4>. QED  BY <1>0, <2>1, <3>1, <4>1, <4>2 DEF TicksFollow
    <3>. QED  BY <3>2, <3>3
  <2>. QED  BY <2>2, <2>3 DEF ElapsedInv, TicksFollow
<1>4. CASE UNCHANGED clockVars
  BY <1>4 DEF ElapsedInv, ClockCap, TicksFollow, Uncounted, clockVars, vars
<1>. QED  BY <1>1, <1>2, <1>3, <1>4 DEF ClockNext

-------------------------------------------------------------------------------

\* The measures only watch: their steps are steps of Server.
LEMMA ClockImplementsServer == ClockSpec => Spec
<1>1. ClockInit => Init
  BY DEF ClockInit
<1>2. [ClockNext]_clockVars => [Next]_vars
  BY DEF ClockNext, SelectWaits, Instant, Next, LoopStep, clockVars
<1>. QED  BY <1>1, <1>2, PTL DEF ClockSpec, Spec

\* Server::tick and lost_server: as long as no address was edited in the dialog,
\* thus always in a build without one, a provider that is down is tried within
\* ReconnectLimit seconds of its loss or of the last attempt, for any limit, if
\* nothing blocks the loop.
THEOREM RetriesInTime == ClockSpec => [](~gReconnect => RetryInTime)
<1>1. IInv /\ ElapsedInv => (~gReconnect => RetryInTime)
  <2>. SUFFICES ASSUME IInv, ElapsedInv, srv.reconnect, ~gReconnect
                PROVE  elapsed <= ReconnectLimit
    BY DEF RetryInTime
  <2>. QED  BY TicksRange, ClockRange DEF ElapsedInv, TicksFollow
<1>2. ClockSpec => []IInv
  BY ClockImplementsServer, Invariance, PTL
<1>. QED  BY <1>1, <1>2, ElapsedStep, ElapsedInit, PTL DEF ClockSpec

-------------------------------------------------------------------------------
(* How fast descriptors leak.  What each function does to the count.       *)

LEMMA LeakedRange ==
    ASSUME NEW s, Valid(s)
    PROVE  /\ Leaked(s) \in Nat /\ s.fds \in Nat
           /\ IsConnected(s) => Leaked(s) = s.fds - 1
           /\ ~IsConnected(s) => Leaked(s) = s.fds
BY ResourceAssumption DEF Valid, ServerState, Leaked

LEMMA DisconnectLeaksNone ==
    ASSUME NEW s, Valid(s)
    PROVE  Leaked(Disconnect(s)) = Leaked(s)
<1>1. CASE IsConnected(s)
  <2>1. Disconnect(s).fds = s.fds - 1
    BY <1>1 DEF Disconnect, Valid, ServerState
  <2>2. Valid(Disconnect(s)) /\ ~IsConnected(Disconnect(s))
    BY DisconnectEffect
  <2>. QED  BY <1>1, <2>1, <2>2, LeakedRange
<1>2. CASE ~IsConnected(s)
  BY <1>2 DEF Disconnect
<1>. QED  BY <1>1, <1>2

LEMMA ConnectLeaks ==
    ASSUME NEW s, Valid(s), NEW a \in AllAddrs
    PROVE  /\ IsConnected(Connect(s, a)) => Leaked(Connect(s, a)) = Leaked(s)
           /\ Leaked(Connect(s, a)) \in {Leaked(s), Leaked(s) + 1}
<1>. DEFINE t == Disconnect(s)
            c == Connect(s, a)
<1>1. Valid(t) /\ ~IsConnected(t) /\ Leaked(t) = Leaked(s) /\ Valid(c)
  BY DisconnectEffect, DisconnectLeaksNone, ConnectEffect
<1>2. t \in ServerState
  BY <1>1 DEF Valid
<1>3. CASE a \in up /\ t.fds < FdLimit
  <2>1. c = [t EXCEPT !.sock = "open", !.timeoutTicks = 0,
                      !.reconnect = FALSE, !.addr = a, !.fds = @ + 1]
    BY <1>3 DEF Connect, Opened
  <2>. HIDE DEF t, c
  <2>2. c.fds = t.fds + 1 /\ IsConnected(c)
    BY <1>2, <2>1 DEF ServerState, IsConnected
  <2>3. Leaked(c) = Leaked(t)
    BY <1>1, <2>2, LeakedRange
  <2>. QED  BY <1>1, <2>3 DEF c
<1>4. CASE ~(a \in up /\ t.fds < FdLimit)
  <2>1. c = [t EXCEPT !.fds = IF @ < FdLimit THEN @ + 1 ELSE @]
    BY <1>4 DEF Connect
  <2>. HIDE DEF t, c
  <2>2. c.fds \in {t.fds, t.fds + 1} /\ ~IsConnected(c)
    BY <1>1, <1>2, <2>1 DEF ServerState, IsConnected
  <2>3. Leaked(c) \in {Leaked(t), Leaked(t) + 1}
    BY <1>1, <2>2, LeakedRange
  <2>. QED  BY <1>1, <2>2, <2>3 DEF c
<1>. QED  BY <1>3, <1>4

LEMMA LostServerLeaksNone ==
    ASSUME NEW s, Valid(s)
    PROVE  Leaked(LostServer(s)) = Leaked(s)
<1>. DEFINE t == Disconnect(s)
<1>1. Valid(t) /\ Leaked(t) = Leaked(s)
  BY DisconnectEffect, DisconnectLeaksNone
<1>2. LostServer(s) = [t EXCEPT !.reconnect = TRUE, !.reconnectTicks = 0]
  BY DEF LostServer, LostConnection
<1>. HIDE DEF t
<1>. QED  BY <1>1, <1>2 DEF Valid, ServerState, Leaked, IsConnected

LEMMA TimeoutTickLeaksNone ==
    ASSUME NEW s, Valid(s)
    PROVE  Leaked(TimeoutTick(s)) = Leaked(s)
<1>. DEFINE t == [s EXCEPT !.timeoutTicks = Tock(@)]
            d == Disconnect(t)
<1>1. Tock(s.timeoutTicks) \in 0..TickCap
  BY TimingAssumption DEF Tock, Valid, ServerState
<1>2. Valid(t) /\ t.sock = s.sock /\ t.fds = s.fds
  BY <1>1 DEF Valid, ServerState, IsConnected
<1>3. Valid(d) /\ Leaked(d) = Leaked(t) /\ Leaked(t) = Leaked(s)
  BY <1>2, DisconnectEffect, DisconnectLeaksNone DEF Leaked, IsConnected
<1>4. \/ TimeoutTick(s) = [t EXCEPT !.timeoutTicks = 0]
      \/ TimeoutTick(s) = [d EXCEPT !.timeoutTicks = 0]
      \/ TimeoutTick(s) = t
  BY DEF TimeoutTick, SendKeepalive
<1>. HIDE DEF t, d
<1>. QED  BY <1>2, <1>3, <1>4 DEF Valid, ServerState, Leaked, IsConnected

\* Only the attempt that is due leaks, and the wait starts again.
LEMMA ReconnectTickLeaks ==
    ASSUME NEW s, Valid(s), NEW r, r = ReconnectTick(s), Leaked(r) # Leaked(s)
    PROVE  /\ Leaked(r) = Leaked(s) + 1
           /\ s.reconnect /\ AttemptDue(s)
           /\ r.reconnect /\ r.reconnectTicks = 0
<1>1. s \in ServerState /\ s.addr \in AllAddrs
  BY DEF Valid, ServerState, AllAddrs
<1>2. s.reconnect
  BY DEF ReconnectTick
<1>3. AttemptDue(s)
  <2>. SUFFICES ASSUME ~AttemptDue(s) PROVE FALSE
    OBVIOUS
  <2>1. r = [s EXCEPT !.reconnectTicks = @ + 1]
    BY <1>2 DEF ReconnectTick
  <2>. QED  BY <1>1, <2>1 DEF ServerState, Leaked, IsConnected
<1>. DEFINE t == Connect(s, s.addr)
<1>4. r = [t EXCEPT !.reconnectTicks = 0]
  BY <1>2, <1>3 DEF ReconnectTick, Attempt
<1>5. /\ Valid(t)
      /\ ~IsConnected(t) => t.reconnect = s.reconnect
      /\ IsConnected(t) => Leaked(t) = Leaked(s)
      /\ Leaked(t) \in {Leaked(s), Leaked(s) + 1}
  BY <1>1, ConnectEffect, ConnectLeaks
<1>. HIDE DEF t
<1>6. /\ r.reconnect = t.reconnect /\ r.reconnectTicks = 0 /\ Leaked(r) = Leaked(t)
  BY <1>4, <1>5 DEF Valid, ServerState, Leaked, IsConnected
<1>. QED  BY <1>2, <1>3, <1>5, <1>6

LEMMA ConnectServerLeaks ==
    ASSUME IInv, NEW s, Valid(s)
    PROVE  /\ Valid(ConnectServer(s))
           /\ Leaked(ConnectServer(s)) \in {Leaked(s), Leaked(s) + 1}
           /\ IsConnected(ConnectServer(s)) => Leaked(ConnectServer(s)) = Leaked(s)
<1>1. cfg.addr \in AllAddrs
  BY DEF IInv, TypeOK, AllAddrs
<1>. QED  BY <1>1, ConnectEffect, ConnectLeaks DEF ConnectServer

\* A step leaks one descriptor at most; it finds the provider not waited for,
\* or is the attempt that is due, and leaves it at the start of a wait.
LEMMA LeakStep ==
    ASSUME IInv, Next, Leaks
    PROVE  /\ Leaked(srv') = Leaked(srv) + 1
           /\ srv'.reconnect /\ srv'.reconnectTicks = 0
           /\ ~srv.reconnect \/ (Tick /\ AttemptDue(srv))
<1>0. /\ Valid(srv) /\ srv \in ServerState /\ Leaked(srv) \in Nat
      /\ Leaked(srv') > Leaked(srv)
  BY LeakedRange DEF IInv, Valid, Leaks
<1>1. CASE Select \/ CommandAnswered \/ PeerCloses
  <2>1. srv'.fds = srv.fds /\ (IsConnected(srv') <=> IsConnected(srv))
    BY <1>0, <1>1 DEF Select, CommandAnswered, PeerCloses, ServerState, IsConnected
  <2>. QED  BY <1>0, <2>1 DEF Leaked
<1>2. CASE IssueReconnect \/ IdleDisconnect \/ UNCHANGED srv
  <2>1. srv' \in {srv, LostServer(srv), Disconnect(srv)}
    BY <1>2 DEF IssueReconnect, IdleDisconnect, Unused
  <2>2. Leaked(srv') = Leaked(srv)
    BY <1>0, <2>1, LostServerLeaksNone, DisconnectLeaksNone
  <2>. QED  BY <1>0, <2>2
<1>3. CASE CommandInvalid \/ CommandSent
  <2>1. srv' = Ensured /\ IsConnected(Ensured)
    BY <1>3 DEF CommandInvalid, CommandSent
  <2>2. Leaked(srv') = Leaked(srv)
    BY <1>0, <2>1, ConnectServerLeaks DEF Ensured
  <2>. QED  BY <1>0, <2>2
<1>4. CASE CommandUnreachable
  <2>1. ~srv.reconnect /\ ~IsConnected(Ensured) /\ srv' = LostServer(Ensured)
    BY <1>4 DEF CommandUnreachable
  <2>2. Valid(Ensured) /\ srv'.reconnect /\ srv'.reconnectTicks = 0
    BY <2>1, EnsuredEffect
  <2>3. Leaked(Ensured) \in {Leaked(srv), Leaked(srv) + 1}
    BY <1>0, <2>1, ConnectServerLeaks DEF Ensured
  <2>4. Leaked(srv') = Leaked(Ensured)
    BY <2>1, <2>2, LostServerLeaksNone
  <2>. QED  BY <1>0, <2>1, <2>2, <2>3, <2>4
<1>5. CASE CommandFailed
  <2>. DEFINE d == Disconnect(srv)
              t == ConnectServer(d)
  <2>1. phase = "await" /\ srv' = ConnectOrLose(d)
    BY <1>5 DEF CommandFailed
  <2>2. ~srv.reconnect
    BY <2>1 DEF IInv, LinkConsistent
  <2>3. Valid(d) /\ Leaked(d) = Leaked(srv)
    BY <1>0, DisconnectEffect, DisconnectLeaksNone
  <2>. HIDE DEF d
  <2>4. /\ Valid(t) /\ Leaked(t) \in {Leaked(d), Leaked(d) + 1}
        /\ IsConnected(t) => Leaked(t) = Leaked(d)
    BY <2>3, ConnectServerLeaks
  <2>5. srv' = IF IsConnected(t) THEN t ELSE LostServer(t)
    BY <2>1 DEF ConnectOrLose
  <2>. HIDE DEF t
  <2>6. ~IsConnected(t) /\ srv' = LostServer(t)
    BY <1>0, <2>3, <2>4, <2>5
  <2>7. srv'.reconnect /\ srv'.reconnectTicks = 0 /\ Leaked(srv') = Leaked(t)
    BY <2>4, <2>6, LostServerEffect, LostServerLeaksNone
  <2>. QED  BY <1>0, <2>2, <2>3, <2>4, <2>7
<1>6. CASE Tick
  <2>. DEFINE t == TimeoutTick(srv)
  <2>1. /\ Valid(t) /\ t.reconnect = srv.reconnect /\ t.reconnectTicks = srv.reconnectTicks
        /\ Leaked(t) = Leaked(srv)
    BY <1>0, TimeoutTickEffect, TimeoutTickLeaksNone
  <2>2. srv' = ReconnectTick(t)
    BY <1>6 DEF Tick
  <2>. HIDE DEF t
  <2>3. Leaked(srv') # Leaked(t)
    BY <1>0, <2>1
  <2>4. /\ Leaked(srv') = Leaked(t) + 1
        /\ srv'.reconnect /\ srv'.reconnectTicks = 0 /\ AttemptDue(t)
    BY <2>1, <2>2, <2>3, ReconnectTickLeaks
  <2>5. AttemptDue(srv)
    BY <2>1, <2>4 DEF AttemptDue
  <2>. QED  BY <1>6, <2>1, <2>4, <2>5
<1>. QED
  BY <1>1, <1>2, <1>3, <1>4, <1>5, <1>6
     DEF Next, LoopStep, EndWork, Clients, FirstClientArrives, LastClientLeaves,
         Command, CommandWhileDown, Refused, CommandEnds, Environment, ProviderStarts,
         ProviderStops, GuiSetsAddress, GuiSetsOther, GuiSetsKeepalive

-------------------------------------------------------------------------------

\* As long as the last leak is recent the provider is waited for, and the wait
\* is no older than the leak.
QuietInv ==
    /\ quiet \in 0..ReconnectLimit
    /\ quiet < ReconnectLimit => srv.reconnect /\ srv.reconnectTicks <= quiet

LEMMA QuietInit == ClockInit => QuietInv
BY TimingAssumption DEF ClockInit, QuietInv

PacedLeak == Leaks => Leaked(srv') = Leaked(srv) + 1 /\ QuietNow >= ReconnectLimit

LEMMA QuietStep ==
    IInv /\ QuietInv /\ [ClockNext]_clockVars => QuietInv' /\ [PacedLeak]_clockVars
<1>. SUFFICES ASSUME IInv, QuietInv, [ClockNext]_clockVars
              PROVE  QuietInv' /\ [PacedLeak]_clockVars
  OBVIOUS
<1>0. /\ quiet \in Nat /\ quiet <= ReconnectLimit
      /\ ReconnectLimit \in Nat \ {0} /\ srv.reconnectTicks \in Nat
      /\ quiet < ReconnectLimit => srv.reconnect /\ srv.reconnectTicks <= quiet
  BY TicksRange DEF QuietInv
<1>1. CASE UNCHANGED clockVars
  BY <1>1 DEF QuietInv, clockVars, vars
<1>2. CASE SelectWaits
  <2>1. /\ quiet' = quiet /\ srv'.reconnect = srv.reconnect
        /\ srv'.reconnectTicks = srv.reconnectTicks
        /\ srv'.fds = srv.fds /\ srv'.sock = srv.sock
    BY <1>2 DEF SelectWaits, Select, IInv, Valid, ServerState
  <2>2. Leaked(srv') = Leaked(srv) /\ Leaked(srv) \in Nat
    BY <2>1, LeakedRange DEF Leaked, IsConnected, IInv
  <2>3. ~Leaks
    BY <2>2 DEF Leaks
  <2>. QED  BY <1>0, <2>1, <2>3 DEF QuietInv, PacedLeak
<1>3. CASE Instant /\ Leaks
  <2>1. Next /\ quiet' = 0
    BY <1>3 DEF Instant
  <2>2. /\ Leaked(srv') = Leaked(srv) + 1
        /\ srv'.reconnect /\ srv'.reconnectTicks = 0
        /\ ~srv.reconnect \/ (Tick /\ AttemptDue(srv))
    BY <1>3, <2>1, LeakStep
  <2>3. CASE ~srv.reconnect
    <3>1. quiet = ReconnectLimit
      BY <1>0, <2>3
    <3>2. QuietNow = ReconnectLimit
      BY <1>0, <3>1 DEF QuietNow
    <3>. QED  BY <1>0, <2>1, <2>2, <3>2 DEF QuietInv, PacedLeak
  <2>4. CASE Tick /\ AttemptDue(srv)
    <3>1. phase = "tick" /\ phase' = "idle" /\ srv.reconnectTicks + 1 >= ReconnectLimit
      BY <2>4 DEF Tick, AttemptDue
    <3>2. QuietNow >= ReconnectLimit
      BY <1>0, <3>1 DEF QuietNow
    <3>. QED  BY <1>0, <2>1, <2>2, <3>2 DEF QuietInv, PacedLeak
  <2>. QED  BY <2>2, <2>3, <2>4
<1>4. CASE Instant /\ ~Leaks
  <2>1. Next /\ quiet' = QuietNow
    BY <1>4 DEF Instant
  <2>2. QuietNow \in Nat /\ QuietNow <= ReconnectLimit /\ QuietNow >= quiet
    BY <1>0 DEF QuietNow
  <2>3. ASSUME QuietNow < ReconnectLimit
        PROVE  srv'.reconnect /\ srv'.reconnectTicks <= QuietNow
    <3>1. srv.reconnect /\ srv.reconnectTicks <= quiet
      BY <1>0, <2>2, <2>3
    <3>2. CASE Tick
      <4>1. QuietNow = quiet + 1
        BY <1>0, <2>2, <2>3, <3>2 DEF QuietNow, Tick
      <4>2. ~AttemptDue(srv)
        BY <1>0, <2>3, <3>1, <4>1 DEF AttemptDue
      <4>3. srv'.reconnect /\ srv'.reconnectTicks = srv.reconnectTicks + 1
        BY <3>1, <3>2, <4>2, TickWaits
      <4>. QED  BY <1>0, <3>1, <4>1, <4>3
    <3>3. CASE ~Tick
      <4>1. /\ srv'.reconnect
            /\ srv'.reconnectTicks = srv.reconnectTicks \/ srv'.reconnectTicks = 0
        BY <2>1, <3>1, <3>3, WaitUntouched
      <4>. QED  BY <1>0, <2>2, <3>1, <4>1
    <3>. QED  BY <3>2, <3>3
  <2>4. QuietInv'
    BY <1>0, <2>1, <2>2, <2>3 DEF QuietInv
  <2>. QED  BY <1>4, <2>4 DEF PacedLeak
<1>. QED  BY <1>1, <1>2, <1>3, <1>4 DEF ClockNext

\* Server::connect leaks a descriptor where it fails, and its callers make the
\* next attempt wait: for any limits, with the dialog or without, two leaks are
\* at least ReconnectLimit ticks of main_loop apart.
THEOREM LeakIsPaced == ClockSpec => LeaksArePaced
<1>1. ClockSpec => []IInv
  BY ClockImplementsServer, Invariance, PTL
<1>2. ClockSpec => [][PacedLeak]_clockVars
  BY <1>1, QuietStep, QuietInit, PTL DEF ClockSpec
<1>. QED  BY <1>2 DEF LeaksArePaced, PacedLeak

===============================================================================
