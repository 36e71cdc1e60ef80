----------------------------- MODULE ProviderLink -----------------------------
(***************************************************************************)
(* What l2netmgr promises about its one connection to a provider (cached   *)
(* or authd): the connection is opened on demand, a connection that could  *)
(* not be opened or was lost is declared "down", and a provider that is    *)
(* down is left alone until Limit ticks of the main loop have passed; then *)
(* it is tried once, and the wait starts again if that attempt fails.      *)
(*                                                                         *)
(* Server.tla is shown to implement this specification.                    *)
(***************************************************************************)
EXTENDS Integers

CONSTANT Limit    \* ticks between two attempts to reach a provider that is down

VARIABLES
    link,         \* "idle": no connection, "connected", or "down"
    wait          \* ticks spent waiting since the loss or the last attempt

vars == <<link, wait>>

States == {"idle", "connected", "down"}

TypeOK ==
    /\ link \in States
    /\ wait \in 0..(Limit - 1)

Init ==
    /\ link = "idle"
    /\ wait = 0

-------------------------------------------------------------------------------

(* A connection is opened on demand.                                       *)
Connect ==
    /\ link = "idle"
    /\ link' = "connected"
    /\ UNCHANGED wait

(* A connection that is no longer needed is closed.                        *)
Drop ==
    /\ link = "connected"
    /\ link' = "idle"
    /\ UNCHANGED wait

(* The provider could not be reached, the connection broke, or an operator *)
(* asked for a reconnection: the wait starts from the beginning.           *)
Lose ==
    /\ link' = "down"
    /\ wait' = 0

(* One tick of the wait, not the last one.                                 *)
Wait ==
    /\ link = "down"
    /\ wait + 1 < Limit
    /\ wait' = wait + 1
    /\ UNCHANGED link

(* The last tick: the provider is tried, and this is the only way out of   *)
(* "down".                                                                 *)
Retry ==
    /\ link = "down"
    /\ wait + 1 = Limit
    /\ link' \in {"connected", "down"}
    /\ wait' = 0

Next == Connect \/ Drop \/ Lose \/ Wait \/ Retry

Spec == Init /\ [][Next]_vars

===============================================================================
