---------------------------- MODULE MCServerClock ----------------------------
(***************************************************************************)
(* A small instance of ServerClock.tla.                                    *)
(***************************************************************************)
EXTENDS ServerClock

CONSTANTS a1, empty

OneAddr == {a1}
KeepaliveChoices == {0, 2, 3}

===============================================================================
