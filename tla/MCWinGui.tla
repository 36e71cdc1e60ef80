------------------------------- MODULE MCWinGui -------------------------------
(***************************************************************************)
(* Two ports and two addresses: enough for a mixed pair.                   *)
(***************************************************************************)
EXTENDS WinGui

===============================================================================
