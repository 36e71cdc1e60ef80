------------------------------- MODULE MCServer -------------------------------
(***************************************************************************)
(* Small instances of Server.tla: one or two addresses, keepalives off or  *)
(* every three ticks, and limits just large enough to tell the comparisons *)
(* of the code apart.                                                      *)
(***************************************************************************)
EXTENDS Server

CONSTANTS a1, a2, empty

OneAddr == {a1}
TwoAddrs == {a1, a2}
KeepaliveChoices == {0, 2, 3}

===============================================================================
