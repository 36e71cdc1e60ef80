--------------------------- MODULE MCResponseStream ---------------------------
(***************************************************************************)
(* Small instances of ResponseStream.tla; the constants are given in the   *)
(* configurations.                                                         *)
(***************************************************************************)
EXTENDS ResponseStream

===============================================================================
