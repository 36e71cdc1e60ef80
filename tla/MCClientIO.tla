------------------------------ MODULE MCClientIO ------------------------------
(***************************************************************************)
(* Small instances of ClientIO.tla.                                        *)
(***************************************************************************)
EXTENDS ClientIO

CONSTANTS x, cr, lf, iac

OneLetter == {x}

===============================================================================
