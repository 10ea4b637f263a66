-------------------------- MODULE MCServerProcess --------------------------
(***************************************************************************)
(* ServerProcess for TLC: two requests at a time, of up to two items.      *)
(***************************************************************************)
EXTENDS ServerProcess

CONSTANTS c1, c2
=============================================================================
