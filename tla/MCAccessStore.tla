--------------------------- MODULE MCAccessStore ---------------------------
(***************************************************************************)
(* AccessStore for TLC: two goroutines of one server and a run of the CLI  *)
(* beside it, or a smaller cast of the two.                                *)
(***************************************************************************)
EXTENDS AccessRefinement

CONSTANTS g1, g2, cli, k1, k2, server, tool

MCStoreOf == [t \in Thread |-> IF t \in Admin THEN tool ELSE server]
=============================================================================
