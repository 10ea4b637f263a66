--------------------------- MODULE MCRemoteClient ---------------------------
(***************************************************************************)
(* RemoteClient for TLC: a single operation and a batch of two items, with *)
(* one key.                                                                *)
(***************************************************************************)
EXTENDS RemoteClient

CONSTANTS single, batch

MCItems == [c \in Call |-> IF c = batch THEN 2 ELSE 1]
=============================================================================
