--------------------------- MODULE MCDirectBatch ---------------------------
(***************************************************************************)
(* DirectBatch for TLC: one item with any answer, and batches of up to     *)
(* three items of a few kinds for a pool of two workers.                   *)
(***************************************************************************)
EXTENDS DirectBatch

CONSTANTS w1, w2

Answer(choice, confidence) ==
  [choice |-> choice, confidence |-> confidence, probability |-> Missing]

Fine(answer) == [local |-> "fine", answer |-> answer]
Bad(local) == [local |-> local, answer |-> Answer("other", Missing)]

Kinds ==
  {Fine(Answer("true", 100)), Fine(Answer("false", 79)),
   Bad("bad text"), Bad("unknown rule"), Bad("no rule"), Bad("surrogate")}

MCBatches ==
  UNION {[1 .. n -> Kinds] : n \in 2 .. 3} \cup {<<Fine(d)>> : d \in Document}
=============================================================================
