CONSTANTS
  w1 = w1  w2 = w2
  Worker = {w1, w2}
  Batches <- MCBatches
SPECIFICATION Spec
INVARIANTS ItemsHaveTheirOwnErrors
CHECK_DEADLOCK FALSE
