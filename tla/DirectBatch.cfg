CONSTANTS
  w1 = w1  w2 = w2
  Worker = {w1, w2}
  Batches <- MCBatches
SPECIFICATION FairSpec
INVARIANTS TypeOK EveryItemOnce NothingLeftRunning IInv
PROPERTIES AnswersReadAlike BatchEnds
CHECK_DEADLOCK FALSE
