CONSTANTS
  single = single  batch = batch
  Call = {single, batch}
  Items <- MCItems
  KeyId = {1}
  MaxItems = 2
SPECIFICATION FairSpec
INVARIANTS TypeOK CostIsKnown IInv
PROPERTIES CallReturns
CHECK_DEADLOCK FALSE
