CONSTANTS
  ann = ann  bob = bob  h1 = h1  h2 = h2  proxy = proxy
  Thread = {h1, h2}
  Client = {ann, bob}
  Watched = ann
  Proxy = proxy
  Junk = Junk
  Trust = TRUE
  Requests = 2
  Window = 3
  Second = 2
  Delay = 1
  MaxTime = 6
SPECIFICATION Spec
INVARIANTS TypeOK ChargedToPeer BoundedBurst PromiseKept IInv
PROPERTIES RefusedOnlyWhenFull OldBucketsGo
CHECK_DEADLOCK FALSE
SYMMETRY Handlers
