CONSTANTS
  g1 = g1  g2 = g2  cli = cli
  k1 = k1  k2 = k2
  server = server  tool = tool
  NoThread = NoThread
  Thread = {g1, g2, cli}
  Admin = {cli}
  Store = {server, tool}
  StoreOf <- MCStoreOf
  KeyId = {k1}
  Limit = {1}
  Units = {1}
  MaxDay = 1
  MaxAttempts = 0
  MaxUnsynced = 1
SPECIFICATION FairSpec
INVARIANTS NoLostUpdate
PROPERTIES CallsReturn
