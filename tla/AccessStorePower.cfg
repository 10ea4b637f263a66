CONSTANTS
  g1 = g1  g2 = g2  cli = cli
  k1 = k1  k2 = k2
  server = server  tool = tool
  NoThread = NoThread
  Thread = {g1, cli}
  Admin = {cli}
  Store = {server, tool}
  StoreOf <- MCStoreOf
  KeyId = {k1}
  Limit = {2, 3}
  Units = {2}
  MaxDay = 2
  MaxAttempts = 1
  MaxUnsynced = 2
SPECIFICATION PowerSpec
INVARIANTS TypeOK NoLostUpdate QuotaKept Remembered IInv
PROPERTIES RevocationIsFinal CountersFollowTheDay ImplementsLedger
