CONSTANTS
  c1 = c1  c2 = c2
  Conn = {c1, c2}
  MaxItems = 2
  MaxRequests = 2
SPECIFICATION FairSpec
INVARIANTS TypeOK Balance ScrapeAgrees OnlyConfiguredTokens
PROPERTIES SignalEndsProcess
CHECK_DEADLOCK FALSE
