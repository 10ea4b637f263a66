CONSTANTS
  batch = batch  single = single
  NUL = NUL
  Char <- MCChar
  Validate <- MCValidate
  Check <- MCCheck
  Bad = Bad
  Conn = {batch}
  Single = {}
  Subject <- MCFewSubjects
  Jobs <- MCJobs
  MaxItems = 2
  KeyId = {1}
  Limit = {2}
  DailyLimit = 2
  Units = {1, 2}
  MaxDay = 2
  StorageFaults = TRUE
SPECIFICATION FairSpec
INVARIANTS QuotaCoversCalls
PROPERTIES RequestsAreAnswered
