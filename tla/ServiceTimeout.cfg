CONSTANTS
  batch = batch  single = single
  NUL = NUL
  Char <- MCChar
  Validate <- MCValidate
  Check <- MCCheck
  Bad = Bad
  Conn = {batch, single}
  Single = {single}
  Subject <- MCFewSubjects
  Jobs <- MCFewJobs
  MaxItems = 2
  KeyId = {1}
  Limit = {3}
  DailyLimit = 3
  Units = {1, 2}
  MaxDay = 1
  StorageFaults = FALSE
SPECIFICATION Spec
INVARIANTS TimeoutIsReported
