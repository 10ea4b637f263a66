CONSTANTS
  batch = batch  single = single
  NUL = NUL
  Char <- MCChar
  Validate <- MCValidate
  Check <- MCCheck
  Bad = Bad
  Conn = {batch, single}
  Single = {single}
  Subject <- MCSubject
  Jobs <- MCJobs
  MaxItems = 2
  KeyId = {1}
  Limit = {2}
  DailyLimit = 2
  Units = {1, 2}
  MaxDay = 1
  StorageFaults = TRUE
SPECIFICATION Spec
INVARIANTS TypeOK UnitsCoverCalls AnswersAreOwn LateIsRefused
PROPERTIES RevocationStopsCharges ImplementsContract
