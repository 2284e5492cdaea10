SPECIFICATION Spec
CONSTANTS
  t1 = t1
  t2 = t2
  Threads <- OneThread
  CallEntries <- TwoEntries
  Limit = 2
  StampSpan = 2
  RenameReplaces = TRUE
  MaxCalls = 3
  MaxTime = 0
  MaxFaults = 0
INVARIANT NoFileLost
CHECK_DEADLOCK FALSE
