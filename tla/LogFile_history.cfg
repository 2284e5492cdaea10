SPECIFICATION Spec
CONSTANTS
  t1 = t1
  t2 = t2
  Threads <- TwoThreads
  CallEntries <- OneEntry
  Limit = 1
  StampSpan = 1
  RenameReplaces = FALSE
  MaxCalls = 2
  MaxTime = 1
  MaxFaults = 1
PROPERTIES ImplementsAppendOnlyLog MutexIsReleased
CHECK_DEADLOCK FALSE
