SPECIFICATION Spec
CONSTANTS
  t1 = t1
  t2 = t2
  Threads <- TwoThreads
  CallEntries <- TwoEntries
  Limit = 2
  StampSpan = 2
  RenameReplaces = TRUE
  MaxCalls = 2
  MaxTime = 0
  MaxFaults = 1
SYMMETRY Symmetry
INVARIANTS TypeOK MutualExclusion WritesToLiveFile HeaderIsComing SizeIsBounded RefusedOnlyByFault
CHECK_DEADLOCK FALSE
