SPECIFICATION Spec
CONSTANTS
  Keys <- ThreeKeys
  Values <- ShortAndLong
  KeyLength <- Lengths
  NULL = NULL
  MaxBlocks = 8
INVARIANTS TypeOK PairsOwnTheirStrings PairsAreSorted NothingLeaks BorrowedStays
PROPERTY ImplementsStringMap
CHECK_DEADLOCK FALSE
