SPECIFICATION Spec
CONSTANTS
  Letters = {"a", "b"}
  Digits = {"0"}
  Names <- AllNames
  SafeList <- Lists
  REQUEST_MESSAGE <- Request
  REPLY_MESSAGE <- Reply
  TRACK_DATA <- TrackData
  MAX_FIELD_LENGTH = 5
  Lengths <- Boundaries
  MaxLength = 4
INVARIANT SafeIsListed
CHECK_DEADLOCK FALSE
