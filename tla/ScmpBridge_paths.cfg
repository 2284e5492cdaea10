SPECIFICATION Spec
CONSTANTS
  CYBS_MAX_PATH = 7
  Messages <- PlainMessage
  Inis <- SlashInis
  RequestTable <- SampleRequestTable
  AppTable <- SampleAppTable
  ResponseTable <- SampleResponseTable
  Replies <- OneReply
  Uninitialized <- Stacks
  Missing <- NoneMissing
INVARIANTS KeyIsInKeysDirectory
CHECK_DEADLOCK FALSE
