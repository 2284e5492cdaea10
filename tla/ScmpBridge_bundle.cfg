SPECIFICATION Spec
CONSTANTS
  CYBS_MAX_PATH = 7
  Messages <- BundleMessages
  Inis <- PlainInis
  RequestTable <- SampleRequestTable
  AppTable <- SampleAppTable
  ResponseTable <- SampleResponseTable
  Replies <- OneReply
  Uninitialized <- Stacks
  Missing <- NoneMissing
INVARIANTS MappedIsSent
CHECK_DEADLOCK FALSE
