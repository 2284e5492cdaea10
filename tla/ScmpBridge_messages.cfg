SPECIFICATION Spec
CONSTANTS
  CYBS_MAX_PATH = 7
  Messages <- SampleMessages
  Inis <- SampleInis
  RequestTable <- SampleRequestTable
  AppTable <- SampleAppTable
  ResponseTable <- SampleResponseTable
  Replies <- SampleReplies
  Uninitialized <- Stacks
  Missing <- NoneOrOneMissing
INVARIANTS TypeOK ExecutesWhatIsMeant ConfigIsAsWritten FilesAreAsConfigured ResponseIsOfThisPayment
PROPERTIES OverrunsAreKnown Returns
CHECK_DEADLOCK FALSE
