SPECIFICATION XmlSpec
CONSTANTS
  MaxCalls = 2
  Texts <- XmlTexts
  Flags <- XmlFlags
  TextEdits <- XmlTextEdits
  FlagEdits <- XmlFlagEdits
  Requests <- XmlRequests
INVARIANT ReplyIsNotAnothers
PROPERTIES RetryKeepsMerchant XmlImplementsPaymentCall
CHECK_DEADLOCK FALSE
