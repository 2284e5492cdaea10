SPECIFICATION Spec
CONSTANTS
  MaxCalls = 1
  Texts <- PlainTexts
  Flags <- SignAndEncrypt
  TextEdits <- NoEdits
  FlagEdits <- NoEdits
  Requests <- OneRequest
PROPERTY EncryptsWhenAsked
CHECK_DEADLOCK FALSE
