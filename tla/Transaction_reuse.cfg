SPECIFICATION Spec
CONSTANTS
  MaxCalls = 2
  Texts <- ReuseTexts
  Flags <- ReuseFlags
  TextEdits <- ReuseTextEdits
  FlagEdits <- ReuseFlagEdits
  Requests <- ReuseRequests
INVARIANTS TypeOK EndpointIsAsConfigured KeyMaterialReleased SignsWithLiveKey TransportIsOfThisCall OutcomeIsTrue ExecutedIsOnRecord ErrorInfoIsOfLastRefusal
PROPERTIES ImplementsPaymentCall CallSettles
CHECK_DEADLOCK FALSE
