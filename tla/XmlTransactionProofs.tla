-------------------------- MODULE XmlTransactionProofs --------------------------
(***************************************************************************)
(* XmlTransaction keeps the inductive invariant of Transaction and, with   *)
(* what a reply object holds added to it, its own properties; and it       *)
(* implements PaymentCall, for every number of calls and every             *)
(* configuration.  Most of its steps are steps of Transaction, about which *)
(* TransactionProofs has all there is to say; the others are taken here    *)
(* one by one.                                                             *)
(***************************************************************************)
EXTENDS XmlTransaction, TransactionProofs

\* Between the exchange and the end of a call whose exchange succeeded, the reply object
\* holds what the call received.
AnswerIsHeld ==
  pc \in {"release", "report"} /\ soapStatus = SOAP_OK =>
    resMap = IF rep # "none" THEN call ELSE 0

\* An answer is waited for only when the request has left the client.
RequestIsOut == pc = "receive" => \E m \in sent : m.call = call

\* Until the parameters are checked the request names whom the merchant's object names.
RequestIsTheObject == pc \in {"log", "check"} => req.merchantID = merchantID

\* Only sizes and calls are recorded of a request object.
ObjectTyping ==
  /\ merchantID \in Sizes /\ namedBy \in 0..MaxCalls
  /\ reused \in BOOLEAN /\ crashed \in BOOLEAN

XmlInv == /\ IInv
          /\ AnswerIsHeld
          /\ ReplyIsNotAnothers
          /\ RequestIsOut
          /\ RequestIsTheObject
          /\ ObjectTyping

\* Steps that XmlTransaction takes and Transaction does not.
OwnStep == \/ XmlBegin \/ StampCrashes \/ XmlReceive \/ XmlConnectionLost
           \/ XmlSucceed \/ SucceedCrashes
--------------------------------------------------------------------------------
\* Every other step is one of Transaction.
LEMMA SharedStep == [XmlNext]_xmlVars => OwnStep \/ [Next]_vars
  BY DEF XmlNext, xmlVars, vars, cybs_runTransaction, XmlEnvironment, CommonStep, OwnStep,
         XmlResolve, XmlRejectParameter, Next, RunTransaction, Environment

\* Every call of the merchant, with a new object or the last one, has a request.
LEMMA BeginsWithRequest ==
  ASSUME IInv, XmlBegin, merchantID \in Sizes
  PROVE  \E request \in Request : BeginWith(request)
  <1>1. CASE Begin
    BY <1>1, RequestAssumption DEF Begin
  <1>2. CASE BeginWith([req EXCEPT !.merchantID = merchantID])
    <2>1. [req EXCEPT !.merchantID = merchantID] \in Request
      BY DEF IInv, TypeOK, Request
    <2> QED
      BY <1>2, <2>1
  <1> QED
    BY <1>1, <1>2 DEF XmlBegin

\* A call that begins keeps the inductive invariant, whatever its request.
LEMMA BeginInvariant ==
  ASSUME IInv, NEW request \in Request, BeginWith(request)
  PROVE  IInv'
  <1>0. /\ pc = "idle" /\ pc' = "log" /\ call' = call + 1
        /\ call \in Int /\ \A n \in Calls : n \in Int
        /\ call' \in Calls /\ call' \in 0..MaxCalls
    BY CallsAssumption DEF IInv, TypeOK, BeginWith, Calls
  <1> USE DEF IInv, TypeOK, locals, config, wire, BeginWith
  <1>1. TypeOK'
    <2>1. req' \in Request /\ cfg' \in [isLogEnabled : BOOLEAN, isEncryptionEnabled : BOOLEAN, serverURL : URLs]
      BY DEF URLs
    <2>2. outcome' \in [Calls -> {"none", "open", "thrown"} \union Returned] /\ soapStatus' \in Int
      BY <1>0 DEF SOAP_OK
    <2> QED
      BY <1>0, <2>1, <2>2
  <1>2. CallsInOrder'
    BY <1>0, <1>1 DEF CallsInOrder
  <1>3. KeyMaterialIsOwned' /\ KeyIsSet'
    BY <1>0, <1>1 DEF KeyMaterialIsOwned, KeyIsSet, CallsInOrder, Object
  <1>4. TransportIsFresh'
    BY <1>0, <1>1 DEF TransportIsFresh, Configured
  <1>5. AnswerIsOfThisCall'
    BY <1>0 DEF AnswerIsOfThisCall
  <1>5a. ExchangeInOrder'
    <2>1. /\ UNCHANGED <<sent, executed, answer>>
          /\ outcome' = [outcome EXCEPT ![call'] = "open"]
      OBVIOUS
    <2>2. \A m \in sent : /\ m.call \in Calls /\ m.call <= call
                          /\ m.call # call' /\ m.call <= call'
      <3>1. \A m \in sent : m.call \in Calls /\ m.call <= call
        BY DEF ExchangeInOrder
      <3>2. \A n, c \in Int : n <= c => n # c + 1 /\ n <= c + 1
        OBVIOUS
      <3> HIDE DEF IInv, TypeOK, BeginWith
      <3> QED
        BY <1>0, <3>1, <3>2
    <2>3. \A m \in sent : outcome'[m.call] # "rejected"
      BY <2>1, <2>2 DEF ExchangeInOrder
    <2> QED
      BY <2>1, <2>2, <2>3 DEF ExchangeInOrder
  <1>6. OutcomeIsTrue' /\ ErrorInfoIsOfLastRefusal'
    BY <1>0, <1>1 DEF OutcomeIsTrue, ErrorInfoIsOfLastRefusal, CallsInOrder
  <1> QED
    BY <1>1, <1>2, <1>3, <1>4, <1>5, <1>5a, <1>6

\* Neither the answer nor the loss of the connection disturbs the inductive invariant.
LEMMA ReceiveInvariant == IInv /\ (XmlReceive \/ XmlConnectionLost) => IInv'
  <1> SUFFICES ASSUME IInv, XmlReceive \/ XmlConnectionLost PROVE IInv'
    OBVIOUS
  <1>0. /\ pc = "receive" /\ pc' = "release"
        /\ UNCHANGED <<text, flag, errorInfo, proxy, signKey, heap, journal, call, req, cfg,
                       encrypting, status, outcome, sent, executed, answer>>
        /\ call \in Calls /\ call \in 0..MaxCalls /\ 0 \in 0..MaxCalls
    BY CallsAssumption DEF XmlReceive, XmlConnectionLost, IInv, TypeOK, CallsInOrder, Calls, locals, config, wire
  <1>1. /\ resMap' \in 0..MaxCalls
        /\ soapStatus' \in Int /\ rep' \in {"none", "reply", "unloggable"}
        /\ rep' # "none" => answer[call] = rep'
        /\ soapStatus' = SOAP_OK => answer[call] # "none"
    <2>1. CASE XmlReceive
      BY <1>0, <2>1, StatusTyping DEF XmlReceive, Holding, IInv, TypeOK
    <2>2. CASE XmlConnectionLost
      BY <1>0, <2>2 DEF XmlConnectionLost, Holding, IInv, TypeOK, AnswerIsOfThisCall, SOAP_EOF, SOAP_OK
    <2> QED
      BY <2>1, <2>2
  <1>2. TypeOK'
    BY <1>0, <1>1 DEF IInv, TypeOK
  <1>3. CallsInOrder' /\ KeyMaterialIsOwned' /\ KeyIsSet' /\ TransportIsFresh'
    BY <1>0 DEF IInv, CallsInOrder, KeyMaterialIsOwned, KeyIsSet, Own, TransportIsFresh, Configured
  <1>4. ExchangeInOrder' /\ AnswerIsOfThisCall'
    BY <1>0, <1>1 DEF IInv, ExchangeInOrder, AnswerIsOfThisCall, CallsInOrder, Exchanged
  <1>5. OutcomeIsTrue' /\ ErrorInfoIsOfLastRefusal'
    BY <1>0 DEF IInv, OutcomeIsTrue, ErrorInfoIsOfLastRefusal
  <1> QED
    BY <1>2, <1>3, <1>4, <1>5 DEF IInv

\* The end of a call that succeeded keeps the inductive invariant: the reply it reports is
\* in the reply object.
LEMMA SucceedInvariant == IInv /\ AnswerIsHeld /\ XmlSucceed => IInv'
  <1> SUFFICES ASSUME IInv, AnswerIsHeld, XmlSucceed PROVE IInv'
    OBVIOUS
  <1> DEFINE end == IF rep # "none" THEN "answered" ELSE "acknowledged"
  <1>0. /\ pc = "report" /\ pc' = "idle" /\ soapStatus = SOAP_OK
        /\ call \in Calls /\ call \in Int /\ \A n \in Calls : n \in Int
        /\ outcome' = [outcome EXCEPT ![call] = end]
        /\ status' = [status EXCEPT ![call] = SOAP_OK]
        /\ UNCHANGED <<text, flag, errorInfo, proxy, signKey, heap, call, req, cfg, encrypting,
                       soapStatus, rep, resMap, sent, executed, answer>>
    BY CallsAssumption DEF XmlSucceed, End, IInv, TypeOK, CallsInOrder, Calls, locals, config, wire
  <1>1. /\ answer[call] # "none"
        /\ \E m \in sent : m.call = call
        /\ rep # "none" => call \in executed /\ resMap = call
    BY <1>0 DEF IInv, TypeOK, AnswerIsOfThisCall, ExchangeInOrder, AnswerIsHeld
  <1>2. TypeOK'
    BY <1>0 DEF XmlSucceed, End, Log, IInv, TypeOK, Returned, SOAP_OK
  <1>3. CallsInOrder' /\ KeyMaterialIsOwned' /\ KeyIsSet' /\ TransportIsFresh'
    BY <1>0 DEF IInv, TypeOK, Object, CallsInOrder, KeyMaterialIsOwned, KeyIsSet, Own, TransportIsFresh, Configured
  <1>4. ExchangeInOrder' /\ AnswerIsOfThisCall'
    BY <1>0 DEF IInv, TypeOK, ExchangeInOrder, AnswerIsOfThisCall, CallsInOrder, Exchanged
  <1>5. OutcomeIsTrue' /\ ErrorInfoIsOfLastRefusal'
    BY <1>0, <1>1 DEF IInv, TypeOK, OutcomeIsTrue, ErrorInfoIsOfLastRefusal
  <1> QED
    BY <1>2, <1>3, <1>4, <1>5 DEF IInv

\* A call that ends the process keeps the inductive invariant.
LEMMA CrashInvariant == IInv /\ (StampCrashes \/ SucceedCrashes) => IInv'
  <1> SUFFICES ASSUME IInv, StampCrashes \/ SucceedCrashes PROVE IInv'
    OBVIOUS
  <1>0. /\ pc \in {"stamp", "report"} /\ pc' = "idle"
        /\ call \in Calls /\ call \in Int /\ \A n \in Calls : n \in Int
        /\ outcome' = [outcome EXCEPT ![call] = "thrown"]
        /\ UNCHANGED <<text, flag, errorInfo, proxy, signKey, heap, call, req, cfg, encrypting,
                       soapStatus, rep, resMap, status, sent, executed, answer>>
    BY CallsAssumption DEF StampCrashes, SucceedCrashes, Crash, IInv, TypeOK, CallsInOrder, Calls, locals, config, wire
  <1>1. TypeOK'
    <2>1. journal' \in [Calls -> Seq({"REQUEST", "CONFIG", "SUCCESS", "REPLY", "ERROR"})]
      <3> DEFINE Kinds == {"REQUEST", "CONFIG", "SUCCESS", "REPLY", "ERROR"}
      <3>1. << >> \in Seq(Kinds) /\ <<"SUCCESS">> \in Seq(Kinds) /\ <<"ERROR">> \in Seq(Kinds)
        OBVIOUS
      <3>2. \E entries \in Seq(Kinds) : Log(entries \o <<"ERROR">>)
        BY <3>1 DEF StampCrashes, SucceedCrashes, Crash
      <3>3. \E entries \in Seq(Kinds) : Log(entries)
        <4> HIDE DEF Kinds
        <4>1. \A s, t \in Seq(Kinds) : s \o t \in Seq(Kinds)
          OBVIOUS
        <4> QED
          BY <3>1, <3>2, <4>1
      <3> QED
        BY <3>3, <1>0 DEF Log, IInv, TypeOK
    <2> QED
      BY <1>0, <2>1 DEF IInv, TypeOK, Returned
  <1>2. CallsInOrder' /\ KeyMaterialIsOwned' /\ KeyIsSet' /\ TransportIsFresh'
    BY <1>0 DEF IInv, TypeOK, Object, CallsInOrder, KeyMaterialIsOwned, KeyIsSet, Own, TransportIsFresh, Configured
  <1>3. ExchangeInOrder' /\ AnswerIsOfThisCall'
    BY <1>0 DEF IInv, TypeOK, ExchangeInOrder, AnswerIsOfThisCall, CallsInOrder, Exchanged
  <1>4. OutcomeIsTrue' /\ ErrorInfoIsOfLastRefusal'
    <2>1. outcome[call] = "open"
      BY <1>0 DEF IInv, CallsInOrder
    <2> QED
      BY <1>0, <2>1 DEF IInv, TypeOK, OutcomeIsTrue, ErrorInfoIsOfLastRefusal
  <1> QED
    BY <1>1, <1>2, <1>3, <1>4 DEF IInv

\* Every step of XmlTransaction keeps the inductive invariant of Transaction.
LEMMA XmlStepInvariant == XmlInv /\ [XmlNext]_xmlVars => IInv'
  <1> SUFFICES ASSUME XmlInv, [XmlNext]_xmlVars PROVE IInv'
    OBVIOUS
  <1>1. CASE XmlBegin
    BY <1>1, BeginsWithRequest, BeginInvariant DEF XmlInv, ObjectTyping
  <1>2. CASE [Next]_vars
    BY <1>2, StepInvariant DEF XmlInv
  <1> QED
    BY <1>1, <1>2, SharedStep, ReceiveInvariant, SucceedInvariant, CrashInvariant DEF XmlInv, OwnStep
--------------------------------------------------------------------------------
\* After the answer nothing writes to the reply object, nor to what was received.
LEMMA AnswerIsHeldStep == XmlInv /\ IInv' /\ [XmlNext]_xmlVars => AnswerIsHeld'
  <1> SUFFICES ASSUME XmlInv, IInv', [XmlNext]_xmlVars PROVE AnswerIsHeld'
    OBVIOUS
  <1> USE DEF XmlInv, AnswerIsHeld, locals, config, wire
  <1>1. CASE XmlReceive
    BY <1>1 DEF XmlReceive, Holding
  <1>2. CASE XmlConnectionLost
    BY <1>2 DEF XmlConnectionLost, SOAP_OK, SOAP_EOF
  <1>3. CASE CommonStep
    <2>1. CASE SendFails
      BY <2>1 DEF SendFails, SOAP_OK, SOAP_EOF, SOAP_TCP_ERROR
    <2>2. CASE Release
      BY <2>2 DEF Release
    <2>3. CASE ~SendFails /\ ~Release
      <3>1. pc' \notin {"release", "report"}
        BY <2>3, <1>3 DEF CommonStep, PrepareLog, PrepareLogFails, OpenKey, Parse, Sign, Encrypt,
           TlsContext, ConfigureFails, Stamp, Send, Fail, ReturnError, End
      <3> QED
        BY <3>1
    <2> QED
      BY <2>1, <2>2, <2>3
  <1>4. CASE XmlResolve \/ XmlRejectParameter \/ StampCrashes \/ XmlSucceed \/ SucceedCrashes \/ XmlBegin
    BY <1>4 DEF XmlResolve, XmlRejectParameter, StampCrashes, XmlSucceed, SucceedCrashes, XmlBegin,
       Resolve, RejectParameter, ReturnError, End, Crash, Begin, BeginWith
  <1>5. CASE Configure \/ (\E n \in Calls : Execute(n) \/ Refuse(n)) \/ UNCHANGED xmlVars
    BY <1>5 DEF Configure, Execute, Refuse, xmlVars, vars
  <1> QED
    BY <1>1, <1>2, <1>3, <1>4, <1>5 DEF XmlNext, cybs_runTransaction, XmlEnvironment

\* Only Send leads to the waiting, and what was sent stays sent.
LEMMA RequestIsOutStep == XmlInv /\ IInv' /\ [XmlNext]_xmlVars => RequestIsOut'
  <1> SUFFICES ASSUME XmlInv, [XmlNext]_xmlVars, pc' = "receive" PROVE \E m \in sent' : m.call = call'
    BY DEF RequestIsOut
  <1> USE DEF XmlInv, RequestIsOut, locals, config, wire
  <1>1. CASE Send
    <2>1. Message \in sent' /\ Message.call = call /\ call' = call
      BY <1>1 DEF Send, Message
    <2> QED
      BY <2>1
  <1>2. CASE CommonStep /\ ~Send
    BY <1>2 DEF CommonStep, PrepareLog, PrepareLogFails, OpenKey, Parse, Sign, Encrypt, TlsContext,
       ConfigureFails, Stamp, SendFails, Release, Fail, ReturnError, End
  <1>3. CASE XmlResolve \/ XmlRejectParameter \/ StampCrashes \/ XmlReceive \/ XmlSucceed \/ SucceedCrashes
    BY <1>3 DEF XmlResolve, XmlRejectParameter, StampCrashes, XmlReceive, XmlSucceed, SucceedCrashes,
       Resolve, RejectParameter, ReturnError, End, Crash
  <1>4. CASE XmlBegin \/ XmlConnectionLost
    BY <1>4 DEF XmlBegin, Begin, BeginWith, XmlConnectionLost
  <1>5. CASE Configure \/ (\E n \in Calls : Execute(n) \/ Refuse(n)) \/ UNCHANGED xmlVars
    BY <1>5 DEF Configure, Execute, Refuse, xmlVars, vars
  <1> QED
    BY <1>1, <1>2, <1>3, <1>4, <1>5 DEF XmlNext, cybs_runTransaction, XmlEnvironment

\* The request is taken from the object, which is written to when all is checked.
LEMMA RequestIsTheObjectStep == XmlInv /\ IInv' /\ [XmlNext]_xmlVars => RequestIsTheObject'
  <1> SUFFICES ASSUME XmlInv, [XmlNext]_xmlVars, pc' \in {"log", "check"} PROVE req'.merchantID = merchantID'
    BY DEF RequestIsTheObject
  <1> USE DEF XmlInv, RequestIsTheObject, locals, config, wire, object
  <1>1. CASE XmlBegin
    BY <1>1 DEF XmlBegin, BeginWith, IInv, TypeOK, Request
  <1>2. CASE CommonStep
    BY <1>2 DEF CommonStep, PrepareLog, PrepareLogFails, OpenKey, Parse, Sign, Encrypt, TlsContext,
       ConfigureFails, Stamp, Send, SendFails, Release, Fail, ReturnError, End
  <1>3. CASE XmlResolve \/ XmlRejectParameter \/ StampCrashes \/ XmlReceive \/ XmlSucceed \/ SucceedCrashes
    BY <1>3 DEF XmlResolve, XmlRejectParameter, StampCrashes, XmlReceive, XmlSucceed, SucceedCrashes,
       Resolve, RejectParameter, ReturnError, End, Crash
  <1>4. CASE Configure \/ XmlConnectionLost
    BY <1>4 DEF Configure, XmlConnectionLost
  <1>5. CASE (\E n \in Calls : Execute(n) \/ Refuse(n)) /\ UNCHANGED <<object, crashed>>
    BY <1>5 DEF Execute, Refuse
  <1>6. CASE UNCHANGED xmlVars
    BY <1>6 DEF xmlVars, vars
  <1> QED
    BY <1>1, <1>2, <1>3, <1>4, <1>5, <1>6 DEF XmlNext, cybs_runTransaction, XmlEnvironment

\* When a call returns, what its status says of the reply object is true, and stays so
\* until the next call begins.
LEMMA ReplyStep == XmlInv /\ IInv' /\ [XmlNext]_xmlVars => ReplyIsNotAnothers'
  <1> SUFFICES ASSUME XmlInv, IInv', [XmlNext]_xmlVars PROVE ReplyIsNotAnothers'
    OBVIOUS
  <1>0. pc # "idle" => call \in Calls
    BY DEF XmlInv, IInv, TypeOK, CallsInOrder, Calls
  <1> USE DEF XmlInv, ReplyIsNotAnothers, locals, config, wire
  <1>1. CASE XmlSucceed
    <2>1. /\ call \in Calls /\ call' = call /\ resMap' = resMap /\ executed' = executed
          /\ resMap = IF rep # "none" THEN call ELSE 0
          /\ rep # "none" => call \in executed
      BY <1>1, <1>0 DEF XmlSucceed, AnswerIsHeld, IInv, TypeOK, AnswerIsOfThisCall, ExchangeInOrder
    <2>2. outcome' = [outcome EXCEPT ![call] = IF rep # "none" THEN "answered" ELSE "acknowledged"]
      BY <1>1 DEF XmlSucceed, End
    <2> QED
      BY <2>1, <2>2 DEF IInv, TypeOK
  <1>2. CASE CommonStep
    <2>1. \/ pc' # "idle"
          \/ PrepareLogFails \/ ConfigureFails \/ Fail
      BY <1>2 DEF CommonStep, PrepareLog, OpenKey, Parse, Sign, Encrypt, TlsContext, Stamp, Send, SendFails, Release
    <2>2. CASE PrepareLogFails \/ ConfigureFails \/ Fail
      <3>1. call' = call /\ \E o \in {"rejected", "failed"} : outcome' = [outcome EXCEPT ![call] = o]
        BY <2>2 DEF PrepareLogFails, ConfigureFails, Fail, ReturnError, End
      <3> QED
        BY <2>2, <3>1, <1>0 DEF IInv, TypeOK, PrepareLogFails, ConfigureFails, Fail
    <2> QED
      BY <2>1, <2>2
  <1>3. CASE XmlResolve \/ XmlReceive \/ XmlConnectionLost \/ XmlBegin
    BY <1>3 DEF XmlResolve, Resolve, XmlReceive, XmlConnectionLost, XmlBegin, Begin, BeginWith
  <1>4. CASE XmlRejectParameter \/ StampCrashes \/ SucceedCrashes
    <2>1. call' = call /\ \E o \in {"rejected", "thrown"} : outcome' = [outcome EXCEPT ![call] = o]
      BY <1>4 DEF XmlRejectParameter, RejectParameter, ReturnError, End, StampCrashes, SucceedCrashes, Crash
    <2>2. pc # "idle"
      BY <1>4 DEF XmlRejectParameter, RejectParameter, StampCrashes, SucceedCrashes
    <2> QED
      BY <2>1, <2>2, <1>0 DEF IInv, TypeOK
  <1>5. CASE Configure \/ (\E n \in Calls : Execute(n) \/ Refuse(n)) \/ UNCHANGED xmlVars
    BY <1>5 DEF Configure, Execute, Refuse, xmlVars, vars
  <1> QED
    BY <1>1, <1>2, <1>3, <1>4, <1>5 DEF XmlNext, cybs_runTransaction, XmlEnvironment

\* A request object is given a merchantID by the call that is being made, and no other.
LEMMA ObjectTypingStep == XmlInv /\ IInv' /\ [XmlNext]_xmlVars => ObjectTyping'
  <1> SUFFICES ASSUME XmlInv, IInv', [XmlNext]_xmlVars PROVE ObjectTyping'
    OBVIOUS
  <1> USE DEF XmlInv, ObjectTyping, object
  <1>1. CASE XmlBegin
    <2>1. req'.merchantID \in Sizes /\ 0 \in 0..MaxCalls
      BY CallsAssumption DEF IInv, TypeOK, Request
    <2> QED
      BY <1>1, <2>1 DEF XmlBegin
  <1>2. CASE XmlResolve \/ XmlRejectParameter
    <2>1. call \in 0..MaxCalls /\ text["merchantID"] \in Sizes
      BY DEF IInv, TypeOK, TextKeys
    <2> QED
      BY <1>2, <2>1 DEF XmlResolve, XmlRejectParameter, Name
  <1>3. CASE CommonStep \/ StampCrashes \/ XmlReceive \/ XmlConnectionLost \/ XmlSucceed \/ SucceedCrashes
    BY <1>3 DEF CommonStep, StampCrashes, XmlReceive, XmlConnectionLost, XmlSucceed, SucceedCrashes, Crash
  <1>4. CASE Configure /\ UNCHANGED <<object, crashed>>
    BY <1>4
  <1>5. CASE (\E n \in Calls : Execute(n) \/ Refuse(n)) /\ UNCHANGED <<object, crashed>>
    BY <1>5
  <1>6. CASE UNCHANGED xmlVars
    BY <1>6 DEF xmlVars
  <1> QED
    BY <1>1, <1>2, <1>3, <1>4, <1>5, <1>6 DEF XmlNext, cybs_runTransaction, XmlEnvironment

\* The initial states satisfy the invariant of XmlTransaction.
LEMMA XmlInitInvariant == XmlInit => XmlInv
  <1> SUFFICES ASSUME XmlInit PROVE XmlInv
    OBVIOUS
  <1>1. IInv
    BY InitInvariant DEF XmlInit
  <1>2. pc = "idle" /\ call = 0
    BY DEF XmlInit, Init
  <1>3. ObjectTyping
    <2>1. 0 \in 0..MaxCalls
      BY CallsAssumption
    <2>2. merchantID = "absent" /\ namedBy = 0 /\ reused = FALSE /\ crashed = FALSE
      BY DEF XmlInit
    <2>3. reused \in BOOLEAN /\ crashed \in BOOLEAN
      BY <2>2
    <2>4. merchantID \in Sizes /\ namedBy \in 0..MaxCalls
      BY <2>1, <2>2 DEF Sizes
    <2> QED
      BY <2>3, <2>4 DEF ObjectTyping
  <1> QED
    BY <1>1, <1>2, <1>3 DEF XmlInv, AnswerIsHeld, ReplyIsNotAnothers, RequestIsOut, RequestIsTheObject

\* The inductive invariant holds throughout every behaviour of XmlTransaction.
THEOREM XmlInvariance == XmlSpec => []XmlInv
  <1>1. XmlInv /\ [XmlNext]_xmlVars => XmlInv'
    <2>1. XmlInv /\ [XmlNext]_xmlVars => IInv'
      BY XmlStepInvariant
    <2> QED
      BY <2>1, AnswerIsHeldStep, ReplyStep, RequestIsOutStep, RequestIsTheObjectStep, ObjectTypingStep DEF XmlInv
  <1> QED
    BY <1>1, XmlInitInvariant, PTL DEF XmlSpec

\* Every variable keeps its type.
THEOREM XmlTyping == XmlSpec => []XmlTypeOK
  <1>1. XmlInv => XmlTypeOK
    BY DEF XmlInv, IInv, ObjectTyping, XmlTypeOK
  <1> QED
    BY <1>1, XmlInvariance, PTL

\* What a merchant prints as the reply of a call is that call's reply, or blank.
THEOREM OwnReply == XmlSpec => []ReplyIsNotAnothers
  <1>1. XmlInv => ReplyIsNotAnothers
    BY DEF XmlInv
  <1> QED
    BY <1>1, XmlInvariance, PTL

\* In any number of calls, no return of cybs_runTransaction leaves what was parsed out of a
\* key file behind, and none but that of a call whose file could not be parsed the PKCS12 object.
THEOREM XmlNoKeyMaterialLeft == XmlSpec => []KeyMaterialReleased
  <1>1. XmlInv => KeyMaterialReleased
    BY OwnedIsReleased DEF XmlInv
  <1> QED
    BY <1>1, XmlInvariance, PTL

\* The XML client signs with the live key of its own call, too.
THEOREM XmlSigning == XmlSpec => []SignsWithLiveKey
  <1>1. XmlInv => SignsWithLiveKey
    BY DEF XmlInv, IInv, KeyIsSet, SignsWithLiveKey
  <1> QED
    BY <1>1, XmlInvariance, PTL

--------------------------------------------------------------------------------
\* Once an object bears a merchantID, no call with it changes that, whichever merchantID
\* the configuration has by then.
THEOREM SameMerchant == XmlSpec => RetryKeepsMerchant
  <1> DEFINE NewObject == call' # call /\ ~reused'
  <1>1. XmlInv /\ [XmlNext]_xmlVars =>
          [merchantID # "absent" /\ ~NewObject => UNCHANGED <<merchantID, namedBy>>]_xmlVars
    <2> SUFFICES ASSUME XmlInv, [XmlNext]_xmlVars, merchantID # "absent", ~NewObject
                 PROVE  UNCHANGED <<merchantID, namedBy>>
      OBVIOUS
    <2> USE DEF object
    <2>1. CASE XmlBegin
      <3>1. call' # call
        BY <2>1 DEF XmlBegin, Begin, BeginWith, XmlInv, IInv, TypeOK
      <3> QED
        BY <2>1, <3>1 DEF XmlBegin
    <2>2. CASE XmlResolve \/ XmlRejectParameter
      BY <2>2 DEF XmlInv, RequestIsTheObject, XmlResolve, XmlRejectParameter, Resolve, RejectParameter, Name
    <2>3. CASE CommonStep \/ StampCrashes \/ XmlReceive \/ XmlConnectionLost \/ XmlSucceed \/ SucceedCrashes
      BY <2>3 DEF CommonStep, StampCrashes, XmlReceive, XmlConnectionLost, XmlSucceed, SucceedCrashes
    <2>4. CASE UNCHANGED <<object, crashed>> \/ UNCHANGED xmlVars
      BY <2>4 DEF xmlVars
    <2> QED
      BY <2>1, <2>2, <2>3, <2>4 DEF XmlNext, cybs_runTransaction, XmlEnvironment
  <1> QED
    BY <1>1, XmlInvariance, PTL DEF XmlSpec, RetryKeepsMerchant

--------------------------------------------------------------------------------
\* The initial states are initial states of PaymentCall.
LEMMA XmlInitImplements == XmlInit => XmlPayment!Init
  BY DEF XmlInit, Init, XmlPayment!Init

\* Every step is a step of PaymentCall, or leaves its variables alone.
LEMMA XmlStepImplements == XmlInv /\ [XmlNext]_xmlVars => [XmlPayment!Next]_(XmlPayment!vars)
  <1> SUFFICES ASSUME XmlInv, [XmlNext]_xmlVars PROVE [XmlPayment!Next]_(XmlPayment!vars)
    OBVIOUS
  <1> DEFINE Stutter == UNCHANGED <<outcome, Dispatched, executed, resMap>>
  <1>0. /\ pc # "idle" => call \in Calls
        /\ \A n \in Calls : n \in Int
        /\ call \in Int
        /\ pc \notin Exchanged \union {"idle"} => call \notin Dispatched
        /\ pc # "idle" => outcome[call] = "open"
    BY CallsAssumption DEF XmlInv, IInv, TypeOK, CallsInOrder, Calls, ExchangeInOrder, Dispatched
  <1>s. Stutter => UNCHANGED XmlPayment!vars
    BY DEF XmlPayment!vars, Dispatched
  <1> USE DEF config, locals, wire
  <1>1. CASE PrepareLog \/ XmlResolve \/ OpenKey \/ Parse \/ Sign \/ Encrypt \/ TlsContext
    <2>1. Stutter
      BY <1>1 DEF PrepareLog, XmlResolve, Resolve, OpenKey, Parse, Sign, Encrypt, TlsContext, Dispatched
    <2> QED
      BY <2>1, <1>s
  <1>2. CASE Stamp \/ Release \/ Configure \/ (\E n \in Calls : Refuse(n))
    <2>1. Stutter
      BY <1>2 DEF Stamp, Release, Configure, Refuse, Dispatched
    <2> QED
      BY <2>1, <1>s
  <1>3. CASE PrepareLogFails \/ XmlRejectParameter \/ ConfigureFails
    <2>1. /\ outcome' = [outcome EXCEPT ![call] = "rejected"]
          /\ UNCHANGED <<Dispatched, executed, resMap>>
          /\ pc \notin Exchanged \union {"idle"}
      BY <1>3 DEF PrepareLogFails, XmlRejectParameter, RejectParameter, ConfigureFails, ReturnError, End, Dispatched, Exchanged
    <2>2. XmlPayment!Reject(call)
      BY <2>1, <1>0 DEF XmlPayment!Reject, Dispatched
    <2> QED
      BY <2>1, <2>2, <1>0 DEF XmlPayment!Next
  <1>4. CASE StampCrashes
    <2>1. XmlPayment!Throw(call)
      BY <1>4, <1>0 DEF StampCrashes, Crash, XmlPayment!Throw, Dispatched, Exchanged
    <2> QED
      BY <2>1, <1>4, <1>0 DEF XmlPayment!Next, StampCrashes
  <1>5. CASE Send \/ SendFails
    <2>1. UNCHANGED <<outcome, executed, resMap>> /\ pc = "send"
      BY <1>5 DEF Send, SendFails
    <2>2. CASE sent' = sent
      BY <2>1, <2>2, <1>s DEF Dispatched
    <2>3. CASE sent' = sent \union {Message}
      <3>1. Dispatched' = Dispatched \union {call}
        <4>1. Message.call = call
          BY DEF Message
        <4> QED
          BY <2>3, <4>1 DEF Dispatched
      <3>2. call \in Calls
        BY <2>1, <1>0
      <3>3. \E n \in Calls : XmlPayment!Dispatch(n)
        BY <2>1, <3>1, <3>2, <1>0 DEF XmlPayment!Dispatch, Dispatched, Exchanged
      <3> QED
        BY <3>3 DEF XmlPayment!Next
    <2> QED
      BY <1>5, <2>2, <2>3 DEF Send, SendFails
  <1>6. ASSUME NEW n \in Calls, Execute(n) PROVE [XmlPayment!Next]_(XmlPayment!vars)
    <2>1. /\ executed' = executed \union {n} /\ n \in Dispatched
          /\ UNCHANGED <<outcome, Dispatched, resMap>>
      BY <1>6 DEF Execute, Dispatched
    <2>2. CASE n \in executed
      BY <2>1, <2>2, <1>s
    <2>3. CASE n \notin executed
      <3>1. XmlPayment!Execute(n)
        BY <2>1, <2>3 DEF XmlPayment!Execute, Dispatched
      <3> QED
        BY <3>1 DEF XmlPayment!Next
    <2> QED
      BY <2>2, <2>3
  <1>7. CASE XmlReceive \/ XmlConnectionLost
    <2>1. /\ pc = "receive" /\ UNCHANGED <<outcome, Dispatched, executed>>
          /\ resMap' \in {0, Holding(answer[call])}
      BY <1>7 DEF XmlReceive, XmlConnectionLost, Dispatched
    <2>2. call \in Dispatched
      BY <2>1 DEF XmlInv, RequestIsOut, Dispatched
    <2>3. resMap' \in {0} \union ({call} \intersect executed)
      BY <2>1, <1>0 DEF Holding, XmlInv, IInv, ExchangeInOrder
    <2>4. XmlPayment!Read(call)
      BY <2>1, <2>2, <2>3, <1>0 DEF XmlPayment!Read, Dispatched
    <2> QED
      BY <2>1, <2>4, <1>0 DEF XmlPayment!Next
  <1>8. CASE XmlSucceed
    <2>1. /\ pc = "report" /\ soapStatus = SOAP_OK
          /\ UNCHANGED <<Dispatched, executed, resMap>>
          /\ outcome' = [outcome EXCEPT ![call] = IF rep # "none" THEN "answered" ELSE "acknowledged"]
      BY <1>8 DEF XmlSucceed, End, Dispatched
    <2>2. /\ call \in Dispatched
          /\ rep # "none" => call \in executed /\ resMap' = call
      BY <2>1, <1>0 DEF XmlInv, AnswerIsHeld, IInv, TypeOK, AnswerIsOfThisCall, ExchangeInOrder, Dispatched
    <2>3. XmlPayment!Answer(call) \/ XmlPayment!Acknowledge(call)
      BY <2>1, <2>2, <1>0 DEF XmlPayment!Answer, XmlPayment!Acknowledge, Dispatched
    <2> QED
      BY <2>1, <2>3, <1>0 DEF XmlPayment!Next
  <1>9. CASE SucceedCrashes
    <2>1. /\ pc = "report" /\ soapStatus = SOAP_OK
          /\ UNCHANGED <<Dispatched, executed, resMap>>
          /\ outcome' = [outcome EXCEPT ![call] = "thrown"]
      BY <1>9 DEF SucceedCrashes, Crash, Dispatched
    <2>2. call \in Dispatched
      BY <2>1, <1>0 DEF XmlInv, IInv, TypeOK, AnswerIsOfThisCall, ExchangeInOrder, Dispatched
    <2>3. XmlPayment!Acknowledge(call)
      BY <2>1, <2>2, <1>0 DEF XmlPayment!Acknowledge, Dispatched
    <2> QED
      BY <2>1, <2>3, <1>0 DEF XmlPayment!Next
  <1>10. CASE Fail
    <2>1. XmlPayment!Fail(call)
      BY <1>10, <1>0 DEF Fail, End, XmlPayment!Fail, Dispatched
    <2> QED
      BY <2>1, <1>10, <1>0 DEF XmlPayment!Next, Fail
  <1>11. CASE XmlBegin
    <2>1. PICK request \in Request : BeginWith(request)
      BY <1>11, BeginsWithRequest DEF XmlInv, ObjectTyping
    <2>2. /\ call' = call + 1 /\ call' \in Calls /\ pc = "idle"
          /\ outcome' = [outcome EXCEPT ![call'] = "open"]
          /\ UNCHANGED <<Dispatched, executed, resMap>>
      BY <2>1, CallsAssumption DEF BeginWith, XmlInv, IInv, TypeOK, Calls, Dispatched
    <2>3. \A m \in Calls : IF m < call' THEN outcome[m] \in XmlPayment!Ended ELSE outcome[m] = "none"
      BY <2>2, <1>0 DEF XmlInv, IInv, TypeOK, CallsInOrder, Returned, XmlPayment!Ended
    <2>5. outcome[call'] = "none"
      BY <2>2, <1>0 DEF XmlInv, IInv, CallsInOrder
    <2>4. XmlPayment!Begin(call')
      BY <2>2, <2>3, <2>5 DEF XmlPayment!Begin, Dispatched
    <2> QED
      BY <2>2, <2>4 DEF XmlPayment!Next
  <1>12. CASE UNCHANGED xmlVars
    <2>1. Stutter
      BY <1>12 DEF xmlVars, vars, Dispatched
    <2> QED
      BY <2>1, <1>s
  <1> QED
    BY <1>1, <1>2, <1>3, <1>4, <1>5, <1>6, <1>7, <1>8, <1>9, <1>10, <1>11, <1>12
    DEF XmlNext, cybs_runTransaction, CommonStep, XmlEnvironment

\* The XML client implements PaymentCall.
THEOREM XmlImplementation == XmlSpec => XmlImplementsPaymentCall
  BY XmlInitImplements, XmlStepImplements, XmlInvariance, PTL DEF XmlSpec, XmlPayment!Spec, XmlImplementsPaymentCall
================================================================================
