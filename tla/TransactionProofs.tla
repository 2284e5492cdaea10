--------------------------- MODULE TransactionProofs ---------------------------
(***************************************************************************)
(* The safety properties of Transaction hold for every number of calls and *)
(* every set of configurations, edits and requests, and Transaction        *)
(* implements PaymentCall.  All of them follow from one inductive          *)
(* invariant, IInv, whose parts are named for what they say.               *)
(***************************************************************************)
EXTENDS Transaction, TLAPS

Configured == {"open", "parse", "sign", "encrypt", "tls", "stamp", "send"}
Exchanged == {"receive", "release", "report"}

\* Calls are numbered in order; only the last one can be open, while pc is in it.
CallsInOrder ==
  /\ pc # "idle" => call # 0
  /\ \A n \in Calls : /\ outcome[n] = "none" <=> n > call
                      /\ outcome[n] = "open" <=> pc # "idle" /\ n = call

\* Live key material is of the current call, between Parse and Release, or of one
\* that an exception ended; a live PKCS12 object is about to be parsed, or could not be.
KeyMaterialIsOwned ==
  \A o \in heap :
    IF o.kind = "p12"
    THEN outcome[o.of] = "rejected" \/ (o.of = call /\ pc = "parse")
    ELSE \/ outcome[o.of] = "thrown"
         \/ o.of = call /\ pc \in {"sign", "encrypt", "tls", "stamp", "send", "receive", "release"}

\* From Sign to Send the plugin points to this call's key, which is live.
KeyIsSet ==
  pc \in {"encrypt", "tls", "stamp", "send"} => signKey = call /\ Own({"pkey"}) \subseteq heap

\* A setting is never taken out of the configuration: whatever an earlier call copied
\* to the proxy, this one overwrites before it can send.
TransportIsFresh ==
  /\ \A s \in ProxySettings : proxy[s] # 0 => text[s] # "absent"
  /\ pc \in Configured => \A s \in ProxySettings : proxy[s] \in {0, call}
  /\ pc = "send" => proxy["endpoint"] = call

\* What has been sent, executed and answered, and how far its call must have come.
ExchangeInOrder ==
  /\ \A m \in sent : /\ m.call <= call
                     /\ outcome[m.call] # "rejected"
                     /\ m.call = call => pc \in Exchanged \union {"idle"}
  /\ \A n \in executed : \E m \in sent : m.call = n
  /\ \A n \in Calls : answer[n] # "none" => \E m \in sent : m.call = n
  /\ \A n \in Calls : answer[n] \in {"reply", "unloggable"} => n \in executed

\* A reply, or a success without one, is the service's answer to this call.
AnswerIsOfThisCall ==
  /\ rep # "none" => pc \in {"release", "report", "idle"} /\ call # 0
  /\ pc \in {"release", "report"} => /\ rep # "none" => answer[call] = rep
                                     /\ soapStatus = SOAP_OK => answer[call] # "none"

IInv == /\ TypeOK
        /\ CallsInOrder
        /\ KeyMaterialIsOwned
        /\ KeyIsSet
        /\ TransportIsFresh
        /\ ExchangeInOrder
        /\ AnswerIsOfThisCall
        /\ OutcomeIsTrue
        /\ ErrorInfoIsOfLastRefusal
--------------------------------------------------------------------------------
\* What the helpers of the steps return.
LEMMA OwnTyping ==
  ASSUME TypeOK, call \in Calls, NEW kinds \in SUBSET KeyMaterial
  PROVE  Own(kinds) \subseteq Object
  BY DEF Own, Object

\* What is not the call's own, or is of another kind, is not freed; the rest is.
LEMMA OwnMember ==
  ASSUME TypeOK, NEW o \in heap, NEW kinds
  PROVE  o \in Own(kinds) <=> o.kind \in kinds /\ o.of = call
  BY DEF TypeOK, Own, Object

\* Copying settings to the proxy writes nothing but call numbers into it.
LEMMA ProxyTyping ==
  ASSUME TypeOK, call \in Calls, NEW k
  PROVE  ProxyAfter(k) \in [ProxySettings \union {"endpoint"} -> 0..MaxCalls]
  <1>1. call \in 0..MaxCalls
    BY DEF TypeOK
  <1>2. proxy \in [ProxySettings \union {"endpoint"} -> 0..MaxCalls]
    BY DEF TypeOK
  <1> QED
    BY <1>1, <1>2 DEF ProxyAfter

\* Each proxy setting is among the parameters that are looked at.
LEMMA EverySettingIsAParameter ==
  \A s \in ProxySettings : \E i \in 1..Len(Parameters) : Parameters[i] = s
  <1>1. /\ Parameters[8] = "proxyPort" /\ Parameters[9] = "proxyServer"
        /\ Parameters[10] = "proxyPassword" /\ Parameters[11] = "proxyUsername"
    BY DEF Parameters
  <1>2. Len(Parameters) = 12
    BY DEF Parameters
  <1>3. 8 \in 1..12 /\ 9 \in 1..12 /\ 10 \in 1..12 /\ 11 \in 1..12
    OBVIOUS
  <1>4. \E i \in 1..Len(Parameters) : Parameters[i] = "proxyPort"
    BY <1>1, <1>2, <1>3
  <1>5. \E i \in 1..Len(Parameters) : Parameters[i] = "proxyServer"
    BY <1>1, <1>2, <1>3
  <1>6. \E i \in 1..Len(Parameters) : Parameters[i] = "proxyPassword"
    BY <1>1, <1>2, <1>3
  <1>7. \E i \in 1..Len(Parameters) : Parameters[i] = "proxyUsername"
    BY <1>1, <1>2, <1>3
  <1> QED
    BY <1>4, <1>5, <1>6, <1>7 DEF ProxySettings

\* cybs_flag_value gives a truth value.
LEMMA FlagTyping == \A v : flagValue(v) \in BOOLEAN
  BY DEF flagValue

\* The endpoint is one of the five.
LEMMA ServerURLTyping == ServerURL \in URLs
  BY DEF ServerURL, URLs

\* Every answer of the service gives a status word.
LEMMA StatusTyping == StatusOf \in [Answers -> Int]
  <1>1. ASSUME NEW a \in Answers PROVE StatusOf[a] \in Int
    BY DEF StatusOf, SOAP_OK, SOAP_CLI_FAULT, SOAP_SVR_FAULT, SOAP_FAULT, HTTP_STATUS
  <1> QED
    BY <1>1 DEF StatusOf

\* RETURN_ERROR, once the logging flag and the call are known.
LEMMA RefusalTyping ==
  ASSUME TypeOK, call \in Calls, ReturnError, cfg' \in [isLogEnabled : BOOLEAN,
           isEncryptionEnabled : BOOLEAN, serverURL : URLs]
  PROVE  /\ errorInfo' \in 0..MaxCalls
         /\ pc' = "idle"
         /\ journal' \in [Calls -> Seq({"REQUEST", "CONFIG", "SUCCESS", "REPLY", "ERROR"})]
         /\ outcome' \in [Calls -> {"none", "open", "thrown"} \union Returned]
         /\ status' \in [Calls -> Int]
  BY DEF TypeOK, ReturnError, End, Log, CYBS_S_PRE_SEND_ERROR, Returned

\* The initial states have their types.
LEMMA InitTyping == Init => TypeOK
  <1> SUFFICES ASSUME Init PROVE TypeOK
    OBVIOUS
  <1>1. req \in Request
    BY RequestAssumption DEF Init
  <1>2. /\ text \in [TextKeys -> Sizes] /\ flag \in [FlagKeys -> FlagValues]
    BY ConfigAssumption DEF Init
  <1>3. journal \in [Calls -> Seq({"REQUEST", "CONFIG", "SUCCESS", "REPLY", "ERROR"})]
    BY DEF Init
  <1>4. /\ proxy \in [ProxySettings \union {"endpoint"} -> 0..MaxCalls]
        /\ errorInfo \in 0..MaxCalls /\ call \in 0..MaxCalls
        /\ signKey \in 0..MaxCalls /\ resMap \in 0..MaxCalls
    BY CallsAssumption DEF Init
  <1>5. cfg \in [isLogEnabled : BOOLEAN, isEncryptionEnabled : BOOLEAN, serverURL : URLs]
    BY DEF Init, URLs
  <1>6. /\ outcome \in [Calls -> {"none", "open", "thrown"} \union Returned]
        /\ answer \in [Calls -> Answers \union {"none"}]
        /\ status \in [Calls -> Int] /\ soapStatus \in Int
    BY DEF Init, SOAP_OK
  <1>7. heap \subseteq Object /\ executed \subseteq Calls
        /\ sent \subseteq [call : Calls, to : URLs, encrypted : BOOLEAN]
    BY DEF Init
  <1> QED
    BY <1>1, <1>2, <1>3, <1>4, <1>5, <1>6, <1>7 DEF Init, TypeOK

\* Every step keeps the types.
LEMMA StepTyping == TypeOK /\ CallsInOrder /\ [Next]_vars => TypeOK'
  <1> SUFFICES ASSUME TypeOK, CallsInOrder, [Next]_vars PROVE TypeOK'
    OBVIOUS
  <1>0. /\ pc # "idle" => call \in Calls
        /\ \A n \in Calls : n \in 0..MaxCalls
    BY CallsAssumption DEF TypeOK, CallsInOrder, Calls
  <1> USE DEF TypeOK, locals, config, wire
  <1>1. CASE PrepareLog
    <2>1. cfg' \in [isLogEnabled : BOOLEAN, isEncryptionEnabled : BOOLEAN, serverURL : URLs]
      BY <1>1, FlagTyping DEF PrepareLog
    <2> QED
      BY <1>1, <2>1 DEF PrepareLog
  <1>2. CASE PrepareLogFails
    <2>1. cfg' \in [isLogEnabled : BOOLEAN, isEncryptionEnabled : BOOLEAN, serverURL : URLs]
      BY <1>2 DEF PrepareLogFails
    <2> QED
      BY <1>2, <1>0, <2>1, RefusalTyping DEF PrepareLogFails
  <1>3. CASE Resolve
    <2>1. call \in Calls
      BY <1>3, <1>0 DEF Resolve
    <2>2. proxy' \in [ProxySettings \union {"endpoint"} -> 0..MaxCalls]
      BY <1>3, <2>1, ProxyTyping DEF Resolve
    <2>3. cfg' \in [isLogEnabled : BOOLEAN, isEncryptionEnabled : BOOLEAN, serverURL : URLs]
      BY <1>3, FlagTyping, ServerURLTyping DEF Resolve
    <2> QED
      BY <1>3, <2>2, <2>3 DEF Resolve
  <1>4. CASE RejectParameter
    <2>1. call \in Calls
      BY <1>4, <1>0 DEF RejectParameter
    <2>2. proxy' \in [ProxySettings \union {"endpoint"} -> 0..MaxCalls]
      BY <1>4, <2>1, ProxyTyping DEF RejectParameter
    <2> QED
      BY <1>4, <2>1, <2>2, RefusalTyping DEF RejectParameter
  <1>5. CASE OpenKey
    BY <1>5, <1>0, OwnTyping DEF OpenKey, KeyMaterial, Parsed
  <1>6. CASE Parse
    BY <1>6, <1>0, OwnTyping DEF Parse, KeyMaterial, Parsed
  <1>7. CASE Sign
    BY <1>7, <1>0 DEF Sign
  <1>8. CASE Encrypt
    BY <1>8, <1>0 DEF Encrypt
  <1>9. CASE TlsContext
    BY <1>9, <1>0 DEF TlsContext
  <1>10. CASE ConfigureFails
    BY <1>10, <1>0, RefusalTyping DEF ConfigureFails, opensslCleanup
  <1>11. CASE Stamp
    BY <1>11, <1>0 DEF Stamp, Log
  <1>12. CASE StampThrows
    BY <1>12, <1>0 DEF StampThrows
  <1>13. CASE Send
    <2>1. Message \in [call : Calls, to : URLs, encrypted : BOOLEAN]
      BY <1>13, <1>0 DEF Send, Message
    <2> QED
      BY <1>13, <1>0, <2>1, CallsAssumption DEF Send
  <1>14. CASE SendFails
    <2>1. Message \in [call : Calls, to : URLs, encrypted : BOOLEAN]
      BY <1>14, <1>0 DEF SendFails, Message
    <2> QED
      BY <1>14, <1>0, <2>1, CallsAssumption DEF SendFails, SOAP_TCP_ERROR, SOAP_EOF
  <1>15. CASE Receive
    BY <1>15, <1>0, StatusTyping DEF Receive
  <1>16. CASE Release
    BY <1>16, <1>0 DEF Release, opensslCleanup, Own
  <1>17. CASE Succeed
    BY <1>17, <1>0 DEF Succeed, TakeReply, End, Log, Returned
  <1>18. CASE SucceedThrows
    BY <1>18, <1>0 DEF SucceedThrows, TakeReply, Log
  <1>19. CASE Fail
    <2>1. CASE Log(<<"ERROR">>)
      BY <2>1, <1>19, <1>0 DEF Fail, End, Log, Returned
    <2>2. CASE Log(<< >>)
      <3>1. << >> \in Seq({"REQUEST", "CONFIG", "SUCCESS", "REPLY", "ERROR"})
        OBVIOUS
      <3> QED
        BY <2>2, <3>1, <1>19, <1>0 DEF Fail, End, Log, Returned
    <2> QED
      BY <2>1, <2>2, <1>19 DEF Fail
  <1>20. CASE Configure
    <2>1. text' \in [TextKeys -> Sizes] /\ flag' \in [FlagKeys -> FlagValues]
      BY <1>20, EditAssumption DEF Configure
    <2> QED
      BY <1>20, <2>1 DEF Configure
  <1>21. CASE Begin
    <2>1. call' \in Calls /\ call' \in 0..MaxCalls
      BY <1>21, CallsAssumption DEF Begin, BeginWith, Calls
    <2>2. req' \in Request /\ cfg' \in [isLogEnabled : BOOLEAN, isEncryptionEnabled : BOOLEAN, serverURL : URLs]
      BY <1>21, RequestAssumption DEF Begin, BeginWith, URLs
    <2>3. outcome' \in [Calls -> {"none", "open", "thrown"} \union Returned]
      BY <1>21, <2>1 DEF Begin, BeginWith
    <2>4. soapStatus' \in Int
      BY <1>21 DEF Begin, BeginWith, SOAP_OK
    <2> QED
      BY <1>21, <2>1, <2>2, <2>3, <2>4 DEF Begin, BeginWith
  <1>22. CASE ConnectionLost
    BY <1>22, <1>0 DEF ConnectionLost, SOAP_EOF
  <1>23. ASSUME NEW n \in Calls, Execute(n) PROVE TypeOK'
    BY <1>23 DEF Execute, Answers
  <1>24. ASSUME NEW n \in Calls, Refuse(n) PROVE TypeOK'
    BY <1>24 DEF Refuse, Answers
  <1>25. CASE UNCHANGED vars
    BY <1>25, <1>0 DEF vars
  <1> QED
    BY <1>1, <1>2, <1>3, <1>4, <1>5, <1>6, <1>7, <1>8, <1>9, <1>10, <1>11, <1>12, <1>13, <1>14, <1>15, <1>16, <1>17, <1>18, <1>19, <1>20, <1>21, <1>22, <1>23, <1>24, <1>25
    DEF Next, RunTransaction, Environment

\* Every step keeps the calls in order.
LEMMA CallsInOrderStep == IInv /\ TypeOK' /\ [Next]_vars => CallsInOrder'
  <1> SUFFICES ASSUME IInv, TypeOK', [Next]_vars PROVE CallsInOrder'
    OBVIOUS
  <1>0. /\ pc # "idle" => call \in Calls
        /\ \A n \in Calls : n \in Int
        /\ call \in Int
    BY CallsAssumption DEF IInv, TypeOK, CallsInOrder, Calls
  <1> USE <1>0 DEF IInv, TypeOK, CallsInOrder, locals, config, wire
  <1>1. CASE PrepareLog
    BY <1>1 DEF PrepareLog
  <1>2. CASE PrepareLogFails
    BY <1>2 DEF PrepareLogFails, ReturnError, End, Returned
  <1>3. CASE Resolve
    BY <1>3 DEF Resolve
  <1>4. CASE RejectParameter
    BY <1>4 DEF RejectParameter, ReturnError, End
  <1>5. CASE OpenKey
    BY <1>5 DEF OpenKey
  <1>6. CASE Parse
    BY <1>6 DEF Parse
  <1>7. CASE Sign
    BY <1>7 DEF Sign
  <1>8. CASE Encrypt
    BY <1>8 DEF Encrypt
  <1>9. CASE TlsContext
    BY <1>9 DEF TlsContext
  <1>10. CASE ConfigureFails
    BY <1>10 DEF ConfigureFails, ReturnError, End
  <1>11. CASE Stamp
    BY <1>11 DEF Stamp
  <1>12. CASE StampThrows
    BY <1>12 DEF StampThrows
  <1>13. CASE Send
    BY <1>13 DEF Send
  <1>14. CASE SendFails
    BY <1>14 DEF SendFails
  <1>15. CASE Receive
    BY <1>15 DEF Receive
  <1>16. CASE Release
    BY <1>16 DEF Release
  <1>17. CASE Succeed
    BY <1>17 DEF Succeed, End, TakeReply
  <1>18. CASE SucceedThrows
    BY <1>18 DEF SucceedThrows, TakeReply
  <1>19. CASE Fail
    BY <1>19 DEF Fail, End
  <1>20. CASE Configure
    BY <1>20 DEF Configure
  <1>21. CASE Begin
    BY <1>21 DEF Begin, BeginWith
  <1>22. CASE ConnectionLost
    BY <1>22 DEF ConnectionLost
  <1>23. ASSUME NEW n \in Calls, Execute(n) PROVE CallsInOrder'
    BY <1>23 DEF Execute
  <1>24. ASSUME NEW n \in Calls, Refuse(n) PROVE CallsInOrder'
    BY <1>24 DEF Refuse
  <1>25. CASE UNCHANGED vars
    BY <1>25 DEF vars
  <1> QED
    BY <1>1, <1>2, <1>3, <1>4, <1>5, <1>6, <1>7, <1>8, <1>9, <1>10, <1>11, <1>12, <1>13, <1>14, <1>15, <1>16, <1>17, <1>18, <1>19, <1>20, <1>21, <1>22, <1>23, <1>24, <1>25
    DEF Next, RunTransaction, Environment

\* No step leaves live key material to a call that has returned.
LEMMA KeyMaterialStep == IInv /\ TypeOK' /\ [Next]_vars => KeyMaterialIsOwned'
  <1> SUFFICES ASSUME IInv, TypeOK', [Next]_vars PROVE KeyMaterialIsOwned'
    OBVIOUS
  <1>0. /\ pc # "idle" => call \in Calls
        /\ \A n \in Calls : n \in Int
        /\ call \in Int
    BY CallsAssumption DEF IInv, TypeOK, CallsInOrder, Calls
  <1> USE <1>0 DEF IInv, TypeOK, CallsInOrder, KeyMaterialIsOwned, locals, config, wire
  <1>1. CASE PrepareLog
    BY <1>1 DEF PrepareLog
  <1>2. CASE PrepareLogFails
    BY <1>2 DEF PrepareLogFails, ReturnError, End
  <1>3. CASE Resolve
    BY <1>3 DEF Resolve
  <1>4. CASE RejectParameter
    BY <1>4 DEF RejectParameter, ReturnError, End
  <1>5. CASE OpenKey
    BY <1>5 DEF OpenKey, Own, KeyMaterial
  <1>6. CASE Parse
    <2>1. \A o \in heap' : \/ o \in heap /\ ~(o.kind = "p12" /\ o.of = call)
                           \/ o.kind \in Parsed /\ o.of = call
      BY <1>6, OwnMember DEF Parse, Own, Parsed
    <2> QED
      BY <1>6, <2>1 DEF Parse, Parsed
  <1>7. CASE Sign
    BY <1>7 DEF Sign, Own
  <1>8. CASE Encrypt
    BY <1>8 DEF Encrypt
  <1>9. CASE TlsContext
    BY <1>9 DEF TlsContext
  <1>10. CASE ConfigureFails
    <2>1. \A o \in heap' : o \in heap /\ ~(o.kind \in Parsed /\ o.of = call)
      BY <1>10, OwnMember DEF ConfigureFails, opensslCleanup
    <2> QED
      BY <1>10, <2>1 DEF ConfigureFails, ReturnError, End, Object, KeyMaterial
  <1>11. CASE Stamp
    BY <1>11 DEF Stamp
  <1>12. CASE StampThrows
    BY <1>12 DEF StampThrows
  <1>13. CASE Send
    BY <1>13 DEF Send
  <1>14. CASE SendFails
    BY <1>14 DEF SendFails
  <1>15. CASE Receive
    BY <1>15 DEF Receive
  <1>16. CASE Release
    <2>1. \A o \in heap' : o \in heap /\ ~(o.kind \in Parsed /\ o.of = call)
      BY <1>16, OwnMember DEF Release, opensslCleanup
    <2>2. \A o \in heap' : o.of = call => o.kind = "p12"
      BY <2>1 DEF Object, KeyMaterial
    <2> QED
      BY <1>16, <2>1, <2>2 DEF Release
  <1>17. CASE Succeed
    BY <1>17 DEF Succeed, End, TakeReply
  <1>18. CASE SucceedThrows
    BY <1>18 DEF SucceedThrows, TakeReply
  <1>19. CASE Fail
    BY <1>19 DEF Fail, End
  <1>20. CASE Configure
    BY <1>20 DEF Configure
  <1>21. CASE Begin
    BY <1>21 DEF Begin, BeginWith
  <1>22. CASE ConnectionLost
    BY <1>22 DEF ConnectionLost
  <1>23. ASSUME NEW n \in Calls, Execute(n) PROVE KeyMaterialIsOwned'
    BY <1>23 DEF Execute
  <1>24. ASSUME NEW n \in Calls, Refuse(n) PROVE KeyMaterialIsOwned'
    BY <1>24 DEF Refuse
  <1>25. CASE UNCHANGED vars
    BY <1>25 DEF vars
  <1> QED
    BY <1>1, <1>2, <1>3, <1>4, <1>5, <1>6, <1>7, <1>8, <1>9, <1>10, <1>11, <1>12, <1>13, <1>14, <1>15, <1>16, <1>17, <1>18, <1>19, <1>20, <1>21, <1>22, <1>23, <1>24, <1>25
    DEF Next, RunTransaction, Environment

\* Every step from Sign to Send keeps the plugin's key set and live.
LEMMA KeyIsSetStep == IInv /\ TypeOK' /\ [Next]_vars => KeyIsSet'
  <1> SUFFICES ASSUME IInv, TypeOK', [Next]_vars PROVE KeyIsSet'
    OBVIOUS
  <1>0. /\ pc # "idle" => call \in Calls
        /\ \A n \in Calls : n \in Int
        /\ call \in Int
    BY CallsAssumption DEF IInv, TypeOK, CallsInOrder, Calls
  <1> USE <1>0 DEF IInv, TypeOK, CallsInOrder, KeyIsSet, Own, locals, config, wire
  <1>1. CASE PrepareLog
    BY <1>1 DEF PrepareLog
  <1>2. CASE PrepareLogFails
    BY <1>2 DEF PrepareLogFails, ReturnError, End
  <1>3. CASE Resolve
    BY <1>3 DEF Resolve
  <1>4. CASE RejectParameter
    BY <1>4 DEF RejectParameter, ReturnError, End
  <1>5. CASE OpenKey
    BY <1>5 DEF OpenKey
  <1>6. CASE Parse
    BY <1>6 DEF Parse
  <1>7. CASE Sign
    BY <1>7 DEF Sign
  <1>8. CASE Encrypt
    BY <1>8 DEF Encrypt
  <1>9. CASE TlsContext
    BY <1>9 DEF TlsContext
  <1>10. CASE ConfigureFails
    BY <1>10 DEF ConfigureFails, ReturnError, End, opensslCleanup
  <1>11. CASE Stamp
    BY <1>11 DEF Stamp
  <1>12. CASE StampThrows
    BY <1>12 DEF StampThrows
  <1>13. CASE Send
    BY <1>13 DEF Send
  <1>14. CASE SendFails
    BY <1>14 DEF SendFails
  <1>15. CASE Receive
    BY <1>15 DEF Receive
  <1>16. CASE Release
    BY <1>16 DEF Release, opensslCleanup
  <1>17. CASE Succeed
    BY <1>17 DEF Succeed, End, TakeReply
  <1>18. CASE SucceedThrows
    BY <1>18 DEF SucceedThrows, TakeReply
  <1>19. CASE Fail
    BY <1>19 DEF Fail, End
  <1>20. CASE Configure
    BY <1>20 DEF Configure
  <1>21. CASE Begin
    BY <1>21 DEF Begin, BeginWith
  <1>22. CASE ConnectionLost
    BY <1>22 DEF ConnectionLost
  <1>23. ASSUME NEW n \in Calls, Execute(n) PROVE KeyIsSet'
    BY <1>23 DEF Execute
  <1>24. ASSUME NEW n \in Calls, Refuse(n) PROVE KeyIsSet'
    BY <1>24 DEF Refuse
  <1>25. CASE UNCHANGED vars
    BY <1>25 DEF vars
  <1> QED
    BY <1>1, <1>2, <1>3, <1>4, <1>5, <1>6, <1>7, <1>8, <1>9, <1>10, <1>11, <1>12, <1>13, <1>14, <1>15, <1>16, <1>17, <1>18, <1>19, <1>20, <1>21, <1>22, <1>23, <1>24, <1>25
    DEF Next, RunTransaction, Environment

\* Every setting an earlier call left on the proxy is overwritten before it is used.
LEMMA TransportStep == IInv /\ TypeOK' /\ [Next]_vars => TransportIsFresh'
  <1> SUFFICES ASSUME IInv, TypeOK', [Next]_vars PROVE TransportIsFresh'
    OBVIOUS
  <1>0. /\ pc # "idle" => call \in Calls
        /\ \A n \in Calls : n \in Int
        /\ call \in Int
    BY CallsAssumption DEF IInv, TypeOK, CallsInOrder, Calls
  <1> USE <1>0 DEF IInv, TypeOK, CallsInOrder, TransportIsFresh, Configured, locals, config, wire
  <1>1. CASE PrepareLog
    BY <1>1 DEF PrepareLog
  <1>2. CASE PrepareLogFails
    BY <1>2 DEF PrepareLogFails, ReturnError, End
  <1>3. CASE Resolve
    <2>1. \A s \in ProxySettings : \E i \in 1..Len(Parameters) : Parameters[i] = s
      BY EverySettingIsAParameter
    <2>2. \A s \in ProxySettings : proxy'[s] = IF text[s] # "absent" THEN call ELSE proxy[s]
      BY <1>3, <2>1 DEF Resolve, ProxyAfter
    <2>3. call' = call /\ text' = text /\ pc' = "open"
      BY <1>3 DEF Resolve
    <2> QED
      BY <2>2, <2>3
  <1>4. CASE RejectParameter
    BY <1>4 DEF RejectParameter, ReturnError, End, ProxyAfter
  <1>5. CASE OpenKey
    BY <1>5 DEF OpenKey
  <1>6. CASE Parse
    BY <1>6 DEF Parse
  <1>7. CASE Sign
    BY <1>7 DEF Sign
  <1>8. CASE Encrypt
    BY <1>8 DEF Encrypt
  <1>9. CASE TlsContext
    BY <1>9 DEF TlsContext
  <1>10. CASE ConfigureFails
    BY <1>10 DEF ConfigureFails, ReturnError, End
  <1>11. CASE Stamp
    <2>1. proxy'["endpoint"] = call
      BY <1>11 DEF Stamp
    <2>2. \A s \in ProxySettings : proxy'[s] = proxy[s]
      BY <1>11 DEF Stamp, ProxySettings
    <2>3. call' = call /\ text' = text /\ pc = "stamp" /\ pc' = "send"
      BY <1>11 DEF Stamp
    <2> QED
      BY <2>1, <2>2, <2>3
  <1>12. CASE StampThrows
    BY <1>12 DEF StampThrows
  <1>13. CASE Send
    BY <1>13 DEF Send
  <1>14. CASE SendFails
    BY <1>14 DEF SendFails
  <1>15. CASE Receive
    BY <1>15 DEF Receive
  <1>16. CASE Release
    BY <1>16 DEF Release
  <1>17. CASE Succeed
    BY <1>17 DEF Succeed, End, TakeReply
  <1>18. CASE SucceedThrows
    BY <1>18 DEF SucceedThrows, TakeReply
  <1>19. CASE Fail
    BY <1>19 DEF Fail, End
  <1>20. CASE Configure
    <2>1. \A k \in TextKeys : text[k] # "absent" => text'[k] # "absent"
      BY <1>20, EditAssumption DEF Configure
    <2>2. ProxySettings \subseteq TextKeys
      BY DEF TextKeys
    <2> QED
      BY <1>20, <2>1, <2>2 DEF Configure
  <1>21. CASE Begin
    BY <1>21 DEF Begin, BeginWith
  <1>22. CASE ConnectionLost
    BY <1>22 DEF ConnectionLost
  <1>23. ASSUME NEW n \in Calls, Execute(n) PROVE TransportIsFresh'
    BY <1>23 DEF Execute
  <1>24. ASSUME NEW n \in Calls, Refuse(n) PROVE TransportIsFresh'
    BY <1>24 DEF Refuse
  <1>25. CASE UNCHANGED vars
    BY <1>25 DEF vars
  <1> QED
    BY <1>1, <1>2, <1>3, <1>4, <1>5, <1>6, <1>7, <1>8, <1>9, <1>10, <1>11, <1>12, <1>13, <1>14, <1>15, <1>16, <1>17, <1>18, <1>19, <1>20, <1>21, <1>22, <1>23, <1>24, <1>25
    DEF Next, RunTransaction, Environment

\* Every step keeps what was sent, executed and answered in order.
LEMMA ExchangeStep == IInv /\ TypeOK' /\ [Next]_vars => ExchangeInOrder'
  <1> SUFFICES ASSUME IInv, TypeOK', [Next]_vars PROVE ExchangeInOrder'
    OBVIOUS
  <1>0. /\ pc # "idle" => call \in Calls
        /\ \A n \in Calls : n \in Int
        /\ call \in Int
    BY CallsAssumption DEF IInv, TypeOK, CallsInOrder, Calls
  <1> USE <1>0 DEF IInv, TypeOK, CallsInOrder, ExchangeInOrder, AnswerIsOfThisCall, Exchanged, locals, config, wire
  <1>1. CASE PrepareLog
    BY <1>1 DEF PrepareLog
  <1>2. CASE PrepareLogFails
    BY <1>2 DEF PrepareLogFails, ReturnError, End
  <1>3. CASE Resolve
    BY <1>3 DEF Resolve
  <1>4. CASE RejectParameter
    BY <1>4 DEF RejectParameter, ReturnError, End
  <1>5. CASE OpenKey
    BY <1>5 DEF OpenKey
  <1>6. CASE Parse
    BY <1>6 DEF Parse
  <1>7. CASE Sign
    BY <1>7 DEF Sign
  <1>8. CASE Encrypt
    BY <1>8 DEF Encrypt
  <1>9. CASE TlsContext
    BY <1>9 DEF TlsContext
  <1>10. CASE ConfigureFails
    BY <1>10 DEF ConfigureFails, ReturnError, End
  <1>11. CASE Stamp
    BY <1>11 DEF Stamp
  <1>12. CASE StampThrows
    BY <1>12 DEF StampThrows
  <1>13. CASE Send
    BY <1>13 DEF Send, Message
  <1>14. CASE SendFails
    BY <1>14 DEF SendFails, Message
  <1>15. CASE Receive
    BY <1>15 DEF Receive
  <1>16. CASE Release
    BY <1>16 DEF Release
  <1>17. CASE Succeed
    BY <1>17 DEF Succeed, End, TakeReply
  <1>18. CASE SucceedThrows
    BY <1>18 DEF SucceedThrows, TakeReply
  <1>19. CASE Fail
    BY <1>19 DEF Fail, End
  <1>20. CASE Configure
    BY <1>20 DEF Configure
  <1>21. CASE Begin
    BY <1>21 DEF Begin, BeginWith
  <1>22. CASE ConnectionLost
    BY <1>22 DEF ConnectionLost
  <1>23. ASSUME NEW n \in Calls, Execute(n) PROVE ExchangeInOrder'
    BY <1>23 DEF Execute
  <1>24. ASSUME NEW n \in Calls, Refuse(n) PROVE ExchangeInOrder'
    BY <1>24 DEF Refuse
  <1>25. CASE UNCHANGED vars
    BY <1>25 DEF vars
  <1> QED
    BY <1>1, <1>2, <1>3, <1>4, <1>5, <1>6, <1>7, <1>8, <1>9, <1>10, <1>11, <1>12, <1>13, <1>14, <1>15, <1>16, <1>17, <1>18, <1>19, <1>20, <1>21, <1>22, <1>23, <1>24, <1>25
    DEF Next, RunTransaction, Environment

\* A reply is always of the current call.
LEMMA AnswerStep == IInv /\ TypeOK' /\ [Next]_vars => AnswerIsOfThisCall'
  <1> SUFFICES ASSUME IInv, TypeOK', [Next]_vars PROVE AnswerIsOfThisCall'
    OBVIOUS
  <1>0. /\ pc # "idle" => call \in Calls
        /\ \A n \in Calls : n \in Int
        /\ call \in Int
    BY CallsAssumption DEF IInv, TypeOK, CallsInOrder, Calls
  <1> USE <1>0 DEF IInv, TypeOK, CallsInOrder, ExchangeInOrder, AnswerIsOfThisCall, locals, config, wire
  <1>1. CASE PrepareLog
    BY <1>1 DEF PrepareLog
  <1>2. CASE PrepareLogFails
    BY <1>2 DEF PrepareLogFails, ReturnError, End
  <1>3. CASE Resolve
    BY <1>3 DEF Resolve
  <1>4. CASE RejectParameter
    BY <1>4 DEF RejectParameter, ReturnError, End
  <1>5. CASE OpenKey
    BY <1>5 DEF OpenKey
  <1>6. CASE Parse
    BY <1>6 DEF Parse
  <1>7. CASE Sign
    BY <1>7 DEF Sign
  <1>8. CASE Encrypt
    BY <1>8 DEF Encrypt
  <1>9. CASE TlsContext
    BY <1>9 DEF TlsContext
  <1>10. CASE ConfigureFails
    BY <1>10 DEF ConfigureFails, ReturnError, End
  <1>11. CASE Stamp
    BY <1>11 DEF Stamp
  <1>12. CASE StampThrows
    BY <1>12 DEF StampThrows
  <1>13. CASE Send
    BY <1>13 DEF Send
  <1>14. CASE SendFails
    BY <1>14 DEF SendFails, SOAP_OK, SOAP_TCP_ERROR, SOAP_EOF
  <1>15. CASE Receive
    BY <1>15 DEF Receive
  <1>16. CASE Release
    BY <1>16 DEF Release
  <1>17. CASE Succeed
    BY <1>17 DEF Succeed, End, TakeReply
  <1>18. CASE SucceedThrows
    BY <1>18 DEF SucceedThrows, TakeReply
  <1>19. CASE Fail
    BY <1>19 DEF Fail, End
  <1>20. CASE Configure
    BY <1>20 DEF Configure
  <1>21. CASE Begin
    BY <1>21 DEF Begin, BeginWith
  <1>22. CASE ConnectionLost
    BY <1>22 DEF ConnectionLost, SOAP_OK, SOAP_EOF
  <1>23. ASSUME NEW n \in Calls, Execute(n) PROVE AnswerIsOfThisCall'
    BY <1>23 DEF Execute
  <1>24. ASSUME NEW n \in Calls, Refuse(n) PROVE AnswerIsOfThisCall'
    BY <1>24 DEF Refuse
  <1>25. CASE UNCHANGED vars
    BY <1>25 DEF vars
  <1> QED
    BY <1>1, <1>2, <1>3, <1>4, <1>5, <1>6, <1>7, <1>8, <1>9, <1>10, <1>11, <1>12, <1>13, <1>14, <1>15, <1>16, <1>17, <1>18, <1>19, <1>20, <1>21, <1>22, <1>23, <1>24, <1>25
    DEF Next, RunTransaction, Environment

\* Every step keeps the outcomes true.
LEMMA OutcomeStep == IInv /\ TypeOK' /\ [Next]_vars => OutcomeIsTrue'
  <1> SUFFICES ASSUME IInv, TypeOK', [Next]_vars PROVE OutcomeIsTrue'
    OBVIOUS
  <1>0. /\ pc # "idle" => call \in Calls
        /\ \A n \in Calls : n \in Int
        /\ call \in Int
    BY CallsAssumption DEF IInv, TypeOK, CallsInOrder, Calls
  <1> USE <1>0 DEF IInv, TypeOK, CallsInOrder, ExchangeInOrder, AnswerIsOfThisCall, OutcomeIsTrue, Exchanged, locals, config, wire
  <1>1. CASE PrepareLog
    BY <1>1 DEF PrepareLog
  <1>2. CASE PrepareLogFails
    BY <1>2 DEF PrepareLogFails, ReturnError, End
  <1>3. CASE Resolve
    BY <1>3 DEF Resolve
  <1>4. CASE RejectParameter
    BY <1>4 DEF RejectParameter, ReturnError, End
  <1>5. CASE OpenKey
    BY <1>5 DEF OpenKey
  <1>6. CASE Parse
    BY <1>6 DEF Parse
  <1>7. CASE Sign
    BY <1>7 DEF Sign
  <1>8. CASE Encrypt
    BY <1>8 DEF Encrypt
  <1>9. CASE TlsContext
    BY <1>9 DEF TlsContext
  <1>10. CASE ConfigureFails
    BY <1>10 DEF ConfigureFails, ReturnError, End
  <1>11. CASE Stamp
    BY <1>11 DEF Stamp
  <1>12. CASE StampThrows
    BY <1>12 DEF StampThrows
  <1>13. CASE Send
    BY <1>13 DEF Send, Message
  <1>14. CASE SendFails
    BY <1>14 DEF SendFails, Message
  <1>15. CASE Receive
    BY <1>15 DEF Receive
  <1>16. CASE Release
    BY <1>16 DEF Release
  <1>17. CASE Succeed
    BY <1>17 DEF Succeed, End, TakeReply
  <1>18. CASE SucceedThrows
    BY <1>18 DEF SucceedThrows, TakeReply
  <1>19. CASE Fail
    BY <1>19 DEF Fail, End
  <1>20. CASE Configure
    BY <1>20 DEF Configure
  <1>21. CASE Begin
    BY <1>21 DEF Begin, BeginWith
  <1>22. CASE ConnectionLost
    BY <1>22 DEF ConnectionLost
  <1>23. ASSUME NEW n \in Calls, Execute(n) PROVE OutcomeIsTrue'
    BY <1>23 DEF Execute
  <1>24. ASSUME NEW n \in Calls, Refuse(n) PROVE OutcomeIsTrue'
    BY <1>24 DEF Refuse
  <1>25. CASE UNCHANGED vars
    BY <1>25 DEF vars
  <1> QED
    BY <1>1, <1>2, <1>3, <1>4, <1>5, <1>6, <1>7, <1>8, <1>9, <1>10, <1>11, <1>12, <1>13, <1>14, <1>15, <1>16, <1>17, <1>18, <1>19, <1>20, <1>21, <1>22, <1>23, <1>24, <1>25
    DEF Next, RunTransaction, Environment

\* Every step keeps _errorInfo to the last refused call.
LEMMA ErrorInfoStep == IInv /\ TypeOK' /\ [Next]_vars => ErrorInfoIsOfLastRefusal'
  <1> SUFFICES ASSUME IInv, TypeOK', [Next]_vars PROVE ErrorInfoIsOfLastRefusal'
    OBVIOUS
  <1>0. /\ pc # "idle" => call \in Calls
        /\ \A n \in Calls : n \in Int
        /\ call \in Int
    BY CallsAssumption DEF IInv, TypeOK, CallsInOrder, Calls
  <1> USE <1>0 DEF IInv, TypeOK, CallsInOrder, ErrorInfoIsOfLastRefusal, locals, config, wire
  <1>1. CASE PrepareLog
    BY <1>1 DEF PrepareLog
  <1>2. CASE PrepareLogFails
    BY <1>2 DEF PrepareLogFails, ReturnError, End
  <1>3. CASE Resolve
    BY <1>3 DEF Resolve
  <1>4. CASE RejectParameter
    BY <1>4 DEF RejectParameter, ReturnError, End
  <1>5. CASE OpenKey
    BY <1>5 DEF OpenKey
  <1>6. CASE Parse
    BY <1>6 DEF Parse
  <1>7. CASE Sign
    BY <1>7 DEF Sign
  <1>8. CASE Encrypt
    BY <1>8 DEF Encrypt
  <1>9. CASE TlsContext
    BY <1>9 DEF TlsContext
  <1>10. CASE ConfigureFails
    BY <1>10 DEF ConfigureFails, ReturnError, End
  <1>11. CASE Stamp
    BY <1>11 DEF Stamp
  <1>12. CASE StampThrows
    BY <1>12 DEF StampThrows
  <1>13. CASE Send
    BY <1>13 DEF Send
  <1>14. CASE SendFails
    BY <1>14 DEF SendFails
  <1>15. CASE Receive
    BY <1>15 DEF Receive
  <1>16. CASE Release
    BY <1>16 DEF Release
  <1>17. CASE Succeed
    BY <1>17 DEF Succeed, End, TakeReply
  <1>18. CASE SucceedThrows
    BY <1>18 DEF SucceedThrows, TakeReply
  <1>19. CASE Fail
    BY <1>19 DEF Fail, End
  <1>20. CASE Configure
    BY <1>20 DEF Configure
  <1>21. CASE Begin
    BY <1>21 DEF Begin, BeginWith
  <1>22. CASE ConnectionLost
    BY <1>22 DEF ConnectionLost
  <1>23. ASSUME NEW n \in Calls, Execute(n) PROVE ErrorInfoIsOfLastRefusal'
    BY <1>23 DEF Execute
  <1>24. ASSUME NEW n \in Calls, Refuse(n) PROVE ErrorInfoIsOfLastRefusal'
    BY <1>24 DEF Refuse
  <1>25. CASE UNCHANGED vars
    BY <1>25 DEF vars
  <1> QED
    BY <1>1, <1>2, <1>3, <1>4, <1>5, <1>6, <1>7, <1>8, <1>9, <1>10, <1>11, <1>12, <1>13, <1>14, <1>15, <1>16, <1>17, <1>18, <1>19, <1>20, <1>21, <1>22, <1>23, <1>24, <1>25
    DEF Next, RunTransaction, Environment

--------------------------------------------------------------------------------
\* The inductive invariant holds initially.
LEMMA InitInvariant == Init => IInv
  <1> SUFFICES ASSUME Init PROVE IInv
    OBVIOUS
  <1>1. TypeOK
    BY InitTyping
  <1> QED
    BY <1>1, CallsAssumption
    DEF Init, IInv, Calls, CallsInOrder, KeyMaterialIsOwned, KeyIsSet, TransportIsFresh,
        Configured, ExchangeInOrder, AnswerIsOfThisCall, OutcomeIsTrue,
        ErrorInfoIsOfLastRefusal

\* Every step keeps the inductive invariant.
LEMMA StepInvariant == IInv /\ [Next]_vars => IInv'
  <1>1. IInv /\ [Next]_vars => TypeOK'
    BY StepTyping DEF IInv
  <1> QED
    BY <1>1, CallsInOrderStep, KeyMaterialStep, KeyIsSetStep, TransportStep, ExchangeStep,
       AnswerStep, OutcomeStep, ErrorInfoStep DEF IInv

\* The inductive invariant holds throughout every behaviour.
THEOREM Invariance == Spec => []IInv
  BY InitInvariant, StepInvariant, PTL DEF Spec

\* Every variable keeps its type.
THEOREM Typing == Spec => []TypeOK
  <1>1. IInv => TypeOK
    BY DEF IInv
  <1> QED
    BY <1>1, Invariance, PTL

\* What the inductive invariant says of key material is what the property says.
LEMMA OwnedIsReleased == IInv => KeyMaterialReleased
  <1> SUFFICES ASSUME IInv PROVE KeyMaterialReleased
    OBVIOUS
  <1>1. pc = "idle" =>
          \A o \in heap : outcome[o.of] = IF o.kind = "p12" THEN "rejected" ELSE "thrown"
    BY DEF IInv, KeyMaterialIsOwned
  <1>2. ASSUME pc \notin {"idle", "parse"}, NEW o \in heap, o \in Own({"p12"}) PROVE FALSE
    <2>1. o.kind = "p12" /\ o.of = call
      BY <1>2, OwnMember DEF IInv
    <2>2. outcome[call] = "open" /\ outcome[call] = "rejected"
      BY <1>2, <2>1 DEF IInv, TypeOK, Object, CallsInOrder, KeyMaterialIsOwned
    <2> QED
      BY <2>2
  <1> QED
    BY <1>1, <1>2 DEF KeyMaterialReleased

\* In any number of calls, no return of runTransaction leaves what was parsed out of a key
\* file behind, and none but that of a call whose file could not be parsed the PKCS12 object.
THEOREM NoKeyMaterialLeft == Spec => []KeyMaterialReleased
  BY OwnedIsReleased, Invariance, PTL

\* Whatever the calls before it left in the plugin, a request is signed with the live
\* key of its own call.
THEOREM Signing == Spec => []SignsWithLiveKey
  <1>1. IInv => SignsWithLiveKey
    BY DEF IInv, KeyIsSet, SignsWithLiveKey
  <1> QED
    BY <1>1, Invariance, PTL

\* A connection never uses a string of an earlier call's frame.
THEOREM Transport == Spec => []TransportIsOfThisCall
  <1>1. IInv => TransportIsOfThisCall
    <2> SUFFICES ASSUME IInv, pc = "send", NEW s \in DOMAIN proxy
                 PROVE  proxy[s] \in {0, call}
      BY DEF TransportIsOfThisCall
    <2>1. s \in ProxySettings \union {"endpoint"}
      BY DEF IInv, TypeOK
    <2> QED
      BY <2>1 DEF IInv, TransportIsFresh, Configured
  <1> QED
    BY <1>1, Invariance, PTL

\* A refused request is never sent, an answered one was executed and the reply is its own.
THEOREM TrueOutcome == Spec => []OutcomeIsTrue
  <1>1. IInv => OutcomeIsTrue
    BY DEF IInv
  <1> QED
    BY <1>1, Invariance, PTL

\* _errorInfo always tells of the last refused call.
THEOREM LastRefusal == Spec => []ErrorInfoIsOfLastRefusal
  <1>1. IInv => ErrorInfoIsOfLastRefusal
    BY DEF IInv
  <1> QED
    BY <1>1, Invariance, PTL

--------------------------------------------------------------------------------
\* From Resolve to Send, serverURL is what the configuration, unchanged since, asks for.
EndpointIsChosen ==
  pc \in Configured =>
    /\ cfg.serverURL = "configured" <=> text["serverURL"] # "absent"
    /\ cfg.serverURL \in {"akamaiProd", "prod"} => flag["sendToProduction"] = "true"
    /\ cfg.serverURL \in {"akamaiProd", "akamaiTest"} => flag["sendToAkamai"] \in {"true", "1"}

\* Resolve chooses the endpoint as configured, and no later step of the call undoes it.
LEMMA EndpointStep == IInv /\ EndpointIsChosen /\ TypeOK' /\ [Next]_vars => EndpointIsChosen'
  <1> SUFFICES ASSUME IInv, EndpointIsChosen, TypeOK', [Next]_vars PROVE EndpointIsChosen'
    OBVIOUS
  <1>0. /\ pc # "idle" => call \in Calls
        /\ \A n \in Calls : n \in Int
        /\ call \in Int
    BY CallsAssumption DEF IInv, TypeOK, CallsInOrder, Calls
  <1> USE <1>0 DEF IInv, TypeOK, EndpointIsChosen, Configured, locals, config, wire
  <1>1. CASE PrepareLog
    BY <1>1 DEF PrepareLog
  <1>2. CASE PrepareLogFails
    BY <1>2 DEF PrepareLogFails, ReturnError, End
  <1>3. CASE Resolve
    BY <1>3 DEF Resolve, ServerURL, flagValue
  <1>4. CASE RejectParameter
    BY <1>4 DEF RejectParameter, ReturnError, End
  <1>5. CASE OpenKey
    BY <1>5 DEF OpenKey
  <1>6. CASE Parse
    BY <1>6 DEF Parse
  <1>7. CASE Sign
    BY <1>7 DEF Sign
  <1>8. CASE Encrypt
    BY <1>8 DEF Encrypt
  <1>9. CASE TlsContext
    BY <1>9 DEF TlsContext
  <1>10. CASE ConfigureFails
    BY <1>10 DEF ConfigureFails, ReturnError, End
  <1>11. CASE Stamp
    BY <1>11 DEF Stamp
  <1>12. CASE StampThrows
    BY <1>12 DEF StampThrows
  <1>13. CASE Send
    BY <1>13 DEF Send
  <1>14. CASE SendFails
    BY <1>14 DEF SendFails
  <1>15. CASE Receive
    BY <1>15 DEF Receive
  <1>16. CASE Release
    BY <1>16 DEF Release
  <1>17. CASE Succeed
    BY <1>17 DEF Succeed, End
  <1>18. CASE SucceedThrows
    BY <1>18 DEF SucceedThrows
  <1>19. CASE Fail
    BY <1>19 DEF Fail, End
  <1>20. CASE Configure
    BY <1>20 DEF Configure
  <1>21. CASE Begin
    BY <1>21 DEF Begin, BeginWith
  <1>22. CASE ConnectionLost
    BY <1>22 DEF ConnectionLost
  <1>23. ASSUME NEW n \in Calls, Execute(n) PROVE EndpointIsChosen'
    BY <1>23 DEF Execute
  <1>24. ASSUME NEW n \in Calls, Refuse(n) PROVE EndpointIsChosen'
    BY <1>24 DEF Refuse
  <1>25. CASE UNCHANGED vars
    BY <1>25 DEF vars
  <1> QED
    BY <1>1, <1>2, <1>3, <1>4, <1>5, <1>6, <1>7, <1>8, <1>9, <1>10, <1>11, <1>12, <1>13, <1>14, <1>15, <1>16, <1>17, <1>18, <1>19, <1>20, <1>21, <1>22, <1>23, <1>24, <1>25
    DEF Next, RunTransaction, Environment

\* A request goes where the configuration of its call says.
THEOREM Endpoint == Spec => []EndpointIsAsConfigured
  <1>1. Init => EndpointIsChosen
    BY DEF Init, EndpointIsChosen, Configured
  <1>2. EndpointIsChosen => EndpointIsAsConfigured
    BY DEF EndpointIsChosen, EndpointIsAsConfigured, Configured
  <1>3. IInv /\ EndpointIsChosen /\ [Next]_vars => EndpointIsChosen'
    BY EndpointStep, StepTyping DEF IInv
  <1> QED
    BY <1>1, <1>2, <1>3, Invariance, PTL DEF Spec

\* The entries of the current call, and where it must be for each of them.
Ends == {<< >>, <<"SUCCESS">>, <<"SUCCESS", "REPLY">>, <<"ERROR">>}
RecordInOrder ==
  /\ \A n \in Calls : n > call => journal[n] = << >>
  /\ pc \in {"log", "check"} \union (Configured \ {"send"}) => journal[call] = << >>
  /\ cfg.isLogEnabled /\ pc \in {"send"} \union Exchanged =>
       journal[call] = <<"REQUEST", "CONFIG">>
  /\ cfg.isLogEnabled /\ pc = "idle" /\ (\E m \in sent : m.call = call) =>
       \E end \in Ends : journal[call] = <<"REQUEST", "CONFIG">> \o end

\* Every step adds its entries after those of the steps before it.
LEMMA RecordStep == IInv /\ RecordInOrder /\ TypeOK' /\ [Next]_vars => RecordInOrder'
  <1> SUFFICES ASSUME IInv, RecordInOrder, TypeOK', [Next]_vars PROVE RecordInOrder'
    OBVIOUS
  <1>0. /\ pc # "idle" => call \in Calls
        /\ \A n \in Calls : n \in Int
        /\ call \in Int
    BY CallsAssumption DEF IInv, TypeOK, CallsInOrder, Calls
  <1> USE <1>0 DEF IInv, TypeOK, CallsInOrder, ExchangeInOrder, RecordInOrder, Configured, Exchanged, locals, config, wire
  <1>1. CASE PrepareLog
    BY <1>1 DEF PrepareLog
  <1>2. CASE PrepareLogFails
    BY <1>2 DEF PrepareLogFails, ReturnError, End, Log
  <1>3. CASE Resolve
    BY <1>3 DEF Resolve
  <1>4. CASE RejectParameter
    BY <1>4 DEF RejectParameter, ReturnError, End, Log
  <1>5. CASE OpenKey
    BY <1>5 DEF OpenKey
  <1>6. CASE Parse
    BY <1>6 DEF Parse
  <1>7. CASE Sign
    BY <1>7 DEF Sign
  <1>8. CASE Encrypt
    BY <1>8 DEF Encrypt
  <1>9. CASE TlsContext
    BY <1>9 DEF TlsContext
  <1>10. CASE ConfigureFails
    BY <1>10 DEF ConfigureFails, ReturnError, End, Log
  <1>11. CASE Stamp
    <2>1. \A n \in Calls : n # call => journal'[n] = journal[n]
      BY <1>11 DEF Stamp, Log
    <2>2. cfg.isLogEnabled => journal'[call] = << >> \o <<"REQUEST", "CONFIG">>
      BY <1>11 DEF Stamp, Log
    <2>3. << >> \o <<"REQUEST", "CONFIG">> = <<"REQUEST", "CONFIG">>
      OBVIOUS
    <2>4. cfg' = cfg /\ call' = call /\ pc' = "send"
      BY <1>11 DEF Stamp
    <2> QED
      BY <2>1, <2>2, <2>3, <2>4
  <1>12. CASE StampThrows
    BY <1>12 DEF StampThrows
  <1>13. CASE Send
    BY <1>13 DEF Send, Message
  <1>14. CASE SendFails
    BY <1>14 DEF SendFails, Message
  <1>15. CASE Receive
    BY <1>15 DEF Receive
  <1>16. CASE Release
    BY <1>16 DEF Release
  <1>17. CASE Succeed
    <2>1. \A n \in Calls : n # call => journal'[n] = journal[n]
      BY <1>17 DEF Succeed, End, Log
    <2>2. cfg.isLogEnabled => journal'[call] = <<"REQUEST", "CONFIG">> \o <<"SUCCESS", "REPLY">>
      BY <1>17 DEF Succeed, End, Log
    <2>3. <<"SUCCESS", "REPLY">> \in Ends
      BY DEF Ends
    <2>4. cfg' = cfg /\ call' = call /\ pc' = "idle"
      BY <1>17 DEF Succeed, End, Log
    <2>5. cfg'.isLogEnabled => \E end \in Ends : journal'[call'] = <<"REQUEST", "CONFIG">> \o end
      BY ONLY <2>2, <2>3, <2>4
    <2>6. \A n \in Calls : n > call' => journal'[n] = << >>
      <3> SUFFICES ASSUME NEW n \in Calls, n > call PROVE journal'[n] = << >>
        BY <2>4
      <3>1. n # call /\ journal[n] = << >>
        OBVIOUS
      <3> QED
        BY <2>1, <3>1
    <2> QED
      BY ONLY <2>4, <2>5, <2>6 DEF RecordInOrder, Configured, Exchanged
  <1>18. CASE SucceedThrows
    <2>1. \A n \in Calls : n # call => journal'[n] = journal[n]
      BY <1>18 DEF SucceedThrows, Log
    <2>2. cfg.isLogEnabled => journal'[call] = <<"REQUEST", "CONFIG">> \o <<"SUCCESS">>
      BY <1>18 DEF SucceedThrows, Log
    <2>3. <<"SUCCESS">> \in Ends
      BY DEF Ends
    <2>4. cfg' = cfg /\ call' = call /\ pc' = "idle"
      BY <1>18 DEF SucceedThrows, Log
    <2>5. cfg'.isLogEnabled => \E end \in Ends : journal'[call'] = <<"REQUEST", "CONFIG">> \o end
      BY ONLY <2>2, <2>3, <2>4
    <2>6. \A n \in Calls : n > call' => journal'[n] = << >>
      <3> SUFFICES ASSUME NEW n \in Calls, n > call PROVE journal'[n] = << >>
        BY <2>4
      <3>1. n # call /\ journal[n] = << >>
        OBVIOUS
      <3> QED
        BY <2>1, <3>1
    <2> QED
      BY ONLY <2>4, <2>5, <2>6 DEF RecordInOrder, Configured, Exchanged
  <1>19. CASE Fail
    <2>0. PICK entries : entries \in {<< >>, <<"ERROR">>} /\ Log(entries)
      BY <1>19 DEF Fail
    <2>1. \A n \in Calls : n # call => journal'[n] = journal[n]
      BY <2>0, <1>19 DEF Fail, End, Log
    <2>2. cfg.isLogEnabled => journal'[call] = <<"REQUEST", "CONFIG">> \o entries
      BY <2>0, <1>19 DEF Fail, End, Log
    <2>3. entries \in Ends
      BY <2>0 DEF Ends
    <2>4. cfg' = cfg /\ call' = call /\ pc' = "idle"
      BY <1>19 DEF Fail, End
    <2>5. cfg'.isLogEnabled => \E end \in Ends : journal'[call'] = <<"REQUEST", "CONFIG">> \o end
      BY ONLY <2>2, <2>3, <2>4
    <2>6. \A n \in Calls : n > call' => journal'[n] = << >>
      <3> SUFFICES ASSUME NEW n \in Calls, n > call PROVE journal'[n] = << >>
        BY <2>4
      <3>1. n # call /\ journal[n] = << >>
        OBVIOUS
      <3> QED
        BY <2>1, <3>1
    <2> QED
      BY ONLY <2>4, <2>5, <2>6 DEF RecordInOrder, Configured, Exchanged
  <1>20. CASE Configure
    BY <1>20 DEF Configure
  <1>21. CASE Begin
    BY <1>21 DEF Begin, BeginWith
  <1>22. CASE ConnectionLost
    BY <1>22 DEF ConnectionLost
  <1>23. ASSUME NEW n \in Calls, Execute(n) PROVE RecordInOrder'
    BY <1>23 DEF Execute
  <1>24. ASSUME NEW n \in Calls, Refuse(n) PROVE RecordInOrder'
    BY <1>24 DEF Refuse
  <1>25. CASE UNCHANGED vars
    BY <1>25 DEF vars
  <1> QED
    BY <1>1, <1>2, <1>3, <1>4, <1>5, <1>6, <1>7, <1>8, <1>9, <1>10, <1>11, <1>12, <1>13, <1>14, <1>15, <1>16, <1>17, <1>18, <1>19, <1>20, <1>21, <1>22, <1>23, <1>24, <1>25
    DEF Next, RunTransaction, Environment

\* With logging on, every executed payment is on record, request and endpoint first.
THEOREM Record == Spec => []ExecutedIsOnRecord
  <1>1. Init => RecordInOrder
    BY DEF Init, RecordInOrder, Configured, Exchanged
  <1>2. IInv /\ RecordInOrder => ExecutedIsOnRecord
    <2> SUFFICES ASSUME IInv, RecordInOrder, call \in executed, cfg.isLogEnabled
                 PROVE  \E end \in Ends : journal[call] = <<"REQUEST", "CONFIG">> \o end
      BY DEF ExecutedIsOnRecord, Ends
    <2>1. PICK m \in sent : m.call = call
      BY DEF IInv, ExchangeInOrder
    <2>2. pc \in Exchanged \union {"idle"}
      BY <2>1 DEF IInv, ExchangeInOrder
    <2>3. CASE pc = "idle"
      BY <2>1, <2>3 DEF RecordInOrder
    <2>4. CASE pc \in Exchanged
      <3>1. journal[call] = <<"REQUEST", "CONFIG">>
        BY <2>4 DEF RecordInOrder
      <3>2. <<"REQUEST", "CONFIG">> = <<"REQUEST", "CONFIG">> \o << >>
        OBVIOUS
      <3> QED
        BY <3>1, <3>2 DEF Ends
    <2> QED
      BY <2>2, <2>3, <2>4
  <1>3. IInv /\ RecordInOrder /\ [Next]_vars => RecordInOrder'
    BY RecordStep, StepTyping DEF IInv
  <1> QED
    BY <1>1, <1>2, <1>3, Invariance, PTL DEF Spec

--------------------------------------------------------------------------------
\* Transaction implements PaymentCall: each step is a step of PaymentCall or leaves its
\* variables alone.
Dispatched == {m.call : m \in sent}

\* The initial states are initial states of PaymentCall.
LEMMA InitImplements == Init => Payment!Init
  BY DEF Init, Payment!Init

\* Every step is a step of PaymentCall, or leaves its variables alone.
LEMMA StepImplements == IInv /\ [Next]_vars => [Payment!Next]_(Payment!vars)
  <1> SUFFICES ASSUME IInv, [Next]_vars PROVE [Payment!Next]_(Payment!vars)
    OBVIOUS
  <1> DEFINE Stutter == UNCHANGED <<outcome, Dispatched, executed, resMap>>
  <1>0. /\ pc # "idle" => call \in Calls
        /\ \A n \in Calls : n \in Int
        /\ call \in Int
        /\ pc \notin Exchanged \union {"idle"} => call \notin Dispatched
        /\ pc # "idle" => outcome[call] = "open"
    BY CallsAssumption DEF IInv, TypeOK, CallsInOrder, Calls, ExchangeInOrder, Dispatched
  <1>s. Stutter => UNCHANGED Payment!vars
    BY DEF Payment!vars, Dispatched
  <1> USE DEF config, locals, wire
  <1>1. CASE PrepareLog \/ Resolve \/ OpenKey \/ Parse \/ Sign \/ Encrypt \/ TlsContext
    <2>1. Stutter
      BY <1>1 DEF PrepareLog, Resolve, OpenKey, Parse, Sign, Encrypt, TlsContext, Dispatched
    <2> QED
      BY <2>1, <1>s
  <1>2. CASE Stamp \/ Receive \/ Release \/ Configure \/ ConnectionLost \/ (\E n \in Calls : Refuse(n))
    <2>1. Stutter
      BY <1>2 DEF Stamp, Receive, Release, Configure, ConnectionLost, Refuse, Dispatched
    <2> QED
      BY <2>1, <1>s
  <1>3. CASE PrepareLogFails \/ RejectParameter \/ ConfigureFails
    <2>1. /\ outcome' = [outcome EXCEPT ![call] = "rejected"]
          /\ UNCHANGED <<Dispatched, executed, resMap>>
          /\ pc \notin Exchanged \union {"idle"}
      BY <1>3 DEF PrepareLogFails, RejectParameter, ConfigureFails, ReturnError, End, Dispatched, Exchanged
    <2>2. Payment!Reject(call)
      BY <2>1, <1>0 DEF Payment!Reject, Dispatched
    <2> QED
      BY <2>1, <2>2, <1>0 DEF Payment!Next
  <1>4. CASE StampThrows
    <2>1. Payment!Throw(call)
      BY <1>4, <1>0 DEF StampThrows, Payment!Throw, Dispatched, Exchanged
    <2> QED
      BY <2>1, <1>4, <1>0 DEF Payment!Next, StampThrows
  <1>5. CASE Send \/ SendFails
    <2>1. UNCHANGED <<outcome, executed, resMap>> /\ pc = "send"
      BY <1>5 DEF Send, SendFails
    <2>2. CASE sent' = sent
      BY <2>1, <2>2, <1>s DEF Dispatched
    <2>3. CASE sent' = sent \union {Message}
      <3>1. Dispatched' = Dispatched \union {call}
        <4>1. Message.call = call
          BY DEF Message
        <4> QED
          BY <2>3, <4>1 DEF Dispatched
      <3>2. call \in Calls
        BY <2>1, <1>0
      <3>3. \E n \in Calls : Payment!Dispatch(n)
        BY <2>1, <3>1, <3>2, <1>0 DEF Payment!Dispatch, Dispatched, Exchanged
      <3>4. Payment!Next
        BY <3>3 DEF Payment!Next
      <3> QED
        BY <3>4
    <2> QED
      BY <1>5, <2>2, <2>3 DEF Send, SendFails
  <1>6. ASSUME NEW n \in Calls, Execute(n) PROVE [Payment!Next]_(Payment!vars)
    <2>1. /\ executed' = executed \union {n} /\ n \in Dispatched
          /\ UNCHANGED <<outcome, Dispatched, resMap>>
      BY <1>6 DEF Execute, Dispatched
    <2>2. CASE n \in executed
      BY <2>1, <2>2, <1>s
    <2>3. CASE n \notin executed
      <3>1. Payment!Execute(n)
        BY <2>1, <2>3 DEF Payment!Execute, Dispatched
      <3> QED
        BY <3>1 DEF Payment!Next
    <2> QED
      BY <2>2, <2>3
  <1>7. CASE Succeed \/ SucceedThrows
    <2>1. /\ pc = "report" /\ soapStatus = SOAP_OK
          /\ UNCHANGED <<Dispatched, executed>>
          /\ \/ rep # "none" /\ resMap' = call
                /\ \E end \in {"answered", "thrown"} : outcome' = [outcome EXCEPT ![call] = end]
             \/ rep = "none" /\ resMap' = resMap
                /\ \E end \in {"acknowledged", "thrown"} : outcome' = [outcome EXCEPT ![call] = end]
      BY <1>7 DEF Succeed, SucceedThrows, TakeReply, End, Dispatched
    <2>2. /\ call \in Dispatched
          /\ rep # "none" => call \in executed
      BY <2>1, <1>0 DEF IInv, TypeOK, AnswerIsOfThisCall, ExchangeInOrder, Dispatched
    <2>3. Payment!Answer(call) \/ Payment!Acknowledge(call)
      BY <2>1, <2>2, <1>0 DEF Payment!Answer, Payment!Acknowledge, Dispatched
    <2> QED
      BY <2>1, <2>3, <1>0 DEF Payment!Next
  <1>8. CASE Fail
    <2>1. Payment!Fail(call)
      BY <1>8, <1>0 DEF Fail, End, Payment!Fail, Dispatched
    <2> QED
      BY <2>1, <1>8, <1>0 DEF Payment!Next, Fail
  <1>9. CASE Begin
    <2>1. /\ call' = call + 1 /\ call' \in Calls /\ pc = "idle"
          /\ outcome' = [outcome EXCEPT ![call'] = "open"]
          /\ UNCHANGED <<Dispatched, executed, resMap>>
      BY <1>9, CallsAssumption DEF Begin, BeginWith, IInv, TypeOK, Calls, Dispatched
    <2>2. \A m \in Calls : IF m < call' THEN outcome[m] \in Payment!Ended ELSE outcome[m] = "none"
      BY <2>1, <1>0 DEF IInv, TypeOK, CallsInOrder, Returned, Payment!Ended
    <2>3. Payment!Begin(call')
      BY <2>1, <2>2, <1>0 DEF Payment!Begin, Dispatched
    <2> QED
      BY <2>1, <2>3 DEF Payment!Next
  <1>10. CASE UNCHANGED vars
    <2>1. Stutter
      BY <1>10 DEF vars, Dispatched
    <2> QED
      BY <2>1, <1>s
  <1> QED
    BY <1>1, <1>2, <1>3, <1>4, <1>5, <1>6, <1>7, <1>8, <1>9, <1>10
    DEF Next, RunTransaction, Environment

\* Transaction implements PaymentCall.
THEOREM Implementation == Spec => ImplementsPaymentCall
  BY InitImplements, StepImplements, Invariance, PTL DEF Spec, Payment!Spec, ImplementsPaymentCall
================================================================================
