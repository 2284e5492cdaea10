----------------------------- MODULE XmlTransaction -----------------------------
(***************************************************************************)
(* cybs_runTransaction of XMLClient.cpp: the same call as runTransaction,  *)
(* with objects in place of maps.  The steps that the two files share are  *)
(* those of Transaction; the modules differ in what follows.               *)
(*                                                                         *)
(* The request is an object of the merchant, who may make another call     *)
(* with it, and the call writes into it.  The reply is an object of the    *)
(* merchant too, resMap here: it is cleared before an answer is read, and  *)
(* the answer is read right into it.  A message is logged by parsing its   *)
(* XML again; text that does not parse ends the process.  "loggable" means *)
(* here that it does parse.                                                *)
(***************************************************************************)
EXTENDS Transaction

VARIABLES merchantID,      \* size of the merchantID the current request object bears
          namedBy,         \* call that put it there, 0 for the merchant
          reused,          \* the merchant passed the object of the call before
          crashed          \* a NULL root was dereferenced

object  == <<merchantID, namedBy, reused>>
xmlVars == <<vars, merchantID, namedBy, reused, crashed>>

XmlInit ==
  /\ Init
  /\ merchantID = "absent" /\ namedBy = 0 /\ reused = FALSE
  /\ crashed = FALSE

\* The merchant calls with a new request object, or once more with the last one.
XmlBegin ==
  /\ ~crashed /\ crashed' = crashed
  /\ \/ /\ Begin
        /\ merchantID' = req'.merchantID /\ namedBy' = 0 /\ reused' = FALSE
     \/ /\ call # 0 /\ ~req.empty
        /\ BeginWith([req EXCEPT !.merchantID = merchantID])
        /\ reused' = TRUE /\ UNCHANGED <<merchantID, namedBy>>

NameAlways == IF text["merchantID"] = "absent" THEN UNCHANGED <<merchantID, namedBy>>  \* mutant
              ELSE merchantID' = text["merchantID"] /\ namedBy' = call

\* An object without a merchantID is given that of the configuration, for good.
Name ==
  IF req.merchantID = "absent" /\ text["merchantID"] # "absent"
  THEN merchantID' = text["merchantID"] /\ namedBy' = call
  ELSE UNCHANGED <<merchantID, namedBy>>

XmlResolve == Resolve /\ Name /\ UNCHANGED <<reused, crashed>>

\* The merchantID is the fourth parameter that is looked at.
XmlRejectParameter ==
  /\ RejectParameter
  /\ IF \E i \in 1..3 : Refused(Parameters[i]) THEN UNCHANGED object ELSE Name /\ reused' = reused
  /\ crashed' = crashed

\* cybs_log_xml notes that the text does not parse, and goes on with its missing root.
Crash(entries) ==
  /\ Log(entries \o <<"ERROR">>)
  /\ pc' = "idle"
  /\ outcome' = [outcome EXCEPT ![call] = "thrown"]
  /\ crashed' = TRUE

StampCrashes ==
  /\ pc = "stamp" /\ MaskThrows(req.loggable)
  /\ cfg' = cfg
  /\ Crash(<< >>)
  /\ UNCHANGED <<config, errorInfo, proxy, signKey, heap, locals, soapStatus, rep, resMap,
                 status, wire, object>>

HoldingOld(a) == IF a \in {"reply", "unloggable"} THEN call ELSE resMap  \* mutant
HoldingAny(a) == IF a # "none" THEN call ELSE 0                         \* mutant

\* What an answer leaves in the reply object: the reply if it is one, else nothing.
Holding(a) == IF a \in {"reply", "unloggable"} THEN call ELSE 0

\* recv_runTransaction: soap_default clears the reply object, then the answer is read.
\* An empty body is no error.
XmlReceive ==
  /\ pc = "receive" /\ answer[call] # "none"
  /\ soapStatus' = StatusOf[answer[call]]
  /\ rep' = IF answer[call] \in {"reply", "unloggable"} THEN answer[call] ELSE "none"
  /\ resMap' = Holding(answer[call])
  /\ pc' = "release"
  /\ UNCHANGED <<config, errorInfo, proxy, signKey, heap, journal, locals, cfg, status,
                 outcome, wire, object, crashed>>

\* The connection breaks when none, some or all of the reply is in the object.
XmlConnectionLost ==
  /\ pc = "receive"
  /\ soapStatus' = SOAP_EOF
  /\ resMap' \in {0, Holding(answer[call])}
  /\ pc' = "release"
  /\ UNCHANGED <<config, errorInfo, proxy, signKey, heap, journal, locals, cfg, rep, status,
                 outcome, wire, object, crashed>>

XmlSucceed ==
  /\ pc = "report" /\ soapStatus = SOAP_OK
  /\ ~MaskThrows(rep # "unloggable")
  /\ cfg' = cfg
  /\ Log(<<"SUCCESS", "REPLY">>)
  /\ End(IF rep # "none" THEN "answered" ELSE "acknowledged", soapStatus)
  /\ UNCHANGED <<config, errorInfo, proxy, signKey, heap, locals, soapStatus, rep, resMap,
                 wire, object, crashed>>

SucceedCrashes ==
  /\ pc = "report" /\ soapStatus = SOAP_OK
  /\ MaskThrows(rep # "unloggable")
  /\ cfg' = cfg
  /\ Crash(<<"SUCCESS">>)
  /\ UNCHANGED <<config, errorInfo, proxy, signKey, heap, locals, soapStatus, rep, resMap,
                 status, wire, object>>

\* The steps that NVPClient.cpp and XMLClient.cpp have in common.
CommonStep ==
  /\ \/ PrepareLog \/ PrepareLogFails \/ OpenKey \/ Parse \/ Sign \/ Encrypt \/ TlsContext
     \/ ConfigureFails \/ Stamp \/ Send \/ SendFails \/ Release \/ Fail
  /\ UNCHANGED <<object, crashed>>

cybs_runTransaction ==
  \/ CommonStep \/ XmlResolve \/ XmlRejectParameter \/ StampCrashes
  \/ XmlReceive \/ XmlSucceed \/ SucceedCrashes

\* The service may still execute what a merchant whose process is gone has sent.
XmlEnvironment ==
  \/ XmlBegin \/ XmlConnectionLost
  \/ ~crashed /\ Configure /\ UNCHANGED <<object, crashed>>
  \/ (\E n \in Calls : Execute(n) \/ Refuse(n)) /\ UNCHANGED <<object, crashed>>

XmlNext == cybs_runTransaction \/ XmlEnvironment

\* As in Transaction: the thread inside the library keeps running where it does not wait.
XmlSpec == XmlInit /\ [][XmlNext]_xmlVars /\ WF_xmlVars(pc \notin Waiting /\ cybs_runTransaction)
--------------------------------------------------------------------------------
XmlTypeOK ==
  /\ TypeOK
  /\ merchantID \in Sizes /\ namedBy \in 0..MaxCalls
  /\ reused \in BOOLEAN /\ crashed \in BOOLEAN

\* What the merchant prints as the reply of a call with status SOAP_OK (xml.cpp:121) is
\* that call's, of a payment that was executed, or blank: never what an earlier call left
\* in the object.
ReplyIsNotAnothers ==
  pc = "idle" /\ call # 0 /\ outcome[call] \in {"answered", "acknowledged"} =>
    /\ resMap = IF outcome[call] = "answered" THEN call ELSE 0
    /\ outcome[call] = "answered" => call \in executed

\* A retry with the same object is made for the same merchant, though the configuration
\* may name another by then: once an object bears a merchantID it keeps it, so that the
\* default key file and password are those of the merchant the request names.
RetryKeepsMerchant ==
  [][merchantID # "absent" /\ ~(call' # call /\ ~reused') => UNCHANGED <<merchantID, namedBy>>]_xmlVars

\* What the merchant may rely on is the same as for the name-value client, but that
\* the reply object is cleared.
XmlPayment == INSTANCE PaymentCall WITH
                fate <- outcome, dispatched <- {m.call : m \in sent}, held <- resMap,
                ClearsReply <- TRUE
XmlImplementsPaymentCall == XmlPayment!Spec
================================================================================
