------------------------------ MODULE Transaction ------------------------------
(***************************************************************************)
(* runTransaction of NVPClient.cpp: one merchant thread makes calls one    *)
(* after the other, all with the same proxy object, the same CybsMap and   *)
(* the same result map, and may cybs_add to the CybsMap between calls.     *)
(* The payment service and the network are the environment.                *)
(*                                                                         *)
(* Texts are abstracted to how they fit their buffers: "absent", "short",  *)
(* "full" (fills its buffer, and so overflows any path it is joined to) or *)
(* "over" (longer than its buffer).  A call number stands for the stack    *)
(* frame, the key material, the reply of that call.                        *)
(***************************************************************************)
EXTENDS Integers, Sequences

CONSTANTS MaxCalls,        \* bound: calls the merchant makes
          Texts, Flags,    \* configurations cybs_load_config may have loaded
          TextEdits,       \* <<key, size>> pairs the merchant may cybs_add
          FlagEdits,       \* <<key, value>> pairs the merchant may cybs_add
          Requests         \* requests the merchant makes

Calls == 1..MaxCalls

Sizes == {"absent", "short", "full", "over"}
FlagValues == {"absent", "true", "1", "false"}

ProxySettings == {"proxyPort", "proxyServer", "proxyPassword", "proxyUsername"}
TextKeys == {"logFilename", "logDirectory", "keysDirectory", "merchantID",
             "sslCertFile", "keyFilename", "password", "serverURL"} \union ProxySettings
FlagKeys == {"enableLog", "sendToProduction", "sendToAkamai", "useSignAndEncrypted"}

\* loggable: no field that must be masked is blank.
Request == [empty : BOOLEAN, merchantID : Sizes, loggable : BOOLEAN]

ASSUME CallsAssumption == MaxCalls \in Nat \ {0}
ASSUME ConfigAssumption ==
  /\ Texts \subseteq [TextKeys -> Sizes]
  /\ Flags \subseteq [FlagKeys -> FlagValues]
ASSUME EditAssumption ==   \* cybs_add is never called with a NULL value
  /\ TextEdits \subseteq TextKeys \X (Sizes \ {"absent"})
  /\ FlagEdits \subseteq FlagKeys \X (FlagValues \ {"absent"})
ASSUME RequestAssumption == Requests \subseteq Request /\ Requests # {}

CYBS_S_PRE_SEND_ERROR == 1

\* The status words of gSOAP that the service's answers and the network give.
SOAP_OK == 0
SOAP_CLI_FAULT == 1
SOAP_SVR_FAULT == 2
SOAP_FAULT == 12
SOAP_TCP_ERROR == 28
HTTP_STATUS == 500
SOAP_EOF == -1

VARIABLES text, flag,      \* the merchant's CybsMap: sizes of texts, values of flags
          errorInfo,       \* call that wrote _errorInfo into it last, 0 for none
          proxy,           \* soap fields: the call that wrote them, 0 for none
          signKey,         \* call whose private key the wsse plugin points to, 0 for none
          heap,            \* live OpenSSL objects
          journal,         \* log entries written for each call
          pc, call, req,   \* control point, number and request of the current call
          cfg,             \* the part of its local cfg that decides later steps
          encrypting,      \* an EncryptedKey was added for this call
          soapStatus, rep, \* what proxy->runTransaction returned
          resMap,          \* call whose reply the result map holds, 0 for none
          status, outcome, \* how each call ended
          sent,            \* requests that left the client
          executed,        \* calls the service executed
          answer           \* what the service answered to each

config == <<text, flag>>
locals == <<call, req, cfg, encrypting>>
wire   == <<sent, executed, answer>>
vars   == <<text, flag, errorInfo, proxy, signKey, heap, journal, pc, call, req, cfg,
            encrypting, soapStatus, rep, resMap, status, outcome, sent, executed, answer>>

\* What OpenSSL allocates for a call: the PKCS12 object, and what is parsed out of it.
Parsed == {"pkey", "cert", "ca"}
KeyMaterial == Parsed \union {"p12"}
Object == [kind : KeyMaterial, of : Calls]
Own(kinds) == [kind : kinds, of : {call}]

URLs == {"configured", "akamaiProd", "prod", "akamaiTest", "test"}
Answers == {"reply", "unloggable", "blank", "clientFault", "serverFault", "otherFault", "httpError"}

StatusOf == [a \in Answers |->
  CASE a = "clientFault" -> SOAP_CLI_FAULT
    [] a = "serverFault" -> SOAP_SVR_FAULT
    [] a = "otherFault"  -> SOAP_FAULT
    [] a = "httpError"   -> HTTP_STATUS
    [] OTHER             -> SOAP_OK]
--------------------------------------------------------------------------------
Init ==
  /\ text \in Texts /\ flag \in Flags /\ errorInfo = 0
  /\ proxy = [s \in ProxySettings \union {"endpoint"} |-> 0]
  /\ signKey = 0
  /\ heap = {}
  /\ journal = [n \in Calls |-> << >>]
  /\ pc = "idle" /\ call = 0 /\ req = CHOOSE r \in Requests : TRUE
  /\ cfg = [isLogEnabled |-> FALSE, isEncryptionEnabled |-> FALSE, serverURL |-> "test"]
  /\ encrypting = FALSE
  /\ soapStatus = SOAP_OK /\ rep = "none"
  /\ resMap = 0
  /\ status = [n \in Calls |-> SOAP_OK]
  /\ outcome = [n \in Calls |-> "none"]
  /\ sent = {} /\ executed = {}
  /\ answer = [n \in Calls |-> "none"]

flagValue(v) == v \in {"true", "1"}             \* cybs_flag_value

LogOverwrites(entries) ==                                               \* mutant
  journal' = IF cfg'.isLogEnabled
             THEN [journal EXCEPT ![call] = entries] ELSE journal

\* cybs_log, and the several entries of one step; the file is LogFile's business.
Log(entries) ==
  journal' = IF cfg'.isLogEnabled
             THEN [journal EXCEPT ![call] = @ \o entries] ELSE journal

End(how, code) ==
  /\ pc' = "idle"
  /\ outcome' = [outcome EXCEPT ![call] = how]
  /\ status' = [status EXCEPT ![call] = code]

ReturnErrorAddedOnce ==                                                 \* mutant
  /\ errorInfo' = IF errorInfo = 0 THEN call ELSE errorInfo
  /\ Log(<<"ERROR">>)
  /\ End("rejected", CYBS_S_PRE_SEND_ERROR)

\* The macro RETURN_ERROR, and those that expand to it.
ReturnError ==
  /\ errorInfo' = call
  /\ Log(<<"ERROR">>)
  /\ End("rejected", CYBS_S_PRE_SEND_ERROR)

-------------------------------- (* the merchant *) -----------------------------
\* The merchant sets a configuration value between two calls.
Configure ==
  /\ pc = "idle"
  /\ \/ \E e \in TextEdits : text' = [text EXCEPT ![e[1]] = e[2]] /\ flag' = flag
     \/ \E e \in FlagEdits : flag' = [flag EXCEPT ![e[1]] = e[2]] /\ text' = text
  /\ UNCHANGED <<errorInfo, proxy, signKey, heap, journal, pc, locals, cfg, soapStatus,
                 rep, resMap, status, outcome, wire>>

\* The merchant calls runTransaction, which clears its locals.
BeginWith(request) ==
  /\ pc = "idle" /\ call < MaxCalls
  /\ call' = call + 1
  /\ req' = request
  /\ cfg' = [isLogEnabled |-> FALSE, isEncryptionEnabled |-> FALSE, serverURL |-> "test"]
  /\ encrypting' = FALSE /\ rep' = "none" /\ soapStatus' = SOAP_OK
  /\ outcome' = [outcome EXCEPT ![call'] = "open"]
  /\ pc' = "log"
  /\ UNCHANGED <<config, errorInfo, proxy, signKey, heap, journal, resMap, status, wire>>

Begin == \E request \in Requests : BeginWith(request)

----------------------------- (* before the request is sent *) ------------------
\* getKeyFilePath refuses a path longer than CYBS_MAX_PATH; defaults are short.
PathFits(dir, file) == {dir, file} \subseteq {"absent", "short"}

\* The log file is prepared when logging is on; a default name or directory is short.
PrepareLog ==
  /\ pc = "log"
  /\ cfg' = [cfg EXCEPT !.isLogEnabled = flagValue(flag["enableLog"])]
  /\ cfg'.isLogEnabled => PathFits(text["logDirectory"], text["logFilename"])
  /\ pc' = "check"
  /\ UNCHANGED <<config, errorInfo, proxy, signKey, heap, journal, call, req, encrypting,
                 soapStatus, rep, resMap, status, outcome, wire>>

\* The path is too long, or cybs_prepare_log fails (its file system may always fail).
PrepareLogFails ==
  /\ pc = "log" /\ flagValue(flag["enableLog"])
  /\ cfg' = [cfg EXCEPT !.isLogEnabled = TRUE]
  /\ ReturnError
  /\ UNCHANGED <<config, proxy, signKey, heap, call, req, encrypting, soapStatus, rep,
                 resMap, wire>>

ConfigEmpty == /\ \A k \in TextKeys : text[k] = "absent"
               /\ \A k \in FlagKeys : flag[k] = "absent"
               /\ errorInfo = 0

\* The request's merchantID, or the one of the configuration.
MerchantID == IF req.merchantID = "absent" THEN text["merchantID"] ELSE req.merchantID

\* What is looked at, in the order of the code.
Parameters == <<"config", "request", "keysDirectory", "merchantID", "sslCertFile",
                "keyFilename", "password", "proxyPort", "proxyServer", "proxyPassword",
                "proxyUsername", "serverURL">>

\* The conditions of the RETURN_ERRORs.  A default keyFilename or password is the
\* merchantID, which has passed; a default sslCertFile is joined to keysDirectory.
Refused(p) ==
  \/ p = "config" /\ ConfigEmpty
  \/ p = "request" /\ req.empty
  \/ p = "keysDirectory" /\ text[p] = "absent"
  \/ p = "merchantID" /\ MerchantID \in {"absent", "over"}
  \/ p = "sslCertFile" /\ \/ text[p] = "over"
                          \/ text[p] = "absent" /\ ~PathFits(text["keysDirectory"], "short")
  \/ p = "keyFilename" /\ ~PathFits(text["keysDirectory"], text[p])
  \/ p \in {"password", "proxyServer", "proxyPassword", "proxyUsername", "serverURL"}
     /\ text[p] = "over"

ProxySetOnce(n) ==                                                      \* mutant
  [s \in DOMAIN proxy |->
     IF proxy[s] = 0 /\ (\E i \in 1..n : Parameters[i] = s /\ text[s] # "absent")
     THEN call ELSE proxy[s]]

\* proxy after the settings among the first n parameters have been copied to it.
ProxyAfter(n) ==
  [s \in DOMAIN proxy |->
     IF \E i \in 1..n : Parameters[i] = s /\ s \in ProxySettings /\ text[s] # "absent"
     THEN call ELSE proxy[s]]

ServerURLWithoutDefault == IF text["serverURL"] = "absent" THEN "" ELSE "configured"  \* mutant
ServerURLProductionFirst ==                                             \* mutant
  IF flag["sendToProduction"] = "true" THEN "prod"
  ELSE IF text["serverURL"] # "absent" THEN "configured" ELSE "test"

\* serverURL takes precedence; only the word true selects production.
ServerURL ==
  LET production == flag["sendToProduction"] = "true"
      akamai == flagValue(flag["sendToAkamai"])
  IN  CASE text["serverURL"] # "absent" -> "configured"
        [] text["serverURL"] = "absent" /\ production /\ akamai -> "akamaiProd"
        [] text["serverURL"] = "absent" /\ production /\ ~akamai -> "prod"
        [] text["serverURL"] = "absent" /\ ~production /\ akamai -> "akamaiTest"
        [] OTHER -> "test"

\* Every parameter is accepted.
Resolve ==
  /\ pc = "check"
  /\ \A i \in DOMAIN Parameters : ~Refused(Parameters[i])
  /\ proxy' = ProxyAfter(Len(Parameters))
  /\ cfg' = [cfg EXCEPT !.serverURL = ServerURL,
                        !.isEncryptionEnabled = flagValue(flag["useSignAndEncrypted"])]
  /\ pc' = "open"
  /\ UNCHANGED <<config, errorInfo, signKey, heap, journal, call, req, encrypting,
                 soapStatus, rep, resMap, status, outcome, wire>>

\* The first refused parameter ends the call; earlier proxy settings stay set.
RejectParameter ==
  /\ pc = "check"
  /\ \E i \in DOMAIN Parameters :
       /\ Refused(Parameters[i])
       /\ \A j \in 1..(i - 1) : ~Refused(Parameters[j])
       /\ proxy' = ProxyAfter(i - 1)
  /\ cfg' = cfg
  /\ ReturnError
  /\ UNCHANGED <<config, signKey, heap, call, req, encrypting, soapStatus, rep, resMap, wire>>

-------------------------------- (* configure() *) ------------------------------
CleanupForgetsChain == heap' = heap \ Own(Parsed \ {"ca"})              \* mutant

\* opensslCleanup frees what PKCS12_parse returned.  It is not given the PKCS12 object.
opensslCleanup == heap' = heap \ Own(Parsed)

\* The key file opens; d2i_PKCS12_bio gives an object, or NULL for a corrupt file,
\* which `if (!p12)` does not see: it tests the address of the pointer.
OpenKey ==
  /\ pc = "open"
  /\ heap' \in {heap, heap \union Own({"p12"})}
  /\ pc' = "parse"
  /\ UNCHANGED <<config, errorInfo, proxy, signKey, journal, locals, cfg, soapStatus, rep,
                 resMap, status, outcome, wire>>

\* PKCS12_parse succeeds: it gives a certificate, and the private key and the chain
\* that the file holds.  The PKCS12 object is freed.
Parse ==
  /\ pc = "parse" /\ Own({"p12"}) \subseteq heap
  /\ \E found \in SUBSET {"pkey", "ca"} :
       heap' = (heap \ Own({"p12"})) \union Own({"cert"} \union found)
  /\ pc' = "sign"
  /\ UNCHANGED <<config, errorInfo, proxy, signKey, journal, locals, cfg, soapStatus, rep,
                 resMap, status, outcome, wire>>

SignWithPluginKey ==                                                    \* mutant
  /\ pc = "sign" /\ Own({"pkey"}) \subseteq heap
  /\ signKey' = IF signKey = 0 THEN call ELSE signKey
  /\ pc' = IF cfg.isEncryptionEnabled THEN "encrypt" ELSE "tls"
  /\ UNCHANGED <<config, errorInfo, proxy, heap, journal, locals, cfg, soapStatus, rep,
                 resMap, status, outcome, wire>>

\* The wsse plugin stores a pointer to the private key, and refuses a NULL one.
Sign ==
  /\ pc = "sign" /\ Own({"pkey"}) \subseteq heap
  /\ signKey' = call
  /\ pc' = IF cfg.isEncryptionEnabled THEN "encrypt" ELSE "tls"
  /\ UNCHANGED <<config, errorInfo, proxy, heap, journal, locals, cfg, soapStatus, rep,
                 resMap, status, outcome, wire>>

\* An EncryptedKey is added for each certificate of the chain that bears the server's
\* name; a chain without one is passed over in silence.
Encrypt ==
  /\ pc = "encrypt"
  /\ encrypting' \in IF Own({"ca"}) \subseteq heap THEN BOOLEAN ELSE {FALSE}
  /\ pc' = "tls"
  /\ UNCHANGED <<config, errorInfo, proxy, signKey, heap, journal, call, req, cfg,
                 soapStatus, rep, resMap, status, outcome, wire>>

TlsContext ==
  /\ pc = "tls"
  /\ pc' = "stamp"
  /\ UNCHANGED <<config, errorInfo, proxy, signKey, heap, journal, locals, cfg, soapStatus,
                 rep, resMap, status, outcome, wire>>

\* A step of configure() fails: its five codes, and one clean-up for all of them.  When it
\* is PKCS12_parse that fails, the return passes over the PKCS12_free behind it.
ConfigureFails ==
  /\ \/ pc \in {"open", "parse", "sign", "tls"}
     \/ pc = "encrypt" /\ Own({"ca"}) \subseteq heap
  /\ opensslCleanup
  /\ cfg' = cfg
  /\ ReturnError
  /\ UNCHANGED <<config, proxy, signKey, locals, soapStatus, rep, resMap, wire>>

------------------------- (* the exchange with the service *) -------------------
\* Masking an empty value of a field that is not safe to log throws.
MaskThrows(loggable) == cfg.isLogEnabled /\ ~loggable

\* The client stamps are put in, the request is logged, the endpoint set and logged.
Stamp ==
  /\ pc = "stamp" /\ ~MaskThrows(req.loggable)
  /\ cfg' = cfg
  /\ Log(<<"REQUEST", "CONFIG">>)
  /\ proxy' = [proxy EXCEPT !["endpoint"] = call]
  /\ pc' = "send"
  /\ UNCHANGED <<config, errorInfo, signKey, heap, locals, soapStatus, rep, resMap,
                 status, outcome, wire>>

\* The exception leaves runTransaction at once: no _errorInfo, no clean-up.
StampThrows ==
  /\ pc = "stamp" /\ MaskThrows(req.loggable)
  /\ pc' = "idle"
  /\ outcome' = [outcome EXCEPT ![call] = "thrown"]
  /\ UNCHANGED <<config, errorInfo, proxy, signKey, heap, journal, locals, cfg, soapStatus,
                 rep, resMap, status, wire>>

Message == [call |-> call, to |-> cfg.serverURL, encrypted |-> encrypting]

\* send_runTransaction: the whole request is signed and sent; the plugin then
\* forgets the key.
Send ==
  /\ pc = "send"
  /\ sent' = sent \union {Message}
  /\ signKey' = 0
  /\ pc' = "receive"
  /\ UNCHANGED <<config, errorInfo, proxy, heap, journal, locals, cfg, soapStatus, rep,
                 resMap, status, outcome, executed, answer>>

\* The connection cannot be opened, or breaks before or just after the request is out.
SendFails ==
  /\ pc = "send"
  /\ soapStatus' \in {SOAP_TCP_ERROR, SOAP_EOF}
  /\ sent' \in {sent, sent \union {Message}}
  /\ signKey' \in {signKey, 0}
  /\ pc' = "release"
  /\ UNCHANGED <<config, errorInfo, proxy, heap, journal, locals, cfg, rep, resMap,
                 status, outcome, executed, answer>>

\* The service executes a payment and answers, or fails to answer properly.
Execute(n) ==
  /\ \E m \in sent : m.call = n
  /\ answer[n] = "none"
  /\ executed' = executed \union {n}
  /\ \E a \in Answers \ {"clientFault"} : answer' = [answer EXCEPT ![n] = a]
  /\ UNCHANGED <<config, errorInfo, proxy, signKey, heap, journal, pc, locals, cfg,
                 soapStatus, rep, resMap, status, outcome, sent>>

\* The service, or something on the way to it, turns a request down.
Refuse(n) ==
  /\ \E m \in sent : m.call = n
  /\ answer[n] = "none"
  /\ \E a \in Answers \ {"reply", "unloggable"} : answer' = [answer EXCEPT ![n] = a]
  /\ UNCHANGED <<config, errorInfo, proxy, signKey, heap, journal, pc, locals, cfg,
                 soapStatus, rep, resMap, status, outcome, sent, executed>>

\* recv_runTransaction: the answer is read from the call's own connection.
Receive ==
  /\ pc = "receive" /\ answer[call] # "none"
  /\ soapStatus' = StatusOf[answer[call]]
  /\ rep' = IF answer[call] \in {"reply", "unloggable"} THEN answer[call] ELSE "none"
  /\ pc' = "release"
  /\ UNCHANGED <<config, errorInfo, proxy, signKey, heap, journal, locals, cfg, resMap,
                 status, outcome, wire>>

\* The connection breaks before the answer is read; there is no receive timeout.
ConnectionLost ==
  /\ pc = "receive"
  /\ soapStatus' = SOAP_EOF
  /\ pc' = "release"
  /\ UNCHANGED <<config, errorInfo, proxy, signKey, heap, journal, locals, cfg, rep,
                 resMap, status, outcome, wire>>

\* The key material is freed, whatever the exchange gave.
Release ==
  /\ pc = "release"
  /\ opensslCleanup
  /\ pc' = "report"
  /\ UNCHANGED <<config, errorInfo, proxy, signKey, journal, locals, cfg, soapStatus, rep,
                 resMap, status, outcome, wire>>

----------------------------- (* the end of the call *) -------------------------
TakeReplyOnce == resMap' = IF rep # "none" /\ resMap = 0 THEN call ELSE resMap  \* mutant
TakeReplyAlways == resMap' = call                                       \* mutant
TakeReplyUnchecked == rep # "none" /\ resMap' = call                    \* mutant

\* A reply is put in the result map; without one the map stays as it is.
TakeReply == resMap' = IF rep # "none" THEN call ELSE resMap

\* cybs_log_NVP writes the result map, and throws on a blank secret in it.
ReplyThrows == MaskThrows(resMap' = 0 \/ answer[resMap'] # "unloggable")

Succeed ==
  /\ pc = "report" /\ soapStatus = SOAP_OK
  /\ TakeReply
  /\ ~ReplyThrows
  /\ cfg' = cfg
  /\ Log(<<"SUCCESS", "REPLY">>)
  /\ End(IF rep # "none" THEN "answered" ELSE "acknowledged", soapStatus)
  /\ UNCHANGED <<config, errorInfo, proxy, signKey, heap, locals, soapStatus, rep, wire>>

SucceedThrows ==
  /\ pc = "report" /\ soapStatus = SOAP_OK
  /\ TakeReply
  /\ ReplyThrows
  /\ cfg' = cfg
  /\ Log(<<"SUCCESS">>)
  /\ pc' = "idle"
  /\ outcome' = [outcome EXCEPT ![call] = "thrown"]
  /\ UNCHANGED <<config, errorInfo, proxy, signKey, heap, locals, soapStatus, rep, status,
                 wire>>

\* The status of gSOAP is the status of runTransaction; _errorInfo is not written.  The
\* fault string is logged if there is one: gSOAP has none for a connection that closed.
Fail ==
  /\ pc = "report" /\ soapStatus # SOAP_OK
  /\ cfg' = cfg
  /\ Log(<<"ERROR">>) \/ Log(<< >>)
  /\ End("failed", soapStatus)
  /\ UNCHANGED <<config, errorInfo, proxy, signKey, heap, locals, soapStatus, rep, resMap,
                 wire>>

--------------------------------------------------------------------------------
\* The steps runTransaction takes by itself, and those of its environment.
RunTransaction ==
  \/ PrepareLog \/ PrepareLogFails \/ Resolve \/ RejectParameter
  \/ OpenKey \/ Parse \/ Sign \/ Encrypt \/ TlsContext \/ ConfigureFails
  \/ Stamp \/ StampThrows \/ Send \/ SendFails \/ Receive \/ Release
  \/ Succeed \/ SucceedThrows \/ Fail

Environment == \/ Configure \/ Begin \/ ConnectionLost
               \/ \E n \in Calls : Execute(n) \/ Refuse(n)

Next == RunTransaction \/ Environment

\* Where a call waits for the network: no timeout is set for the connection, the handshake
\* of TLS, the sending or the receiving, and each may block for ever.
Waiting == {"send", "receive"}

\* The thread that is in runTransaction keeps running where it does not wait; nothing is
\* assumed of the merchant, the network or the service.
Fairness == WF_vars(pc \notin Waiting /\ RunTransaction)

Spec == Init /\ [][Next]_vars /\ Fairness
--------------------------------------------------------------------------------
Returned == {"rejected", "answered", "acknowledged", "failed"}

TypeOK ==
  /\ text \in [TextKeys -> Sizes] /\ flag \in [FlagKeys -> FlagValues]
  /\ errorInfo \in 0..MaxCalls /\ call \in 0..MaxCalls
  /\ proxy \in [ProxySettings \union {"endpoint"} -> 0..MaxCalls]
  /\ signKey \in 0..MaxCalls /\ resMap \in 0..MaxCalls
  /\ heap \subseteq Object
  /\ journal \in [Calls -> Seq({"REQUEST", "CONFIG", "SUCCESS", "REPLY", "ERROR"})]
  /\ pc \in {"idle", "log", "check", "open", "parse", "sign", "encrypt", "tls", "stamp",
             "send", "receive", "release", "report"}
  /\ req \in Request
  /\ cfg \in [isLogEnabled : BOOLEAN, isEncryptionEnabled : BOOLEAN, serverURL : URLs]
  /\ encrypting \in BOOLEAN
  /\ soapStatus \in Int /\ rep \in {"none", "reply", "unloggable"}
  /\ status \in [Calls -> Int]
  /\ outcome \in [Calls -> {"none", "open", "thrown"} \union Returned]
  /\ sent \subseteq [call : Calls, to : URLs, encrypted : BOOLEAN]
  /\ executed \subseteq Calls
  /\ answer \in [Calls -> Answers \union {"none"}]

\* A request goes where the README says (README.md:76-80): to serverURL whenever there
\* is one, else to production only when sendToProduction asks for it, and through
\* Akamai only when sendToAkamai does.
EndpointIsAsConfigured ==
  pc = "send" =>
    /\ cfg.serverURL = "configured" <=> text["serverURL"] # "absent"
    /\ cfg.serverURL \in {"akamaiProd", "prod"} => flag["sendToProduction"] = "true"
    /\ cfg.serverURL \in {"akamaiProd", "akamaiTest"} => flag["sendToAkamai"] \in {"true", "1"}

\* However a call returns, what PKCS12_parse gave it has been freed; only a call left by an
\* exception keeps some.  The PKCS12 object is freed once it is parsed, and is left behind
\* by a refused call whose key file could not be parsed (NVPClient.cpp:335-342), by no other.
KeyMaterialReleased ==
  /\ pc = "idle" =>
       \A o \in heap : outcome[o.of] = IF o.kind = "p12" THEN "rejected" ELSE "thrown"
  /\ pc \notin {"idle", "parse"} => Own({"p12"}) \intersect heap = {}

\* When the request is signed, the key the plugin points to is that of this call,
\* and it has not been freed, whatever earlier calls left in the plugin.
SignsWithLiveKey ==
  pc = "send" => signKey = call /\ Own({"pkey"}) \subseteq heap

\* When the connection is opened, every string the proxy object points to lies in
\* the frame of this call, whatever earlier calls, accepted or refused, left there.
TransportIsOfThisCall ==
  pc = "send" => \A s \in DOMAIN proxy : proxy[s] \in {0, call}

\* The outcome a merchant sees says what happened: a refused call's request never
\* left the client, now or later; an answered one was executed, and the reply the
\* merchant holds is its own.
OutcomeIsTrue ==
  /\ \A n \in Calls : outcome[n] = "rejected" => \A m \in sent : m.call # n
  /\ \A n \in Calls : outcome[n] = "answered" => n \in executed /\ status[n] = SOAP_OK
  /\ pc = "idle" /\ call # 0 /\ outcome[call] = "answered" => resMap = call

\* With logging on, a payment the service has executed is on record: its request
\* and its endpoint were logged before anything else, and its end after them.
ExecutedIsOnRecord ==
  call \in executed /\ cfg.isLogEnabled =>
    \E end \in {<< >>, <<"SUCCESS">>, <<"SUCCESS", "REPLY">>, <<"ERROR">>} :
      journal[call] = <<"REQUEST", "CONFIG">> \o end

\* _errorInfo is of the last call that was refused before its request was sent.
ErrorInfoIsOfLastRefusal ==
  /\ errorInfo # 0 => outcome[errorInfo] = "rejected"
  /\ \A n \in Calls : outcome[n] = "rejected" => n <= errorInfo

\* A call that has begun ends, unless it waits for the network: whatever the exchange gave,
\* the steps before and after it all come to an end.
CallSettles ==
  \A n \in Calls : outcome[n] = "open" ~> (outcome[n] # "open" \/ pc \in Waiting)

\* What the merchant may rely on.
Payment == INSTANCE PaymentCall WITH
             fate <- outcome, dispatched <- {m.call : m \in sent}, held <- resMap,
             ClearsReply <- FALSE
ImplementsPaymentCall == Payment!Spec

\* The README: with useSignAndEncrypted "the request will be both signed as well as
\* encrypted" (README.md:74).
EncryptsWhenAsked ==
  [][\A m \in sent' \ sent : cfg.isEncryptionEnabled => m.encrypted]_vars
================================================================================
