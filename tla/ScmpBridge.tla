------------------------------- MODULE ScmpBridge -------------------------------
(***************************************************************************)
(* processRequest of ics_util.cpp: an SCMP message becomes a Simple Order  *)
(* request, cybs.ini is loaded, runTransaction is called, and what it has  *)
(* put into the result map becomes the SCMP response.                      *)
(*                                                                         *)
(* Of runTransaction this module takes what PaymentCall says, which        *)
(* Transaction implements, and adds what PaymentCall leaves out: the paths *)
(* it opens files by, and the text of the request and of the reply.  The   *)
(* other values of the configuration are the business of Transaction.      *)
(***************************************************************************)
EXTENDS ConfigLoader, NvpCodec, Paths, ScmpConversion

CONSTANTS Messages,                  \* SCMP requests
          Inis,                      \* contents of cybs.ini, as sequences of lines
          RequestTable, AppTable, ResponseTable,  \* lines of the .properties files
          Replies,                   \* texts the service answers
          Uninitialized,             \* what szDest may hold at first
          Missing                    \* sets of the .properties files that cannot be opened

\* A text that the program reads holds no terminator, and a line no newline.
CText == Seq(STRING \ {NUL})
LineText == Seq(STRING \ {NUL, "\n"})

ASSUME BridgeAssumption ==
  /\ Uninitialized \subseteq Buffers(STRING)
  /\ Inis \subseteq Seq(LineText)
  /\ RequestTable \in Seq(LineText) /\ AppTable \in Seq(LineText)
  /\ Messages \subseteq Seq([name : CText, value : CText])
  /\ Replies \subseteq CText

VARIABLES message, ini, missing,     \* the inputs
          pc, done,                  \* control point; fields or lines dealt with so far
          soRequest, cfgMap, resMap, \* the maps
          szDest, certPath, keyPath, \* the buffer, and the paths built in it
          wireText, received,        \* the request as it was sent, and as the service read it
          replyText,                 \* the text the service answered
          response, ended,           \* what processRequest gave, and how it ended
          fate, dispatched, executed, held  \* as in PaymentCall

inputs  == <<message, ini, missing>>
maps    == <<soRequest, cfgMap, resMap>>
paths   == <<szDest, certPath, keyPath>>
texts   == <<wireText, received, replyText>>
payment == <<fate, dispatched, executed, held>>
vars == <<message, ini, missing, pc, done, soRequest, cfgMap, resMap, szDest, certPath, keyPath,
          wireText, received, replyText, response, ended, fate, dispatched, executed, held>>

\* The maps that the tables make.
RequestMap == Properties(RequestTable)
AppMap == Properties(AppTable)
ResponseMap == Properties(ResponseTable)

Payment == INSTANCE PaymentCall WITH Calls <- {1}, ClearsReply <- FALSE
theCall == 1

Init ==
  /\ message \in Messages /\ ini \in Inis /\ missing \in Missing
  /\ pc = "convert" /\ done = 0
  /\ soRequest = NoPairs /\ cfgMap = NoPairs /\ resMap = NoPairs
  /\ szDest \in Uninitialized /\ certPath = << >> /\ keyPath = << >>
  /\ wireText = << >> /\ received = {} /\ replyText = << >>
  /\ response = {} /\ ended = "no"
  /\ Payment!Init

\* An exception leaves processRequest: no response, and nothing is freed.
Throw == /\ pc' = "done" /\ ended' = "thrown" /\ UNCHANGED <<done, response>>

------------------------ (* the request and the configuration *) ---------------
\* One field of the message.  A table that is needed is there.
Convert ==
  /\ pc = "convert" /\ done < Len(message)
  /\ "request" \notin missing
  /\ LET field == message[done + 1]
     IN  /\ field.name = <<"ics_applications">> => "applications" \notin missing
         /\ \E pairs \in {Pairs(field, RequestMap, AppMap)} : soRequest' = WithPairs(soRequest, pairs)
  /\ done' = done + 1
  /\ UNCHANGED <<inputs, pc, cfgMap, resMap, paths, texts, response, ended, payment>>

\* loadPropertiesFile throws; the table of the applications is loaded when it is needed.
ConvertThrows ==
  /\ pc = "convert"
  /\ \/ "request" \in missing
     \/ /\ "applications" \in missing
        /\ done < Len(message) /\ message[done + 1].name = <<"ics_applications">>
  /\ Throw
  /\ UNCHANGED <<inputs, maps, paths, texts, payment>>

ConvertedKeepsPlace ==                                                  \* mutant
  /\ pc = "convert" /\ done = Len(message) /\ "request" \notin missing
  /\ pc' = "load" /\ UNCHANGED <<done, inputs, maps, paths, texts, response, ended, payment>>

Converted ==
  /\ pc = "convert" /\ done = Len(message) /\ "request" \notin missing
  /\ pc' = "load" /\ done' = 0
  /\ UNCHANGED <<inputs, maps, paths, texts, response, ended, payment>>

LoadStaysAtComment ==                                                   \* mutant
  /\ pc = "load" /\ done < Len(ini)
  /\ ~LineThrows(ini[done + 1]) /\ IsPair(ini[done + 1])
  /\ cfgMap' = LoadLine(ini[done + 1], cfgMap)
  /\ done' = done + 1
  /\ UNCHANGED <<inputs, pc, soRequest, resMap, paths, texts, response, ended, payment>>

\* One line of cybs.ini; a file that does not open has none.
Load ==
  /\ pc = "load" /\ done < Len(ini)
  /\ ~LineThrows(ini[done + 1])
  /\ cfgMap' = LoadLine(ini[done + 1], cfgMap)
  /\ done' = done + 1
  /\ UNCHANGED <<inputs, pc, soRequest, resMap, paths, texts, response, ended, payment>>

LoadThrows ==
  /\ pc = "load" /\ done < Len(ini)
  /\ LineThrows(ini[done + 1])
  /\ Throw
  /\ UNCHANGED <<inputs, maps, paths, texts, payment>>

Loaded ==
  /\ pc = "load" /\ done = Len(ini)
  /\ pc' = "log" /\ done' = 0
  /\ Payment!Begin(theCall)
  /\ UNCHANGED <<inputs, maps, paths, texts, response, ended>>

------------------------------ (* runTransaction *) -----------------------------
Has(key) == <<key>> \in DOMAIN cfgMap
Get(key) == cfgMap[<<key>>]

\* The log is on: its path is the first that is built in szDest.
LogIsOn == Has("enableLog") /\ Get("enableLog") \in {<<"true">>, <<"1">>}
LogDirectory == IF Has("logDirectory") THEN Get("logDirectory") ELSE <<DIR_SEPARATOR>>
LogFilename == IF Has("logFilename") THEN Get("logFilename") ELSE <<"cybs.log">>

\* getKeyFilePath within szDest, and beyond it; more is what another buffer takes behind it.
Build(dir, file, ext, more) ==
  \E add \in AddSeparator(dir) :
    /\ Fits(dir, add, file, ext) /\ ~Overruns(szDest, dir, add, file)
    /\ szDest' = getKeyFilePath(szDest, dir, add, file)
    /\ Len(CString(szDest')) + Len(more) <= CYBS_MAX_PATH
BuildOverruns(dir, file, ext, more) ==
  \E add \in AddSeparator(dir) :
    /\ Fits(dir, add, file, ext)
    /\ \/ Overruns(szDest, dir, add, file)
       \/ Len(CString(getKeyFilePath(szDest, dir, add, file))) + Len(more) > CYBS_MAX_PATH

PrepareLog ==
  /\ pc = "log"
  /\ IF LogIsOn THEN Build(LogDirectory, LogFilename, << >>, << >>) ELSE szDest' = szDest
  /\ pc' = "check"
  /\ UNCHANGED <<inputs, done, maps, certPath, keyPath, texts, response, ended, payment>>

\* The merchantID that the request ends up with.
MerchantID == IF <<"merchantID">> \in DOMAIN soRequest THEN soRequest[<<"merchantID">>]
              ELSE Get("merchantID")

\* ".p12" is in the name of the key file, and counted once more.
KeyFilename == IF Has("keyFilename") THEN Get("keyFilename") ELSE MerchantID \o <<".p12">>

\* What is required is there.
IsComplete ==
  /\ DOMAIN cfgMap # {} /\ DOMAIN soRequest # {} /\ Has("keysDirectory")
  /\ <<"merchantID">> \in DOMAIN soRequest \/ Has("merchantID")

\* A configured bundle is taken as it is; ".crt" is counted and then put to the default, in
\* cfg.sslCertFile, which has one cell more than szDest.
CERT_EXT == <<".", "crt">>
CertPath ==
  /\ pc = "check" /\ IsComplete
  /\ IF Has("sslCertFile")
     THEN certPath' = Get("sslCertFile") /\ szDest' = szDest
     ELSE /\ Build(Get("keysDirectory"), <<"ca-bundle">>, CERT_EXT, CERT_EXT)
          /\ certPath' = CString(szDest') \o CERT_EXT
  /\ pc' = "key"
  /\ UNCHANGED <<inputs, done, maps, keyPath, texts, response, ended, payment>>

\* ".p12" is counted, though it is in the name already.
KeyPath ==
  /\ pc = "key"
  /\ Build(Get("keysDirectory"), KeyFilename, <<".p12">>, << >>)
  /\ keyPath' = CString(szDest')
  /\ pc' = "call"
  /\ UNCHANGED <<inputs, done, maps, certPath, texts, response, ended, payment>>

\* A path is written behind its buffer.  What comes of that nobody knows: the model stops.
PathOverruns ==
  /\ \/ pc = "log" /\ LogIsOn /\ BuildOverruns(LogDirectory, LogFilename, << >>, << >>)
     \/ /\ pc = "check" /\ IsComplete /\ ~Has("sslCertFile")
        /\ BuildOverruns(Get("keysDirectory"), <<"ca-bundle">>, CERT_EXT, CERT_EXT)
     \/ pc = "key" /\ BuildOverruns(Get("keysDirectory"), KeyFilename, <<".p12">>, << >>)
  /\ pc' = "overrun"
  /\ UNCHANGED <<inputs, done, maps, paths, texts, response, ended, payment>>

\* RETURN_ERROR: a value is missing or too long, or something that is not modelled here.
\* The status is not looked at.
Reject ==
  /\ pc \in {"log", "check", "key", "call"}
  /\ Payment!Reject(theCall)
  /\ pc' = "respond"
  /\ UNCHANGED <<inputs, done, maps, paths, texts, response, ended>>

\* Masking throws before the request is out.
MaskThrows ==
  /\ pc = "call" /\ LogIsOn
  /\ Payment!Throw(theCall)
  /\ Throw
  /\ UNCHANGED <<inputs, maps, paths, texts>>

\* The request as it goes out: with a merchantID and the stamps of the client.
Stamps == Put(NoPairs, <<"clientLibrary">>, <<"CPP">>)
Outgoing == Over(Stamps, Put(soRequest, <<"merchantID">>, MerchantID))

Dispatch ==
  /\ pc = "call"
  /\ Payment!Dispatch(theCall)
  /\ wireText' = convertMaptoString(Outgoing)
  /\ pc' = "exchange"
  /\ UNCHANGED <<inputs, done, maps, paths, received, replyText, response, ended>>

\* The service executes what it reads: every line of the text.
Execute ==
  /\ Payment!Execute(theCall)
  /\ received' = Lines(wireText)
  /\ UNCHANGED <<inputs, pc, done, maps, paths, wireText, replyText, response, ended>>

\* A reply comes, and is put into the map that was empty; logging it may throw.
Answer ==
  /\ pc = "exchange"
  /\ Payment!Answer(theCall)
  /\ replyText' \in Replies
  /\ resMap' = convertStringtoMap(replyText')
  /\ IF fate'[theCall] = "thrown" THEN LogIsOn /\ Throw
     ELSE pc' = "respond" /\ UNCHANGED <<done, response, ended>>
  /\ UNCHANGED <<inputs, soRequest, cfgMap, paths, wireText, received>>

\* A success without a reply, or a failure: the map stays empty.
NoAnswer ==
  /\ pc = "exchange"
  /\ Payment!Acknowledge(theCall) \/ Payment!Fail(theCall)
  /\ fate'[theCall] # "thrown"
  /\ pc' = "respond"
  /\ UNCHANGED <<inputs, done, maps, paths, texts, response, ended>>

--------------------------- (* the SCMP response *) -----------------------------
Respond ==
  /\ pc = "respond"
  /\ "response" \notin missing
  /\ response' = Response(resMap, ResponseMap)
  /\ ended' = "returned" /\ pc' = "done"
  /\ UNCHANGED <<inputs, done, maps, paths, texts, payment>>

\* The table of the response is not missed before the payment has been made.
RespondThrows ==
  /\ pc = "respond"
  /\ "response" \in missing
  /\ Throw
  /\ UNCHANGED <<inputs, maps, paths, texts, payment>>

--------------------------------------------------------------------------------
processRequest ==
  \/ Convert \/ ConvertThrows \/ Converted \/ Load \/ LoadThrows \/ Loaded
  \/ PrepareLog \/ CertPath \/ KeyPath \/ PathOverruns \/ Reject \/ MaskThrows \/ Dispatch
  \/ Respond \/ RespondThrows

\* What the service and the network do.
Environment == Execute \/ Answer \/ NoAnswer

Next == processRequest \/ Environment

\* The thread that is in processRequest keeps running, but where it calls the service:
\* connecting and sending have no time limit, and what the service does is not its step.
Spec == Init /\ [][Next]_vars /\ WF_vars(pc # "call" /\ processRequest)
--------------------------------------------------------------------------------
TypeOK ==
  /\ message \in Messages /\ ini \in Inis /\ missing \in Missing
  /\ pc \in {"convert", "load", "log", "check", "key", "call", "exchange", "respond", "overrun", "done"}
  /\ done \in Nat
  /\ pc = "convert" => done <= Len(message)
  /\ pc = "load" => done <= Len(ini)
  /\ DOMAIN szDest = 1..CYBS_MAX_PATH
  /\ ended \in {"no", "returned", "thrown"}
  /\ Payment!TypeOK

\* The pairs that the fields of the message mean, in order, and the map they make.
MeantPairs == FlattenSeq([i \in DOMAIN message |->
                Pairs(message[i], RequestMap, AppMap)])
Meant == MapOf(MeantPairs)

\* The service executes what the SCMP message means, however the fields follow one another:
\* of two fields with one meaning the later.  What is plain is not lost on the way through
\* the text of lines, unless the client stamps over it; and if all of it is plain, nothing
\* is added but the stamps and the merchantID of cybs.ini.
ExecutesWhatIsMeant ==
  theCall \in executed =>
    /\ \A k \in PlainKeys(Meant) \ DOMAIN Stamps : <<k, Meant[k]>> \in received
    /\ PlainKeys(Meant) = DOMAIN Meant =>
         received \subseteq PairsOf(Meant) \union PairsOf(Stamps)
                              \union {p \in PairsOf(cfgMap) : p[1] = <<"merchantID">>}

\* When runTransaction is called, the configuration is what cybs.ini says: for each name
\* the last line that gives it a value, comments and the space around it left out.
ConfigIsAsWritten == pc \in {"log", "check", "key", "call", "exchange"} => cfgMap = Written(ini)

\* The files that are opened lie where the configuration says, whatever szDest held before:
\* those of the keys directory under its name and one separator.
TerminatesItself(dir) == dir # << >> /\ Last(dir) # DIR_SEPARATOR
FilesAreIn(dir) ==
  /\ keyPath = Path(dir, KeyFilename)
  /\ certPath = IF Has("sslCertFile") THEN Get("sslCertFile") ELSE Path(dir, <<"ca-bundle">> \o CERT_EXT)
FilesAreAsConfigured ==
  pc \in {"call", "exchange"} =>
    LET dir == Get("keysDirectory") IN
    TerminatesItself(dir) => FilesAreIn(dir)

\* getKeyFilePath writes behind szDest, and what is made of its path behind cfg.sslCertFile,
\* only where the directory ends with a separator or is empty, so that what the buffer held
\* becomes part of the path; or where the path of the log is as long as the limit allows.
OverrunsAreKnown ==
  [][pc' = "overrun" /\ pc # "overrun" =>
       IF pc = "log" THEN TerminatesItself(LogDirectory) =>
                            Len(Path(LogDirectory, LogFilename)) = CYBS_MAX_PATH
       ELSE ~TerminatesItself(Get("keysDirectory"))]_vars

\* A response has fields only if this payment was executed and answered; then it has just
\* those the reply gives, by the first line for each key.
ResponseIsOfThisPayment ==
  LET lines == Pieces("\n", replyText)
      table == ResponseMap
      Key(l) == Before("=", l)
      Counts(i) == /\ First("=", lines[i]) # 0 /\ Key(lines[i]) \in DOMAIN table
                   /\ After("=", lines[i]) # << >>
                   /\ \A j \in 1..(i - 1) : First("=", lines[j]) # 0 => Key(lines[j]) # Key(lines[i])
  IN  /\ response # {} => fate[theCall] = "answered" /\ theCall \in executed
      /\ ended = "returned" /\ fate[theCall] = "answered" =>
           response = {[name |-> table[Key(lines[i])], value |-> After("=", lines[i])] :
                         i \in {x \in DOMAIN lines : Counts(x)}}

\* processRequest comes to its end, unless it waits for the network or the service, or a path
\* has overrun its buffer.
Returns == pc # "done" ~> pc \in {"call", "exchange", "overrun", "done"}

\* README.md:60: keysDirectory is the "Location of the merchant's security key".
KeyIsInKeysDirectory == pc = "call" /\ Get("keysDirectory") # << >> => FilesAreIn(Get("keysDirectory"))

\* Every application that a bundle names, and every field that the table maps, is in the
\* request: "this is a bundle call" (ics_util.cpp:115), "we have a mapping, send it" (188).
MappedIsSent ==
  pc = "load" =>
    \A i \in DOMAIN message :
      /\ message[i].name \in DOMAIN RequestMap =>
           RequestMap[message[i].name] \in DOMAIN soRequest
      /\ message[i].name = <<"ics_applications">> =>
           \A app \in ToSet(Pieces(",", message[i].value)) \intersect DOMAIN AppMap :
             AppMap[app] \in DOMAIN soRequest
================================================================================
