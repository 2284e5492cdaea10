# Verification of the CyberSource SDK for C++

TLA+ models of the client libraries in `src/`, TLC configurations that check them on
small instances, and TLAPS proofs for every instance. Paths below are relative to `src/`.

- `tlc -config <run>.cfg MC<module>.tla` checks a run, `tlapm <module>Proofs.tla` a proof.
- `PROJECT.json` lists the components, the runs, the hazards, what each definition models
  (`map`) and, for every property, a plausible bug of the code that breaks it (`mutants`;
  the operators marked `\* mutant` in the modules are used nowhere else).

## 1. The system

A merchant's program loads a `cybs.ini` into a `CybsMap`, fills a request (a second map for the
name-value client, an object for the XML client), and calls the library, which signs, may encrypt, and
sends one SOAP request to the payment service and puts the reply in a third map or object. A program
written for the older SCMP interface calls `processRequest`, which translates, loads and calls for it. Everything
is synchronous; each library has one mutex, for its log file. The rest of `src/` is samples,
generated code and vendored libraries.

| Component | State it keeps | Operations | Modules |
|---|---|---|---|
| NVP transaction, `NVPClient/NVPClient.cpp` | the proxy object of the merchant, the wsse plugin's key pointer, OpenSSL objects, `_errorInfo` in the merchant's map, the result map, a local `cfg` | `runTransaction`, `configure`, `opensslCleanup`, `RETURN_ERROR` | `Transaction`, `PaymentCall`, `TransactionProofs` |
| XML transaction, `XMLClient/XMLClient.cpp` | as above, and the merchant's request and reply objects | `cybs_runTransaction` | `XmlTransaction`, `PaymentCall`, `XmlTransactionProofs` |
| Log file, `NVPClient/log.cpp:48-200` | the log file, its archives, `mutexLock` | `cybs_prepare_log`, `cybs_log` | `LogFile`, `LogHistory`, `AppendOnlyLog`, `LogFileProofs` |
| CybsMap, `BaseClient/kvs.c` | a sorted array of pairs of owned strings, `totallength` | create, add (replace, remove), get, destroy | `KvStore`, `StringMap`, `KvStoreProofs` |
| Safe fields, `NVPClient/safefields.cpp` | a constant table | `RemoveIndices`, `IsSafe` | `SafeFields`, `SafeFieldsProofs` |
| Log formatting, `NVPClient/log.cpp:203-470` | none | `cybs_log_NVP`, `cybs_log_xml`, `read_doc`, `mask` | `SafeFields` (a field of either form of message), `Transaction` and `XmlTransaction` (what cannot be logged) |
| Path building, `NVPClient.cpp:695-731` | the buffer `szDest` of a call | `getKeyFilePath` | `Paths`, `TextProofs`, `ScmpBridgeProofs`; used by `ScmpBridge` |
| Name-value codec, `NVPClient.cpp:246-300` | none | `convertMaptoString`, `convertStringtoMap` | `NvpCodec`, `Texts`, `TextProofs`; used by `ScmpBridge` |
| Configuration loader, `BaseClient/util.c` | the map it fills | `cybs_load_config`, `split`, `trim` | `ConfigLoader`, `Texts`, `ScmpBridgeProofs`; used by `ScmpBridge` |
| SCMP bridge, `SCMPToNVPTest/ics_util.cpp` | the maps of a call, property tables | `processRequest`, the two conversions, `loadPropertiesFile` | `ScmpConversion`, `ScmpBridge`, `ScmpBridgeProofs` |
| Sample clients, `NVPTest/`, `xml/` | three maps or objects, one proxy | authorise, then capture | the merchant of `Transaction` and of `XmlTransaction` |
| OpenSSL thread support, `NVPClient.cpp:108-244` | an array of mutexes | lock and thread-id callbacks of OpenSSL | not modelled |
| Generated SOAP code; gSOAP, wsse, OpenSSL, libxml2 | | | not modelled; their effects on a call are |

How they interact: the merchant owns the maps, the objects and the proxy, and keeps them from call to
call. A call borrows strings from the maps (`cybs_get`), leaves pointers to its own
stack frame in the proxy, a pointer to a private key in the plugin, `_errorInfo` in the
configuration map and a merchantID in an XML request. Threads of a process meet in the log file only, unless
the merchant lets them share a map, which has no lock.

What is hard here, and the property each component must have:

- **What a call leaves behind.** A proxy, a plugin, maps and objects survive each call; a later
  call must not sign with a freed key (`SignsWithLiveKey`), connect through a string of a
  frame that is gone (`TransportIsOfThisCall`), show an earlier call's outcome as its own
  (`OutcomeIsTrue`, `ReplyIsNotAnothers`, `ErrorInfoIsOfLastRefusal`), or pay for another merchant (`RetryKeepsMerchant`).
- **Failure at every step.** Twelve checks, five failing steps of `configure`, a connection
  that breaks before or after the request is out, answers with and without a reply, an exception or a crash out
  of the logging code on either side of the payment, files that are missing. What is parsed out of a key file
  must be freed (`KeyMaterialReleased`, which also says when the PKCS12 object is not), a refused call must not be charged, a payment
  must be on record (`ExecutedIsOnRecord`), and a response must be this payment's (`ResponseIsOfThisPayment`).
- **Interleaving in the log.** The file is measured, renamed, opened and written in several
  critical sections: `MutualExclusion`, `WritesToLiveFile`, `HeaderIsComing`, `SizeIsBounded`,
  `RefusedOnlyByFault`, `MutexIsReleased`, and that what is on disk only grows.
- **Work in place.** `RemoveIndices` rewrites a name in the buffer it reads, without a length, and goes
  back over what it has written (`StaysInBuffer`, `IndicesAreRemoved`, `FieldIsDealtWith`); all paths of a call
  are built in one buffer, which some of them overrun (`FilesAreAsConfigured`, `OverrunsAreKnown`).
- **Ownership in the map.** Strings are freed, reallocated, sorted and lent out:
  `PairsOwnTheirStrings`, `PairsAreSorted`, `NothingLeaks`, `BorrowedStays`, and that the array
  is a map at all.
- **Text on the way.** A payment passes through three tables, a map and lines of text, any of which may lose, repeat
  or add a field: `ExecutesWhatIsMeant`, `ConfigIsAsWritten`.

## 2. Transaction: one merchant's calls of `runTransaction`

One thread makes up to `MaxCalls` calls on one proxy, one configuration map and one result
map, and may add settings to the configuration between calls (there is no way to take one
out: `cybs_add` is never called with NULL). The service and the network are the environment.

| Code | Action |
|---|---|
| `NVPClient.cpp:391-404`, the locals of a call | `Begin` |
| `406-444`, `enableLog`, log path, `cybs_prepare_log` | `PrepareLog`, `PrepareLogFails` |
| `446-603`, the twelve checks in order, the copies into the proxy between them, the endpoint | `Resolve`, `RejectParameter` |
| `configure`, `310-389`, and the switch on its result, `605-636` | `OpenKey`, `Parse`, `Sign`, `Encrypt`, `TlsContext`, and `ConfigureFails` for its five codes |
| `638-656`, stamps and log entries | `Stamp`, `StampThrows` |
| `661`, `proxy->runTransaction` | `Send`, `SendFails`, `Receive`, `ConnectionLost`; the service is `Execute(n)`, `Refuse(n)` |
| `663-693` | `Release`, `Succeed`, `SucceedThrows`, `Fail` |
| `cybs_add` by the merchant | `Configure` |

Abstractions:

- A text is the way it fits its buffer: absent, short, full (fits, but no path it is joined to
  does) or over. A default text is short.
- A call's number stands for its stack frame, its key, its reply: `proxy[s] = 2` means the field
  holds a pointer into the frame of call 2. That a name is of an earlier call is what makes
  a pointer stale.
- Steps that only this thread can see are merged up to the next point where the network, the
  service or an error path matters. The checks are merged into one action, which finds the *first*
  that refuses and leaves the proxy as far as the code had come.
- Answers are a reply, a reply with an empty secret field, no reply, three kinds of fault and an
  HTTP error; their status words are those of `stdsoap2.h`, so that their clash with
  `CYBS_S_PRE_SEND_ERROR` is part of the model.
- An answer comes on the connection of its own call (one connection per call). A request may be
  executed long after the call has failed.

`PaymentCall` is what a merchant may rely on: a call is refused only if its request never leaves,
a reply is handed over only for an executed payment, a failure says nothing. `Transaction`
implements it with `fate <- outcome`, `dispatched <- {m.call : m \in sent}`, `held <- resMap`.

**Key material** is what `runTransaction` keeps pointers to at lines 395-398: the PKCS12 object that is read, and the key, the
certificate and the chain that `PKCS12_parse` makes of it. `opensslCleanup` frees the three; the PKCS12 object is freed at line 342, which
the return at 337 skips. So `KeyMaterialReleased` does not say that nothing is left: of a returned call the PKCS12 object
stays only if it was refused because its key file could not be parsed, and a call that an exception leaves keeps what it had parsed.

**Fairness.** `WF_vars(pc \notin Waiting /\ RunTransaction)`: the thread inside the library keeps running, as any
scheduler makes it, except where it waits for somebody else. The library sets no timeout (`util.h:56` names one that nothing reads), so
line 661 may wait for ever in connecting, the TLS handshake, a proxy, sending (`pc = "send"`) or receiving (`pc = "receive"`); nothing is
assumed there, nor of the merchant and the service. `CallSettles` says that a call ends *unless it waits in line 661*.

### Runs

- `transaction_reuse` (two calls, edits in between): working configurations, and each that one text makes
  refused (absent, too long, or too long to be joined to a path), with and without logging, encryption, production and Akamai
  endpoints and a proxy; a setting added, changed or made too long between calls; messages that can and cannot be logged,
  every failure and every answer. Every property relates a call to at most one
  earlier one, so two calls are enough to break each of them; the proofs of section 8 settle
  every other configuration and number of calls. Checks eight invariants, `ImplementsPaymentCall` and `CallSettles`.
- `encrypts` (expects a violation): `README.md:74` says that with `useSignAndEncrypted` a request is encrypted;
  a key file whose chain lacks the server's certificate gives a request in the clear.

`EndpointIsAsConfigured` is the promise of `README.md:76-80`. `ExecutedIsOnRecord` is about the entries written
for a call, wherever the file system puts them: that is `LogFile`.

## 3. XmlTransaction: the XML client

`XMLClient.cpp` is `NVPClient.cpp` with objects for maps. `XmlTransaction` extends `Transaction`, takes over the steps
in which the two files agree, and replaces the rest. A request is an object that the merchant may use again; the
reply is an object that gSOAP clears and then reads into. "Loggable" means here that the XML of a message parses.

| Code (`XMLClient/XMLClient.cpp`) | Action |
|---|---|
| the merchant's call, `341-352`, with a new object or the last one | `XmlBegin` |
| `396-575`, the checks; `419-436` gives an unnamed object the configuration's merchantID | `XmlResolve`, `XmlRejectParameter` |
| `354-395`, `configure`, stamps, sending, clean-up, failure | `CommonStep`: the actions of `Transaction` |
| `612-626`, `636-651`, `cybs_log_xml` of text that does not parse (`log.cpp:319-335`) | `StampCrashes`, `SucceedCrashes`: the process is gone |
| `recv_runTransaction` into the reply object | `XmlReceive`; `XmlConnectionLost` leaves nothing or the reply |
| `636-651` | `XmlSucceed` |

It implements `PaymentCall` too, with a reply object that is cleared (`ClearsReply`) and a crash as one more way for a
call to end without a word.

- `xml`: two calls, with a new request object or the last one, while a merchantID is added to the configuration or
  changed, one configuration that puts a merchantID into the object and is then refused, and messages that do not parse.
  The interesting state is what the first call leaves in two objects, so two calls are enough here too.

Fairness is that of `Transaction`, over `cybs_runTransaction`: none where the call waits in line 632. `KeyMaterialReleased` is about steps that both clients
share, with the same skipped `PKCS12_free` (`XMLClient.cpp:281-286`); `transaction_reuse` checks it, and it is proved for both.

## 4. LogFile: threads that share a log

A file is the sequence of its entries, its size their number. `rename` moves a name; a file that
has lost its name is lost. Each thread makes calls that prepare the log and then write
`CallEntries`.

| Code | Action |
|---|---|
| `log.cpp:74-77`, `MUTEX_LOCK` | `Prepare` |
| `78-94`, fopen, fseek, ftell | `Measure`, `MeasureFails` |
| `95-112`, the archive | `Rotate`, `RotateFails` |
| `114-121`, unlock, then the file-start entry if the file was empty | `Prepared` |
| `cybs_log`, `124-154` | `LogLock`, `LogOpen`, `LogOpenFails`, `LogWrite`, `LogUnlock` |
| the end of the call | `Return`; an unprepared log makes it log one `ERROR` (the macro does) |

- `rename` has two modes, `RenameReplaces`: POSIX replaces an existing archive, Windows fails.
- The archive's timestamp is cut to seven characters (`get_formatted_time`, `log.cpp:504`, bounds it
  by the size of a pointer), so times `StampSpan` apart or less may share an archive name.
- Entries of different threads are kept apart by thread and call; their text is not modelled.

**Fairness.** A thread that holds the mutex, or is done, keeps running (`WF` of `Locked(t)` and
`Return(t)`). A free mutex is taken by *some* thread that waits for it
(`WF` of the union of `LogLock`); pthread mutexes promise nobody a turn, and nothing is
assumed that gives one.

### Runs

- `log_posix`: two threads, two calls each, two entries a call, a limit of two entries, one failing file
  operation, POSIX rename; symmetric in the threads (only invariants are checked). Two threads and two
  calls give every overlap of measuring, rotating and writing, a rotation by one thread while the other is
  about to write, and a second header. Shows the six invariants. `HeaderIsComing` says what the unlocked gap at
  `log.cpp:114` still leaves true: the header may not come first, but it comes. `SizeIsBounded`
  says how far the file can pass its limit, as it is measured only once a call.
- `log_history`: as above with one entry a call, a limit of one, two stamps and Windows rename: all that
  is on disk, archives first, implements `AppendOnlyLog`, and whoever takes the mutex returns it.
- `log_archive` (expects a violation) finds that with POSIX rename a second rotation within the span of a stamp
  replaces the first archive, against `log.cpp:95`.

## 5. KvStore: the CybsMap

The array holds pairs of pointers into a heap of strings; `malloc` gives the first free block, so that
a block freed too early is soon seen to hold something else. A key is its rank in `strcmp` order, a value its
length (only `totallength` looks at more). The actions are the functions of `kvs.c`: create, add
(which replaces), remove (which the code does for a NULL value), get, destroy.

- `map`: every sequence of operations over three keys and two values or NULL, in at most eight blocks (three
  pairs, and two strings that a removal left). Three keys are needed for a pair in the middle of the array.
  Shows ownership, order, that a string `cybs_get` lent stays what it was until its own key is
  replaced or the map destroyed, and that the map implements `StringMap`.

A NULL value removes: `remove_pair` cuts the array by its last pair whichever was found, and frees
nothing. No caller in the repository passes NULL and nothing says what it should do, so this is part of `StringMap`
(`Cut`) and `NothingLeaks` passes over the strings it drops (the history variable `cut`); what is shown
is that the pairs that remain are sound. `totallength` is modelled, but not what it is for: a replacement does
not adjust it, although `log.cpp:224` takes it for the length of all names and values. Only `cybs_log_map`, which
nothing calls, would notice.

## 6. SafeFields: which values a log shows

One field of a message, from its name to what is logged of its value. `form` says whether `cybs_log_NVP`
walks through a map or `read_doc` through an XML tree; they mask a little differently. A name is the sequence of its
characters; letters other than digits and underscores are interchangeable to the code, so two of them are
enough. `RemoveIndices` is a step per character. A value is its length, what is logged of it
the positions left readable. The contents of the table are a constant, for a run a small one with lists
that overlap, one word of which is a part of another, and one digit in a word.

| Code | Action |
|---|---|
| `safefields.cpp:221-234`, the copy of the name, or its refusal | `CopyField`, `FieldTooLong` |
| `272-344`, the loop, a disjunct for each way through its body | `RemoveIndices`: `AtBoundary`, `InNonIndex`, `InPossibleIndex`, `LeadingIndex` (the `continue`), `EndOfIndex` |
| `236-269`, parent, child and `strstr` | `Lookup` |
| `log.cpp:337-341`, a text that begins with white space | `PassOver` |
| `log.cpp:275-304`, `379-434`, `461-469` | `LogValue`, `MaskThrows`; `IsTrackData` is an equality in one form (line 415), a substring in the other (385) |

**Fairness.** `WF_vars(Next)`: the code is sequential and waits for nothing.

- `safe_fields`: every name of up to six characters over two letters, a digit and the underscore, a buffer
  of five, and value lengths on both sides of each bound of the masking. Six characters hold two indices and
  what is before, between or after them. Compares what is left of a name with `WithoutIndices`: `Stays` says
  of each position of the original whether it stays, from where the parts of the name begin and end and without a scan, and the k-th
  character left is the one with `Rank` k among those that do. Names with empty parts (`a__b`) are scanned too, but
  nothing says what should become of them, so `IndicesAreRemoved` and `ListedIsShown` leave them out
  (`WellFormed`). `UnsafeIsMasked` holds every value of an unsafe field to half of its characters, and hides all of a field that is *named*
  `trackData`, in either form; it makes no promise for a longer name that holds the word, which the two forms treat differently (Remarks).
- `safe_listed` (expects a violation): `safefields.cpp:267` says that the child must be on the list; `strstr` takes any
  part of the list for it.

## 7. ScmpBridge: from an SCMP message to a payment and back

`processRequest` translates a message, loads `cybs.ini`, calls `runTransaction` and translates the reply, without looking
at a status. `ScmpBridge` composes what lies on the way:

- `Texts`: a text is a sequence of words; a character that the code looks for (`=`, `,`, `:`, `^`, `#`, `/`, a space, a newline) is a
  word of its own, what it never takes apart is one word.
- `ConfigLoader`, `NvpCodec`, `ScmpConversion`: pure operators, one for each function, on such texts and on maps.
- `Paths`: `getKeyFilePath` on a buffer of `CYBS_MAX_PATH` cells that keeps what the path before left in it; `Overruns` says when the path or its
  terminator is written behind the last cell.
- `PaymentCall`: of `runTransaction` the bridge takes what `PaymentCall` says, which `Transaction` is proved to implement, and adds the
  paths it opens and the text it sends. The steps of the call are those of an `INSTANCE` of `PaymentCall`; checks that `Transaction`
  models become one `Reject`.

| Code | Action |
|---|---|
| `ics_util.cpp:102-195`, a field at a time | `Convert`; `ConvertThrows` if a table is missing |
| `util.c:64-92`, a line at a time | `Load`; `LoadThrows` for a line without `=` |
| the ends of the two loops | `Converted`, `Loaded` |
| `NVPClient.cpp:406-444`, `484-504`, `506-528` | `PrepareLog`, `CertPath`, `KeyPath`, or `Reject` |
| `695-731` and `495-503` for a path that its buffer does not hold | `PathOverruns` |
| `638-661` | `Dispatch`, or `MaskThrows` |
| the service reads the text that was sent | `Execute` |
| `661-693` | `Answer`, `NoAnswer` |
| `ics_util.cpp:197-217` | `Respond`; `RespondThrows` if the table of the response is missing |

A write behind `szDest` (256 bytes on the stack), or behind `cfg.sslCertFile` (257 bytes) when `.crt` is put to the path, is undefined behaviour: the state
`"overrun"` makes it visible, and the model does not go on from there. It happens to a path that is built on what the buffer held before, as it is
when the directory ends with a separator, and to a log path of exactly `CYBS_MAX_PATH` characters. `OverrunsAreKnown` says that it happens in no
other case, in particular to no file of a keys directory that does not end with a separator.
`Transaction` and `XmlTransaction` have no buffer: what they say is about calls none of whose paths overruns.

**Fairness.** `WF_vars(pc # "call" /\ processRequest)`: the sequential code, but nothing where it calls the service, and nothing of the service or the network.
`Returns` therefore says that the call ends, overruns a buffer, or waits for the network or an answer.

- `bridge`: six messages (two names for one field, an offer with bad pieces, a newline in a value, a blank value, a field that the client
  stamps over next to an application whose table entry begins with `=`, no application), twelve files (comments, space, a line said twice, no separator, a directory that just fits, one that does not,
  a log, and each path overrunning its buffer: the log in its default directory and at the limit, the certificates behind what a log left, the key), three replies (with a line twice, a value with `=`, lines without one, an empty value), a clean, a dirty and an unterminated stack, and none or one
  of the three tables missing, in every combination. A path has seven cells, room for a
  directory, a separator, a name and an extension of two words, so that both sides of the limit are reached. What these operators do to a field,
  line or cell depends on that item and at most one earlier one with the same key, which short inputs contain.
  `ExecutesWhatIsMeant` compares what the service reads with `Meant`, the map of all pairs that the fields mean, the later of two for one key.
  A pair is *plain* if its name holds neither `=` nor a newline and its value no newline: every plain pair arrives, whatever the others hold, but
  for the names the client stamps; and if all pairs are plain, nothing else arrives but the stamps and the merchantID of `cybs.ini`.
- `bundle` (expects a violation): the test for "a bundle call" looks for a comma in a field's name, so two applications in one message give
  none.
- `paths` (expects a violation): with a `keysDirectory` that ends in a separator the key is looked for under a name made of
  the directory and what the buffer held before; `README.md:60` calls it the location of the key.

## 8. What is proved

Seven modules of proofs hold for every value of the constants that satisfies
the `ASSUME`s of the module they are about (any number of calls, threads, entries, keys, cells; any configurations,
edits, requests and replies; names and texts of any length and any table); `FoldLemmas` serves three of them:

| Module | Theorem | Property |
|---|---|---|
| each but `TextProofs` | `Typing` (`XmlTyping`) | `TypeOK` (`XmlTypeOK`) |
| `TransactionProofs` | `NoKeyMaterialLeft` | `KeyMaterialReleased` |
| | `Signing`, `Transport` | `SignsWithLiveKey`, `TransportIsOfThisCall` |
| | `TrueOutcome`, `LastRefusal` | `OutcomeIsTrue`, `ErrorInfoIsOfLastRefusal` |
| | `Endpoint`, `Record` | `EndpointIsAsConfigured`, `ExecutedIsOnRecord` |
| | `Implementation` | `ImplementsPaymentCall` |
| `XmlTransactionProofs` | `OwnReply`, `SameMerchant` | `ReplyIsNotAnothers`, `RetryKeepsMerchant` |
| | `XmlNoKeyMaterialLeft`, `XmlSigning` | `KeyMaterialReleased`, `SignsWithLiveKey` |
| | `XmlImplementation` | `XmlImplementsPaymentCall` |
| `LogFileProofs` | `Exclusion`, `LiveFile`, `NoSpuriousRefusal` | `MutualExclusion`, `WritesToLiveFile`, `RefusedOnlyByFault` |
| | `Header`, `Bound` | `HeaderIsComing`, `SizeIsBounded` |
| | `Implements`, if `~RenameReplaces` | `ImplementsAppendOnlyLog` |
| | `NothingLost`, if `~RenameReplaces` | `NoFileLost`, which `log_archive` refutes for the other mode |
| `KvStoreProofs` | `Order`, `Ownership` | `PairsAreSorted`, `PairsOwnTheirStrings` |
| | `NoLeak`, `Lent` | `NothingLeaks`, `BorrowedStays` |
| | `Implementation` | `ImplementsStringMap` |
| `SafeFieldsProofs` | `InBuffer`, `Masking` | `StaysInBuffer`, `UnsafeIsMasked` |
| | `Indices`, `Listed` | `IndicesAreRemoved`, `ListedIsShown` |
| `TextProofs` | `PathIsDirectoryAndFile` | of `getKeyFilePath`: the fact `FilesAreAsConfigured` and `OverrunsAreKnown` rest on |
| | `PlainPairsArrive` | of `convertMaptoString`: the fact `ExecutesWhatIsMeant` rests on |
| | `FirstLineWins` | of `convertStringtoMap`: the fact `ResponseIsOfThisPayment` rests on |
| | `PlainMapReturns` | of the two together: a plain map comes back as it was |
| `ScmpBridgeProofs` | `Loading`, `Files` | `ConfigIsAsWritten`, `FilesAreAsConfigured` |
| | `KnownOverruns` | `OverrunsAreKnown` |
| | `Executions`, `Responses` | `ExecutesWhatIsMeant`, `ResponseIsOfThisPayment` |

**Transaction.** Hardly any of these is inductive. `IInv` adds what they rest on:

- `CallsInOrder`: only the current call is open, and exactly while `pc` is inside it;
- `KeyMaterialIsOwned`: a live key belongs to the current call, between `Parse` and `Release`, or
  to one that threw, and a PKCS12 object to the current call in `Parse`, or to one that was refused there or threw: with it a clean-up of
  the *current* call's material is enough, and what is left is what `KeyMaterialReleased` says;
- `KeyIsSet`: from `Sign` to `Send` the plugin's pointer is this call's;
- `TransportIsFresh`: a proxy field that was ever set has a setting in the configuration. As
  settings are never taken out, every later call overwrites it before it can send; a `cybs_add` that
  removed a pair would break it;
- `ExchangeInOrder`, `AnswerIsOfThisCall`: nothing is answered that was not sent, and a success or
  a reply is the service's answer to this very call.

`IInv` is preserved action by action (`...Step` lemmas, joined in `StepInvariant`). `Endpoint` and `Record`
strengthen it once more with what `cfg` and the journal hold at each control point.
`Implementation` maps `Init` to `PaymentCall!Init` and each action to an action of `PaymentCall` or a stutter
under `IInv`.

**XmlTransaction.** `SharedStep` splits a step into one of `Transaction`, for which `TransactionProofs` has `IInv`, and the six
that are XML's own, which preserve it too. `XmlInv` adds that the reply object holds what the call received until the call
ends (`AnswerIsHeld`), that nothing is awaited before it is sent (`RequestIsOut`), and that the request names whom the
merchant's object names (`RequestIsTheObject`).

**LogFile.** `IInv` adds to the three properties that a thread inside `cybs_log` has an entry to write (`EntryToLog`).
`WritesToLiveFile` needs `MutualExclusion`: a rotation by `t` can only take the file from `t` itself.
`RefusedOnlyByFault` needs both: a rename fails without a fault only if the live file is gone.
`HeaderIsComing` says nothing while there is no file; `HeaderInv` adds that then a thread is about to write a header, or
nobody has got past the point where the file is found missing. `SizeIsBounded` counts: each
entry a thread has yet to write in its call is a *place* (thread, position), and the live file and the places to come never exceed the limit, all
places and the faults (`SizeInv`). Writing turns a place into an entry; measuring, which can add a thread's places, is done on a file within
the limit, or one that a rotation is about to take away; a failed operation gives up places, or spends a fault.
`Implements` rests on `NameInv`: as no archive is replaced, every file keeps its name and the live one is the last. So `History` is all files one after
the other, to which only `LogWrite` adds, and at the end.

**KvStore.** `IInv` says that the places of the array own their strings one to one (`Owning`), that keys are numbers in order and values are values
(`KeysAndValues`, `Ordered`), and that each live block is owned or was cut off, never both (`HeapIsDivided`). That `malloc` gives the least free block is
used only to know that it exists (numbers are well-founded) and is free. `qsort` is any rearrangement that is in order: it uses every
pair, so by cardinality it uses each once, and ownership survives it. An array that is in order has each key at one place,
so `bsearch` and the map of `StringMap` (`Contents`) agree.

**SafeFields.** The scan stops because it meets the terminator, which is still there because nothing that is not
yet read has been written (`UnreadIsIntact`); that holds because the write position never passes the
read position (`StaysInBuffer`), and that because a possible index starts behind it
(`IndexIsBehind`). `CopyStep` shows this for the copy that all but one of the disjuncts end with.
`Masking` counts the positions each length leaves readable; a name that is `trackData` passes the test of both forms (`NameIsTrackData`). `Indices` rests on `ScanInv`, which says for each state of the scan which positions of
what has been read are held in the buffer, in their order (`Holds`): between two parts those that stay and the last underscore; in a part with a letter those
that stay; in a part of digits so far those before it, the underscore and the digits, with `nIndexStart` the place to go back to, or,
if nothing that stays is before it, the digits alone. One lemma for each way through the loop's body carries it on. `Listed` needs no more than that: `IsSafe` is
asked about the right name, and what is on the list is found in it.

**Texts.** What a fold computes is proved without the library's induction theorems, which need an operator the prover cannot be given. The community modules
define a fold as a function chosen by its equation. The proofs show that there is such a function, and that what it computes has the property wanted,
each time by a least counterexample: a number, or the size of a set (`Least` in `FoldLemmas`). `PiecesAre` says that the pieces of a text are what lies between two separators or an end; `OneKeyMore`
that a line appended after an ended line leaves the pieces that are there, whatever it holds, and adds just itself if it is plain. `FirstOnes` is
the map of the first line for each key.

**ScmpBridge.** `Written` says of a whole file what it means: for each name the last line that gives it a value. `LoadedSoFar` has the map be
`Written` of the lines read, and `WrittenWithLine` shows that one more line, dealt with as the loop does, makes it `Written` of one more: the
induction is that of the behaviour. `RequestSoFar` says the same of the message (`MapOf` of the pairs of the fields converted, `OneFieldMore`), that the request
stays what it was when it was sent, and that the service has read just that text. For the paths, `PathsSoFar` says at each control point which have been built, and from what;
the step that builds one rests on `PathIsDirectoryAndFile`, which says that the path is the right one and stays in the buffer if it has room with its terminator: an
extension that is counted and not appended there gives that room (`PlainPath`), the log has none, so that a path at the limit is left over for `KnownOverruns`. All of it needs texts without a terminator. So `TextsAreClean` carries that through every
conversion, from `BridgeAssumption` (a line, a field or a reply is a C string, and a line has no newline) to the directory, the name of the key and the
request, and for the configuration, whose merchantID goes into the request, that no value holds a newline.
`AnswerSoFar` ties the result map to the fate of the call: it is empty until this call is answered, is then the map of the reply, and a response is made
from nothing else. The properties follow from these and the theorems about texts.

Only model-checked: liveness (`CallSettles`, `MutexIsReleased`, `FieldIsDealtWith`, `Returns`), which is beyond the prover. Every invariant, step property
and refinement that a passing run checks is a theorem.

## 9. What is not modelled

- The generated proxies and the vendored libraries (gSOAP, its wsse plugin, OpenSSL, libxml2) beyond their effects that the
  SDK's code depends on, which the map lists as external. They are nearly all of the 1.7 million lines under `src/`; the SDK's own code is
  some three thousand, of which these modules cover the parts that keep state or decide anything.
- What a call does after it has written behind a buffer.
- `cybs_add_request` (`XMLClient.cpp:707-717`), which fills a request object from XML before a call, and keeps nothing.
- The lock and thread-id callbacks for OpenSSL (`NVPClient.cpp:108-244`): the SDK hands them over and takes none of these locks itself,
  so that their protocol is OpenSSL's.
- Two threads on one proxy (gSOAP forbids it) or on one `CybsMap` (nothing locks it, and nothing in the repository says that it may be
  shared; each sample has one of its own).
- The NVP and XML libraries, or two processes, writing one log file, each with a mutex of its own: nothing says that they may.
- `cybs_log_map`, `get_log_string` and `cybs_get_string` (`log.cpp:203-273`): the last two serve only the first, which nothing calls.
- Lines of a configuration longer than their buffer of 256 characters, names of fields and values that hold control characters other than a
  newline, conversions between `char` and `wchar_t`.
- What the samples print (but see below), the contents of the tables, the clock other than as a stamp.
- Allocation failure: the code does not look for it.

## 10. Remarks

Noticed while modelling, and not the subject of a run: in most cases nothing in the repository says what should happen.

- `SOAP_CLI_FAULT` and `CYBS_S_PRE_SEND_ERROR` are both 1, and the sample (`NVPTest/NVPTest.cpp:31`) reads both in one switch: it says of a
  request that the service faulted that it could not be sent.
- A call that fails after sending leaves `_errorInfo` as an earlier call set it; `NVPTest.cpp:39` prints it as this call's error.
  `ErrorInfoIsOfLastRefusal` is what a reader may rely on.
- `SOAP_OK` without a reply leaves the result map as it was. `NVPTest.cpp:130` prints it as the reply: on a new map there is nothing to print,
  on one that is used again there is an old reply.
- The comment at `XMLClient.cpp:529-531` lets the production flag come first and then `serverURL`; the code and `README.md:80` have it the
  other way round.
- No timeout is set, neither for connecting nor for sending or receiving: the key at `util.h:56` is read by nothing.
- When `PKCS12_parse` fails, the PKCS12 object is never freed: the return at `NVPClient.cpp:337` skips `PKCS12_free` at 342, and `opensslCleanup`
  (616) does not know it. Each call refused for a wrong password leaks one. `XMLClient.cpp:281-286` is the same.
- The `cybs_log` of wide text gives the message to `fwprintf` as its format (`log.cpp:180-190`), as it does the time and the type: a percent
  sign in a field that is logged is taken for a conversion without an argument. In the model an entry is written as it is.
- Of a field of the NVP form whose name only holds `trackData`, as `pos_trackData` (`scmp_so_mapping.properties:739`), the first and last characters
  are logged, up to eight of them (`log.cpp:415`); the XML form hides all of it (`385`).
- With an empty extension, as for the log, a path of exactly `CYBS_MAX_PATH` characters fits and its terminator falls behind the buffer (`NVPClient.cpp:703`).
  `OverrunsAreKnown` has it as the one case of a directory that does not end with a separator.
- The default directory of the log is a separator, so the path of a log in the default place is one of those that get no terminator
  (`NVPClient.cpp:718`); it is the first of a call, built on what the stack holds, and overruns `szDest` if that is long enough.
- So may the paths of a `keysDirectory` that ends with a separator, and the `.crt` put behind such a path `cfg.sslCertFile` (`NVPClient.cpp:495-503`): the limit
  counts the directory and the name, not what is between them.
- When the table of the response is missing, `processRequest` throws after the payment was made (`ics_util.cpp:201`).
- A line of `cybs.ini` without an equals sign makes `processRequest` throw (`util.c:78`).
- An entry whose `fopen` fails is dropped without a word (`log.cpp:132`).
- Any field with `offer` in its name is taken for an item, as is `offer-scorethreshold`, which the table maps
  (`scmp_so_mapping.properties:754`); its value goes nowhere.
- `ics_applications.properties:57` has two equals signs, and the first parts the line: the application's field is called
  `=pinDebitReversalService_run`, and the service reads a field without a name.
- The client's stamps overwrite fields of the message that `scmp_so_mapping.properties:239-240` maps to the same names.
- A text of an XML message that begins with white space is logged as it is (`log.cpp:341`).
- `README.md:99` names a key `keyPassword` that nothing reads.
- `get_log_string` writes no terminator, and allocates by a `totallength` that a replaced value has left behind.

What could follow: threads on one `CybsMap`, with `cybs_add` and `cybs_get` split at their reads and writes, and a mutex per library in `LogFile`, once
somebody states what either should promise; and `Transaction` writing its journal into `LogFile`.
