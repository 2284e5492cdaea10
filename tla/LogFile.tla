-------------------------------- MODULE LogFile --------------------------------
(***************************************************************************)
(* The log file of log.cpp, shared by the threads of one process that call *)
(* runTransaction with logging on: cybs_prepare_log, which archives a file *)
(* that has grown too large, and cybs_log, under the library's one mutex.  *)
(*                                                                         *)
(* A file is the sequence of its entries, and its size their number.  A    *)
(* directory entry is the index of the file it names, 0 when there is      *)
(* none: rename moves the name, a file without a name is lost.             *)
(***************************************************************************)
EXTENDS Integers, Sequences, FiniteSets

CONSTANTS Threads,
          CallEntries,    \* types of the entries a call logs after preparation
          Limit,          \* nLogMaxSizeInMB, in entries
          StampSpan,      \* time units the truncated archive timestamp cannot tell apart
          RenameReplaces, \* POSIX rename replaces an existing file, that of Windows fails
          MaxCalls,       \* bound: calls of each thread
          MaxTime,        \* bound: time units the clock runs for
          MaxFaults       \* bound: file operations that fail

Types == {"FILESTART", "REQUEST", "CONFIG", "SUCCESS", "REPLY", "ERROR"}

ASSUME ThreadsAssumption == Threads # {} /\ IsFiniteSet(Threads)
ASSUME EntriesAssumption == CallEntries \in Seq(Types \ {"FILESTART"})
ASSUME BoundsAssumption == /\ Limit \in Nat /\ StampSpan \in Nat \ {0}
                           /\ MaxCalls \in Nat /\ MaxTime \in Nat /\ MaxFaults \in Nat
                           /\ RenameReplaces \in BOOLEAN

Entry == [type : Types, thread : Threads, call : 1..MaxCalls]

VARIABLES files,      \* every file there has been, in the order of creation
          live,       \* the file of the name logFilePath, 0 for none
          archive,    \* the file of the name logFilePath.<timestamp>, 0 for none
          clock,
          mutexLock,  \* the thread that holds it, none is {}
          pc, nSize,  \* control point and measured size of each thread
          todo,       \* entries it has yet to log in this call
          calls,      \* calls it has begun
          refused,    \* calls that ended because the log could not be prepared
          faults

vars == <<files, live, archive, clock, mutexLock, pc, nSize, todo, calls, refused, faults>>

\* "%s.%s" with a timestamp that get_formatted_time cuts to sizeof(char *) - 1 characters.
Stamp == clock \div StampSpan
Stamps == 0..MaxTime

Init ==
  /\ files = << >> /\ live = 0
  /\ archive = [s \in Stamps |-> 0]
  /\ clock = 0
  /\ mutexLock = {}
  /\ pc = [t \in Threads |-> "idle"]
  /\ nSize = [t \in Threads |-> 0]
  /\ todo = [t \in Threads |-> << >>]
  /\ calls = [t \in Threads |-> 0]
  /\ refused = 0
  /\ faults = 0

Goto(t, where) == pc' = [pc EXCEPT ![t] = where]

EachThreadItsOwnLock(t) == mutexLock' = {t}                             \* mutant
MUTEX_LOCK(t) == mutexLock = {} /\ mutexLock' = {t}
MUTEX_UNLOCK(t) == mutexLock' = mutexLock \ {t}

\* A file operation fails.
Fault == faults < MaxFaults /\ faults' = faults + 1

OpenTruncating ==                                                       \* mutant
  IF live = 0 THEN files' = Append(files, << >>) /\ live' = Len(files) + 1
              ELSE files' = [files EXCEPT ![live] = << >>] /\ live' = live

\* fopen with mode "a" or "a+" creates the file when there is none.
OpenLive ==
  IF live = 0 THEN files' = Append(files, << >>) /\ live' = Len(files) + 1
              ELSE UNCHANGED <<files, live>>

----------------------------- (* cybs_prepare_log *) ----------------------------
SizeLessNewline(file) == Len(file) - 1                                  \* mutant
Size(file) == Len(file)                                                 \* ftell

TooLargeInKB(size) == size > 1024 * Limit                               \* mutant
TooLarge(size) == size > Limit

\* There is nothing to rename, or Windows finds that the archive exists.
RenameFails == live = 0 \/ (~RenameReplaces /\ archive[Stamp] # 0)

\* What a call logs once the log is prepared: a file found empty is given a header.
NoHeader(size) == CallEntries                                           \* mutant
EntriesAfter(size) == IF size = 0 THEN <<"FILESTART">> \o CallEntries ELSE CallEntries

\* A call begins and takes the mutex.
Prepare(t) ==
  /\ pc[t] = "idle" /\ calls[t] < MaxCalls
  /\ MUTEX_LOCK(t)
  /\ calls' = [calls EXCEPT ![t] = @ + 1]
  /\ Goto(t, "measure")
  /\ UNCHANGED <<files, live, archive, clock, nSize, todo, refused, faults>>

\* fopen, fseek, ftell, fclose.
Measure(t) ==
  /\ pc[t] = "measure"
  /\ OpenLive
  /\ nSize' = [nSize EXCEPT ![t] = Size(files'[live'])]
  /\ Goto(t, IF TooLarge(nSize'[t]) THEN "rotate" ELSE "prepared")
  /\ UNCHANGED <<archive, clock, mutexLock, todo, calls, refused, faults>>

RefuseKeepingLock(t) ==                                                 \* mutant
  /\ mutexLock' = mutexLock
  /\ todo' = [todo EXCEPT ![t] = <<"ERROR">>]
  /\ refused' = refused + 1
  /\ Goto(t, "ready")

\* The mutex is given back and the call ends with RETURN_ERROR, which logs the error.
Refuse(t) ==
  /\ MUTEX_UNLOCK(t)
  /\ todo' = [todo EXCEPT ![t] = <<"ERROR">>]
  /\ refused' = refused + 1
  /\ Goto(t, "ready")

\* fopen fails, or fseek does on a file that fopen may have created.
MeasureFails(t) ==
  /\ pc[t] = "measure"
  /\ Fault
  /\ OpenLive \/ UNCHANGED <<files, live>>
  /\ Refuse(t)
  /\ UNCHANGED <<archive, clock, nSize, calls>>

\* The live file is renamed to the archive of the time; a file of that name is replaced.
Rotate(t) ==
  /\ pc[t] = "rotate"
  /\ ~RenameFails
  /\ archive' = [archive EXCEPT ![Stamp] = live]
  /\ live' = 0
  /\ nSize' = [nSize EXCEPT ![t] = 0]
  /\ Goto(t, "prepared")
  /\ UNCHANGED <<files, clock, mutexLock, todo, calls, refused, faults>>

\* rename fails, by the rules above or by accident.
RotateFails(t) ==
  /\ pc[t] = "rotate"
  /\ \/ Fault
     \/ RenameFails /\ faults' = faults
  /\ Refuse(t)
  /\ UNCHANGED <<files, live, archive, clock, nSize, calls>>

\* The mutex is given back before the file-start entry is logged.
Prepared(t) ==
  /\ pc[t] = "prepared"
  /\ MUTEX_UNLOCK(t)
  /\ todo' = [todo EXCEPT ![t] = EntriesAfter(nSize[t])]
  /\ Goto(t, "ready")
  /\ UNCHANGED <<files, live, archive, clock, nSize, calls, refused, faults>>

--------------------------------- (* cybs_log *) --------------------------------
LogLock(t) ==
  /\ pc[t] = "ready" /\ todo[t] # << >>
  /\ MUTEX_LOCK(t)
  /\ Goto(t, "open")
  /\ UNCHANGED <<files, live, archive, clock, nSize, todo, calls, refused, faults>>

LogOpen(t) ==
  /\ pc[t] = "open"
  /\ OpenLive
  /\ Goto(t, "write")
  /\ UNCHANGED <<archive, clock, mutexLock, nSize, todo, calls, refused, faults>>

\* fopen fails: the entry is dropped without a word.
LogOpenFails(t) ==
  /\ pc[t] = "open"
  /\ Fault
  /\ Goto(t, "unlock")
  /\ UNCHANGED <<files, live, archive, clock, mutexLock, nSize, todo, calls, refused>>

\* The entry is printed and the file closed.
LogWrite(t) ==
  /\ pc[t] = "write"
  /\ files' = [files EXCEPT ![live] =
                 Append(@, [type |-> Head(todo[t]), thread |-> t, call |-> calls[t]])]
  /\ Goto(t, "unlock")
  /\ UNCHANGED <<live, archive, clock, mutexLock, nSize, todo, calls, refused, faults>>

LogUnlock(t) ==
  /\ pc[t] = "unlock"
  /\ MUTEX_UNLOCK(t)
  /\ todo' = [todo EXCEPT ![t] = Tail(@)]
  /\ Goto(t, "ready")
  /\ UNCHANGED <<files, live, archive, clock, nSize, calls, refused, faults>>

\* The call has logged its last entry.
Return(t) ==
  /\ pc[t] = "ready" /\ todo[t] = << >>
  /\ Goto(t, "idle")
  /\ UNCHANGED <<files, live, archive, clock, mutexLock, nSize, todo, calls, refused, faults>>

--------------------------------------------------------------------------------
Tick == /\ clock < MaxTime /\ clock' = clock + 1
        /\ UNCHANGED <<files, live, archive, mutexLock, pc, nSize, todo, calls, refused, faults>>

\* The steps of a thread that holds the mutex.
Locked(t) == \/ Measure(t) \/ MeasureFails(t) \/ Rotate(t) \/ RotateFails(t) \/ Prepared(t)
             \/ LogOpen(t) \/ LogOpenFails(t) \/ LogWrite(t) \/ LogUnlock(t)

Next == \/ \E t \in Threads : Prepare(t) \/ Locked(t) \/ LogLock(t) \/ Return(t)
        \/ Tick

\* A thread inside the library keeps running.  A mutex that is free is taken sooner or
\* later by one of the threads that wait for it, but no thread is sure to be the one.
Fairness == /\ \A t \in Threads : WF_vars(Locked(t)) /\ WF_vars(Return(t))
            /\ WF_vars(\E t \in Threads : LogLock(t))

Spec == Init /\ [][Next]_vars /\ Fairness
--------------------------------------------------------------------------------
TypeOK ==
  /\ files \in Seq(Seq(Entry))
  /\ live \in 0..Len(files)
  /\ archive \in [Stamps -> 0..Len(files)]
  /\ clock \in 0..MaxTime
  /\ mutexLock \subseteq Threads
  /\ pc \in [Threads -> {"idle", "measure", "rotate", "prepared", "ready", "open", "write", "unlock"}]
  /\ nSize \in [Threads -> Nat]
  /\ todo \in [Threads -> Seq(Types)]
  /\ calls \in [Threads -> 0..MaxCalls]
  /\ refused \in Nat
  /\ faults \in 0..MaxFaults

InSection(t) == pc[t] \in {"measure", "rotate", "prepared", "open", "write", "unlock"}

\* One thread at a time measures, renames, opens, writes or formats a time (localtime
\* is not reentrant: log.cpp:500), and it is the one that holds the mutex.
MutualExclusion == \A t \in Threads : InSection(t) => mutexLock = {t}

\* Between opening the log and writing to it, no other thread takes the file away.
WritesToLiveFile == \A t \in Threads : pc[t] \in {"rotate", "write"} => live # 0

\* A thread that has found the file empty and has yet to log the file-start entry.
HeaderPending(t) == \/ pc[t] = "prepared" /\ nSize[t] = 0
                    \/ pc[t] \in {"ready", "open", "write"} /\ todo[t] # << >>
                         /\ Head(todo[t]) = "FILESTART"

\* A log file that has entries has a file-start entry, or gets one from a thread that is
\* on its way: the entry is logged after the mutex was released, so it need not be first.
HeaderIsComing ==
  live # 0 /\ files[live] # << >> /\ faults = 0 =>
    \/ \E i \in DOMAIN files[live] : files[live][i].type = "FILESTART"
    \/ \E t \in Threads : HeaderPending(t)

\* The live file stays within the limit, and the entries of one call of each thread.
SizeIsBounded ==
  RenameReplaces /\ live # 0 =>
    Len(files[live]) <= Limit + Cardinality(Threads) * (Len(CallEntries) + 1) + faults

\* With POSIX rename, a call is refused for its log only when a file operation failed.
RefusedOnlyByFault == RenameReplaces => refused <= faults

\* Every thread that takes the mutex gives it back, on the error paths too.
MutexIsReleased == \A t \in Threads : (t \in mutexLock) ~> (t \notin mutexLock)

\* "if size has exceeded the maximum, archive it" (log.cpp:95): what has been written is
\* still in the live file or in an archive.
NoFileLost ==
  \A i \in DOMAIN files :
    files[i] # << >> => live = i \/ \E s \in Stamps : archive[s] = i
================================================================================
