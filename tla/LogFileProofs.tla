------------------------------ MODULE LogFileProofs ----------------------------
(***************************************************************************)
(* The mutex of log.cpp does its work for every number of threads, calls   *)
(* and entries and every limit: one thread at a time uses the file, none   *)
(* finds it gone, with POSIX rename none is refused without a fault, and a *)
(* file gets its header whatever the order in which the threads go on.     *)
(* Where rename does not replace an archive, the files on disk, in order,  *)
(* are one log that only grows at its end.                                 *)
(***************************************************************************)
EXTENDS LogHistory, FoldLemmas, FiniteSetTheorems

\* A thread in cybs_log has an entry to log, and one in the library has begun a call.
EntryToLog ==
  \A t \in Threads : /\ pc[t] \in {"open", "write", "unlock"} => todo[t] # << >>
                     /\ pc[t] # "idle" => calls[t] > 0

IInv == /\ TypeOK
        /\ EntryToLog
        /\ MutualExclusion
        /\ WritesToLiveFile
        /\ RefusedOnlyByFault
--------------------------------------------------------------------------------
\* fopen leaves a log file behind, and no file before it changes.
LEMMA OpenTyping ==
  ASSUME TypeOK, OpenLive
  PROVE  /\ files' \in Seq(Seq(Entry)) /\ live' \in 1..Len(files')
         /\ Len(files) <= Len(files') /\ Len(files') \in Nat
  <1>1. CASE live = 0
    <2>1. files' = Append(files, << >>) /\ live' = Len(files) + 1
      BY <1>1 DEF OpenLive
    <2>2. << >> \in Seq(Entry) /\ files \in Seq(Seq(Entry))
      BY DEF TypeOK
    <2>3. files' \in Seq(Seq(Entry)) /\ Len(files') = Len(files) + 1
      BY <2>1, <2>2
    <2> QED
      BY <2>1, <2>2, <2>3
  <1>2. CASE live # 0
    BY <1>2 DEF OpenLive, TypeOK
  <1> QED
    BY <1>1, <1>2

\* What a call has to log is a sequence of entry types.
LEMMA EntriesTyping == \A size : EntriesAfter(size) \in Seq(Types)
  <1>1. CallEntries \in Seq(Types)
    BY EntriesAssumption
  <1>2. <<"FILESTART">> \in Seq(Types)
    BY DEF Types
  <1>3. <<"FILESTART">> \o CallEntries \in Seq(Types)
    BY <1>1, <1>2
  <1> QED
    BY <1>1, <1>3 DEF EntriesAfter

\* Every step keeps the types.
LEMMA StepTyping == IInv /\ [Next]_vars => TypeOK'
  <1> SUFFICES ASSUME IInv, [Next]_vars PROVE TypeOK'
    OBVIOUS
  <1> USE BoundsAssumption DEF IInv, TypeOK, EntryToLog, Stamps
  <1>1. ASSUME NEW t \in Threads, Prepare(t) PROVE TypeOK'
    BY <1>1 DEF Prepare, Goto, MUTEX_LOCK
  <1>2. ASSUME NEW t \in Threads, Measure(t) PROVE TypeOK'
    <2>1. files' \in Seq(Seq(Entry)) /\ live' \in 1..Len(files') /\ Len(files) <= Len(files')
      BY <1>2, OpenTyping DEF Measure
    <2>2. Len(files'[live']) \in Nat
      BY <2>1
    <2>3. /\ nSize' \in [Threads -> Nat]
          /\ pc' \in [Threads -> {"idle", "measure", "rotate", "prepared", "ready", "open", "write", "unlock"}]
      BY <1>2, <2>2 DEF Measure, Goto, Size
    <2> QED
      BY <1>2, <2>1, <2>3 DEF Measure
  <1>3. ASSUME NEW t \in Threads, MeasureFails(t) PROVE TypeOK'
    <2>1. /\ files' \in Seq(Seq(Entry)) /\ live' \in 0..Len(files')
          /\ Len(files) <= Len(files') /\ Len(files') \in Nat
      BY <1>3, OpenTyping DEF MeasureFails
    <2>2. archive' \in [Stamps -> 0..Len(files')]
      BY <1>3, <2>1 DEF MeasureFails
    <2>3. todo' \in [Threads -> Seq(Types)]
      BY <1>3 DEF MeasureFails, Refuse, Types
    <2> QED
      BY <1>3, <2>1, <2>2, <2>3 DEF MeasureFails, Refuse, Fault, MUTEX_UNLOCK, Goto
  <1>4. ASSUME NEW t \in Threads, Rotate(t) PROVE TypeOK'
    <2>1. archive' \in [Stamps -> 0..Len(files')]
      BY <1>4 DEF Rotate
    <2> QED
      BY <1>4, <2>1 DEF Rotate, Goto
  <1>5. ASSUME NEW t \in Threads, RotateFails(t) PROVE TypeOK'
    <2>1. todo' \in [Threads -> Seq(Types)]
      BY <1>5 DEF RotateFails, Refuse, Types
    <2> QED
      BY <1>5, <2>1 DEF RotateFails, Refuse, Fault, MUTEX_UNLOCK, Goto
  <1>6. ASSUME NEW t \in Threads, Prepared(t) PROVE TypeOK'
    <2>1. todo' \in [Threads -> Seq(Types)]
      BY <1>6, EntriesTyping DEF Prepared
    <2> QED
      BY <1>6, <2>1 DEF Prepared, MUTEX_UNLOCK, Goto
  <1>7. ASSUME NEW t \in Threads, LogLock(t) PROVE TypeOK'
    BY <1>7 DEF LogLock, Goto, MUTEX_LOCK
  <1>8. ASSUME NEW t \in Threads, LogOpen(t) PROVE TypeOK'
    <2>1. /\ files' \in Seq(Seq(Entry)) /\ live' \in 1..Len(files')
          /\ Len(files) <= Len(files') /\ Len(files') \in Nat
      BY <1>8, OpenTyping DEF LogOpen
    <2>2. archive' \in [Stamps -> 0..Len(files')] /\ live' \in 0..Len(files')
      BY <1>8, <2>1 DEF LogOpen
    <2> QED
      BY <1>8, <2>1, <2>2 DEF LogOpen, Goto
  <1>9. ASSUME NEW t \in Threads, LogOpenFails(t) PROVE TypeOK'
    BY <1>9 DEF LogOpenFails, Goto, Fault
  <1>10. ASSUME NEW t \in Threads, LogWrite(t) PROVE TypeOK'
    <2> DEFINE entry == [type |-> Head(todo[t]), thread |-> t, call |-> calls[t]]
    <2>0. todo[t] \in Seq(Types) /\ todo[t] # << >> /\ calls[t] \in 0..MaxCalls /\ calls[t] > 0
      BY <1>10 DEF LogWrite
    <2>1. Head(todo[t]) \in Types /\ calls[t] \in 1..MaxCalls
      BY <2>0
    <2>2. entry \in Entry
      BY <2>1 DEF Entry
    <2>3. live \in 1..Len(files)
      BY <1>10 DEF LogWrite, WritesToLiveFile
    <2>4. Append(files[live], entry) \in Seq(Entry)
      BY <2>2, <2>3
    <2>5. files' = [files EXCEPT ![live] = Append(files[live], entry)]
      BY <1>10 DEF LogWrite
    <2>6. files' \in Seq(Seq(Entry)) /\ Len(files') = Len(files)
      BY <2>3, <2>4, <2>5
    <2> QED
      BY <1>10, <2>6 DEF LogWrite, Goto
  <1>11. ASSUME NEW t \in Threads, LogUnlock(t) PROVE TypeOK'
    <2>1. Tail(todo[t]) \in Seq(Types)
      BY <1>11 DEF LogUnlock
    <2> QED
      BY <1>11, <2>1 DEF LogUnlock, MUTEX_UNLOCK, Goto
  <1>12. ASSUME NEW t \in Threads, Return(t) PROVE TypeOK'
    BY <1>12 DEF Return, Goto
  <1>13. CASE Tick
    BY <1>13 DEF Tick
  <1>14. CASE UNCHANGED vars
    BY <1>14 DEF vars
  <1> QED
    BY <1>1, <1>2, <1>3, <1>4, <1>5, <1>6, <1>7, <1>8, <1>9, <1>10, <1>11, <1>12, <1>13, <1>14 DEF Next, Locked

\* A thread enters a critical section only with the mutex, and leaves it with the mutex.
LEMMA ExclusionStep == IInv /\ TypeOK' /\ [Next]_vars => MutualExclusion'
  <1> SUFFICES ASSUME IInv, TypeOK', [Next]_vars PROVE MutualExclusion'
    OBVIOUS
  <1> USE DEF IInv, TypeOK, MutualExclusion, InSection
  <1>1. ASSUME NEW t \in Threads, Prepare(t) PROVE MutualExclusion'
    BY <1>1 DEF Prepare, Goto, MUTEX_LOCK
  <1>2. ASSUME NEW t \in Threads, Measure(t) PROVE MutualExclusion'
    BY <1>2 DEF Measure, Goto
  <1>3. ASSUME NEW t \in Threads, MeasureFails(t) PROVE MutualExclusion'
    BY <1>3 DEF MeasureFails, Refuse, Goto, MUTEX_UNLOCK
  <1>4. ASSUME NEW t \in Threads, Rotate(t) PROVE MutualExclusion'
    BY <1>4 DEF Rotate, Goto
  <1>5. ASSUME NEW t \in Threads, RotateFails(t) PROVE MutualExclusion'
    BY <1>5 DEF RotateFails, Refuse, Goto, MUTEX_UNLOCK
  <1>6. ASSUME NEW t \in Threads, Prepared(t) PROVE MutualExclusion'
    BY <1>6 DEF Prepared, Goto, MUTEX_UNLOCK
  <1>7. ASSUME NEW t \in Threads, LogLock(t) PROVE MutualExclusion'
    BY <1>7 DEF LogLock, Goto, MUTEX_LOCK
  <1>8. ASSUME NEW t \in Threads, LogOpen(t) PROVE MutualExclusion'
    BY <1>8 DEF LogOpen, Goto
  <1>9. ASSUME NEW t \in Threads, LogOpenFails(t) PROVE MutualExclusion'
    BY <1>9 DEF LogOpenFails, Goto
  <1>10. ASSUME NEW t \in Threads, LogWrite(t) PROVE MutualExclusion'
    BY <1>10 DEF LogWrite, Goto
  <1>11. ASSUME NEW t \in Threads, LogUnlock(t) PROVE MutualExclusion'
    BY <1>11 DEF LogUnlock, Goto, MUTEX_UNLOCK
  <1>12. ASSUME NEW t \in Threads, Return(t) PROVE MutualExclusion'
    BY <1>12 DEF Return, Goto
  <1>13. CASE Tick
    BY <1>13 DEF Tick
  <1>14. CASE UNCHANGED vars
    BY <1>14 DEF vars
  <1> QED
    BY <1>1, <1>2, <1>3, <1>4, <1>5, <1>6, <1>7, <1>8, <1>9, <1>10, <1>11, <1>12, <1>13, <1>14 DEF Next, Locked

\* Only the thread in its critical section takes the log away, or finds it there.
LEMMA LiveFileStep == IInv /\ TypeOK' /\ [Next]_vars => WritesToLiveFile'
  <1> SUFFICES ASSUME IInv, TypeOK', [Next]_vars PROVE WritesToLiveFile'
    OBVIOUS
  <1> USE DEF IInv, TypeOK, MutualExclusion, InSection, WritesToLiveFile
  <1>1. ASSUME NEW t \in Threads, Prepare(t) PROVE WritesToLiveFile'
    BY <1>1 DEF Prepare, Goto, MUTEX_LOCK
  <1>2. ASSUME NEW t \in Threads, Measure(t) PROVE WritesToLiveFile'
    BY <1>2, OpenTyping DEF Measure, Goto, OpenLive
  <1>3. ASSUME NEW t \in Threads, MeasureFails(t) PROVE WritesToLiveFile'
    BY <1>3, OpenTyping DEF MeasureFails, Refuse, OpenLive, Goto, MUTEX_UNLOCK
  <1>4. ASSUME NEW t \in Threads, Rotate(t) PROVE WritesToLiveFile'
    BY <1>4 DEF Rotate, Goto
  <1>5. ASSUME NEW t \in Threads, RotateFails(t) PROVE WritesToLiveFile'
    BY <1>5 DEF RotateFails, Refuse, Goto, MUTEX_UNLOCK
  <1>6. ASSUME NEW t \in Threads, Prepared(t) PROVE WritesToLiveFile'
    BY <1>6 DEF Prepared, Goto, MUTEX_UNLOCK
  <1>7. ASSUME NEW t \in Threads, LogLock(t) PROVE WritesToLiveFile'
    BY <1>7 DEF LogLock, Goto, MUTEX_LOCK
  <1>8. ASSUME NEW t \in Threads, LogOpen(t) PROVE WritesToLiveFile'
    BY <1>8, OpenTyping DEF LogOpen, Goto, OpenLive
  <1>9. ASSUME NEW t \in Threads, LogOpenFails(t) PROVE WritesToLiveFile'
    BY <1>9 DEF LogOpenFails, Goto
  <1>10. ASSUME NEW t \in Threads, LogWrite(t) PROVE WritesToLiveFile'
    BY <1>10 DEF LogWrite, Goto
  <1>11. ASSUME NEW t \in Threads, LogUnlock(t) PROVE WritesToLiveFile'
    BY <1>11 DEF LogUnlock, Goto, MUTEX_UNLOCK
  <1>12. ASSUME NEW t \in Threads, Return(t) PROVE WritesToLiveFile'
    BY <1>12 DEF Return, Goto
  <1>13. CASE Tick
    BY <1>13 DEF Tick
  <1>14. CASE UNCHANGED vars
    BY <1>14 DEF vars
  <1> QED
    BY <1>1, <1>2, <1>3, <1>4, <1>5, <1>6, <1>7, <1>8, <1>9, <1>10, <1>11, <1>12, <1>13, <1>14 DEF Next, Locked

\* Every step keeps an entry for the thread that is in cybs_log.
LEMMA EntryStep == IInv /\ TypeOK' /\ [Next]_vars => EntryToLog'
  <1> SUFFICES ASSUME IInv, TypeOK', [Next]_vars PROVE EntryToLog'
    OBVIOUS
  <1> USE DEF IInv, TypeOK, EntryToLog
  <1>1. ASSUME NEW t \in Threads, Prepare(t) PROVE EntryToLog'
    BY <1>1 DEF Prepare, Goto, MUTEX_LOCK
  <1>2. ASSUME NEW t \in Threads, Measure(t) PROVE EntryToLog'
    BY <1>2 DEF Measure, Goto
  <1>3. ASSUME NEW t \in Threads, MeasureFails(t) PROVE EntryToLog'
    BY <1>3 DEF MeasureFails, Refuse, Goto, MUTEX_UNLOCK
  <1>4. ASSUME NEW t \in Threads, Rotate(t) PROVE EntryToLog'
    BY <1>4 DEF Rotate, Goto
  <1>5. ASSUME NEW t \in Threads, RotateFails(t) PROVE EntryToLog'
    BY <1>5 DEF RotateFails, Refuse, Goto, MUTEX_UNLOCK
  <1>6. ASSUME NEW t \in Threads, Prepared(t) PROVE EntryToLog'
    BY <1>6 DEF Prepared, EntriesAfter, Goto, MUTEX_UNLOCK
  <1>7. ASSUME NEW t \in Threads, LogLock(t) PROVE EntryToLog'
    BY <1>7 DEF LogLock, Goto, MUTEX_LOCK
  <1>8. ASSUME NEW t \in Threads, LogOpen(t) PROVE EntryToLog'
    BY <1>8 DEF LogOpen, Goto
  <1>9. ASSUME NEW t \in Threads, LogOpenFails(t) PROVE EntryToLog'
    BY <1>9 DEF LogOpenFails, Goto
  <1>10. ASSUME NEW t \in Threads, LogWrite(t) PROVE EntryToLog'
    BY <1>10 DEF LogWrite, Goto
  <1>11. ASSUME NEW t \in Threads, LogUnlock(t) PROVE EntryToLog'
    BY <1>11 DEF LogUnlock, Goto, MUTEX_UNLOCK
  <1>12. ASSUME NEW t \in Threads, Return(t) PROVE EntryToLog'
    BY <1>12 DEF Return, Goto
  <1>13. CASE Tick
    BY <1>13 DEF Tick
  <1>14. CASE UNCHANGED vars
    BY <1>14 DEF vars
  <1> QED
    BY <1>1, <1>2, <1>3, <1>4, <1>5, <1>6, <1>7, <1>8, <1>9, <1>10, <1>11, <1>12, <1>13, <1>14 DEF Next, Locked

\* A rename that fails found nothing to rename, which cannot be, or failed by a fault.
LEMMA RefusedStep == IInv /\ TypeOK' /\ [Next]_vars => RefusedOnlyByFault'
  <1> SUFFICES ASSUME IInv, TypeOK', [Next]_vars PROVE RefusedOnlyByFault'
    OBVIOUS
  <1> USE DEF IInv, TypeOK, WritesToLiveFile, RefusedOnlyByFault
  <1>1. ASSUME NEW t \in Threads, Prepare(t) PROVE RefusedOnlyByFault'
    BY <1>1 DEF Prepare
  <1>2. ASSUME NEW t \in Threads, Measure(t) PROVE RefusedOnlyByFault'
    BY <1>2 DEF Measure
  <1>3. ASSUME NEW t \in Threads, MeasureFails(t) PROVE RefusedOnlyByFault'
    BY <1>3 DEF MeasureFails, Refuse, Fault
  <1>4. ASSUME NEW t \in Threads, Rotate(t) PROVE RefusedOnlyByFault'
    BY <1>4 DEF Rotate, RenameFails
  <1>5. ASSUME NEW t \in Threads, RotateFails(t) PROVE RefusedOnlyByFault'
    BY <1>5 DEF RotateFails, Refuse, Fault, RenameFails
  <1>6. ASSUME NEW t \in Threads, Prepared(t) PROVE RefusedOnlyByFault'
    BY <1>6 DEF Prepared
  <1>7. ASSUME NEW t \in Threads, LogLock(t) PROVE RefusedOnlyByFault'
    BY <1>7 DEF LogLock
  <1>8. ASSUME NEW t \in Threads, LogOpen(t) PROVE RefusedOnlyByFault'
    BY <1>8 DEF LogOpen
  <1>9. ASSUME NEW t \in Threads, LogOpenFails(t) PROVE RefusedOnlyByFault'
    BY <1>9 DEF LogOpenFails, Fault
  <1>10. ASSUME NEW t \in Threads, LogWrite(t) PROVE RefusedOnlyByFault'
    BY <1>10 DEF LogWrite
  <1>11. ASSUME NEW t \in Threads, LogUnlock(t) PROVE RefusedOnlyByFault'
    BY <1>11 DEF LogUnlock
  <1>12. ASSUME NEW t \in Threads, Return(t) PROVE RefusedOnlyByFault'
    BY <1>12 DEF Return
  <1>13. CASE Tick
    BY <1>13 DEF Tick
  <1>14. CASE UNCHANGED vars
    BY <1>14 DEF vars
  <1> QED
    BY <1>1, <1>2, <1>3, <1>4, <1>5, <1>6, <1>7, <1>8, <1>9, <1>10, <1>11, <1>12, <1>13, <1>14 DEF Next, Locked

--------------------------------------------------------------------------------
\* The inductive invariant holds initially.
LEMMA InitInvariant == Init => IInv
  BY BoundsAssumption DEF Init, IInv, TypeOK, Stamps, EntryToLog, MutualExclusion, InSection,
                          WritesToLiveFile, RefusedOnlyByFault

\* Every step keeps the inductive invariant.
LEMMA StepInvariant == IInv /\ [Next]_vars => IInv'
  <1>1. IInv /\ [Next]_vars => TypeOK'
    BY StepTyping
  <1> QED
    BY <1>1, ExclusionStep, LiveFileStep, EntryStep, RefusedStep DEF IInv

\* The inductive invariant holds throughout every behaviour.
THEOREM Invariance == Spec => []IInv
  BY InitInvariant, StepInvariant, PTL DEF Spec

\* Every variable keeps its type.
THEOREM Typing == Spec => []TypeOK
  <1>1. IInv => TypeOK
    BY DEF IInv
  <1> QED
    BY <1>1, Invariance, PTL

\* However many threads share the log, one at a time is in a critical section.
THEOREM Exclusion == Spec => []MutualExclusion
  <1>1. IInv => MutualExclusion
    BY DEF IInv
  <1> QED
    BY <1>1, Invariance, PTL

\* No thread renames or writes a log that another has taken away.
THEOREM LiveFile == Spec => []WritesToLiveFile
  <1>1. IInv => WritesToLiveFile
    BY DEF IInv
  <1> QED
    BY <1>1, Invariance, PTL

\* With POSIX rename, sharing the log never makes a call fail.
THEOREM NoSpuriousRefusal == Spec => []RefusedOnlyByFault
  <1>1. IInv => RefusedOnlyByFault
    BY DEF IInv
  <1> QED
    BY <1>1, Invariance, PTL
--------------------------------------------------------------------------------
HasHeader(file) == \E i \in DOMAIN file : file[i].type = "FILESTART"

\* Without a fault the live file has its header, or a thread is to write it, or there is
\* neither a file nor a thread that has passed the point where it would be found missing.
HeaderInv ==
  faults = 0 =>
    \/ live # 0 /\ HasHeader(files[live])
    \/ \E t \in Threads : HeaderPending(t)
    \/ live = 0 /\ \A t \in Threads : pc[t] \in {"idle", "measure"}

\* A header stays where it is when the file grows.
LEMMA HeaderStays ==
  ASSUME NEW file \in Seq(Entry), NEW e \in Entry
  PROVE  /\ HasHeader(file) => HasHeader(Append(file, e))
         /\ e.type = "FILESTART" => HasHeader(Append(file, e))
  <1>1. /\ Append(file, e)[Len(file) + 1] = e
        /\ \A i \in DOMAIN file : i \in DOMAIN Append(file, e) /\ Append(file, e)[i] = file[i]
        /\ Len(file) + 1 \in DOMAIN Append(file, e)
    OBVIOUS
  <1> QED
    BY <1>1 DEF HasHeader

\* What is pending for one thread stays so while another thread, or none, takes a step.
LEMMA OthersHeader ==
  ASSUME NEW t \in Threads, NEW u \in Threads, u # t, HeaderPending(u),
         pc'[u] = pc[u], nSize'[u] = nSize[u], todo'[u] = todo[u]
  PROVE  \E v \in Threads : HeaderPending(v)'
  BY DEF HeaderPending

\* Every step keeps the header where it is, or on its way.
LEMMA HeaderStep == IInv /\ HeaderInv /\ TypeOK' /\ [Next]_vars => HeaderInv'
  <1> SUFFICES ASSUME IInv, HeaderInv, TypeOK', [Next]_vars, faults' = 0 PROVE HeaderInv'
    BY DEF HeaderInv
  <1> USE DEF IInv, TypeOK, HeaderInv
  <1>1. ASSUME NEW t \in Threads, Prepare(t) PROVE HeaderInv'
    BY <1>1 DEF Prepare, Goto, HeaderPending
  <1>2. ASSUME NEW t \in Threads, Measure(t) PROVE HeaderInv'
    <2>1. /\ pc' = [pc EXCEPT ![t] = IF TooLarge(nSize'[t]) THEN "rotate" ELSE "prepared"]
          /\ nSize' = [nSize EXCEPT ![t] = Size(files'[live'])]
          /\ todo' = todo /\ faults = 0 /\ pc[t] = "measure"
      BY <1>2 DEF Measure, Goto
    <2>2. ASSUME NEW u \in Threads, HeaderPending(u) PROVE HeaderInv'
      <3>1. u # t
        BY <2>1, <2>2 DEF HeaderPending
      <3> QED
        BY <2>1, <2>2, <3>1, OthersHeader
    <2>3. CASE live # 0 /\ HasHeader(files[live])
      BY <1>2, <2>3 DEF Measure, OpenLive
    <2>4. CASE live = 0
      <3>1. files' = Append(files, << >>) /\ live' = Len(files) + 1
        BY <1>2, <2>4 DEF Measure, OpenLive
      <3>2. files'[live'] = << >>
        BY <3>1
      <3>3. nSize'[t] = 0
        BY <2>1, <3>2 DEF Size
      <3>4. pc'[t] = "prepared"
        BY <2>1, <3>3, BoundsAssumption DEF TooLarge
      <3> QED
        BY <3>3, <3>4 DEF HeaderPending
    <2> QED
      BY <2>1, <2>2, <2>3, <2>4
  <1>3. ASSUME NEW t \in Threads, MeasureFails(t) PROVE HeaderInv'
    BY <1>3 DEF MeasureFails, Fault
  <1>4. ASSUME NEW t \in Threads, Rotate(t) PROVE HeaderInv'
    BY <1>4 DEF Rotate, Goto, HeaderPending
  <1>5. ASSUME NEW t \in Threads, RotateFails(t) PROVE HeaderInv'
    BY <1>5 DEF RotateFails, Refuse, Goto, Fault, HeaderPending
  <1>6. ASSUME NEW t \in Threads, Prepared(t) PROVE HeaderInv'
    <2>1. /\ pc' = [pc EXCEPT ![t] = "ready"] /\ pc[t] = "prepared"
          /\ todo' = [todo EXCEPT ![t] = EntriesAfter(nSize[t])]
          /\ UNCHANGED <<files, live, nSize, faults>>
      BY <1>6 DEF Prepared, Goto
    <2>2. CASE HeaderPending(t)
      <3>1. nSize[t] = 0
        BY <2>1, <2>2 DEF HeaderPending
      <3>2. todo'[t] = <<"FILESTART">> \o CallEntries
        BY <2>1, <3>1 DEF EntriesAfter
      <3>3. todo'[t] # << >> /\ Head(todo'[t]) = "FILESTART"
        <4>1. CallEntries \in Seq(Types) /\ <<"FILESTART">> \in Seq(Types)
          BY EntriesAssumption DEF Types
        <4> QED
          BY <3>2, <4>1
      <3> QED
        BY <2>1, <3>3 DEF HeaderPending
    <2>3. ASSUME NEW u \in Threads, HeaderPending(u), u # t PROVE HeaderInv'
      BY <2>1, <2>3, OthersHeader
    <2> QED
      BY <2>1, <2>2, <2>3
  <1>7. ASSUME NEW t \in Threads, LogLock(t) PROVE HeaderInv'
    BY <1>7 DEF LogLock, Goto, HeaderPending
  <1>8. ASSUME NEW t \in Threads, LogOpen(t) PROVE HeaderInv'
    <2>1. /\ pc' = [pc EXCEPT ![t] = "write"] /\ pc[t] = "open"
          /\ UNCHANGED <<nSize, todo, faults>>
      BY <1>8 DEF LogOpen, Goto
    <2>2. CASE live # 0 /\ HasHeader(files[live])
      BY <1>8, <2>2 DEF LogOpen, OpenLive
    <2>3. ASSUME NEW u \in Threads, HeaderPending(u) PROVE HeaderPending(u)'
      BY <2>1, <2>3 DEF HeaderPending
    <2> QED
      BY <2>1, <2>2, <2>3
  <1>9. ASSUME NEW t \in Threads, LogOpenFails(t) PROVE HeaderInv'
    BY <1>9 DEF LogOpenFails, Fault
  <1>10. ASSUME NEW t \in Threads, LogWrite(t) PROVE HeaderInv'
    <2> DEFINE entry == [type |-> Head(todo[t]), thread |-> t, call |-> calls[t]]
    <2>0. todo[t] \in Seq(Types) /\ todo[t] # << >> /\ calls[t] \in 0..MaxCalls /\ calls[t] > 0
      BY <1>10 DEF LogWrite, EntryToLog
    <2>1. entry \in Entry
      BY <2>0 DEF Entry
    <2>2. live \in 1..Len(files) /\ files[live] \in Seq(Entry)
      BY <1>10 DEF LogWrite, WritesToLiveFile
    <2>3. /\ files'[live'] = Append(files[live], entry) /\ live' = live /\ live # 0
          /\ pc' = [pc EXCEPT ![t] = "unlock"] /\ pc[t] = "write"
          /\ UNCHANGED <<nSize, todo, faults>>
      BY <1>10, <2>2 DEF LogWrite, Goto
    <2>4. CASE HasHeader(files[live]) \/ HeaderPending(t)
      <3>1. HasHeader(files[live]) \/ entry.type = "FILESTART"
        BY <2>3, <2>4 DEF HeaderPending
      <3>2. HasHeader(Append(files[live], entry))
        <4> HIDE DEF entry
        <4> QED
          BY <2>1, <2>2, <3>1, HeaderStays
      <3>3. HasHeader(files[live])'
        BY <2>3, <3>2 DEF HasHeader
      <3> QED
        BY <2>3, <3>3
    <2>5. ASSUME NEW u \in Threads, HeaderPending(u), u # t PROVE HeaderInv'
      BY <2>3, <2>5, OthersHeader
    <2> QED
      BY <2>3, <2>4, <2>5
  <1>11. ASSUME NEW t \in Threads, LogUnlock(t) PROVE HeaderInv'
    <2>1. /\ pc' = [pc EXCEPT ![t] = "ready"] /\ pc[t] = "unlock"
          /\ todo' = [todo EXCEPT ![t] = Tail(@)]
          /\ UNCHANGED <<files, live, nSize, faults>>
      BY <1>11 DEF LogUnlock, Goto
    <2>2. ASSUME NEW u \in Threads, HeaderPending(u) PROVE HeaderInv'
      <3>1. u # t
        BY <2>1, <2>2 DEF HeaderPending
      <3> QED
        BY <2>1, <2>2, <3>1, OthersHeader
    <2> QED
      BY <2>1, <2>2
  <1>12. ASSUME NEW t \in Threads, Return(t) PROVE HeaderInv'
    BY <1>12 DEF Return, Goto, HeaderPending
  <1>13. CASE Tick
    BY <1>13 DEF Tick, HeaderPending
  <1>14. CASE UNCHANGED vars
    BY <1>14 DEF vars, HeaderPending
  <1> QED
    BY <1>1, <1>2, <1>3, <1>4, <1>5, <1>6, <1>7, <1>8, <1>9, <1>10, <1>11, <1>12, <1>13, <1>14 DEF Next, Locked

\* However the threads follow one another after the mutex was released, a log file is
\* given its header unless a file operation failed.
THEOREM Header == Spec => []HeaderIsComing
  <1>1. Init => HeaderInv
    BY DEF Init, HeaderInv
  <1>2. IInv /\ HeaderInv /\ [Next]_vars => HeaderInv'
    BY StepInvariant, HeaderStep DEF IInv
  <1>3. HeaderInv => HeaderIsComing
    BY DEF HeaderInv, HeaderIsComing, HasHeader
  <1> QED
    BY <1>1, <1>2, <1>3, Invariance, PTL DEF Spec
--------------------------------------------------------------------------------
\* The entries that t will yet log in this call, a place for each entry of each thread,
\* the places of those to come, and the size of the live file.
ToLog(t) == CASE pc[t] = "prepared" -> Len(EntriesAfter(nSize[t]))
              [] pc[t] \in {"ready", "open", "write"} -> Len(todo[t])
              [] pc[t] = "unlock" -> Len(todo[t]) - 1
              [] OTHER -> 0
Places == Threads \X (1..(Len(CallEntries) + 1))
ToCome == {p \in Places : p[2] <= ToLog(p[1])}
LiveSize == IF live = 0 THEN 0 ELSE Len(files[live])

\* What is in the live file and what is to come stay within the limit, a place for each
\* entry of each thread, and one for each fault.
SizeInv ==
  RenameReplaces => LiveSize + Cardinality(ToCome) <= Limit + Cardinality(Places) + faults

\* No thread has more to log than there are places.
ToLogBounded == \A t \in Threads : ToLog(t) \in 0..(Len(CallEntries) + 1)

\* There are as many places as SizeIsBounded counts.
LEMMA PlacesFinite ==
  /\ IsFiniteSet(Places) /\ Cardinality(Places) \in Nat
  /\ Cardinality(Places) = Cardinality(Threads) * (Len(CallEntries) + 1)
  <1>1. Len(CallEntries) \in Nat
    BY EntriesAssumption
  <1>2. /\ IsFiniteSet(1..(Len(CallEntries) + 1))
        /\ Cardinality(1..(Len(CallEntries) + 1)) = Len(CallEntries) + 1
    BY <1>1, FS_Interval
  <1> QED
    BY <1>2, ThreadsAssumption, FS_Product, FS_CardinalityType DEF Places

\* Sets of places are finite, and the smaller set has no more of them.
LEMMA SomePlaces ==
  ASSUME NEW S, NEW T, S \subseteq T, T \subseteq Places
  PROVE  /\ IsFiniteSet(T) /\ Cardinality(S) <= Cardinality(T)
         /\ Cardinality(S) \in Nat /\ Cardinality(T) \in Nat
  <1>1. IsFiniteSet(T) /\ IsFiniteSet(S)
    BY PlacesFinite, FS_Subset
  <1> QED
    BY <1>1, FS_Subset, FS_CardinalityType

\* The size of a file, or of none, is a number.
LEMMA SizeTyping ==
  ASSUME NEW all \in Seq(Seq(Entry)), NEW i \in 0..Len(all)
  PROVE  (IF i = 0 THEN 0 ELSE Len(all[i])) \in Nat
  <1>1. CASE i = 0
    BY <1>1
  <1>2. CASE i # 0
    <2>1. all[i] \in Seq(Entry)
      BY <1>2
    <2> QED
      BY <1>2, <2>1
  <1> QED
    BY <1>1, <1>2

\* The terms of the bound are numbers.
LEMMA TermsTyping ==
  ASSUME TypeOK, TypeOK'
  PROVE  /\ LiveSize \in Nat /\ LiveSize' \in Nat /\ faults \in Nat /\ faults' \in Nat
         /\ Limit \in Nat /\ Cardinality(Places) \in Nat
  <1>1. LiveSize \in Nat
    BY SizeTyping DEF TypeOK, LiveSize
  <1>2. LiveSize' \in Nat
    BY SizeTyping DEF TypeOK, LiveSize
  <1> QED
    BY <1>1, <1>2, BoundsAssumption, PlacesFinite DEF TypeOK

\* What a call has to log has a place each.
LEMMA EntriesFit == \A size : Len(EntriesAfter(size)) \in 0..(Len(CallEntries) + 1)
  <1>1. CallEntries \in Seq(Types) /\ <<"FILESTART">> \in Seq(Types)
    BY EntriesAssumption DEF Types
  <1>2. Len(<<"FILESTART">> \o CallEntries) = 1 + Len(CallEntries)
    BY <1>1
  <1> QED
    BY <1>1, <1>2 DEF EntriesAfter

\* A step after which no thread has more to log than before, and the file is no larger.
LEMMA NoMoreToCome ==
  ASSUME TypeOK, TypeOK', SizeInv, ToLogBounded, ToLogBounded',
         \A t \in Threads : ToLog(t)' <= ToLog(t),
         LiveSize' <= LiveSize, faults <= faults'
  PROVE  SizeInv'
  <1>1. \A p \in Places : p[1] \in Threads /\ p[2] \in Nat
    BY DEF Places
  <1>2. ToCome' \subseteq ToCome
    <2>1. \A p \in Places : p[2] <= ToLog(p[1])' => p[2] <= ToLog(p[1])
      BY <1>1, EntriesAssumption DEF ToLogBounded
    <2> QED
      BY <2>1 DEF ToCome
  <1>3. Cardinality(ToCome') <= Cardinality(ToCome) /\ Cardinality(ToCome') \in Nat /\ Cardinality(ToCome) \in Nat
    BY <1>2, SomePlaces DEF ToCome
  <1>4. /\ LiveSize \in Nat /\ LiveSize' \in Nat /\ faults \in Nat /\ faults' \in Nat
        /\ Limit \in Nat /\ Cardinality(Places) \in Nat
    BY TermsTyping
  <1> QED
    BY <1>3, <1>4 DEF SizeInv

\* A step that finds or makes the file small.
LEMMA SmallFile ==
  ASSUME TypeOK, TypeOK', LiveSize' <= Limit
  PROVE  SizeInv'
  <1>1. ToCome' \subseteq Places
    BY DEF ToCome
  <1>2. Cardinality(ToCome') <= Cardinality(Places) /\ Cardinality(ToCome') \in Nat
    BY <1>1, SomePlaces
  <1>3. /\ LiveSize' \in Nat /\ faults' \in Nat
        /\ Limit \in Nat /\ Cardinality(Places) \in Nat
    BY TermsTyping
  <1> QED
    BY <1>2, <1>3 DEF SizeInv

\* A call that is refused has one entry to log, for a fault.
LEMMA OneMoreToCome ==
  ASSUME TypeOK, TypeOK', SizeInv, ToLogBounded, ToLogBounded', NEW t \in Threads,
         ToLog(t)' = 1, \A u \in Threads \ {t} : ToLog(u)' = ToLog(u),
         LiveSize' <= LiveSize, RenameReplaces => faults' = faults + 1
  PROVE  SizeInv'
  <1>1. \A p \in Places : p[1] \in Threads /\ p[2] \in Nat /\ p[2] >= 1 /\ p = <<p[1], p[2]>>
    BY DEF Places
  <1>2. ToCome' \subseteq ToCome \union {<<t, 1>>}
    <2>1. ASSUME NEW p \in Places, p[2] <= ToLog(p[1])', p # <<t, 1>> PROVE p[2] <= ToLog(p[1])
      <3>1. CASE p[1] = t
        BY <1>1, <2>1, <3>1
      <3>2. CASE p[1] # t
        BY <1>1, <2>1, <3>2
      <3> QED
        BY <3>1, <3>2
    <2> QED
      BY <2>1 DEF ToCome
  <1>3. IsFiniteSet(ToCome) /\ Cardinality(ToCome) \in Nat
    BY SomePlaces DEF ToCome
  <1>4. /\ IsFiniteSet(ToCome \union {<<t, 1>>})
        /\ Cardinality(ToCome \union {<<t, 1>>}) <= Cardinality(ToCome) + 1
    BY <1>3, FS_AddElement
  <1>5. Cardinality(ToCome') <= Cardinality(ToCome) + 1 /\ Cardinality(ToCome') \in Nat
    <2>1. IsFiniteSet(ToCome') /\ Cardinality(ToCome') <= Cardinality(ToCome \union {<<t, 1>>})
      BY <1>2, <1>4, FS_Subset
    <2> QED
      BY <1>3, <1>4, <2>1, FS_CardinalityType
  <1>6. /\ LiveSize \in Nat /\ LiveSize' \in Nat /\ faults \in Nat /\ faults' \in Nat
        /\ Limit \in Nat /\ Cardinality(Places) \in Nat
    BY TermsTyping
  <1> QED
    BY <1>3, <1>5, <1>6 DEF SizeInv

\* An entry goes from its place into the file.
LEMMA OneLessToCome ==
  ASSUME TypeOK, TypeOK', SizeInv, ToLogBounded, ToLogBounded', NEW t \in Threads,
         ToLog(t) >= 1, ToLog(t)' = ToLog(t) - 1,
         \A u \in Threads \ {t} : ToLog(u)' = ToLog(u),
         LiveSize' = LiveSize + 1, faults' = faults
  PROVE  SizeInv'
  <1> DEFINE place == <<t, ToLog(t)>>
  <1>1. \A p \in Places : p[1] \in Threads /\ p[2] \in Nat /\ p = <<p[1], p[2]>>
    BY DEF Places
  <1>2. place \in ToCome
    BY EntriesAssumption DEF ToLogBounded, ToCome, Places
  <1>3. ToCome' \subseteq ToCome \ {place}
    <2>1. ASSUME NEW p \in Places, p[2] <= ToLog(p[1])' PROVE p[2] <= ToLog(p[1]) /\ p # place
      <3>1. CASE p[1] = t
        BY <1>1, <2>1, <3>1, EntriesAssumption DEF ToLogBounded
      <3>2. CASE p[1] # t
        BY <1>1, <2>1, <3>2
      <3> QED
        BY <3>1, <3>2
    <2> QED
      BY <2>1 DEF ToCome
  <1>4. IsFiniteSet(ToCome) /\ Cardinality(ToCome) \in Nat
    BY SomePlaces DEF ToCome
  <1>5. /\ IsFiniteSet(ToCome \ {place})
        /\ Cardinality(ToCome \ {place}) = Cardinality(ToCome) - 1
    BY <1>2, <1>4, FS_RemoveElement
  <1>6. Cardinality(ToCome') <= Cardinality(ToCome) - 1 /\ Cardinality(ToCome') \in Nat
    <2>1. IsFiniteSet(ToCome') /\ Cardinality(ToCome') <= Cardinality(ToCome \ {place})
      BY <1>3, <1>5, FS_Subset
    <2> QED
      BY <1>4, <1>5, <2>1, FS_CardinalityType
  <1>7. /\ LiveSize \in Nat /\ LiveSize' \in Nat /\ faults \in Nat /\ faults' \in Nat
        /\ Limit \in Nat /\ Cardinality(Places) \in Nat
    BY TermsTyping
  <1> QED
    BY <1>4, <1>6, <1>7 DEF SizeInv

\* What thread u has to log is left alone by a step of another thread.
LEMMA SameToLog ==
  ASSUME NEW u, pc'[u] = pc[u], nSize'[u] = nSize[u], todo'[u] = todo[u]
  PROVE  ToLog(u)' = ToLog(u)
  BY DEF ToLog

\* Opening the log leaves its size as it is.
LEMMA OpenSize == TypeOK /\ OpenLive => LiveSize' = LiveSize
  <1> SUFFICES ASSUME TypeOK, OpenLive PROVE LiveSize' = LiveSize
    OBVIOUS
  <1>1. CASE live = 0
    <2>1. files' = Append(files, << >>) /\ live' = Len(files) + 1 /\ files \in Seq(Seq(Entry))
      BY <1>1 DEF OpenLive, TypeOK
    <2>2. files'[live'] = << >> /\ live' # 0
      BY <2>1
    <2> QED
      BY <1>1, <2>2 DEF LiveSize
  <1>2. CASE live # 0
    BY <1>2 DEF OpenLive, LiveSize
  <1> QED
    BY <1>1, <1>2
--------------------------------------------------------------------------------
\* Only the thread that takes a step has another number of entries to log after it.
LEMMA StepBounded ==
  ASSUME ToLogBounded, NEW t \in Threads, ToLog(t)' \in 0..(Len(CallEntries) + 1),
         \A u \in Threads \ {t} : ToLog(u)' = ToLog(u)
  PROVE  ToLogBounded'
  BY DEF ToLogBounded

\* A step of t after which it has no more to log than before, and the file is no larger.
LEMMA NoMoreForOne ==
  ASSUME TypeOK, TypeOK', SizeInv, ToLogBounded, NEW t \in Threads, ToLog(t)' \in 0..ToLog(t),
         \A u \in Threads \ {t} : ToLog(u)' = ToLog(u), LiveSize' <= LiveSize, faults <= faults'
  PROVE  ToLogBounded' /\ SizeInv'
  <1>1. ToLog(t)' \in 0..(Len(CallEntries) + 1)
    BY EntriesAssumption DEF ToLogBounded
  <1>2. ToLogBounded'
    BY <1>1, StepBounded
  <1>3. \A u \in Threads : ToLog(u)' <= ToLog(u)
    BY EntriesAssumption DEF ToLogBounded
  <1> QED
    BY <1>2, <1>3, NoMoreToCome

\* A call that is refused leaves t with the entry of the error.
LEMMA RefusedOne ==
  ASSUME TypeOK, TypeOK', SizeInv, ToLogBounded, NEW t \in Threads, Refuse(t),
         nSize' = nSize, LiveSize' <= LiveSize, RenameReplaces => faults' = faults + 1
  PROVE  ToLogBounded' /\ SizeInv'
  <1>1. \A u \in Threads \ {t} : ToLog(u)' = ToLog(u)
    BY SameToLog DEF Refuse, Goto, TypeOK
  <1>2. ToLog(t)' = 1
    BY DEF Refuse, Goto, ToLog, TypeOK
  <1>3. ToLogBounded'
    BY <1>1, <1>2, StepBounded, EntriesAssumption
  <1> QED
    BY <1>1, <1>2, <1>3, OneMoreToCome

\* Every step keeps the file, with what is to come, within the bound.
LEMMA SizeStep ==
  IInv /\ ToLogBounded /\ SizeInv /\ TypeOK' /\ [Next]_vars => ToLogBounded' /\ SizeInv'
  <1> SUFFICES ASSUME IInv, ToLogBounded, SizeInv, TypeOK', [Next]_vars
               PROVE  ToLogBounded' /\ SizeInv'
    OBVIOUS
  <1>0. TypeOK /\ EntryToLog /\ WritesToLiveFile
    BY DEF IInv
  <1>a. LiveSize \in Nat /\ LiveSize' \in Nat /\ faults \in Nat /\ faults' \in Nat /\ Limit \in Nat
    BY <1>0, TermsTyping
  <1>1. ASSUME NEW t \in Threads, Prepare(t) PROVE ToLogBounded' /\ SizeInv'
    <2>1. \A u \in Threads \ {t} : ToLog(u)' = ToLog(u)
      BY <1>0, <1>1, SameToLog DEF Prepare, Goto, TypeOK
    <2>2. ToLog(t)' \in 0..ToLog(t)
      BY <1>0, <1>1 DEF Prepare, Goto, ToLog, TypeOK
    <2>3. LiveSize' = LiveSize /\ faults <= faults'
      BY <1>a, <1>1 DEF Prepare, LiveSize
    <2> QED
      BY <1>0, <1>a, <2>1, <2>2, <2>3, NoMoreForOne
  <1>2. ASSUME NEW t \in Threads, Measure(t) PROVE ToLogBounded' /\ SizeInv'
    <2>1. \A u \in Threads \ {t} : ToLog(u)' = ToLog(u)
      BY <1>0, <1>2, SameToLog DEF Measure, Goto, TypeOK
    <2>2. LiveSize' = LiveSize /\ nSize'[t] = LiveSize' /\ nSize' = [nSize EXCEPT ![t] = nSize'[t]]
      <3>1. OpenLive /\ nSize' = [nSize EXCEPT ![t] = Size(files'[live'])]
        BY <1>2 DEF Measure
      <3>2. live' # 0 /\ LiveSize' = LiveSize
        BY <1>0, <3>1, OpenTyping, OpenSize
      <3> QED
        BY <1>0, <3>1, <3>2 DEF LiveSize, Size, TypeOK
    <2>3. CASE TooLarge(nSize'[t])
      <3>1. ToLog(t)' = 0 /\ ToLog(t) = 0
        BY <1>0, <1>2, <2>3 DEF Measure, Goto, ToLog, TypeOK
      <3> QED
        BY <1>0, <1>2, <1>a, <2>1, <2>2, <3>1, NoMoreForOne DEF Measure
    <2>4. CASE ~TooLarge(nSize'[t])
      <3>1. pc'[t] = "prepared"
        BY <1>0, <1>2, <2>4 DEF Measure, Goto, TypeOK
      <3>2. ToLog(t)' = Len(EntriesAfter(nSize'[t]))
        BY <3>1 DEF ToLog
      <3>3. LiveSize' <= Limit
        BY <1>a, <2>2, <2>4 DEF TooLarge
      <3> QED
        BY <1>0, <2>1, <3>2, <3>3, EntriesFit, StepBounded, SmallFile
    <2> QED
      BY <2>3, <2>4
  <1>3. ASSUME NEW t \in Threads, MeasureFails(t) PROVE ToLogBounded' /\ SizeInv'
    <2>1. LiveSize' = LiveSize
      BY <1>0, <1>3, OpenSize DEF MeasureFails, LiveSize
    <2> QED
      BY <1>0, <1>3, <1>a, <2>1, RefusedOne DEF MeasureFails, Fault
  <1>4. ASSUME NEW t \in Threads, Rotate(t) PROVE ToLogBounded' /\ SizeInv'
    <2>1. \A u \in Threads \ {t} : ToLog(u)' = ToLog(u)
      BY <1>0, <1>4, SameToLog DEF Rotate, Goto, TypeOK
    <2>2. ToLog(t)' = Len(EntriesAfter(0))
      BY <1>0, <1>4 DEF Rotate, Goto, ToLog, TypeOK
    <2>3. LiveSize' <= Limit
      BY <1>4, <1>a DEF Rotate, LiveSize
    <2> QED
      BY <1>0, <2>1, <2>2, <2>3, EntriesFit, StepBounded, SmallFile
  <1>5. ASSUME NEW t \in Threads, RotateFails(t) PROVE ToLogBounded' /\ SizeInv'
    <2>1. RenameReplaces => faults' = faults + 1
      BY <1>0, <1>5 DEF RotateFails, RenameFails, Fault, WritesToLiveFile
    <2>2. LiveSize' = LiveSize
      BY <1>5 DEF RotateFails, LiveSize
    <2> QED
      BY <1>0, <1>5, <1>a, <2>1, <2>2, RefusedOne DEF RotateFails
  <1>6. ASSUME NEW t \in Threads, Prepared(t) PROVE ToLogBounded' /\ SizeInv'
    <2>1. \A u \in Threads \ {t} : ToLog(u)' = ToLog(u)
      BY <1>0, <1>6, SameToLog DEF Prepared, Goto, TypeOK
    <2>2. ToLog(t)' \in 0..ToLog(t)
      <3>1. ToLog(t)' = Len(EntriesAfter(nSize[t])) /\ ToLog(t) = Len(EntriesAfter(nSize[t]))
        BY <1>0, <1>6 DEF Prepared, Goto, ToLog, TypeOK
      <3> QED
        BY <3>1, EntriesFit
    <2>3. LiveSize' = LiveSize /\ faults <= faults'
      BY <1>a, <1>6 DEF Prepared, LiveSize
    <2> QED
      BY <1>0, <1>a, <2>1, <2>2, <2>3, NoMoreForOne
  <1>7. ASSUME NEW t \in Threads, LogLock(t) PROVE ToLogBounded' /\ SizeInv'
    <2>1. \A u \in Threads \ {t} : ToLog(u)' = ToLog(u)
      BY <1>0, <1>7, SameToLog DEF LogLock, Goto, TypeOK
    <2>2. ToLog(t)' \in 0..ToLog(t)
      <3>1. ToLog(t)' = ToLog(t)
        BY <1>0, <1>7 DEF LogLock, Goto, ToLog, TypeOK
      <3> QED
        BY <3>1, EntriesAssumption DEF ToLogBounded
    <2>3. LiveSize' = LiveSize /\ faults <= faults'
      BY <1>a, <1>7 DEF LogLock, LiveSize
    <2> QED
      BY <1>0, <1>a, <2>1, <2>2, <2>3, NoMoreForOne
  <1>8. ASSUME NEW t \in Threads, LogOpen(t) PROVE ToLogBounded' /\ SizeInv'
    <2>1. \A u \in Threads \ {t} : ToLog(u)' = ToLog(u)
      BY <1>0, <1>8, SameToLog DEF LogOpen, Goto, TypeOK
    <2>2. ToLog(t)' \in 0..ToLog(t)
      <3>1. ToLog(t)' = ToLog(t)
        BY <1>0, <1>8 DEF LogOpen, Goto, ToLog, TypeOK
      <3> QED
        BY <3>1, EntriesAssumption DEF ToLogBounded
    <2>3. LiveSize' = LiveSize /\ faults <= faults'
      BY <1>0, <1>a, <1>8, OpenSize DEF LogOpen
    <2> QED
      BY <1>0, <1>a, <2>1, <2>2, <2>3, NoMoreForOne
  <1>9. ASSUME NEW t \in Threads, LogOpenFails(t) PROVE ToLogBounded' /\ SizeInv'
    <2>1. \A u \in Threads \ {t} : ToLog(u)' = ToLog(u)
      BY <1>0, <1>9, SameToLog DEF LogOpenFails, Goto, TypeOK
    <2>2. ToLog(t)' \in 0..ToLog(t)
      <3>1. ToLog(t)' = Len(todo[t]) - 1 /\ ToLog(t) = Len(todo[t]) /\ todo[t] \in Seq(Types) /\ todo[t] # << >>
        BY <1>0, <1>9 DEF LogOpenFails, Goto, ToLog, TypeOK, EntryToLog
      <3> QED
        BY <3>1
    <2>3. LiveSize' = LiveSize /\ faults <= faults'
      BY <1>a, <1>9 DEF LogOpenFails, LiveSize, Fault
    <2> QED
      BY <1>0, <1>a, <2>1, <2>2, <2>3, NoMoreForOne
  <1>10. ASSUME NEW t \in Threads, LogWrite(t) PROVE ToLogBounded' /\ SizeInv'
    <2>1. \A u \in Threads \ {t} : ToLog(u)' = ToLog(u)
      BY <1>0, <1>10, SameToLog DEF LogWrite, Goto, TypeOK
    <2>2. /\ ToLog(t)' = Len(todo[t]) - 1 /\ ToLog(t) = Len(todo[t])
          /\ todo[t] \in Seq(Types) /\ todo[t] # << >>
      BY <1>0, <1>10 DEF LogWrite, Goto, ToLog, TypeOK, EntryToLog
    <2>3. ToLog(t) >= 1 /\ ToLog(t)' = ToLog(t) - 1
      BY <2>2
    <2>4. LiveSize' = LiveSize + 1
      <3>1. live \in 1..Len(files) /\ files \in Seq(Seq(Entry))
        BY <1>0, <1>10 DEF LogWrite, WritesToLiveFile, TypeOK
      <3>2. files[live] \in Seq(Entry)
        BY <3>1
      <3>3. PICK e : files' = [files EXCEPT ![live] = Append(files[live], e)] /\ live' = live
        BY <1>10 DEF LogWrite
      <3>4. Len(Append(files[live], e)) = Len(files[live]) + 1
        BY <3>2
      <3> QED
        BY <3>1, <3>3, <3>4 DEF LiveSize
    <2>5. ToLogBounded'
      BY <2>1, <2>3, StepBounded, EntriesAssumption DEF ToLogBounded
    <2> QED
      BY <1>0, <1>10, <2>1, <2>3, <2>4, <2>5, OneLessToCome DEF LogWrite
  <1>11. ASSUME NEW t \in Threads, LogUnlock(t) PROVE ToLogBounded' /\ SizeInv'
    <2>1. \A u \in Threads \ {t} : ToLog(u)' = ToLog(u)
      BY <1>0, <1>11, SameToLog DEF LogUnlock, Goto, TypeOK
    <2>2. ToLog(t)' \in 0..ToLog(t)
      <3>1. /\ ToLog(t)' = Len(Tail(todo[t])) /\ ToLog(t) = Len(todo[t]) - 1
            /\ todo[t] \in Seq(Types) /\ todo[t] # << >>
        BY <1>0, <1>11 DEF LogUnlock, Goto, ToLog, TypeOK, EntryToLog
      <3> QED
        BY <3>1
    <2>3. LiveSize' = LiveSize /\ faults <= faults'
      BY <1>a, <1>11 DEF LogUnlock, LiveSize
    <2> QED
      BY <1>0, <1>a, <2>1, <2>2, <2>3, NoMoreForOne
  <1>12. ASSUME NEW t \in Threads, Return(t) PROVE ToLogBounded' /\ SizeInv'
    <2>1. \A u \in Threads \ {t} : ToLog(u)' = ToLog(u)
      BY <1>0, <1>12, SameToLog DEF Return, Goto, TypeOK
    <2>2. ToLog(t)' \in 0..ToLog(t)
      BY <1>0, <1>12 DEF Return, Goto, ToLog, TypeOK
    <2>3. LiveSize' = LiveSize /\ faults <= faults'
      BY <1>a, <1>12 DEF Return, LiveSize
    <2> QED
      BY <1>0, <1>a, <2>1, <2>2, <2>3, NoMoreForOne
  <1>13. CASE UNCHANGED <<pc, nSize, todo, files, live, faults>>
    <2>1. \A t \in Threads : ToLog(t)' = ToLog(t)
      BY <1>13, SameToLog
    <2>2. LiveSize' = LiveSize /\ faults' = faults
      BY <1>13 DEF LiveSize
    <2>3. PICK t \in Threads : TRUE
      BY ThreadsAssumption
    <2>4. ToLog(t)' \in 0..ToLog(t)
      BY <2>1, EntriesAssumption DEF ToLogBounded
    <2> QED
      BY <1>0, <1>a, <2>1, <2>2, <2>4, NoMoreForOne
  <1>14. CASE Tick
    BY <1>13, <1>14 DEF Tick
  <1>15. CASE UNCHANGED vars
    BY <1>13, <1>15 DEF vars
  <1> QED
    BY <1>1, <1>2, <1>3, <1>4, <1>5, <1>6, <1>7, <1>8, <1>9, <1>10, <1>11, <1>12, <1>14, <1>15 DEF Next, Locked

\* Though the file is measured only once a call, it never passes the limit by more than an
\* entry for each place that a thread has for one, and one for each fault.
THEOREM Bound == Spec => []SizeIsBounded
  <1>1. Init => ToLogBounded /\ SizeInv
    <2> SUFFICES ASSUME Init PROVE ToLogBounded /\ SizeInv
      OBVIOUS
    <2>1. \A t \in Threads : ToLog(t) = 0
      BY DEF Init, ToLog
    <2>2. ToLogBounded
      BY <2>1, EntriesAssumption DEF ToLogBounded
    <2>3. ToCome \subseteq Places
      BY DEF ToCome
    <2>4. LiveSize = 0 /\ faults = 0
      BY DEF Init, LiveSize
    <2> QED
      BY <2>2, <2>3, <2>4, SomePlaces, BoundsAssumption DEF SizeInv
  <1>2. IInv /\ ToLogBounded /\ SizeInv /\ [Next]_vars => ToLogBounded' /\ SizeInv'
    BY StepInvariant, SizeStep DEF IInv
  <1>3. IInv /\ SizeInv => SizeIsBounded
    <2> SUFFICES ASSUME IInv, SizeInv, RenameReplaces, live # 0
                 PROVE  Len(files[live]) <= Limit + Cardinality(Threads) * (Len(CallEntries) + 1) + faults
      BY DEF SizeIsBounded
    <2>1. LiveSize = Len(files[live]) /\ LiveSize \in Nat /\ faults \in Nat /\ Limit \in Nat
      BY SizeTyping, BoundsAssumption DEF IInv, TypeOK, LiveSize
    <2>2. ToCome \subseteq Places
      BY DEF ToCome
    <2>3. Cardinality(ToCome) \in Nat /\ Cardinality(Places) \in Nat
      BY <2>2, SomePlaces
    <2>4. Len(files[live]) <= Limit + Cardinality(Places) + faults
      BY <2>1, <2>3 DEF SizeInv
    <2> QED
      BY <2>4, PlacesFinite
  <1> QED
    BY <1>1, <1>2, <1>3, Invariance, PTL DEF Spec
------------------------------- (* the one log *) ------------------------------
\* Where rename does not replace files, each has its name, and the live one is the last.
NameInv == ~RenameReplaces => /\ live \in {0, Len(files)}
                              /\ \A i \in DOMAIN files : Named(i)

\* A file that fopen creates has the name of the log.
LEMMA OpenNamed ==
  ASSUME TypeOK, NameInv, OpenLive, archive' = archive
  PROVE  NameInv'
  <1>1. CASE live = 0
    <2>1. /\ files' \in Seq(Seq(Entry)) /\ Len(files') = Len(files) + 1 /\ live' = Len(files')
          /\ Len(files) \in Nat
      <3>1. << >> \in Seq(Entry) /\ files \in Seq(Seq(Entry)) /\ files' = Append(files, << >>)
            /\ live' = Len(files) + 1
        BY <1>1 DEF TypeOK, OpenLive
      <3> QED
        BY <3>1
    <2>2. ASSUME ~RenameReplaces, NEW i \in DOMAIN files' PROVE Named(i)'
      <3>1. i \in 1..(Len(files) + 1) /\ DOMAIN files = 1..Len(files)
        BY <2>1 DEF TypeOK
      <3>2. CASE i = Len(files) + 1
        BY <2>1, <3>2 DEF Named
      <3>3. CASE i # Len(files) + 1
        <4>1. Named(i) /\ i # live
          BY <1>1, <2>1, <2>2, <3>1, <3>3 DEF NameInv
        <4> QED
          BY <4>1 DEF Named
      <3> QED
        BY <3>2, <3>3
    <2> QED
      BY <2>1, <2>2 DEF NameInv
  <1>2. CASE live # 0
    BY <1>2 DEF OpenLive, NameInv, Named
  <1> QED
    BY <1>1, <1>2

\* Every step leaves each file its name.
LEMMA NameStep == TypeOK /\ NameInv /\ [Next]_vars => NameInv'
  <1> SUFFICES ASSUME TypeOK, NameInv, [Next]_vars PROVE NameInv'
    OBVIOUS
  <1>1. ASSUME NEW t \in Threads, Measure(t) \/ LogOpen(t) PROVE NameInv'
    BY <1>1, OpenNamed DEF Measure, LogOpen
  <1>2. ASSUME NEW t \in Threads, MeasureFails(t) PROVE NameInv'
    <2>1. CASE OpenLive
      BY <1>2, <2>1, OpenNamed DEF MeasureFails
    <2>2. CASE UNCHANGED <<files, live>>
      BY <1>2, <2>2 DEF MeasureFails, NameInv, Named
    <2> QED
      BY <1>2, <2>1, <2>2 DEF MeasureFails
  <1>3. ASSUME NEW t \in Threads, Rotate(t) PROVE NameInv'
    <2>1. files' = files /\ live' = 0 /\ archive' = [archive EXCEPT ![Stamp] = live]
          /\ (~RenameReplaces => archive[Stamp] = 0)
      BY <1>3 DEF Rotate, RenameFails
    <2>2. Stamp \in Stamps
      <3>1. clock \in Nat /\ clock <= MaxTime /\ StampSpan \in Nat \ {0} /\ MaxTime \in Nat
        BY BoundsAssumption DEF TypeOK
      <3>2. clock \div StampSpan \in Nat /\ clock \div StampSpan <= clock
        BY <3>1
      <3> QED
        BY <3>1, <3>2 DEF Stamp, Stamps
    <2>3. ASSUME ~RenameReplaces, NEW i \in DOMAIN files PROVE Named(i)'
      <3>1. Named(i) /\ i # 0
        BY <2>3 DEF NameInv, TypeOK
      <3>2. CASE live = i
        <4>1. archive'[Stamp] = i
          BY <2>1, <2>2, <3>2 DEF TypeOK
        <4> QED
          BY <2>2, <4>1 DEF Named, Stamps
      <3>3. CASE live # i
        <4>1. PICK s \in Stamps : archive[s] = i
          BY <3>1, <3>3 DEF Named
        <4>2. s # Stamp
          BY <2>1, <2>3, <3>1, <4>1
        <4>3. archive'[s] = i
          BY <2>1, <4>1, <4>2 DEF TypeOK
        <4> QED
          BY <4>3 DEF Named, Stamps
      <3> QED
        BY <3>2, <3>3
    <2> QED
      BY <2>1, <2>3 DEF NameInv
  <1>4. ASSUME NEW t \in Threads, LogWrite(t) PROVE NameInv'
    <2>1. DOMAIN files' = DOMAIN files /\ Len(files') = Len(files) /\ live' = live /\ archive' = archive
      BY <1>4 DEF LogWrite, TypeOK
    <2> QED
      BY <2>1 DEF NameInv, Named
  <1>5. ASSUME NEW t \in Threads,
               \/ Prepare(t) \/ RotateFails(t) \/ Prepared(t) \/ LogLock(t)
               \/ LogOpenFails(t) \/ LogUnlock(t) \/ Return(t)
        PROVE  NameInv'
    BY <1>5 DEF Prepare, RotateFails, Prepared, LogLock, LogOpenFails, LogUnlock, Return, NameInv, Named
  <1>6. CASE Tick \/ UNCHANGED vars
    BY <1>6 DEF Tick, vars, NameInv, Named
  <1> QED
    BY <1>1, <1>2, <1>3, <1>4, <1>5, <1>6 DEF Next, Locked

\* Files that have names, in the order of their creation, are the one log.
LEMMA HistoryIs == TypeOK /\ (\A i \in DOMAIN files : Named(i)) => History = FlattenSeq(files)
  <1>1. ASSUME TypeOK, \A i \in DOMAIN files : Named(i)
        PROVE  [i \in DOMAIN files |-> IF Named(i) THEN files[i] ELSE << >>] = files
    <2>1. files = [i \in DOMAIN files |-> files[i]]
      BY <1>1 DEF TypeOK
    <2> HIDE DEF Named
    <2> QED
      BY <1>1, <2>1
  <1> QED
    BY <1>1 DEF History

\* fopen adds nothing to the log, and a file it creates comes last.
LEMMA OpenHistory ==
  ASSUME TypeOK, OpenLive
  PROVE  FlattenSeq(files') = FlattenSeq(files)
  <1>1. CASE live = 0
    <2>1. << >> \in Seq(Entry) /\ files \in Seq(Seq(Entry)) /\ files' = Append(files, << >>)
      BY <1>1 DEF TypeOK, OpenLive
    <2>2. FlattenSeq(files') = FlattenSeq(files) \o << >> /\ FlattenSeq(files) \in Seq(Entry)
      BY <2>1, FlattenAppend, FlattenIs
    <2> DEFINE u == FlattenSeq(files)
    <2> HIDE DEF u
    <2>3. u \in Seq(Entry) => u \o << >> = u
      OBVIOUS
    <2> QED
      BY <2>2, <2>3 DEF u
  <1>2. CASE live # 0
    BY <1>2 DEF OpenLive
  <1> QED
    BY <1>1, <1>2

\* A thread writes to the last file, which is the live one.
LEMMA WriteHistory ==
  ASSUME IInv, NameInv, ~RenameReplaces, NEW t \in Threads, LogWrite(t)
  PROVE  \E e \in Entry : FlattenSeq(files') = Append(FlattenSeq(files), e)
  <1> DEFINE entry == [type |-> Head(todo[t]), thread |-> t, call |-> calls[t]]
  <1>1. pc[t] = "write" /\ todo[t] # << >> /\ calls[t] > 0 /\ todo[t] \in Seq(Types)
        /\ calls[t] \in 0..MaxCalls
    BY DEF LogWrite, IInv, EntryToLog, TypeOK
  <1>2. entry \in Entry
    <2>1. Head(todo[t]) \in Types /\ calls[t] \in 1..MaxCalls
      BY <1>1
    <2> QED
      BY <2>1 DEF Entry
  <1>3. live # 0 /\ live = Len(files) /\ files \in Seq(Seq(Entry)) /\ files # << >>
    <2>1. live # 0
      BY <1>1 DEF IInv, WritesToLiveFile
    <2> QED
      BY <2>1 DEF NameInv, IInv, TypeOK
  <1>4. files' = [files EXCEPT ![Len(files)] = Append(files[Len(files)], entry)]
    BY <1>3 DEF LogWrite
  <1> HIDE DEF entry
  <1> QED
    BY <1>2, <1>3, <1>4, FlattenLast

\* Where rename does not replace an existing archive, the log file and its archives, read
\* one after the other, are a log that only grows at its end, for any number of threads.
THEOREM Implements ==
  ASSUME ~RenameReplaces
  PROVE  Spec => ImplementsAppendOnlyLog
  <1>1. Init => NameInv /\ Log!Init
    <2> SUFFICES ASSUME Init PROVE NameInv /\ Log!Init
      OBVIOUS
    <2>1. TypeOK /\ files = << >>
      BY InitInvariant DEF Init, IInv
    <2>2. \A i \in DOMAIN files : Named(i)
      BY <2>1
    <2>3. files \in Seq(Seq(Entry)) /\ History = FlattenSeq(files)
      BY <2>1, <2>2, HistoryIs DEF TypeOK
    <2>4. FlattenSeq(files) = << >>
      BY <2>1, <2>3, FlattenIs
    <2> QED
      BY <2>1, <2>2, <2>3, <2>4 DEF NameInv, Init, Log!Init
  <1>2. IInv /\ NameInv /\ IInv' /\ NameInv' /\ [Next]_vars => [Log!Next]_History
    <2> SUFFICES ASSUME IInv, NameInv, IInv', NameInv', [Next]_vars
                 PROVE  [Log!Next]_History
      OBVIOUS
    <2>1. History = FlattenSeq(files)
      BY HistoryIs DEF IInv, NameInv
    <2>2. History' = FlattenSeq(files')
      <3>1. TypeOK' /\ \A i \in DOMAIN files' : Named(i)'
        BY DEF IInv, NameInv
      <3>2. [i \in DOMAIN files' |-> IF Named(i)' THEN files'[i] ELSE << >>] = files'
        <4>1. files' = [i \in DOMAIN files' |-> files'[i]]
          BY <3>1 DEF TypeOK
        <4> QED
          BY <3>1, <4>1
      <3> QED
        BY <3>2 DEF History
    <2>3. ASSUME NEW t \in Threads, LogWrite(t) PROVE Log!Next
      <3>1. PICK e \in Entry : FlattenSeq(files') = Append(FlattenSeq(files), e)
        BY <2>3, WriteHistory
      <3> QED
        BY <2>1, <2>2, <3>1 DEF Log!Next, Log!Append1
    <2>4. ASSUME OpenLive PROVE UNCHANGED History
      BY <2>1, <2>2, <2>4, OpenHistory DEF IInv
    <2>5. ASSUME files' = files PROVE UNCHANGED History
      BY <2>1, <2>2, <2>5
    <2>6. CASE Next
      <3>1. (\E t \in Threads : LogWrite(t)) \/ OpenLive \/ files' = files
        BY <2>6 DEF Next, Locked, Prepare, Measure, MeasureFails, Rotate, RotateFails, Prepared,
                    LogLock, LogOpen, LogOpenFails, LogUnlock, Return, Tick
      <3> QED
        BY <2>3, <2>4, <2>5, <3>1
    <2>7. CASE UNCHANGED vars
      BY <2>5, <2>7 DEF vars
    <2> QED
      BY <2>6, <2>7
  <1>3. IInv /\ NameInv /\ [Next]_vars => NameInv'
    BY NameStep DEF IInv
  <1> QED
    BY <1>1, <1>2, <1>3, Invariance, PTL DEF Spec, ImplementsAppendOnlyLog, Log!Spec

\* And what has been written is still on disk, in the live file or in an archive.
THEOREM NothingLost ==
  ASSUME ~RenameReplaces
  PROVE  Spec => []NoFileLost
  <1>1. Init => NameInv
    BY DEF Init, NameInv
  <1>2. NameInv => NoFileLost
    BY DEF NameInv, NoFileLost, Named
  <1>3. IInv /\ NameInv /\ [Next]_vars => NameInv'
    BY NameStep DEF IInv
  <1> QED
    BY <1>1, <1>2, <1>3, Invariance, PTL DEF Spec
=================================================================================
