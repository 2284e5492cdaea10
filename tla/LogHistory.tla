------------------------------- MODULE LogHistory ------------------------------
(***************************************************************************)
(* LogFile seen as one log: the archives, in the order of their files, and *)
(* then the live file.  Where rename does not replace an existing archive, *)
(* it implements AppendOnlyLog: rotation neither loses nor reorders.       *)
(***************************************************************************)
EXTENDS LogFile, SequencesExt

Named(i) == live = i \/ \E s \in Stamps : archive[s] = i

History == FlattenSeq([i \in DOMAIN files |-> IF Named(i) THEN files[i] ELSE << >>])

\* The entries on disk, read archive after archive, only ever grow at their end.
Log == INSTANCE AppendOnlyLog WITH entries <- History
ImplementsAppendOnlyLog == Log!Spec
================================================================================
