----------------------------- MODULE AppendOnlyLog -----------------------------
(***************************************************************************)
(* What a log promises: entries are added at its end and never change,     *)
(* move or go.  LogFile implements it where rename does not replace files. *)
(***************************************************************************)
EXTENDS Sequences

CONSTANT Entry

VARIABLE entries

Init == entries = << >>

Append1(e) == entries' = Append(entries, e)

Next == \E e \in Entry : Append1(e)

Spec == Init /\ [][Next]_entries
================================================================================
