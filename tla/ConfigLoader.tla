------------------------------ MODULE ConfigLoader ------------------------------
(***************************************************************************)
(* cybs_load_config of util.c: what each line of cybs.ini does to the map. *)
(***************************************************************************)
EXTENDS Texts, Integers

isspace == {" ", "\t", "\r"}

\* trim: the text without the space around it.
trim(t) == LET kept == {i \in DOMAIN t : t[i] \notin isspace}
           IN  IF kept = {} THEN << >> ELSE SubSeq(t, Min(kept), Max(kept))

\* split finds no "=" and gives NULL for the value, from which a std::string is made.
LineThrows(line) == First("=", line) = 0

Name(line) == trim(Before("=", line))
Value(line) == trim(After("=", line))

\* A line without a value, or that starts with "#", is passed over.
IsPair(line) ==
  /\ ~LineThrows(line)
  /\ After("=", line) # << >>
  /\ Name(line) = << >> \/ Head(Name(line)) # "#"

FirstStays(line, map) ==                                                \* mutant
  IF IsPair(line) /\ Name(line) \notin DOMAIN map THEN Put(map, Name(line), Value(line)) ELSE map

\* cybs_add replaces the value of a name that is there already.
LoadLine(line, map) == IF IsPair(line) THEN Put(map, Name(line), Value(line)) ELSE map
--------------------------------------------------------------------------------
\* What a file says: for each name, the last line that gives it a value.
Written(lines) ==
  LET pairs == {i \in DOMAIN lines : IsPair(lines[i])}
  IN  [n \in {Name(lines[i]) : i \in pairs} |->
         Value(lines[Max({i \in pairs : Name(lines[i]) = n})])]
================================================================================
