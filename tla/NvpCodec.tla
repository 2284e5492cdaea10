-------------------------------- MODULE NvpCodec --------------------------------
(***************************************************************************)
(* convertMaptoString and convertStringtoMap of NVPClient.cpp: a map of    *)
(* names and values as lines of text, and back.  A std::map is read in the *)
(* order of its keys; any order will do, for the keys differ.              *)
(***************************************************************************)
EXTENDS Texts, Integers

convertMaptoString(m) ==
  FoldSet(LAMBDA k, text : text \o k \o <<"=">> \o m[k] \o <<"\n">>, << >>, DOMAIN m)

LastWins(text) ==                                                       \* mutant
  LET Insert(m, line) == IF First("=", line) = 0 THEN m ELSE Put(m, Before("=", line), After("=", line))
  IN  FoldLeft(Insert, NoPairs, Pieces("\n", text))

\* A line without "=" is passed over; insert leaves a key that is there as it is.
convertStringtoMap(text) ==
  LET Insert(m, line) ==
        IF First("=", line) = 0 \/ Before("=", line) \in DOMAIN m THEN m
        ELSE Put(m, Before("=", line), After("=", line))
  IN  FoldLeft(Insert, NoPairs, Pieces("\n", text))
--------------------------------------------------------------------------------
\* What a reader gets who takes every line of a text at its first "=".
Lines(text) == {<<Before("=", l), After("=", l)>> : l \in {p \in ToSet(Pieces("\n", text)) : First("=", p) # 0}}

\* The pairs of a map, and the keys of those that go through a text as they are.
PairsOf(m) == {<<k, m[k]>> : k \in DOMAIN m}
Plain(key, value) == ~Contains(key, "=") /\ ~Contains(key, "\n") /\ ~Contains(value, "\n")
PlainKeys(m) == {k \in DOMAIN m : Plain(k, m[k])}
================================================================================
