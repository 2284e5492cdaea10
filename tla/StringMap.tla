-------------------------------- MODULE StringMap ------------------------------
(***************************************************************************)
(* What a merchant may rely on when it keeps its configuration in a        *)
(* CybsMap: each key has the value it was given last, and asking for a key *)
(* returns it.  To set a key to NULL takes one key out, but not that one.  *)
(* KvStore implements this specification.                                  *)
(***************************************************************************)
EXTENDS Naturals

CONSTANTS Keys, Values, Missing

VARIABLES map,       \* value of each key, Missing for a key without one
          answer     \* what the last lookup returned

Empty == [k \in Keys |-> Missing]

Init == map = Empty /\ answer = Missing

Add(k, v) == map' = [map EXCEPT ![k] = v] /\ UNCHANGED answer

Get(k) == answer' = map[k] /\ UNCHANGED map

\* A NULL value for a key that is there: the greatest key goes, whichever was given.
Cut == \E k \in Keys :
         /\ map[k] # Missing
         /\ \A l \in Keys : map[l] # Missing => l <= k
         /\ map' = [map EXCEPT ![k] = Missing]
         /\ UNCHANGED answer

\* The map is given up, and the next one starts empty.
Renew == map' = Empty /\ UNCHANGED answer

Next == \/ \E k \in Keys : Get(k) \/ \E v \in Values : Add(k, v)
        \/ Cut \/ Renew

Spec == Init /\ [][Next]_<<map, answer>>
================================================================================
