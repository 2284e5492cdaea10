-------------------------------- MODULE MCKvStore ------------------------------
EXTENDS KvStore

ThreeKeys == {1, 2, 3}
ShortAndLong == {1, 4}
Lengths == [k \in ThreeKeys |-> k + 1]
================================================================================
