------------------------------- MODULE MCLogFile -------------------------------
EXTENDS LogHistory

CONSTANTS t1, t2

TwoThreads == {t1, t2}
OneThread == {t1}
TwoEntries == <<"REQUEST", "REPLY">>
OneEntry == <<"REQUEST">>
Symmetry == Permutations(Threads)
================================================================================
