--------------------------------- MODULE KvStore -------------------------------
(***************************************************************************)
(* The CybsMap of kvs.c: an array of pairs of pointers, kept sorted by key *)
(* for bsearch, that owns the strings it points to.                        *)
(*                                                                         *)
(* A key is a number, its place in the order of strcmp; a value is a       *)
(* number, its length.  The heap gives the string in each live block, and  *)
(* malloc takes the first free one, so that a freed block is soon reused.  *)
(* Strings duplicated and freed within one call are left out.              *)
(***************************************************************************)
EXTENDS Integers, Sequences, FiniteSets

CONSTANTS Keys, Values,
          KeyLength,    \* the length of each key
          NULL,
          MaxBlocks     \* bound: live blocks

ASSUME StringsAssumption == /\ Keys \subseteq Nat /\ Values \subseteq Nat
                            /\ KeyLength \in [Keys -> Nat] /\ NULL \notin Nat
ASSUME StoreAssumption == MaxBlocks \in Nat

VARIABLES store,        \* the CybsMap is allocated
          pairs,        \* its array
          totallength,
          heap,         \* the string in each live block
          borrowed,     \* the pointer that cybs_get returned last, 0 for NULL
          answer,       \* the string it pointed to
          cut           \* history: the strings of pairs that remove_pair cut off

vars == <<store, pairs, totallength, heap, borrowed, answer, cut>>

Blocks == 1..MaxBlocks
Live == DOMAIN heap
KeyAt(array, i) == heap[array[i].key]
KeyForValueAt(i) == heap[pairs[i].key]                                  \* mutant
ValueAt(i) == heap[pairs[i].value]

Init == /\ store = FALSE
        /\ pairs = << >> /\ totallength = 0
        /\ heap = << >>
        /\ borrowed = 0 /\ answer = NULL /\ cut = {}

---------------------------------- (* library *) -------------------------------
\* n calls of malloc when the blocks of live are in use, in order.
Free(live, n) == CHOOSE b \in Blocks \ live :
                   Cardinality({c \in Blocks \ live : c < b}) = n - 1
CanAllocate(live, n) == Cardinality(Blocks \ live) >= n

Sorted(array, contents) ==
  \A i, j \in DOMAIN array : i < j => contents[array[i].key] <= contents[array[j].key]

NotSorting(array, contents) == {array}                                  \* mutant

\* qsort: a sorted rearrangement.
Sorting(array, contents) ==
  {a \in [DOMAIN array -> {array[i] : i \in DOMAIN array}] :
     /\ Sorted(a, contents)
     /\ \A i \in DOMAIN array : \E j \in DOMAIN a : a[j] = array[i]}

get_pair_short(k) ==                                                    \* mutant
  LET found == {i \in 1..(Len(pairs) - 1) : KeyAt(pairs, i) = k}
  IN  IF found = {} THEN {0} ELSE found

\* get_pair: what bsearch may find, 0 for NULL.  In an array that is not sorted it may
\* miss the key.
get_pair(k) ==
  LET found == {i \in DOMAIN pairs : KeyAt(pairs, i) = k}
  IN  IF found = {} THEN {0} ELSE IF Sorted(pairs, heap) THEN found ELSE found \union {0}

--------------------------------- (* operations *) -----------------------------
cybs_create_map ==
  /\ ~store
  /\ store' = TRUE
  /\ pairs' = << >> /\ totallength' = 0
  /\ UNCHANGED <<heap, borrowed, answer, cut>>

\* The pointer handed out last is no longer good once its key is set again.
GiveUp(k) == borrowed' = IF \E i \in get_pair(k) \ {0} : pairs[i].value = borrowed
                         THEN 0 ELSE borrowed

KeptAll(i) == Live                                                      \* mutant
KeptButLast(i) == Live \ {pairs[Len(pairs)].value}                      \* mutant
Kept(i) == Live \ {pairs[i].value}

\* cybs_add finds the key: the old value is freed and a copy of the new one allocated.
\* totallength stays as it is.
Replace(k, v) ==
  \E i \in get_pair(k) \ {0} :
    LET new == Free(Kept(i), 1)
    IN  /\ heap' = [b \in Kept(i) \union {new} |-> IF b = new THEN v ELSE heap[b]]
        /\ pairs' = [pairs EXCEPT ![i].value = new]
        /\ UNCHANGED <<totallength, cut>>

\* create_pair: copies of the key and the value at the end of the array, which is sorted.
create_pair(k, v) ==
  /\ 0 \in get_pair(k)
  /\ CanAllocate(Live, 2)
  /\ LET new == [key |-> Free(Live, 1), value |-> Free(Live, 2)]
     IN  /\ heap' = [b \in Live \union {new.key, new.value} |->
                       CASE b = new.key -> k [] b = new.value -> v [] OTHER -> heap[b]]
         /\ pairs' \in Sorting(Append(pairs, new), heap')
  /\ totallength' = totallength + KeyLength[k] + v
  /\ UNCHANGED cut

remove_pair_freeing(k) ==                                               \* mutant
  \E i \in get_pair(k) \ {0} :
    /\ pairs' = SubSeq(pairs, 1, Len(pairs) - 1)
    /\ totallength' = totallength - (KeyLength[k] + ValueAt(i))
    /\ heap' = [b \in Live \ {pairs[i].key, pairs[i].value} |-> heap[b]]
    /\ UNCHANGED cut

\* remove_pair: the array is cut by its last pair, whichever pair was found; no string
\* is freed, and totallength (a size_t; a negative number stands for one that wrapped)
\* shrinks by the pair that was found.
remove_pair(k) ==
  \E i \in get_pair(k) \ {0} :
    /\ pairs' = SubSeq(pairs, 1, Len(pairs) - 1)
    /\ totallength' = totallength - (KeyLength[k] + ValueAt(i))
    /\ cut' = cut \union {pairs[Len(pairs)].key, pairs[Len(pairs)].value}
    /\ UNCHANGED heap

cybs_add(k, v) ==
  /\ store
  /\ GiveUp(k)
  /\ \/ v # NULL /\ (Replace(k, v) \/ create_pair(k, v))
     \/ v = NULL /\ remove_pair(k)
  /\ UNCHANGED <<store, answer>>

\* A pointer to the value itself, not to a copy.
cybs_get(k) ==
  /\ store
  /\ \E i \in get_pair(k) : IF i = 0 THEN borrowed' = 0 /\ answer' = NULL
                            ELSE borrowed' = pairs[i].value /\ answer' = ValueAt(i)
  /\ UNCHANGED <<store, pairs, totallength, heap, cut>>

\* Every key and value is freed, then the array and the map.
cybs_destroy_map ==
  /\ store
  /\ LET freed == {pairs[i].key : i \in DOMAIN pairs} \union {pairs[i].value : i \in DOMAIN pairs}
     IN  heap' = [b \in Live \ freed |-> heap[b]]
  /\ store' = FALSE
  /\ pairs' = << >> /\ totallength' = 0 /\ borrowed' = 0
  /\ UNCHANGED <<answer, cut>>

Next == \/ cybs_create_map \/ cybs_destroy_map
        \/ \E k \in Keys : cybs_get(k) \/ \E v \in Values \union {NULL} : cybs_add(k, v)

Spec == Init /\ [][Next]_vars
--------------------------------------------------------------------------------
Pair == [key : Blocks, value : Blocks]

TypeOK == /\ store \in BOOLEAN
          /\ pairs \in Seq(Pair)
          /\ totallength \in Int
          /\ Live \subseteq Blocks /\ \A b \in Live : heap[b] \in Keys \union Values
          /\ borrowed \in Blocks \union {0}
          /\ answer \in Values \union {NULL}
          /\ cut \subseteq Live

\* The array is in the order bsearch needs, without a key twice, whenever it is searched.
PairsAreSorted ==
  \A i, j \in DOMAIN pairs : i < j => KeyAt(pairs, i) < KeyAt(pairs, j)

Owners(b) == {o \in (DOMAIN pairs) \X {"key", "value"} : pairs[o[1]][o[2]] = b}

\* Every pointer of the array is to a live block that nothing else points to: no string
\* is used after it was freed, or freed twice.
PairsOwnTheirStrings ==
  \A i \in DOMAIN pairs, f \in {"key", "value"} :
    pairs[i][f] \in Live /\ Owners(pairs[i][f]) = {<<i, f>>}

\* Every live string belongs to a pair, but for those that remove_pair leaves behind: to
\* set a key again or to destroy the map leaks nothing.
NothingLeaks == \A b \in Live \ cut : Owners(b) # {}

\* A value that cybs_get returned stays where and what it is while other keys are set:
\* runTransaction holds merchantID and keysDirectory in this way (NVPClient.cpp:393-394).
BorrowedStays == borrowed # 0 => borrowed \in Live /\ heap[borrowed] = answer

\* The value that the array has for each key.
Contents == [k \in Keys |-> IF \E i \in DOMAIN pairs : KeyAt(pairs, i) = k
                            THEN ValueAt(CHOOSE i \in DOMAIN pairs : KeyAt(pairs, i) = k)
                            ELSE NULL]

\* The array is a map from keys to the values given last, in which a NULL value takes out
\* the pair of the greatest key.
Map == INSTANCE StringMap WITH Missing <- NULL, map <- Contents
ImplementsStringMap == Map!Spec
================================================================================
