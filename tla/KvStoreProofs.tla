----------------------------- MODULE KvStoreProofs -----------------------------
(***************************************************************************)
(* The CybsMap of kvs.c for any keys, values and heap: its pairs own their *)
(* strings and stay in order, nothing leaks, what cybs_get lent out stays, *)
(* and the array is the map that StringMap describes.                      *)
(***************************************************************************)
EXTENDS KvStore, FiniteSetTheorems, FunctionTheorems, WellFoundedInduction, TLAPS

--------------------------------- (* malloc *) ---------------------------------
\* A set of natural numbers that is not empty has a least element.
LEMMA Least ==
  ASSUME NEW S \in SUBSET Nat, S # {}
  PROVE  \E b \in S : \A c \in S : b <= c
  <1>1. PICK b \in S : \A c \in S : ~(<<c, b>> \in OpToRel(<, Nat))
    BY NatLessThanWellFounded, WFMin
  <1>2. \A c \in S : ~(c < b)
    BY <1>1 DEF OpToRel
  <1> QED
    BY <1>2

\* The blocks are finitely many natural numbers.
LEMMA SomeBlocks ==
  ASSUME NEW S \in SUBSET Blocks
  PROVE  IsFiniteSet(S) /\ S \in SUBSET Nat
  <1>1. IsFiniteSet(Blocks) /\ Blocks \subseteq Nat
    BY StoreAssumption, FS_Interval DEF Blocks
  <1> QED
    BY <1>1, FS_Subset

\* The first malloc returns a block that is not in use, when there is one.
LEMMA FirstFree ==
  ASSUME NEW live, Blocks \ live # {}
  PROVE  /\ Free(live, 1) \in Blocks \ live
         /\ Cardinality({c \in Blocks \ live : c < Free(live, 1)}) = 0
  <1> DEFINE Below(b) == {c \in Blocks \ live : c < b}
  <1>0. Blocks \ live \in SUBSET Nat
    BY SomeBlocks
  <1>1. PICK b \in Blocks \ live : \A c \in Blocks \ live : b <= c
    BY <1>0, Least
  <1>2. Below(b) = {}
    BY <1>0, <1>1
  <1>3. Cardinality(Below(b)) = 1 - 1
    BY <1>2, FS_EmptySet
  <1>4. \E x \in Blocks \ live : Cardinality(Below(x)) = 1 - 1
    BY <1>3
  <1>5. Free(live, 1) \in Blocks \ live /\ Cardinality(Below(Free(live, 1))) = 1 - 1
    BY <1>4 DEF Free
  <1> QED
    BY <1>5

\* The second returns another one, when there are two.
LEMMA SecondFree ==
  ASSUME NEW live, CanAllocate(live, 2)
  PROVE  /\ Free(live, 1) \in Blocks \ live
         /\ Free(live, 2) \in Blocks \ live
         /\ Free(live, 1) # Free(live, 2)
  <1> DEFINE S == Blocks \ live
             Below(b) == {c \in S : c < b}
  <1>1. IsFiniteSet(S) /\ S \in SUBSET Nat /\ Cardinality(S) \in Nat /\ Cardinality(S) >= 2
    BY SomeBlocks, FS_CardinalityType DEF CanAllocate
  <1>2. S # {}
    BY <1>1, FS_EmptySet
  <1>3. PICK a \in S : \A c \in S : a <= c
    BY <1>1, <1>2, Least
  <1>4. S \ {a} # {}
    <2>1. Cardinality(S \ {a}) = Cardinality(S) - 1 /\ IsFiniteSet(S \ {a})
      BY <1>1, FS_RemoveElement
    <2> QED
      BY <1>1, <2>1, FS_EmptySet
  <1>5. PICK b \in S \ {a} : \A c \in S \ {a} : b <= c
    BY <1>1, <1>4, Least
  <1>6. Below(b) = {a}
    BY <1>1, <1>3, <1>5
  <1>7. Cardinality(Below(b)) = 2 - 1
    BY <1>6, FS_Singleton
  <1>8. \E x \in S : Cardinality(Below(x)) = 2 - 1
    BY <1>5, <1>7
  <1>9. Free(live, 2) \in S /\ Cardinality(Below(Free(live, 2))) = 2 - 1
    BY <1>8 DEF Free
  <1>10. Free(live, 1) \in S /\ Cardinality(Below(Free(live, 1))) = 0
    BY <1>2, FirstFree
  <1> QED
    BY <1>9, <1>10
---------------------------------- (* qsort *) ---------------------------------
\* Every pointer of the array is to a block of its own.
Owning(array, live) ==
  /\ \A i \in DOMAIN array : array[i].key \in live /\ array[i].value \in live
  /\ \A i, j \in DOMAIN array : array[i].key # array[j].value
  /\ \A i, j \in DOMAIN array : i # j => array[i].key # array[j].key /\ array[i].value # array[j].value

\* The array is strictly in order.
Ordered(array, contents) ==
  \A i, j \in DOMAIN array : i < j => contents[array[i].key] < contents[array[j].key]

\* No two pairs of the array have one key, and its strings are keys and values.
KeysDiffer(array, contents) ==
  \A i, j \in DOMAIN array : i # j => contents[array[i].key] # contents[array[j].key]
KeysAndValues(array, contents) ==
  \A i \in DOMAIN array : contents[array[i].key] \in Keys /\ contents[array[i].value] \in Values

\* The blocks that the array points to.
Owned(array) == {array[i].key : i \in DOMAIN array} \union {array[i].value : i \in DOMAIN array}

\* qsort moves each pair to a place of its own.
LEMMA SortingMoves ==
  ASSUME NEW array \in Seq(Pair), NEW contents, NEW a \in Sorting(array, contents),
         KeysDiffer(array, contents)
  PROVE  /\ a \in Seq(Pair) /\ DOMAIN a = DOMAIN array
         /\ \A i \in DOMAIN a : \E j \in DOMAIN array : a[i] = array[j]
         /\ \A i \in DOMAIN array : \E j \in DOMAIN a : a[j] = array[i]
         /\ \A i, j \in DOMAIN a : i # j => a[i] # a[j]
         /\ Sorted(a, contents)
  <1> DEFINE D == DOMAIN array
             R == {array[i] : i \in D}
  <1>1. /\ a \in [D -> R] /\ Sorted(a, contents)
        /\ \A i \in D : \E j \in DOMAIN a : a[j] = array[i]
    BY DEF Sorting
  <1>2. D = 1..Len(array) /\ IsFiniteSet(D) /\ Len(array) \in Nat
    BY FS_Interval
  <1>3. array \in Surjection(D, R) /\ array \in Injection(D, R)
    <2>1. array \in [D -> R] /\ \A i, j \in D : array[i] = array[j] => i = j
      BY DEF KeysDiffer
    <2>2. array \in Injection(D, R)
      BY <2>1 DEF Injection, IsInjective
    <2>3. array \in Surjection(D, R)
      BY <2>1 DEF Surjection
    <2> QED
      BY <2>2, <2>3
  <1>4. Cardinality(R) = Cardinality(D)
    BY <1>2, <1>3, FS_Surjection
  <1>5. a \in Surjection(D, R)
    BY <1>1 DEF Surjection
  <1>6. a \in Injection(D, R)
    BY <1>2, <1>4, <1>5, FS_SurjSameCardinalityImpliesInj
  <1>7. \A i, j \in D : i # j => a[i] # a[j]
    BY <1>6 DEF Injection, IsInjective
  <1>8. a \in Seq(Pair)
    <2>1. R \subseteq Pair
      BY <1>2
    <2> QED
      BY <1>1, <1>2, <2>1
  <1> QED
    BY <1>1, <1>7, <1>8

\* What holds of the pairs of an array holds of them after qsort, which puts them in order.
LEMMA SortingKeeps ==
  ASSUME NEW array \in Seq(Pair), NEW contents, NEW live, NEW a \in Sorting(array, contents),
         KeysDiffer(array, contents), KeysAndValues(array, contents), Owning(array, live)
  PROVE  /\ a \in Seq(Pair) /\ DOMAIN a = DOMAIN array
         /\ Owning(a, live) /\ Owned(a) = Owned(array)
         /\ KeysAndValues(a, contents) /\ Ordered(a, contents)
  <1>1. /\ a \in Seq(Pair) /\ DOMAIN a = DOMAIN array
        /\ \A i \in DOMAIN a : \E j \in DOMAIN array : a[i] = array[j]
        /\ \A i \in DOMAIN array : \E j \in DOMAIN a : a[j] = array[i]
        /\ \A i, j \in DOMAIN a : i # j => a[i] # a[j]
        /\ Sorted(a, contents)
    BY SortingMoves
  <1>0. ASSUME NEW i \in DOMAIN a, NEW j \in DOMAIN a, i # j
        PROVE  \E p, q \in DOMAIN array : p # q /\ a[i] = array[p] /\ a[j] = array[q]
    <2>1. PICK p \in DOMAIN array : a[i] = array[p]
      BY <1>1
    <2>2. PICK q \in DOMAIN array : a[j] = array[q]
      BY <1>1
    <2>3. a[i] # a[j]
      BY <1>0, <1>1
    <2> QED
      BY <2>1, <2>2, <2>3
  <1>2. Owning(a, live)
    <2>1. ASSUME NEW i \in DOMAIN a
          PROVE  a[i].key \in live /\ a[i].value \in live /\ a[i].key # a[i].value
      <3>1. PICK p \in DOMAIN array : a[i] = array[p]
        BY <1>1
      <3> QED
        BY <3>1 DEF Owning
    <2>2. ASSUME NEW i \in DOMAIN a, NEW j \in DOMAIN a, i # j
          PROVE  /\ a[i].key # a[j].value
                 /\ a[i].key # a[j].key /\ a[i].value # a[j].value
      <3>1. PICK p \in DOMAIN array, q \in DOMAIN array : p # q /\ a[i] = array[p] /\ a[j] = array[q]
        BY <1>0, <2>2
      <3> QED
        BY <3>1 DEF Owning
    <2> QED
      BY <2>1, <2>2 DEF Owning
  <1>3. Owned(a) = Owned(array)
    <2>1. ASSUME NEW b \in Owned(a) PROVE b \in Owned(array)
      <3>1. PICK i \in DOMAIN a : b = a[i].key \/ b = a[i].value
        BY <2>1 DEF Owned
      <3>2. PICK j \in DOMAIN array : a[i] = array[j]
        BY <1>1
      <3> QED
        BY <3>1, <3>2 DEF Owned
    <2>2. ASSUME NEW b \in Owned(array) PROVE b \in Owned(a)
      <3>1. PICK i \in DOMAIN array : b = array[i].key \/ b = array[i].value
        BY <2>2 DEF Owned
      <3>2. PICK j \in DOMAIN a : a[j] = array[i]
        BY <1>1
      <3> QED
        BY <3>1, <3>2 DEF Owned
    <2> QED
      BY <2>1, <2>2
  <1>4. KeysAndValues(a, contents)
    BY <1>1 DEF KeysAndValues
  <1>5. KeysDiffer(a, contents)
    BY <1>0 DEF KeysDiffer
  <1>6. Ordered(a, contents)
    <2> SUFFICES ASSUME NEW i \in DOMAIN a, NEW j \in DOMAIN a, i < j
                 PROVE  contents[a[i].key] < contents[a[j].key]
      BY DEF Ordered
    <2>1. contents[a[i].key] <= contents[a[j].key]
      BY <1>1 DEF Sorted
    <2>2. i \in Nat /\ j \in Nat /\ i # j
      <3>1. DOMAIN a = 1..Len(a) /\ Len(a) \in Nat
        BY <1>1
      <3> QED
        BY <3>1
    <2>3. contents[a[i].key] # contents[a[j].key]
      BY <1>5, <2>2 DEF KeysDiffer
    <2>4. contents[a[i].key] \in Nat /\ contents[a[j].key] \in Nat
      BY <1>4, StringsAssumption DEF KeysAndValues
    <2> QED
      BY <2>1, <2>3, <2>4
  <1> QED
    BY <1>1, <1>2, <1>3, <1>4, <1>6
--------------------------- (* what an array means *) --------------------------
\* What an array says of each key, given the strings of the heap.
Meaning(array, contents) ==
  [k \in Keys |-> IF \E i \in DOMAIN array : contents[array[i].key] = k
                  THEN contents[array[CHOOSE i \in DOMAIN array : contents[array[i].key] = k].value]
                  ELSE NULL]

\* The abstract map is the meaning of the array, before a step and after it.
LEMMA ContentsIs == Contents = Meaning(pairs, heap) /\ Contents' = Meaning(pairs', heap')
  BY DEF Contents, Meaning, KeyAt, ValueAt

\* An array that is in order has no key twice.
LEMMA OrderedDiffer ==
  ASSUME NEW array \in Seq(Pair), NEW contents, Ordered(array, contents), KeysAndValues(array, contents)
  PROVE  \A i, j \in DOMAIN array : contents[array[i].key] = contents[array[j].key] => i = j
  <1> SUFFICES ASSUME NEW i \in DOMAIN array, NEW j \in DOMAIN array, i # j
               PROVE  contents[array[i].key] # contents[array[j].key]
    OBVIOUS
  <1>1. i \in Nat /\ j \in Nat
    <2>1. DOMAIN array = 1..Len(array) /\ Len(array) \in Nat
      OBVIOUS
    <2> QED
      BY <2>1
  <1>2. contents[array[i].key] \in Nat /\ contents[array[j].key] \in Nat
    BY StringsAssumption DEF KeysAndValues
  <1>3. i < j => contents[array[i].key] < contents[array[j].key]
    BY DEF Ordered
  <1>4. j < i => contents[array[j].key] < contents[array[i].key]
    BY DEF Ordered
  <1> QED
    BY <1>1, <1>2, <1>3, <1>4

\* The pair at a place gives the value of its key, and a key without a pair has none.
LEMMA MeaningAt ==
  ASSUME NEW array \in Seq(Pair), NEW contents, Ordered(array, contents), KeysAndValues(array, contents)
  PROVE  /\ \A i \in DOMAIN array : Meaning(array, contents)[contents[array[i].key]] = contents[array[i].value]
         /\ \A k \in Keys : (\A i \in DOMAIN array : contents[array[i].key] # k) => Meaning(array, contents)[k] = NULL
         /\ \A k \in Keys : Meaning(array, contents)[k] # NULL => \E i \in DOMAIN array : contents[array[i].key] = k
  <1>1. ASSUME NEW i \in DOMAIN array
        PROVE  Meaning(array, contents)[contents[array[i].key]] = contents[array[i].value]
    <2> DEFINE k == contents[array[i].key]
               c == CHOOSE j \in DOMAIN array : contents[array[j].key] = k
    <2>1. c \in DOMAIN array /\ contents[array[c].key] = k
      OBVIOUS
    <2>2. c = i
      BY <2>1, OrderedDiffer
    <2>3. k \in Keys
      BY DEF KeysAndValues
    <2>4. Meaning(array, contents)[k] = contents[array[c].value]
      BY <2>3 DEF Meaning
    <2> QED
      BY <2>2, <2>4
  <1>2. \A k \in Keys : (\A i \in DOMAIN array : contents[array[i].key] # k) => Meaning(array, contents)[k] = NULL
    BY DEF Meaning
  <1> QED
    BY <1>1, <1>2

\* Conversely, an array means the map that its pairs, and the keys without one, agree with.
LEMMA MeaningIs ==
  ASSUME NEW array \in Seq(Pair), NEW contents, Ordered(array, contents), KeysAndValues(array, contents),
         NEW f \in [Keys -> Values \union {NULL}],
         \A i \in DOMAIN array : f[contents[array[i].key]] = contents[array[i].value],
         \A k \in Keys : (\A i \in DOMAIN array : contents[array[i].key] # k) => f[k] = NULL
  PROVE  Meaning(array, contents) = f
  <1>1. \A k \in Keys : Meaning(array, contents)[k] = f[k]
    BY MeaningAt
  <1>2. Meaning(array, contents) = [k \in Keys |-> Meaning(array, contents)[k]]
    BY DEF Meaning
  <1> QED
    BY <1>1, <1>2

\* A sound map has for each key a value or none.
LEMMA MeaningTyping ==
  ASSUME NEW array \in Seq(Pair), NEW contents, Ordered(array, contents), KeysAndValues(array, contents)
  PROVE  Meaning(array, contents) \in [Keys -> Values \union {NULL}]
  <1>1. \A k \in Keys : Meaning(array, contents)[k] \in Values \union {NULL}
    <2> SUFFICES ASSUME NEW k \in Keys, NEW i \in DOMAIN array, contents[array[i].key] = k
                 PROVE  Meaning(array, contents)[k] \in Values
      BY MeaningAt
    <2> QED
      BY MeaningAt DEF KeysAndValues
  <1>2. Meaning(array, contents) = [k \in Keys |-> Meaning(array, contents)[k]]
    BY DEF Meaning
  <1> QED
    BY <1>1, <1>2
------------------------------- (* invariant *) --------------------------------
\* A string is owned by a pair or was cut off; none is both, and there are no others.
HeapIsDivided == Live = Owned(pairs) \union cut /\ Owned(pairs) \intersect cut = {}

IInv == /\ TypeOK
        /\ ~store => pairs = << >>
        /\ Owning(pairs, Live)
        /\ Ordered(pairs, heap)
        /\ KeysAndValues(pairs, heap)
        /\ HeapIsDivided
        /\ BorrowedStays

\* The places of the array are numbers from one, which 0 is not.
LEMMA Places == ASSUME TypeOK, NEW i \in DOMAIN pairs
                PROVE  i \in Nat /\ i # 0 /\ pairs[i] \in Pair
  BY DEF TypeOK

\* In an array that is in order, bsearch finds the key if it is there, and then one place.
LEMMA Found ==
  ASSUME IInv, NEW k
  PROVE  /\ \A i \in get_pair(k) \ {0} : i \in DOMAIN pairs /\ KeyAt(pairs, i) = k
         /\ 0 \in get_pair(k) => \A i \in DOMAIN pairs : KeyAt(pairs, i) # k
         /\ \A i, j \in DOMAIN pairs : KeyAt(pairs, i) = KeyAt(pairs, j) => i = j
  <1>1. \A i, j \in DOMAIN pairs : i < j => KeyAt(pairs, i) < KeyAt(pairs, j)
    BY DEF IInv, Ordered, KeyAt
  <1>2. \A i \in DOMAIN pairs : KeyAt(pairs, i) \in Nat /\ i \in Nat /\ i # 0
    BY Places, StringsAssumption DEF IInv, KeysAndValues, KeyAt
  <1>3. Sorted(pairs, heap)
    BY <1>1, <1>2 DEF Sorted, KeyAt
  <1>4. \A i, j \in DOMAIN pairs : KeyAt(pairs, i) = KeyAt(pairs, j) => i = j
    <2> SUFFICES ASSUME NEW i \in DOMAIN pairs, NEW j \in DOMAIN pairs, i # j
                 PROVE  KeyAt(pairs, i) # KeyAt(pairs, j)
      OBVIOUS
    <2>1. CASE i < j
      BY <1>1, <1>2, <2>1
    <2>2. CASE j < i
      BY <1>1, <1>2, <2>2
    <2> QED
      BY <1>2, <2>1, <2>2
  <1> QED
    BY <1>2, <1>3, <1>4 DEF get_pair

\* To create a map, or ask for a key, changes neither array nor heap.
LEMMA CreateStep == IInv /\ cybs_create_map => IInv'
  <1> SUFFICES ASSUME IInv, cybs_create_map PROVE IInv'
    OBVIOUS
  <1>1. /\ pairs = << >> /\ pairs' = << >> /\ totallength' = 0 /\ store' = TRUE
        /\ UNCHANGED <<heap, borrowed, answer, cut>>
    BY DEF IInv, cybs_create_map
  <1> QED
    BY <1>1 DEF IInv, TypeOK, Live, HeapIsDivided, BorrowedStays

\* To ask for a key returns its value, and what is lent out is good.
LEMMA GetStep ==
  ASSUME IInv, NEW k \in Keys, cybs_get(k)
  PROVE  IInv' /\ Contents' = Contents /\ answer' = Contents[k]
  <1>1. UNCHANGED <<store, pairs, totallength, heap, cut>>
    BY DEF cybs_get
  <1>2. PICK i \in get_pair(k) : IF i = 0 THEN borrowed' = 0 /\ answer' = NULL
                                 ELSE borrowed' = pairs[i].value /\ answer' = ValueAt(i)
    BY DEF cybs_get
  <1>3. /\ borrowed' \in Blocks \union {0} /\ answer' \in Values \union {NULL}
        /\ borrowed' # 0 => borrowed' \in Live /\ heap[borrowed'] = answer'
    <2>1. CASE i = 0
      BY <1>2, <2>1
    <2>2. CASE i # 0
      <3>1. i \in DOMAIN pairs
        BY <1>2, <2>2, Found
      <3>2. pairs[i].value \in Live /\ Live \subseteq Blocks
        BY <3>1 DEF IInv, Owning, TypeOK
      <3>3. ValueAt(i) \in Values /\ ValueAt(i) = heap[pairs[i].value]
        BY <3>1 DEF IInv, KeysAndValues, ValueAt
      <3> QED
        BY <1>2, <2>2, <3>2, <3>3
    <2> QED
      BY <2>1, <2>2
  <1>4. TypeOK'
    BY <1>1, <1>3 DEF IInv, TypeOK, Live
  <1>5. BorrowedStays'
    BY <1>1, <1>3 DEF BorrowedStays, Live
  <1>6. IInv'
    BY <1>1, <1>4, <1>5 DEF IInv, Live, HeapIsDivided
  <1>7. answer' = Contents[k]
    <2>1. CASE i = 0
      <3>1. \A j \in DOMAIN pairs : heap[pairs[j].key] # k
        BY <1>2, <2>1, Found DEF KeyAt
      <3> QED
        BY <1>2, <2>1, <3>1, MeaningAt, ContentsIs DEF IInv, TypeOK
    <2>2. CASE i # 0
      <3>1. i \in DOMAIN pairs /\ heap[pairs[i].key] = k
        BY <1>2, <2>2, Found DEF KeyAt
      <3> QED
        BY <1>2, <2>2, <3>1, MeaningAt, ContentsIs DEF IInv, TypeOK, ValueAt
    <2> QED
      BY <2>1, <2>2
  <1>8. Contents' = Contents
    BY <1>1, ContentsIs
  <1> QED
    BY <1>6, <1>7, <1>8

\* To destroy the map frees what the pairs own, once each, and nothing else.
LEMMA DestroyStep ==
  ASSUME IInv, cybs_destroy_map
  PROVE  IInv' /\ Contents' = [k \in Keys |-> NULL]
  <1>1. /\ heap' = [b \in Live \ Owned(pairs) |-> heap[b]]
        /\ store' = FALSE /\ pairs' = << >> /\ totallength' = 0 /\ borrowed' = 0
        /\ UNCHANGED <<answer, cut>>
    BY DEF cybs_destroy_map, Owned
  <1>2. Live' = cut /\ cut \subseteq Live /\ \A b \in cut : heap'[b] = heap[b]
    BY <1>1 DEF IInv, HeapIsDivided, Live
  <1>3. TypeOK'
    <2>1. /\ Live \subseteq Blocks /\ \A b \in Live : heap[b] \in Keys \union Values
          /\ answer \in Values \union {NULL}
      BY DEF IInv, TypeOK
    <2>2. Live' \subseteq Blocks /\ \A b \in Live' : heap'[b] \in Keys \union Values
      BY <1>2, <2>1
    <2>3. pairs' \in Seq(Pair)
      BY <1>1
    <2>4. store' = FALSE /\ totallength' = 0 /\ borrowed' = 0 /\ answer' = answer /\ cut' = cut
      BY <1>1
    <2>5. cut' \subseteq Live'
      BY <1>2, <2>4
    <2>6. totallength' \in Int
      BY <2>4
    <2>7. borrowed' \in Blocks \union {0} /\ answer' \in Values \union {NULL}
      BY <2>1, <2>4
    <2>8. store' \in BOOLEAN
      BY <2>4
    <2> QED
      BY <2>2, <2>3, <2>5, <2>6, <2>7, <2>8 DEF TypeOK
  <1>4. Owned(pairs') = {}
    BY <1>1 DEF Owned
  <1>5. IInv'
    BY <1>1, <1>2, <1>3, <1>4 DEF IInv, Owning, Ordered, KeysAndValues, HeapIsDivided, BorrowedStays
  <1>6. Contents' = [k \in Keys |-> NULL]
    BY <1>1, ContentsIs DEF Meaning
  <1> QED
    BY <1>5, <1>6

\* To set a key again frees its old value alone, and points to the new one from the same pair.
LEMMA ReplaceStep ==
  ASSUME IInv, NEW k \in Keys, NEW v \in Values, store, GiveUp(k), Replace(k, v),
         UNCHANGED <<store, answer>>
  PROVE  IInv' /\ Contents' = [Contents EXCEPT ![k] = v]
  <1>1. PICK i \in get_pair(k) \ {0} :
          LET new == Free(Kept(i), 1)
          IN  /\ heap' = [b \in Kept(i) \union {new} |-> IF b = new THEN v ELSE heap[b]]
              /\ pairs' = [pairs EXCEPT ![i].value = new]
              /\ UNCHANGED <<totallength, cut>>
    BY DEF Replace
  <1> DEFINE new == Free(Kept(i), 1)
             old == pairs[i].value
  <1>2. i \in DOMAIN pairs /\ pairs[i] \in Pair
    BY <1>1, Found, Places DEF IInv
  <1>3. /\ pairs \in Seq(Pair) /\ DOMAIN pairs' = DOMAIN pairs
        /\ pairs'[i] = [pairs[i] EXCEPT !.value = new]
        /\ \A j \in DOMAIN pairs : j # i => pairs'[j] = pairs[j]
    BY <1>1, <1>2 DEF IInv, TypeOK
  <1>4. old \in Blocks /\ old \in Live /\ Kept(i) = Live \ {old}
    BY <1>2 DEF IInv, Owning, TypeOK, Kept
  <1>5. new \in Blocks /\ new \notin Kept(i)
    <2>1. Blocks \ Kept(i) # {}
      BY <1>4
    <2> QED
      BY <2>1, FirstFree
  <1>6. /\ Live' = Kept(i) \union {new} /\ heap'[new] = v
        /\ \A b \in Kept(i) : heap'[b] = heap[b]
    BY <1>1, <1>5 DEF Live
  <1> HIDE DEF new
  <1>7. /\ pairs'[i].key = pairs[i].key /\ pairs'[i].value = new /\ pairs'[i] \in Pair
        /\ \A j \in DOMAIN pairs : pairs'[j].key = pairs[j].key
        /\ \A j \in DOMAIN pairs : j # i => pairs'[j].value = pairs[j].value
    BY <1>2, <1>3, <1>5 DEF Pair
  <1>8. /\ \A j \in DOMAIN pairs : pairs[j].key \in Kept(i)
        /\ \A j \in DOMAIN pairs : j # i => pairs[j].value \in Kept(i)
    BY <1>2, <1>4 DEF IInv, Owning
  <1>9. TypeOK'
    <2>1. pairs' \in Seq(Pair)
      <3>1. \A j \in DOMAIN pairs : pairs'[j] \in Pair
        BY <1>3, <1>7
      <3>2. pairs' = [j \in DOMAIN pairs |-> pairs'[j]]
        BY <1>1, <1>3
      <3>3. DOMAIN pairs = 1..Len(pairs) /\ Len(pairs) \in Nat
        BY <1>3
      <3> QED
        BY <3>1, <3>2, <3>3
    <2>2. Live' \subseteq Blocks /\ \A b \in Live' : heap'[b] \in Keys \union Values
      BY <1>4, <1>5, <1>6 DEF IInv, TypeOK
    <2>3. cut' \subseteq Live'
      <3>1. old \notin cut
        BY <1>2 DEF IInv, HeapIsDivided, Owned
      <3> QED
        BY <1>1, <1>4, <1>6, <3>1 DEF IInv, TypeOK
    <2>4. borrowed' \in Blocks \union {0}
      BY DEF GiveUp, IInv, TypeOK
    <2> QED
      BY <1>1, <2>1, <2>2, <2>3, <2>4 DEF IInv, TypeOK
  <1>10. Owning(pairs', Live')
    <2>1. \A j \in DOMAIN pairs : pairs'[j].key \in Live' /\ pairs'[j].value \in Live'
      BY <1>6, <1>7, <1>8
    <2>2. ASSUME NEW j \in DOMAIN pairs, NEW l \in DOMAIN pairs PROVE pairs'[j].key # pairs'[l].value
      BY <1>5, <1>7, <1>8 DEF IInv, Owning
    <2>3. ASSUME NEW j \in DOMAIN pairs, NEW l \in DOMAIN pairs, j # l
          PROVE  pairs'[j].key # pairs'[l].key /\ pairs'[j].value # pairs'[l].value
      BY <1>5, <1>7, <1>8, <2>3 DEF IInv, Owning
    <2> QED
      BY <1>3, <2>1, <2>2, <2>3 DEF Owning
  <1>11. Ordered(pairs', heap')
    BY <1>3, <1>6, <1>7, <1>8 DEF IInv, Ordered
  <1>12. KeysAndValues(pairs', heap')
    BY <1>3, <1>6, <1>7, <1>8 DEF IInv, KeysAndValues
  <1>13. HeapIsDivided'
    <2>1. Owned(pairs') = (Owned(pairs) \ {old}) \union {new}
      <3>1. ASSUME NEW b \in Owned(pairs') PROVE b \in (Owned(pairs) \ {old}) \union {new}
        <4>1. PICK j \in DOMAIN pairs : b = pairs'[j].key \/ b = pairs'[j].value
          BY <1>3, <3>1 DEF Owned
        <4> QED
          BY <1>4, <1>7, <1>8, <4>1 DEF Owned
      <3>2. ASSUME NEW b \in (Owned(pairs) \ {old}) \union {new} PROVE b \in Owned(pairs')
        <4>1. CASE b = new
          BY <1>2, <1>3, <1>7, <4>1 DEF Owned
        <4>2. CASE b # new
          <5>1. PICK j \in DOMAIN pairs : b = pairs[j].key \/ (b = pairs[j].value /\ j # i)
            BY <3>2, <4>2 DEF Owned
          <5> QED
            BY <1>3, <1>7, <5>1 DEF Owned
        <4> QED
          BY <4>1, <4>2
      <3> QED
        BY <3>1, <3>2
    <2>2. old \in Owned(pairs)
      BY <1>2 DEF Owned
    <2>3. /\ Live = Owned(pairs) \union cut /\ Owned(pairs) \intersect cut = {}
          /\ cut' = cut /\ Live' = (Live \ {old}) \union {new} /\ new \notin Live \ {old}
      BY <1>1, <1>4, <1>5, <1>6 DEF IInv, HeapIsDivided
    <2>4. Live' = Owned(pairs') \union cut' /\ Owned(pairs') \intersect cut' = {}
      BY <2>1, <2>2, <2>3
    <2> QED
      BY <2>4 DEF HeapIsDivided
  <1>14. BorrowedStays'
    <2> SUFFICES ASSUME borrowed' # 0 PROVE borrowed' \in Live' /\ heap'[borrowed'] = answer'
      BY DEF BorrowedStays
    <2>1. borrowed' = borrowed /\ borrowed # old
      BY <1>1 DEF GiveUp
    <2>2. borrowed \in Kept(i) /\ heap[borrowed] = answer
      BY <1>4, <2>1 DEF IInv, BorrowedStays
    <2> QED
      BY <1>6, <2>1, <2>2
  <1>15. Contents' = [Contents EXCEPT ![k] = v]
    <2> DEFINE f == [Contents EXCEPT ![k] = v]
    <2>1. heap[pairs[i].key] = k /\ \A j \in DOMAIN pairs : heap[pairs[j].key] = k => j = i
      BY <1>1, <1>2, Found DEF KeyAt
    <2>2. /\ Contents \in [Keys -> Values \union {NULL}]
          /\ \A j \in DOMAIN pairs : Contents[heap[pairs[j].key]] = heap[pairs[j].value]
          /\ \A l \in Keys : (\A j \in DOMAIN pairs : heap[pairs[j].key] # l) => Contents[l] = NULL
      BY ContentsIs, MeaningAt, MeaningTyping DEF IInv, TypeOK
    <2>3. \A j \in DOMAIN pairs : heap[pairs[j].key] \in Keys
      BY DEF IInv, KeysAndValues
    <2>4. f \in [Keys -> Values \union {NULL}] /\ f[k] = v /\ \A l \in Keys : l # k => f[l] = Contents[l]
      BY <2>2
    <2> HIDE DEF f
    <2>5. \A j \in DOMAIN pairs' : f[heap'[pairs'[j].key]] = heap'[pairs'[j].value]
      <3>1. ASSUME NEW j \in DOMAIN pairs, j # i PROVE f[heap'[pairs'[j].key]] = heap'[pairs'[j].value]
        BY <1>6, <1>7, <1>8, <2>1, <2>2, <2>3, <2>4, <3>1
      <3>2. f[heap'[pairs'[i].key]] = heap'[pairs'[i].value]
        BY <1>2, <1>6, <1>7, <1>8, <2>1, <2>4
      <3> QED
        BY <1>3, <3>1, <3>2
    <2>6. ASSUME NEW l \in Keys, \A j \in DOMAIN pairs' : heap'[pairs'[j].key] # l PROVE f[l] = NULL
      <3>1. \A j \in DOMAIN pairs : heap[pairs[j].key] # l
        BY <1>3, <1>6, <1>7, <1>8, <2>6
      <3>2. l # k
        BY <1>2, <2>1, <3>1
      <3> QED
        BY <2>2, <2>4, <3>1, <3>2
    <2>7. pairs' \in Seq(Pair)
      BY <1>9 DEF TypeOK
    <2>8. Meaning(pairs', heap') = f
      BY <1>11, <1>12, <2>4, <2>5, <2>6, <2>7, MeaningIs
    <2> QED
      BY <2>8, ContentsIs DEF f
  <1> QED
    BY <1>9, <1>10, <1>11, <1>12, <1>13, <1>14, <1>15 DEF IInv

\* A new pair has two new blocks, wherever qsort puts it.
LEMMA AddStep ==
  ASSUME IInv, NEW k \in Keys, NEW v \in Values, store, GiveUp(k), create_pair(k, v),
         UNCHANGED <<store, answer>>
  PROVE  IInv' /\ Contents' = [Contents EXCEPT ![k] = v]
  <1> DEFINE n == Free(Live, 1)
             m == Free(Live, 2)
             new == [key |-> n, value |-> m]
             array == Append(pairs, new)
  <1>1. /\ 0 \in get_pair(k) /\ CanAllocate(Live, 2)
        /\ heap' = [b \in Live \union {n, m} |-> CASE b = n -> k [] b = m -> v [] OTHER -> heap[b]]
        /\ pairs' \in Sorting(array, heap')
        /\ totallength' = totallength + KeyLength[k] + v
        /\ cut' = cut
    BY DEF create_pair
  <1>2. n \in Blocks \ Live /\ m \in Blocks \ Live /\ n # m
    BY <1>1, SecondFree
  <1>3. /\ Live' = Live \union {n, m} /\ heap'[n] = k /\ heap'[m] = v
        /\ \A b \in Live : heap'[b] = heap[b]
    BY <1>1, <1>2 DEF Live
  <1> HIDE DEF n, m
  <1>4. /\ new \in Pair /\ new.key = n /\ new.value = m
        /\ pairs \in Seq(Pair) /\ Len(pairs) \in Nat /\ DOMAIN pairs = 1..Len(pairs)
    BY <1>2 DEF Pair, IInv, TypeOK
  <1> HIDE DEF new
  <1>5. /\ array \in Seq(Pair) /\ DOMAIN array = (DOMAIN pairs) \union {Len(pairs) + 1}
        /\ array[Len(pairs) + 1] = new /\ \A i \in DOMAIN pairs : array[i] = pairs[i]
        /\ Len(pairs) + 1 \notin DOMAIN pairs
    BY <1>4
  <1> HIDE DEF array
  <1>6. \A i \in DOMAIN pairs : /\ pairs[i].key \in Live /\ pairs[i].value \in Live
                               /\ heap[pairs[i].key] # k
    BY <1>1, Found DEF IInv, Owning, KeyAt
  <1>7. KeysDiffer(array, heap')
    <2> SUFFICES ASSUME NEW i \in DOMAIN array, NEW j \in DOMAIN array, i # j
                 PROVE  heap'[array[i].key] # heap'[array[j].key]
      BY DEF KeysDiffer
    <2>1. CASE i \in DOMAIN pairs /\ j \in DOMAIN pairs
      <3>1. heap[pairs[i].key] # heap[pairs[j].key]
        BY <2>1, Found DEF KeyAt
      <3> QED
        BY <1>3, <1>5, <1>6, <2>1, <3>1
    <2>2. CASE i = Len(pairs) + 1 /\ j \in DOMAIN pairs
      BY <1>3, <1>4, <1>5, <1>6, <2>2
    <2>3. CASE i \in DOMAIN pairs /\ j = Len(pairs) + 1
      BY <1>3, <1>4, <1>5, <1>6, <2>3
    <2> QED
      BY <1>5, <2>1, <2>2, <2>3
  <1>8. KeysAndValues(array, heap')
    <2>1. \A i \in DOMAIN pairs : heap[pairs[i].key] \in Keys /\ heap[pairs[i].value] \in Values
      BY DEF IInv, KeysAndValues
    <2> QED
      BY <1>3, <1>4, <1>5, <1>6, <2>1 DEF KeysAndValues
  <1>9. Owning(array, Live')
    <2>1. \A i \in DOMAIN array : array[i].key \in Live' /\ array[i].value \in Live'
      BY <1>3, <1>4, <1>5, <1>6
    <2>2. ASSUME NEW i \in DOMAIN array, NEW j \in DOMAIN array PROVE array[i].key # array[j].value
      BY <1>2, <1>4, <1>5, <1>6 DEF IInv, Owning
    <2>3. ASSUME NEW i \in DOMAIN array, NEW j \in DOMAIN array, i # j
          PROVE  array[i].key # array[j].key /\ array[i].value # array[j].value
      BY <1>2, <1>4, <1>5, <1>6, <2>3 DEF IInv, Owning
    <2> QED
      BY <2>1, <2>2, <2>3 DEF Owning
  <1>10. /\ pairs' \in Seq(Pair) /\ Owning(pairs', Live') /\ Owned(pairs') = Owned(array)
         /\ KeysAndValues(pairs', heap') /\ Ordered(pairs', heap')
    BY <1>1, <1>5, <1>7, <1>8, <1>9, SortingKeeps
  <1>11. Owned(array) = Owned(pairs) \union {n, m}
    <2>1. ASSUME NEW b \in Owned(array) PROVE b \in Owned(pairs) \union {n, m}
      BY <1>4, <1>5, <2>1 DEF Owned
    <2>2. ASSUME NEW b \in Owned(pairs) PROVE b \in Owned(array)
      <3>1. PICK i \in DOMAIN pairs : b = pairs[i].key \/ b = pairs[i].value
        BY <2>2 DEF Owned
      <3> QED
        BY <1>5, <3>1 DEF Owned
    <2>3. n \in Owned(array) /\ m \in Owned(array)
      BY <1>4, <1>5 DEF Owned
    <2> QED
      BY <2>1, <2>2, <2>3
  <1>12. HeapIsDivided'
    <2>1. /\ Live = Owned(pairs) \union cut /\ Owned(pairs) \intersect cut = {}
          /\ cut' = cut /\ Owned(pairs') = Owned(pairs) \union {n, m}
      BY <1>1, <1>10, <1>11 DEF IInv, HeapIsDivided
    <2>2. Live' = Owned(pairs') \union cut' /\ Owned(pairs') \intersect cut' = {}
      BY <1>2, <1>3, <2>1
    <2> QED
      BY <2>2 DEF HeapIsDivided
  <1>13. borrowed' \in {borrowed, 0}
    BY DEF GiveUp
  <1>14. TypeOK'
    <2>1. Live' \subseteq Blocks /\ \A b \in Live' : heap'[b] \in Keys \union Values
      BY <1>2, <1>3 DEF IInv, TypeOK
    <2>2. totallength' \in Int
      BY <1>1, StringsAssumption DEF IInv, TypeOK
    <2>3. cut' \subseteq Live'
      BY <1>1, <1>3 DEF IInv, TypeOK
    <2> QED
      BY <1>10, <1>13, <2>1, <2>2, <2>3 DEF IInv, TypeOK
  <1>15. BorrowedStays'
    BY <1>3, <1>13 DEF IInv, BorrowedStays
  <1>16. Contents' = [Contents EXCEPT ![k] = v]
    <2> DEFINE f == [Contents EXCEPT ![k] = v]
    <2>1. /\ Contents \in [Keys -> Values \union {NULL}]
          /\ \A i \in DOMAIN pairs : Contents[heap[pairs[i].key]] = heap[pairs[i].value]
          /\ \A l \in Keys : (\A i \in DOMAIN pairs : heap[pairs[i].key] # l) => Contents[l] = NULL
      BY ContentsIs, MeaningAt, MeaningTyping DEF IInv, TypeOK
    <2>2. \A i \in DOMAIN pairs : heap[pairs[i].key] \in Keys
      BY DEF IInv, KeysAndValues
    <2>3. f \in [Keys -> Values \union {NULL}] /\ f[k] = v /\ \A l \in Keys : l # k => f[l] = Contents[l]
      BY <2>1
    <2> HIDE DEF f
    <2>4. \A i \in DOMAIN array : f[heap'[array[i].key]] = heap'[array[i].value]
      BY <1>3, <1>4, <1>5, <1>6, <2>1, <2>2, <2>3
    <2>5. /\ \A i \in DOMAIN pairs' : \E j \in DOMAIN array : pairs'[i] = array[j]
          /\ \A i \in DOMAIN array : \E j \in DOMAIN pairs' : pairs'[j] = array[i]
      BY <1>1, <1>5, <1>7, SortingMoves
    <2>6. \A i \in DOMAIN pairs' : f[heap'[pairs'[i].key]] = heap'[pairs'[i].value]
      BY <2>4, <2>5
    <2>7. ASSUME NEW l \in Keys, \A i \in DOMAIN pairs' : heap'[pairs'[i].key] # l PROVE f[l] = NULL
      <3>1. \A i \in DOMAIN array : heap'[array[i].key] # l
        BY <2>5, <2>7
      <3>2. (\A i \in DOMAIN pairs : heap[pairs[i].key] # l) /\ l # k
        BY <1>3, <1>4, <1>5, <1>6, <3>1
      <3> QED
        BY <2>1, <2>3, <3>2
    <2>8. Meaning(pairs', heap') = f
      BY <1>10, <2>3, <2>6, <2>7, MeaningIs
    <2> QED
      BY <2>8, ContentsIs DEF f
  <1> QED
    BY <1>10, <1>12, <1>14, <1>15, <1>16 DEF IInv

\* remove_pair gives up the last pair, and cuts its strings off from the array.
LEMMA RemoveStep ==
  ASSUME IInv, NEW k \in Keys, store, GiveUp(k), remove_pair(k), UNCHANGED <<store, answer>>
  PROVE  IInv' /\ Map!Cut
  <1> DEFINE n == Len(pairs)
             last == {pairs[n].key, pairs[n].value}
  <1>1. PICK i \in get_pair(k) \ {0} :
          /\ pairs' = SubSeq(pairs, 1, n - 1)
          /\ totallength' = totallength - (KeyLength[k] + ValueAt(i))
          /\ cut' = cut \union last
          /\ heap' = heap
    BY DEF remove_pair
  <1>2. i \in DOMAIN pairs /\ pairs \in Seq(Pair) /\ n \in Nat /\ n >= 1 /\ DOMAIN pairs = 1..n
    BY <1>1, Found DEF IInv, TypeOK
  <1>3. /\ pairs' \in Seq(Pair) /\ DOMAIN pairs' = (DOMAIN pairs) \ {n}
        /\ n \in DOMAIN pairs /\ \A j \in DOMAIN pairs' : pairs'[j] = pairs[j]
    BY <1>1, <1>2
  <1>4. Live' = Live /\ heap' = heap
    BY <1>1 DEF Live
  <1>5. /\ Owning(pairs', Live') /\ Ordered(pairs', heap') /\ KeysAndValues(pairs', heap')
    BY <1>3, <1>4 DEF IInv, Owning, Ordered, KeysAndValues
  <1>6. Owned(pairs') = Owned(pairs) \ last /\ last \subseteq Owned(pairs)
    <2>1. ASSUME NEW b \in Owned(pairs') PROVE b \in Owned(pairs) \ last
      <3>1. PICK j \in DOMAIN pairs' : b = pairs[j].key \/ b = pairs[j].value
        BY <1>3, <2>1 DEF Owned
      <3>2. j \in DOMAIN pairs /\ j # n
        BY <1>3
      <3>3. b \notin last
        BY <1>3, <3>1, <3>2 DEF IInv, Owning
      <3> QED
        BY <3>1, <3>2, <3>3 DEF Owned
    <2>2. ASSUME NEW b \in Owned(pairs) \ last PROVE b \in Owned(pairs')
      <3>1. PICK j \in DOMAIN pairs : b = pairs[j].key \/ b = pairs[j].value
        BY <2>2 DEF Owned
      <3>2. j \in DOMAIN pairs'
        BY <1>3, <2>2, <3>1
      <3> QED
        BY <1>3, <3>1, <3>2 DEF Owned
    <2>3. last \subseteq Owned(pairs)
      BY <1>3 DEF Owned
    <2> QED
      BY <2>1, <2>2, <2>3
  <1>7. HeapIsDivided'
    <2>1. /\ Live = Owned(pairs) \union cut /\ Owned(pairs) \intersect cut = {}
          /\ cut' = cut \union last
      BY <1>1 DEF IInv, HeapIsDivided
    <2> HIDE DEF last
    <2>2. Live' = Owned(pairs') \union cut' /\ Owned(pairs') \intersect cut' = {}
      BY <1>4, <1>6, <2>1
    <2> QED
      BY <2>2 DEF HeapIsDivided
  <1>8. borrowed' \in {borrowed, 0}
    BY DEF GiveUp
  <1>9. TypeOK'
    <2>1. totallength' \in Int
      <3>1. ValueAt(i) \in Nat
        BY <1>2, StringsAssumption DEF IInv, KeysAndValues, ValueAt
      <3> QED
        BY <1>1, <3>1, StringsAssumption DEF IInv, TypeOK
    <2>2. cut' \subseteq Live'
      BY <1>7 DEF HeapIsDivided
    <2> QED
      BY <1>3, <1>4, <1>8, <2>1, <2>2 DEF IInv, TypeOK
  <1>10. BorrowedStays'
    BY <1>4, <1>8 DEF IInv, BorrowedStays
  <1>11. Map!Cut
    <2> DEFINE g == heap[pairs[n].key]
               f == [Contents EXCEPT ![g] = NULL]
    <2>1. /\ Contents \in [Keys -> Values \union {NULL}]
          /\ \A j \in DOMAIN pairs : Contents[heap[pairs[j].key]] = heap[pairs[j].value]
          /\ \A l \in Keys : (\A j \in DOMAIN pairs : heap[pairs[j].key] # l) => Contents[l] = NULL
          /\ \A l \in Keys : Contents[l] # NULL => \E j \in DOMAIN pairs : heap[pairs[j].key] = l
      BY ContentsIs, MeaningAt, MeaningTyping DEF IInv, TypeOK
    <2>2. /\ \A j \in DOMAIN pairs : heap[pairs[j].key] \in Keys /\ heap[pairs[j].value] \in Values
          /\ \A j, l \in DOMAIN pairs : heap[pairs[j].key] = heap[pairs[l].key] => j = l
      BY Found DEF IInv, KeysAndValues, KeyAt
    <2>3. g \in Keys /\ Contents[g] # NULL
      <3>1. Values \subseteq Nat /\ NULL \notin Nat
        BY StringsAssumption
      <3>2. heap[pairs[n].value] \in Values /\ Contents[g] = heap[pairs[n].value] /\ g \in Keys
        BY <1>3, <2>1, <2>2
      <3>3. Contents[g] \in Nat
        BY <3>1, <3>2
      <3> QED
        BY <3>1, <3>2, <3>3
    <2>4. \A l \in Keys : Contents[l] # NULL => l <= g
      <3> SUFFICES ASSUME NEW j \in DOMAIN pairs PROVE heap[pairs[j].key] <= g
        BY <2>1
      <3>1. g \in Nat /\ heap[pairs[j].key] \in Nat
        BY <2>2, <2>3, StringsAssumption
      <3>2. j < n \/ j = n
        BY <1>2
      <3> QED
        BY <1>3, <3>1, <3>2 DEF IInv, Ordered
    <2>5. f \in [Keys -> Values \union {NULL}] /\ f[g] = NULL /\ \A l \in Keys : l # g => f[l] = Contents[l]
      BY <2>1, <2>3
    <2> HIDE DEF f
    <2>6. \A j \in DOMAIN pairs' : f[heap'[pairs'[j].key]] = heap'[pairs'[j].value]
      BY <1>3, <1>4, <2>1, <2>2, <2>5
    <2>7. ASSUME NEW l \in Keys, \A j \in DOMAIN pairs' : heap'[pairs'[j].key] # l PROVE f[l] = NULL
      <3>1. CASE l = g
        BY <2>5, <3>1
      <3>2. CASE l # g
        <4>1. \A j \in DOMAIN pairs : heap[pairs[j].key] # l
          BY <1>3, <1>4, <2>7, <3>2
        <4> QED
          BY <2>1, <2>5, <3>2, <4>1
      <3> QED
        BY <3>1, <3>2
    <2>8. Meaning(pairs', heap') = f
      BY <1>3, <1>5, <2>5, <2>6, <2>7, MeaningIs
    <2>9. Contents' = [Contents EXCEPT ![g] = NULL]
      BY <2>8, ContentsIs DEF f
    <2> QED
      BY <2>3, <2>4, <2>9 DEF Map!Cut
  <1> QED
    BY <1>5, <1>7, <1>9, <1>10, <1>11 DEF IInv
--------------------------------------------------------------------------------
\* An empty map is sound.
LEMMA InitInvariant == Init => IInv
  <1> SUFFICES ASSUME Init PROVE IInv
    OBVIOUS
  <1>1. /\ store = FALSE /\ pairs = << >> /\ totallength = 0
        /\ heap = << >> /\ borrowed = 0 /\ answer = NULL /\ cut = {}
    BY DEF Init
  <1>2. Live = {}
    BY <1>1 DEF Live
  <1>3. TypeOK
    <2>1. store \in BOOLEAN
      BY <1>1
    <2>2. totallength \in Int /\ pairs \in Seq(Pair)
      BY <1>1
    <2>3. borrowed \in Blocks \union {0} /\ answer \in Values \union {NULL}
      BY <1>1
    <2>4. Live \subseteq Blocks /\ cut \subseteq Live /\ \A b \in Live : heap[b] \in Keys \union Values
      BY <1>1, <1>2
    <2> QED
      BY <2>1, <2>2, <2>3, <2>4 DEF TypeOK
  <1> QED
    BY <1>1, <1>2, <1>3 DEF IInv, Owning, Ordered, KeysAndValues, HeapIsDivided, Owned, BorrowedStays

\* Every operation leaves the map sound.
LEMMA StepInvariant == IInv /\ [Next]_vars => IInv'
  <1> SUFFICES ASSUME IInv, [Next]_vars PROVE IInv'
    OBVIOUS
  <1>1. CASE cybs_create_map
    BY <1>1, CreateStep
  <1>2. CASE cybs_destroy_map
    BY <1>2, DestroyStep
  <1>3. ASSUME NEW k \in Keys, cybs_get(k) PROVE IInv'
    BY <1>3, GetStep
  <1>4. ASSUME NEW k \in Keys, NEW v \in Values \union {NULL}, cybs_add(k, v) PROVE IInv'
    BY <1>4, ReplaceStep, AddStep, RemoveStep DEF cybs_add
  <1>5. CASE UNCHANGED vars
    <2>1. /\ UNCHANGED <<store, pairs, totallength, heap, borrowed, answer, cut>>
          /\ Live' = Live
      BY <1>5 DEF vars, Live
    <2>2. TypeOK'
      BY <2>1 DEF IInv, TypeOK
    <2> QED
      BY <2>1, <2>2 DEF IInv, HeapIsDivided, BorrowedStays
  <1> QED
    BY <1>1, <1>2, <1>3, <1>4, <1>5 DEF Next

\* The map is sound throughout every sequence of operations.
THEOREM Invariance == Spec => []IInv
  BY InitInvariant, StepInvariant, PTL DEF Spec

\* Every variable keeps its type.
THEOREM Typing == Spec => []TypeOK
  <1>1. IInv => TypeOK
    BY DEF IInv
  <1> QED
    BY <1>1, Invariance, PTL

\* The array is in order, without a key twice, whenever it is searched.
THEOREM Order == Spec => []PairsAreSorted
  <1>1. IInv => PairsAreSorted
    BY DEF IInv, Ordered, PairsAreSorted, KeyAt
  <1> QED
    BY <1>1, Invariance, PTL

\* No pointer of the array dangles, and no two are to one string.
THEOREM Ownership == Spec => []PairsOwnTheirStrings
  <1>1. IInv => PairsOwnTheirStrings
    <2> SUFFICES ASSUME IInv, NEW i \in DOMAIN pairs, NEW f \in {"key", "value"}
                 PROVE  pairs[i][f] \in Live /\ Owners(pairs[i][f]) = {<<i, f>>}
      BY DEF PairsOwnTheirStrings
    <2>1. pairs[i][f] \in Live
      BY DEF IInv, Owning
    <2>2. ASSUME NEW j \in DOMAIN pairs, NEW g \in {"key", "value"}, pairs[j][g] = pairs[i][f]
          PROVE  j = i /\ g = f
      BY <2>2 DEF IInv, Owning
    <2>3. \A o \in (DOMAIN pairs) \X {"key", "value"} : o = <<o[1], o[2]>>
      OBVIOUS
    <2> QED
      BY <2>1, <2>2, <2>3 DEF Owners
  <1> QED
    BY <1>1, Invariance, PTL

\* Setting a key again and destroying the map leak nothing.
THEOREM NoLeak == Spec => []NothingLeaks
  <1>1. IInv => NothingLeaks
    <2> SUFFICES ASSUME IInv, NEW b \in Live \ cut PROVE Owners(b) # {}
      BY DEF NothingLeaks
    <2>1. PICK i \in DOMAIN pairs : b = pairs[i].key \/ b = pairs[i].value
      BY DEF IInv, HeapIsDivided, Owned
    <2>2. <<i, "key">> \in Owners(b) \/ <<i, "value">> \in Owners(b)
      BY <2>1 DEF Owners
    <2> QED
      BY <2>2
  <1> QED
    BY <1>1, Invariance, PTL

\* What cybs_get lent out stays where and what it is while other keys are set.
THEOREM Lent == Spec => []BorrowedStays
  <1>1. IInv => BorrowedStays
    BY DEF IInv
  <1> QED
    BY <1>1, Invariance, PTL

\* The sorted array is the map that StringMap promises.
THEOREM Implementation == Spec => ImplementsStringMap
  <1>1. Init => Map!Init
    <2> SUFFICES ASSUME Init PROVE Map!Init
      OBVIOUS
    <2>1. Contents = [k \in Keys |-> NULL]
      BY DEF Init, Contents
    <2> QED
      BY <2>1 DEF Init, Map!Init, Map!Empty
  <1>2. IInv /\ [Next]_vars => [Map!Next]_<<Contents, answer>>
    <2> SUFFICES ASSUME IInv, [Next]_vars PROVE [Map!Next]_<<Contents, answer>>
      OBVIOUS
    <2>1. CASE cybs_create_map
      <3>1. pairs' = pairs /\ heap' = heap /\ answer' = answer
        BY <2>1 DEF cybs_create_map, IInv
      <3> QED
        BY <3>1, ContentsIs
    <2>2. CASE cybs_destroy_map
      BY <2>2, DestroyStep DEF cybs_destroy_map, Map!Next, Map!Renew, Map!Empty
    <2>3. ASSUME NEW k \in Keys, cybs_get(k) PROVE Map!Next
      <3>1. Map!Get(k)
        BY <2>3, GetStep DEF Map!Get
      <3> QED
        BY <3>1 DEF Map!Next
    <2>4. ASSUME NEW k \in Keys, NEW v \in Values \union {NULL}, cybs_add(k, v) PROVE Map!Next
      <3>1. CASE v # NULL
        <4>1. v \in Values /\ Contents' = [Contents EXCEPT ![k] = v] /\ answer' = answer
          BY <2>4, <3>1, ReplaceStep, AddStep DEF cybs_add
        <4> QED
          BY <4>1 DEF Map!Next, Map!Add
      <3>2. CASE v = NULL
        BY <2>4, <3>2, RemoveStep DEF cybs_add, Map!Next
      <3> QED
        BY <3>1, <3>2
    <2>5. CASE UNCHANGED vars
      BY <2>5, ContentsIs DEF vars
    <2> QED
      BY <2>1, <2>2, <2>3, <2>4, <2>5 DEF Next
  <1> QED
    BY <1>1, <1>2, Invariance, PTL DEF Spec, ImplementsStringMap, Map!Spec
================================================================================
