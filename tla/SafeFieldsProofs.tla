---------------------------- MODULE SafeFieldsProofs ----------------------------
(***************************************************************************)
(* RemoveIndices stays in its buffer for names of every length over every  *)
(* alphabet: it stops at the terminator because what lies ahead of nSrc is *)
(* still the name as it was, which it is because nDest never passes nSrc.  *)
(* What it leaves is the name without its indices: ScanInv says for each   *)
(* state of the scan which characters read so far are in the buffer.  So   *)
(* IsSafe is asked about that name, and what is listed is shown.           *)
(***************************************************************************)
EXTENDS SafeFields, FiniteSetTheorems, TLAPS

\* What is not yet read is not yet written.
UnreadIsIntact ==
  state \in Scanning => \A i \in nSrc..Len(name) : szField[i] = CString(name)[i]

\* A possible index lies before the write position, which may go back to its start.
IndexIsBehind == /\ state \in {"Start", "Boundary"} => nDest <= nSrc
                 /\ state = "Start" => nSrc = 0 /\ nDest = 0
                 /\ state = "PossibleIndex" => nIndexStart <= nDest

IInv == TypeOK /\ StaysInBuffer /\ UnreadIsIntact /\ IndexIsBehind

\* A name has a length, and as a C string it is made of characters and a terminator,
\* which is at its end and nowhere else.
LEMMA StringTyping ==
  ASSUME name \in Names
  PROVE  /\ Len(name) \in Nat
         /\ CString(name) \in [0..Len(name) -> Chars \union {NUL}]
         /\ CString(name)[Len(name)] = NUL
  <1>1. name \in Seq(Chars)
    BY NamesAssumption
  <1>2. Len(name) \in Nat /\ \A i \in 1..Len(name) : name[i] \in Chars
    BY <1>1
  <1>3. ASSUME NEW i \in 0..Len(name)
        PROVE  (IF i < Len(name) THEN name[i + 1] ELSE NUL) \in Chars \union {NUL}
    BY <1>2
  <1> QED
    BY <1>2, <1>3 DEF CString

\* A step that copies keeps the buffer in bounds when it writes no further than it reads.
LEMMA CopyStep ==
  ASSUME IInv, state \in Scanning, Loop,
         NEW dest \in 0..nSrc, NEW next \in Scanning, Copy(dest, next),
         nIndexStart' \in 0..dest \/ (nIndexStart' = nIndexStart /\
                                      (next = "PossibleIndex" => nIndexStart <= dest))
  PROVE  IInv'
  <1>1. /\ Len(name) \in Nat /\ nSrc \in 0..Len(name) /\ name' = name
        /\ CString(name)[Len(name)] = NUL
    BY StringTyping DEF IInv, TypeOK, StaysInBuffer, Loop, arguments
  <1>2. /\ ch \in Chars \union {NUL}
        /\ szField' = [szField EXCEPT ![dest] = ch]
        /\ dest \in 0..Len(name)
    BY <1>1 DEF Copy, ch, IInv, TypeOK
  <1>3. nSrc' = nSrc + 1 /\ nDest' = dest + 1 /\ state' = IF ch = NUL THEN "Done" ELSE next
    BY DEF Loop, Copy, After
  <1>4. TypeOK'
    BY <1>1, <1>2, <1>3 DEF IInv, TypeOK, Loop, arguments, value, Scanning
  <1>5. ch # NUL => nSrc # Len(name)
    BY <1>1 DEF ch, IInv, UnreadIsIntact
  <1>6. StaysInBuffer'
    BY <1>1, <1>3, <1>5 DEF StaysInBuffer, Scanning
  <1>7. UnreadIsIntact'
    <2> SUFFICES ASSUME NEW i \in (nSrc + 1)..Len(name)
                 PROVE  szField'[i] = CString(name)[i]
      BY <1>1, <1>3 DEF UnreadIsIntact
    <2>1. i # dest /\ i \in 0..Len(name) /\ i \in nSrc..Len(name)
      BY <1>1
    <2> QED
      BY <2>1, <1>2 DEF IInv, TypeOK, UnreadIsIntact
  <1>8. IndexIsBehind'
    BY <1>1, <1>3 DEF IndexIsBehind, Scanning, IInv, TypeOK
  <1> QED
    BY <1>4, <1>6, <1>7, <1>8 DEF IInv

\* Every step of the scan, and those before and after it, preserve the invariant.
LEMMA StepInvariant == IInv /\ [Next]_vars => IInv'
  <1> SUFFICES ASSUME IInv, [Next]_vars PROVE IInv'
    OBVIOUS
  <1>0. /\ Len(name) \in Nat
        /\ CString(name) \in [0..Len(name) -> Chars \union {NUL}]
    BY StringTyping DEF IInv, TypeOK
  <1>a. CASE PassOver
    <2>1. length' \in Nat /\ shown' \subseteq Nat
      BY <1>a, NamesAssumption DEF PassOver
    <2> QED
      BY <1>a, <2>1 DEF PassOver, IInv, TypeOK, StaysInBuffer, UnreadIsIntact, IndexIsBehind,
                        Scanning, arguments
  <1>1. CASE FieldTooLong
    BY <1>1 DEF FieldTooLong, IInv, TypeOK, StaysInBuffer, UnreadIsIntact, IndexIsBehind,
                Scanning, arguments, value
  <1>2. CASE CopyField
    BY <1>2, <1>0 DEF CopyField, IInv, TypeOK, StaysInBuffer, UnreadIsIntact, IndexIsBehind,
                      Scanning, arguments, value
  <1>3. CASE AtBoundary
    <2>1. nDest \in 0..nSrc
      BY <1>3 DEF AtBoundary, IInv, TypeOK, StaysInBuffer, Scanning
    <2>2. CASE fDigit
      <3>1. nIndexStart' \in 0..nDest /\ Copy(nDest, "PossibleIndex")
        BY <1>3, <2>1, <2>2 DEF AtBoundary
      <3> QED
        BY <1>3, <2>1, <3>1, CopyStep DEF AtBoundary, Scanning
    <2>3. CASE ~fDigit
      <3>1. nIndexStart' = nIndexStart /\ Copy(nDest, "NonIndex")
        BY <1>3, <2>3 DEF AtBoundary
      <3> QED
        BY <1>3, <2>1, <3>1, CopyStep DEF AtBoundary, Scanning
    <2> QED
      BY <2>2, <2>3
  <1>4. CASE InNonIndex
    <2>1. nDest \in 0..nSrc
      BY <1>4 DEF InNonIndex, IInv, TypeOK, StaysInBuffer, Scanning
    <2>2. PICK next \in {"Boundary", "NonIndex"} : Copy(nDest, next)
      BY <1>4 DEF InNonIndex
    <2> QED
      BY <1>4, <2>1, <2>2, CopyStep DEF InNonIndex, Scanning
  <1>5. CASE InPossibleIndex
    <2>1. nDest \in 0..nSrc /\ nIndexStart <= nDest
      BY <1>5 DEF InPossibleIndex, IInv, TypeOK, StaysInBuffer, IndexIsBehind, Scanning
    <2>2. PICK next \in {"PossibleIndex", "NonIndex"} : Copy(nDest, next)
      BY <1>5 DEF InPossibleIndex
    <2> QED
      BY <1>5, <2>1, <2>2, CopyStep DEF InPossibleIndex, Scanning
  <1>6. CASE LeadingIndex
    <2>1. /\ nSrc \in 0..Len(name) /\ szField[nSrc] = CString(name)[nSrc]
          /\ szField[nSrc] # NUL /\ CString(name)[Len(name)] = NUL
      <3>1. nSrc \in 0..Len(name) /\ nSrc \in nSrc..Len(name) /\ state \in Scanning
        BY <1>6, <1>0 DEF LeadingIndex, IInv, TypeOK, StaysInBuffer, Scanning
      <3>2. szField[nSrc] = CString(name)[nSrc]
        BY <3>1 DEF IInv, UnreadIsIntact
      <3>3. szField[nSrc] # NUL
        BY <1>6 DEF LeadingIndex, ch, UNDERSCORE, NUL
      <3>4. CString(name)[Len(name)] = NUL
        BY StringTyping DEF IInv, TypeOK
      <3> QED
        BY <3>1, <3>2, <3>3, <3>4
    <2>2. nSrc' = nSrc + 1 /\ nSrc' <= Len(name) /\ nDest' = 0 /\ nIndexStart = 0
      BY <1>6, <1>0, <2>1 DEF LeadingIndex, Loop, Rewind
    <2> QED
      BY <1>6, <1>0, <2>1, <2>2 DEF LeadingIndex, Loop, IInv, TypeOK, StaysInBuffer,
           UnreadIsIntact, IndexIsBehind, Scanning, arguments, value
  <1>7. CASE EndOfIndex
    <2>1. Rewind \in 0..nSrc /\ nIndexStart' = nIndexStart
      BY <1>7, <1>0 DEF EndOfIndex, Rewind, IInv, TypeOK, StaysInBuffer, IndexIsBehind, Scanning
    <2> QED
      BY <1>7, <2>1, CopyStep DEF EndOfIndex, Scanning
  <1>8. CASE Lookup
    <2>1. safe' \in BOOLEAN
      BY <1>8 DEF Lookup, IsSafe
    <2> QED
      BY <1>8, <2>1 DEF Lookup, IInv, TypeOK, StaysInBuffer, UnreadIsIntact, IndexIsBehind,
                        Scanning, arguments, value
  <1>9. CASE LogValue
    <2>1. length' \in Nat
      BY <1>9, NamesAssumption DEF LogValue
    <2>2. shown' \subseteq Nat
      <3>1. /\ Ends(length') \in 0..length'
            /\ Ends(length') \in Nat
        BY <2>1 DEF Ends
      <3>2. 1..Ends(length') \subseteq Nat /\ (length' - Ends(length') + 1)..length' \subseteq Nat
        BY <2>1, <3>1
      <3>3. Readable(length') \subseteq Nat
        BY <3>2 DEF Readable
      <3> QED
        BY <1>9, <2>1, <3>3 DEF LogValue
    <2> QED
      BY <1>9, <2>1, <2>2 DEF LogValue, IInv, TypeOK, StaysInBuffer, UnreadIsIntact,
                              IndexIsBehind, Scanning, arguments
  <1>10. CASE MaskThrows
    BY <1>10 DEF MaskThrows, IInv, TypeOK, StaysInBuffer, UnreadIsIntact, IndexIsBehind,
                 Scanning, arguments, value
  <1>11. CASE UNCHANGED vars
    BY <1>11 DEF vars, IInv, TypeOK, StaysInBuffer, UnreadIsIntact, IndexIsBehind
  <1> QED
    BY <1>a, <1>1, <1>2, <1>3, <1>4, <1>5, <1>6, <1>7, <1>8, <1>9, <1>10, <1>11 DEF Next, RemoveIndices

\* The scan has not begun.
LEMMA InitInvariant == Init => IInv
  <1> SUFFICES ASSUME Init PROVE IInv
    OBVIOUS
  <1>1. Len(name) \in Nat
    BY StringTyping DEF Init
  <1> QED
    BY <1>1 DEF Init, IInv, TypeOK, StaysInBuffer, UnreadIsIntact, IndexIsBehind, Scanning

\* The inductive invariant holds in every reachable state.
THEOREM Invariance == Spec => []IInv
  BY InitInvariant, StepInvariant, PTL DEF Spec

\* Every variable keeps its type.
THEOREM Typing == Spec => []TypeOK
  <1>1. IInv => TypeOK
    BY DEF IInv
  <1> QED
    BY <1>1, Invariance, PTL

\* RemoveIndices never reads beyond the terminator and never writes ahead of what it
\* has read, whatever the name.
THEOREM InBuffer == Spec => []StaysInBuffer
  <1>1. IInv => StaysInBuffer
    BY DEF IInv
  <1> QED
    BY <1>1, Invariance, PTL

\* What is shown of a value that is masked is what Readable says.
MaskInv == state = "Logged" /\ ~safe => length \in Nat /\ shown = Readable(length)

\* The name of track data is taken for it in either form of message.
LEMMA NameIsTrackData ==
  ASSUME name \in Names, name = TRACK_DATA
  PROVE  IsTrackData
  <1>1. Len(name) \in Nat
    BY NamesAssumption
  <1>2. 0 \in 0..Len(name) /\ FoundAt(name, name, 0)
    BY <1>1, NamesAssumption DEF FoundAt
  <1> QED
    BY <1>2 DEF IsTrackData, strstr

\* Readable leaves half of the value at most, and nothing of track data.
LEMMA ReadableIsHalf ==
  ASSUME NEW n \in Nat
  PROVE  /\ 2 * Cardinality(Readable(n)) <= n
         /\ IsTrackData => Readable(n) = {}
  <1> DEFINE e == Ends(n)
             front == 1..e
             back == (n - e + 1)..n
  <1>1. e \in Nat /\ 4 * e <= n
    BY DEF Ends
  <1>2. IsFiniteSet(front) /\ Cardinality(front) = e
    BY <1>1, FS_Interval
  <1>3. IsFiniteSet(back) /\ Cardinality(back) = e
    <2>1. n - e + 1 \in Int /\ n \in Int
      BY <1>1
    <2>2. /\ IsFiniteSet(back)
          /\ Cardinality(back) = IF n - e + 1 > n THEN 0 ELSE n - (n - e + 1) + 1
      <3> HIDE DEF e
      <3> QED
        BY <2>1, FS_Interval
    <2>3. (IF n - e + 1 > n THEN 0 ELSE n - (n - e + 1) + 1) = e
      <3> HIDE DEF e
      <3> QED
        BY <1>1
    <2> QED
      BY <2>2, <2>3
  <1>4. IsFiniteSet(front \intersect back) /\ Cardinality(front \intersect back) \in Nat
    BY <1>2, FS_Subset, FS_CardinalityType
  <1>5. /\ Cardinality(front \union back) = Cardinality(front) + Cardinality(back)
                                             - Cardinality(front \intersect back)
    BY <1>2, <1>3, FS_Union
  <1>6. 2 * Cardinality(front \union back) <= n
    BY <1>1, <1>2, <1>3, <1>4, <1>5
  <1>7. CASE IsTrackData
    <2>1. Readable(n) = {}
      BY <1>7 DEF Readable
    <2> QED
      BY <2>1, FS_EmptySet
  <1>8. CASE ~IsTrackData
    <2>1. Readable(n) = front \union back
      BY <1>8 DEF Readable
    <2> QED
      BY <2>1, <1>6, <1>8
  <1> QED
    BY <1>7, <1>8

\* Only LogValue logs, and what a name is does not change.
LEMMA MaskStep == MaskInv /\ [Next]_vars => MaskInv'
  <1> SUFFICES ASSUME MaskInv, [Next]_vars PROVE MaskInv'
    OBVIOUS
  <1>1. CASE LogValue
    <2>1. length' \in Nat
      BY <1>1, NamesAssumption DEF LogValue
    <2>2. ~safe => shown' = Readable(length')
      BY <1>1 DEF LogValue
    <2>3. safe' = safe /\ Readable(length') = Readable(length)'
      BY <1>1 DEF LogValue, arguments, Readable, IsTrackData, strstr, FoundAt, Ends
    <2> QED
      BY <2>1, <2>2, <2>3 DEF MaskInv
  <1>2. CASE UNCHANGED vars
    BY <1>2 DEF vars, MaskInv, Readable, IsTrackData, strstr, FoundAt, Ends
  <1>3. CASE Next /\ ~LogValue
    <2>1. state' # "Logged"
      BY <1>3 DEF Next, PassOver, FieldTooLong, CopyField, Lookup, MaskThrows, RemoveIndices,
                  AtBoundary, InNonIndex, InPossibleIndex, LeadingIndex, EndOfIndex, Copy, After
    <2> QED
      BY <2>1 DEF MaskInv
  <1> QED
    BY <1>1, <1>2, <1>3

\* A value that IsSafe has refused shows half of its characters at most, for values of every
\* length, and nothing in a field whose name is that of track data, in either form.
THEOREM Masking == Spec => []UnsafeIsMasked
  <1>1. Init => MaskInv
    BY DEF Init, MaskInv
  <1>2. TypeOK /\ MaskInv => UnsafeIsMasked
    BY ReadableIsHalf, NameIsTrackData DEF TypeOK, MaskInv, UnsafeIsMasked
  <1> QED
    BY <1>1, <1>2, MaskStep, Typing, PTL DEF Spec
--------------------------- (* the scan, step by step *) ------------------------
\* buf holds the characters of s at the positions of K, in their order; n is their number.
Holds(buf, s, K, n) == /\ n = Cardinality(K)
                       /\ \A i \in K : buf[Cardinality({j \in K : j <= i}) - 1] = s[i]

KeptUpto(p) == {i \in 1..p : Stays(i)}
SomethingStays(p) == \E j \in 1..p : name[j] # UNDERSCORE /\ ~InIndex(j)

\* A part of the name begins after its first q characters, and has been read up to p.
PartFrom(q, p) == /\ q = 0 \/ name[q] = UNDERSCORE
                  /\ \A j \in (q + 1)..p : name[j] # UNDERSCORE

\* Between two parts: the underscore is there, and stays unless the next part is an index.
AtPart(p, buf, d) == /\ p > 0 => name[p] = UNDERSCORE /\ SomethingStays(p)
                     /\ Holds(buf, name, KeptUpto(p - 1) \union (1..p \intersect {p}), d)

\* In a part that is no index.
InPart(q, p, buf, d) == /\ PartFrom(q, p) /\ \E j \in (q + 1)..p : name[j] \notin Digits
                        /\ Holds(buf, name, KeptUpto(p), d)

\* In a part that may be an index: nothing is before it, or what stays and an underscore.
InLeadingDigits(q, p, buf, d, start) ==
  /\ start = 0 /\ ~SomethingStays(q)
  /\ Holds(buf, name, (q + 1)..p, d)
InLaterDigits(q, p, buf, d, start) ==
  /\ 0 < q /\ q < p /\ SomethingStays(q)
  /\ start = Cardinality(KeptUpto(q - 1)) + 1
  /\ Holds(buf, name, KeptUpto(q - 1) \union q..p, d)
InDigits(q, p, buf, d, start) ==
  /\ PartFrom(q, p) /\ \A j \in (q + 1)..p : name[j] \in Digits
  /\ InLeadingDigits(q, p, buf, d, start) \/ InLaterDigits(q, p, buf, d, start)

\* Where the scan of a name stands, with p characters read and d of them kept in buf.
ScanAt(st, p, buf, d, start) ==
  /\ st = "Boundary" => AtPart(p, buf, d)
  /\ st = "NonIndex" => \E q \in 0..p : InPart(q, p, buf, d)
  /\ st = "PossibleIndex" => \E q \in 0..p : InDigits(q, p, buf, d, start)
  /\ st = "Done" => Holds(buf, name, KeptUpto(Len(name)), d - 1)

ScanInv == WellFormed => ScanAt(state, nSrc, szField, nDest, nIndexStart)

\* Elements of a set of positions have ranks, which grow with them.
LEMMA Ranks ==
  ASSUME NEW p \in Nat, NEW K \in SUBSET (1..p)
  PROVE  /\ IsFiniteSet(K) /\ Cardinality(K) \in Nat
         /\ \A i \in K : Cardinality({j \in K : j <= i}) \in 1..Cardinality(K)
         /\ \A i, k \in K : i < k => Cardinality({j \in K : j <= i}) < Cardinality({j \in K : j <= k})
  <1>1. IsFiniteSet(K)
    <2>1. IsFiniteSet(1..p)
      BY FS_Interval
    <2> QED
      BY <2>1, FS_Subset
  <1>2. \A T \in SUBSET K : IsFiniteSet(T) /\ Cardinality(T) \in Nat /\ Cardinality(T) <= Cardinality(K)
    BY <1>1, FS_Subset, FS_CardinalityType
  <1>3. ASSUME NEW i \in K PROVE Cardinality({j \in K : j <= i}) \in 1..Cardinality(K)
    <2> DEFINE T == {j \in K : j <= i}
    <2>1. IsFiniteSet(T) /\ Cardinality(T) \in Nat /\ Cardinality(T) <= Cardinality(K)
      BY <1>2
    <2>2. T # {}
      OBVIOUS
    <2>3. Cardinality(T) # 0
      BY <2>1, <2>2, FS_EmptySet
    <2> QED
      BY <1>2, <2>1, <2>3
  <1>4. ASSUME NEW i \in K, NEW k \in K, i < k
        PROVE  Cardinality({j \in K : j <= i}) < Cardinality({j \in K : j <= k})
    <2> DEFINE T == {j \in K : j <= i}
               U == {j \in K : j <= k}
    <2>1. T \in SUBSET U /\ T # U
      <3>1. i \in Int /\ k \in Int /\ \A j \in K : j \in Int
        OBVIOUS
      <3>2. k \in U /\ k \notin T
        BY <1>4, <3>1
      <3>3. \A j \in T : j \in U
        BY <1>4, <3>1
      <3> QED
        BY <3>2, <3>3
    <2>2. /\ IsFiniteSet(U) /\ Cardinality(U) \in Nat /\ Cardinality(T) \in Nat
      BY <1>2
    <2>3. Cardinality(T) <= Cardinality(U) /\ Cardinality(T) # Cardinality(U)
      BY <2>1, <2>2, FS_Subset
    <2> QED
      BY <2>2, <2>3
  <1> QED
    BY <1>1, <1>2, <1>3, <1>4

\* The character at the next position follows those that are held.
LEMMA HeldWithNext ==
  ASSUME NEW s, NEW p \in Nat, NEW K \in SUBSET (1..p), NEW n, NEW buf, Holds(buf, s, K, n), n \in DOMAIN buf
  PROVE  Holds([buf EXCEPT ![n] = s[p + 1]], s, K \union {p + 1}, n + 1)
  <1> DEFINE new == [buf EXCEPT ![n] = s[p + 1]]
             L == K \union {p + 1}
  <1>1. n = Cardinality(K) /\ n \in Nat /\ IsFiniteSet(K)
    BY Ranks DEF Holds
  <1>2. Cardinality(L) = n + 1
    <2>1. p + 1 \notin K
      OBVIOUS
    <2> QED
      BY <1>1, <2>1, FS_AddElement
  <1>3. ASSUME NEW i \in K PROVE new[Cardinality({j \in L : j <= i}) - 1] = s[i]
    <2>1. {j \in L : j <= i} = {j \in K : j <= i}
      OBVIOUS
    <2> DEFINE r == Cardinality({j \in K : j <= i})
    <2>2. r \in 1..n /\ buf[r - 1] = s[i]
      BY <1>1, Ranks DEF Holds
    <2>3. r - 1 # n
      <3> HIDE DEF r
      <3> QED
        BY <1>1, <2>2
    <2>4. new[r - 1] = buf[r - 1]
      <3> HIDE DEF r
      <3> QED
        BY <2>3
    <2> QED
      BY <2>1, <2>2, <2>4
  <1>4. new[Cardinality({j \in L : j <= p + 1}) - 1] = s[p + 1]
    <2>1. {j \in L : j <= p + 1} = L
      <3>1. \A j \in L : j <= p + 1
        OBVIOUS
      <3> HIDE DEF L
      <3> QED
        BY <3>1
    <2> QED
      BY <1>1, <1>2, <2>1
  <1> QED
    BY <1>2, <1>3, <1>4 DEF Holds

\* The buffer holds the beginning of what it holds.
LEMMA HeldUpto ==
  ASSUME NEW s, NEW p \in Nat, NEW K \in SUBSET (1..p), NEW n, NEW buf, Holds(buf, s, K, n),
         NEW m \in Int, NEW L, L = {i \in K : i <= m}
  PROVE  Holds(buf, s, L, Cardinality(L))
  <1>1. ASSUME NEW i \in L PROVE {j \in L : j <= i} = {j \in K : j <= i}
    <2>1. i \in Int /\ i <= m /\ \A j \in K : j \in Int
      OBVIOUS
    <2>2. \A j \in K : j <= i => j \in L
      BY <2>1
    <2>3. \A j \in L : j \in K
      OBVIOUS
    <2> QED
      BY <2>2, <2>3
  <1> QED
    BY <1>1 DEF Holds

\* What the buffer holds at the end is the name without its indices.
LEMMA HeldAtEnd ==
  ASSUME NEW buf, NEW n, Len(name) \in Nat, Holds(buf, name, KeptUpto(Len(name)), n)
  PROVE  [k \in 1..n |-> buf[k - 1]] = WithoutIndices
  <1> DEFINE K == KeptUpto(Len(name))
  <1>1. K \in SUBSET (1..Len(name)) /\ IsFiniteSet(K) /\ n = Cardinality(K) /\ n \in Nat
    BY Ranks DEF KeptUpto, Holds
  <1>2. \A i \in 1..Len(name) : {j \in 1..i : Stays(j)} = {j \in K : j <= i}
    BY DEF KeptUpto
  <1>3. \A i \in 1..Len(name) : Rank(i) = Cardinality({j \in K : j <= i})
    BY <1>2 DEF Rank
  <1>4. Rank(Len(name)) = n
    BY <1>1 DEF Rank, KeptUpto
  <1> DEFINE f == [i \in K |-> Rank(i)]
  <1>5. f \in Injection(K, 1..n)
    <2>1. \A i \in K : Rank(i) \in 1..n
      BY <1>1, <1>3, Ranks
    <2>2. \A i, k \in K : i < k => Rank(i) < Rank(k)
      BY <1>1, <1>3, Ranks
    <2>3. \A i, k \in K : Rank(i) = Rank(k) => i = k
      BY <1>1, <2>1, <2>2
    <2> QED
      BY <2>1, <2>3 DEF Injection, IsInjective
  <1>6. f \in Surjection(K, 1..n)
    <2>1. IsFiniteSet(1..n) /\ Cardinality(1..n) = n
      BY <1>1, FS_Interval
    <2> HIDE DEF K, f
    <2> QED
      BY <1>1, <1>5, <2>1, FS_Injection
  <1>7. ASSUME NEW k \in 1..n
        PROVE  buf[k - 1] = name[CHOOSE i \in 1..Len(name) : Stays(i) /\ Rank(i) = k]
    <2>1. \E i \in 1..Len(name) : Stays(i) /\ Rank(i) = k
      BY <1>6 DEF Surjection, KeptUpto
    <2> DEFINE i == CHOOSE i \in 1..Len(name) : Stays(i) /\ Rank(i) = k
    <2>2. i \in K /\ Rank(i) = k
      BY <2>1 DEF KeptUpto
    <2> HIDE DEF i
    <2>3. buf[k - 1] = name[i]
      BY <1>1, <1>3, <2>2 DEF Holds
    <2> QED
      BY <2>3 DEF i
  <1> QED
    BY <1>4, <1>7 DEF WithoutIndices
\* The buffer still holds what it held when something is written behind it.
LEMMA HeldBefore ==
  ASSUME NEW s, NEW p \in Nat, NEW K \in SUBSET (1..p), NEW n, NEW buf, Holds(buf, s, K, n), NEW c
  PROVE  Holds([buf EXCEPT ![n] = c], s, K, n)
  <1>1. n \in Nat /\ \A i \in K : Cardinality({j \in K : j <= i}) \in 1..n
    BY Ranks DEF Holds
  <1>2. \A i \in K : Cardinality({j \in K : j <= i}) - 1 # n
    BY <1>1
  <1>3. ASSUME NEW i \in K
        PROVE  [buf EXCEPT ![n] = c][Cardinality({j \in K : j <= i}) - 1] = s[i]
    <2> DEFINE r == Cardinality({j \in K : j <= i}) - 1
    <2>1. buf[r] = s[i] /\ r # n
      BY <1>2 DEF Holds
    <2> HIDE DEF r
    <2>2. [buf EXCEPT ![n] = c][r] = buf[r]
      BY <2>1
    <2> QED
      BY <2>1, <2>2 DEF r
  <1> QED
    BY <1>3 DEF Holds

\* A name of the service, as the lemmas below take it.
NamedWell == name \in Seq(Chars) /\ Len(name) \in Nat /\ WellFormed

\* Digits that end a part are an index.
LEMMA DigitsAreIndex ==
  ASSUME NamedWell, NEW p \in 0..Len(name), NEW q \in 0..p, PartFrom(q, p),
         \A j \in (q + 1)..p : name[j] \in Digits, p = Len(name) \/ name[p + 1] = UNDERSCORE,
         NEW i \in (q + 1)..p
  PROVE  InIndex(i)
  <1>1. q + 1 \in 1..i /\ p \in i..Len(name) /\ (q + 1) - 1 = q
    BY DEF NamedWell
  <1>2. (q + 1 = 1 \/ name[(q + 1) - 1] = UNDERSCORE)
    BY <1>1 DEF PartFrom
  <1> QED
    BY <1>1, <1>2 DEF InIndex

\* No character of a part with another character than digits is in an index.
LEMMA PartIsNoIndex ==
  ASSUME NamedWell, NEW r \in 0..Len(name), NEW q \in 0..r, PartFrom(q, r),
         NEW c \in (q + 1)..r, name[c] \notin Digits, NEW i \in (q + 1)..r
  PROVE  ~InIndex(i)
  <1> SUFFICES ASSUME InIndex(i) PROVE FALSE
    OBVIOUS
  <1>1. Len(name) \in Nat /\ c \in Int /\ i \in Int /\ q \in Nat /\ r \in Nat
    BY DEF NamedWell
  <1>2. PICK a \in 1..i, b \in i..Len(name) :
          /\ \A j \in a..b : name[j] \in Digits
          /\ a = 1 \/ name[a - 1] = UNDERSCORE
          /\ b = Len(name) \/ name[b + 1] = UNDERSCORE
    BY DEF InIndex
  <1>3. a \in Int /\ b \in Int
    BY <1>1, <1>2
  <1>4. c < a \/ b < c
    BY <1>1, <1>2, <1>3
  <1>5. CASE c < a
    <2>1. a - 1 \in (q + 1)..r /\ a # 1
      BY <1>1, <1>2, <1>3, <1>5
    <2> QED
      BY <1>2, <2>1 DEF PartFrom
  <1>6. CASE b < c
    <2>1. b + 1 \in (q + 1)..r /\ b # Len(name)
      BY <1>1, <1>2, <1>3, <1>6
    <2> QED
      BY <1>2, <2>1 DEF PartFrom
  <1> QED
    BY <1>4, <1>5, <1>6

\* An underscore is in no index.
LEMMA UnderscoreIsNoIndex ==
  ASSUME NamedWell, NEW i \in 1..Len(name), name[i] = UNDERSCORE
  PROVE  ~InIndex(i)
  <1>1. \A a \in 1..i, b \in i..Len(name) : i \in a..b
    BY DEF NamedWell
  <1>2. UNDERSCORE \notin Digits
    BY CharsAssumption
  <1> QED
    BY <1>1, <1>2 DEF InIndex

\* An underscore stays between something that stays and a part that does.
LEMMA UnderscoreStays ==
  ASSUME NamedWell, NEW q \in 1..(Len(name) - 1), name[q] = UNDERSCORE, SomethingStays(q),
         ~InIndex(q + 1)
  PROVE  Stays(q)
  <1>1. q \in 1..Len(name) /\ q \in Int
    BY DEF NamedWell
  <1>2. \E j \in 1..(q - 1) : name[j] # UNDERSCORE /\ ~InIndex(j)
    <2>1. PICK j \in 1..q : name[j] # UNDERSCORE /\ ~InIndex(j)
      BY DEF SomethingStays
    <2>2. j \in 1..(q - 1)
      BY <1>1, <2>1
    <2> QED
      BY <2>1, <2>2
  <1>3. ~InIndex(q)
    BY <1>1, UnderscoreIsNoIndex
  <1> QED
    BY <1>2, <1>3 DEF Stays

\* Where nothing but indices and underscores has been, nothing stays.
LEMMA NothingStays ==
  ASSUME NEW q \in Nat, ~SomethingStays(q)
  PROVE  KeptUpto(q) = {}
  <1> SUFFICES ASSUME NEW i \in 1..q, Stays(i) PROVE FALSE
    BY DEF KeptUpto
  <1>1. ~InIndex(i) /\ name[i] = UNDERSCORE
    BY DEF Stays, SomethingStays
  <1>2. PICK j \in 1..(i - 1) : name[j] # UNDERSCORE /\ ~InIndex(j)
    BY <1>1 DEF Stays
  <1>3. j \in 1..q
    OBVIOUS
  <1> QED
    BY <1>2, <1>3 DEF SomethingStays
--------------------------------------------------------------------------------
\* What a part begins with, another character than a digit.
LEMMA PartBegins ==
  ASSUME NamedWell, NEW p \in 0..(Len(name) - 1), NEW d, NEW buf, d \in DOMAIN buf,
         AtPart(p, buf, d), name[p + 1] \notin Digits
  PROVE  InPart(p, p + 1, [buf EXCEPT ![d] = name[p + 1]], d + 1)
  <1> DEFINE K == KeptUpto(p - 1) \union (1..p \intersect {p})
  <1>1. p \in Nat /\ Len(name) \in Nat /\ p + 1 \in 1..Len(name) /\ K \in SUBSET (1..p)
    BY DEF NamedWell, KeptUpto
  <1>2. name[p + 1] # UNDERSCORE
    BY <1>1 DEF AtPart, NamedWell, WellFormed
  <1>3. PartFrom(p, p + 1)
    BY <1>1, <1>2 DEF PartFrom, AtPart
  <1>4. ~InIndex(p + 1)
    <2>1. p + 1 \in (p + 1)..(p + 1) /\ p + 1 \in 0..Len(name) /\ p \in 0..(p + 1)
      BY <1>1
    <2> QED
      BY <1>3, <2>1, PartIsNoIndex
  <1>5. Stays(p + 1)
    BY <1>2, <1>4 DEF Stays
  <1>6. p > 0 => Stays(p)
    BY <1>1, <1>4, UnderscoreStays DEF AtPart
  <1>7. KeptUpto(p + 1) = K \union {p + 1}
    <2>1. 1..(p + 1) = 1..(p - 1) \union (1..p \intersect {p}) \union {p + 1}
      BY <1>1
    <2> QED
      BY <1>1, <1>5, <1>6, <2>1 DEF KeptUpto
  <1>8. Holds([buf EXCEPT ![d] = name[p + 1]], name, K \union {p + 1}, d + 1)
    BY <1>1, HeldWithNext DEF AtPart
  <1>9. p + 1 \in (p + 1)..(p + 1)
    BY <1>1
  <1> QED
    BY <1>3, <1>7, <1>8, <1>9 DEF InPart

\* A digit at the start of a part may be an index.
LEMMA DigitsBegin ==
  ASSUME NamedWell, NEW p \in 0..(Len(name) - 1), NEW d, NEW buf, d \in DOMAIN buf,
         AtPart(p, buf, d), name[p + 1] \in Digits
  PROVE  InDigits(p, p + 1, [buf EXCEPT ![d] = name[p + 1]], d + 1, d)
  <1> DEFINE K == KeptUpto(p - 1) \union (1..p \intersect {p})
             new == [buf EXCEPT ![d] = name[p + 1]]
  <1>1. p \in Nat /\ Len(name) \in Nat /\ p + 1 \in 1..Len(name) /\ K \in SUBSET (1..p)
    BY DEF NamedWell, KeptUpto
  <1>2. name[p + 1] # UNDERSCORE
    BY CharsAssumption
  <1>3. PartFrom(p, p + 1) /\ \A j \in (p + 1)..(p + 1) : name[j] \in Digits
    BY <1>1, <1>2 DEF PartFrom, AtPart
  <1>4. Holds(new, name, K \union {p + 1}, d + 1) /\ d = Cardinality(K)
    <2>1. Holds(buf, name, K, d)
      BY DEF AtPart
    <2>2. d = Cardinality(K)
      BY <2>1 DEF Holds
    <2> HIDE DEF K
    <2> QED
      BY <1>1, <2>1, <2>2, HeldWithNext
  <1>5. CASE p = 0
    <2>1. K = {} /\ d = 0 /\ ~SomethingStays(0)
      BY <1>4, <1>5, FS_EmptySet DEF KeptUpto, SomethingStays
    <2>2. K \union {p + 1} = (p + 1)..(p + 1)
      BY <1>1, <2>1
    <2> QED
      BY <1>3, <1>4, <1>5, <2>1, <2>2 DEF InDigits, InLeadingDigits
  <1>6. CASE p > 0
    <2>1. K = KeptUpto(p - 1) \union {p} /\ p \notin KeptUpto(p - 1)
      BY <1>1, <1>6 DEF KeptUpto
    <2>2. KeptUpto(p - 1) \in SUBSET (1..p)
      BY <1>1 DEF KeptUpto
    <2>3. IsFiniteSet(KeptUpto(p - 1)) /\ d = Cardinality(KeptUpto(p - 1)) + 1
      BY <1>1, <1>4, <2>1, <2>2, Ranks, FS_AddElement
    <2>4. K \union {p + 1} = KeptUpto(p - 1) \union p..(p + 1)
      <3>1. p..(p + 1) = {p} \union {p + 1}
        BY <1>1
      <3> QED
        BY <2>1, <3>1
    <2>5. SomethingStays(p) /\ 0 < p /\ p < p + 1
      BY <1>1, <1>6 DEF AtPart
    <2>6. Holds(new, name, KeptUpto(p - 1) \union p..(p + 1), d + 1)
      BY <1>4, <2>4
    <2>7. InLaterDigits(p, p + 1, new, d + 1, d)
      BY <2>3, <2>5, <2>6 DEF InLaterDigits
    <2> QED
      BY <1>3, <2>7 DEF InDigits
  <1> QED
    BY <1>1, <1>5, <1>6

\* A part that is no index goes on.
LEMMA PartGoesOn ==
  ASSUME NamedWell, NEW p \in 0..(Len(name) - 1), NEW q \in 0..p, NEW d, NEW buf, d \in DOMAIN buf,
         InPart(q, p, buf, d), name[p + 1] # UNDERSCORE
  PROVE  InPart(q, p + 1, [buf EXCEPT ![d] = name[p + 1]], d + 1)
  <1>1. p \in Nat /\ q \in Nat /\ Len(name) \in Nat /\ KeptUpto(p) \in SUBSET (1..p)
    BY DEF NamedWell, KeptUpto
  <1>2. (q + 1)..(p + 1) = (q + 1)..p \union {p + 1}
    BY <1>1
  <1>3. PartFrom(q, p + 1) /\ \E j \in (q + 1)..(p + 1) : name[j] \notin Digits
    BY <1>2 DEF InPart, PartFrom
  <1>4. ~InIndex(p + 1)
    <2>1. p + 1 \in (q + 1)..(p + 1) /\ p + 1 \in 0..Len(name) /\ q \in 0..(p + 1)
      BY <1>1
    <2> QED
      BY <1>3, <2>1, PartIsNoIndex
  <1>5. Stays(p + 1)
    BY <1>4 DEF Stays
  <1>6. KeptUpto(p + 1) = KeptUpto(p) \union {p + 1}
    <2>1. 1..(p + 1) = 1..p \union {p + 1}
      BY <1>1
    <2> QED
      BY <1>5, <2>1 DEF KeptUpto
  <1>7. Holds([buf EXCEPT ![d] = name[p + 1]], name, KeptUpto(p) \union {p + 1}, d + 1)
    BY <1>1, HeldWithNext DEF InPart
  <1> QED
    BY <1>3, <1>6, <1>7 DEF InPart

\* It ends with an underscore.
LEMMA PartEnds ==
  ASSUME NamedWell, NEW p \in 0..(Len(name) - 1), NEW q \in 0..p, NEW d, NEW buf, d \in DOMAIN buf,
         InPart(q, p, buf, d), name[p + 1] = UNDERSCORE
  PROVE  AtPart(p + 1, [buf EXCEPT ![d] = name[p + 1]], d + 1)
  <1>1. p \in Nat /\ q \in Nat /\ Len(name) \in Nat /\ KeptUpto(p) \in SUBSET (1..p)
    BY DEF NamedWell, KeptUpto
  <1>2. PICK c \in (q + 1)..p : name[c] \notin Digits
    BY DEF InPart
  <1>3. ~InIndex(c) /\ name[c] # UNDERSCORE /\ c \in 1..(p + 1)
    <2>1. p \in 0..Len(name)
      BY <1>1
    <2>2. ~InIndex(c)
      BY <1>2, <2>1, PartIsNoIndex DEF InPart
    <2> QED
      BY <1>1, <1>2, <2>2 DEF InPart, PartFrom
  <1>4. SomethingStays(p + 1)
    BY <1>3 DEF SomethingStays
  <1>5. Holds([buf EXCEPT ![d] = name[p + 1]], name, KeptUpto(p) \union {p + 1}, d + 1)
    BY <1>1, HeldWithNext DEF InPart
  <1>6. (p + 1) - 1 = p /\ 1..(p + 1) \intersect {p + 1} = {p + 1}
    BY <1>1
  <1> QED
    BY <1>4, <1>5, <1>6 DEF AtPart
\* One more digit leaves it open whether the part is an index.
LEMMA DigitsGoOn ==
  ASSUME NamedWell, NEW p \in 0..(Len(name) - 1), NEW q \in 0..p, NEW d, NEW buf, d \in DOMAIN buf,
         NEW start, InDigits(q, p, buf, d, start), name[p + 1] \in Digits
  PROVE  InDigits(q, p + 1, [buf EXCEPT ![d] = name[p + 1]], d + 1, start)
  <1> DEFINE new == [buf EXCEPT ![d] = name[p + 1]]
  <1>1. p \in Nat /\ q \in Nat /\ Len(name) \in Nat
    BY DEF NamedWell
  <1>2. (q + 1)..(p + 1) = (q + 1)..p \union {p + 1}
    BY <1>1
  <1>0. name[p + 1] # UNDERSCORE
    BY CharsAssumption
  <1>3. PartFrom(q, p + 1) /\ \A j \in (q + 1)..(p + 1) : name[j] \in Digits
    BY <1>0, <1>2 DEF InDigits, PartFrom
  <1>4. CASE InLeadingDigits(q, p, buf, d, start)
    <2>1. (q + 1)..p \in SUBSET (1..p)
      BY <1>1
    <2>2. Holds(new, name, (q + 1)..p \union {p + 1}, d + 1)
      BY <1>1, <1>4, <2>1, HeldWithNext DEF InLeadingDigits
    <2>3. InLeadingDigits(q, p + 1, new, d + 1, start)
      BY <1>2, <1>4, <2>2 DEF InLeadingDigits
    <2> QED
      BY <1>3, <2>3 DEF InDigits
  <1>5. CASE InLaterDigits(q, p, buf, d, start)
    <2> DEFINE K == KeptUpto(q - 1) \union q..p
    <2>1. K \in SUBSET (1..p)
      BY <1>1, <1>5 DEF KeptUpto, InLaterDigits
    <2>2. Holds(new, name, K \union {p + 1}, d + 1)
      BY <1>1, <1>5, <2>1, HeldWithNext DEF InLaterDigits
    <2>3. K \union {p + 1} = KeptUpto(q - 1) \union q..(p + 1)
      <3>1. q..(p + 1) = q..p \union {p + 1}
        BY <1>1
      <3> QED
        BY <3>1
    <2>4. q < p + 1
      BY <1>1
    <2>5. InLaterDigits(q, p + 1, new, d + 1, start)
      BY <1>5, <2>2, <2>3, <2>4 DEF InLaterDigits
    <2> QED
      BY <1>3, <2>5 DEF InDigits
  <1> QED
    BY <1>4, <1>5 DEF InDigits

\* Another character: the part was no index, and all of it stays.
LEMMA DigitsWereNoIndex ==
  ASSUME NamedWell, NEW p \in 0..(Len(name) - 1), NEW q \in 0..p, NEW d, NEW buf, d \in DOMAIN buf,
         NEW start, InDigits(q, p, buf, d, start), name[p + 1] \notin Digits, name[p + 1] # UNDERSCORE
  PROVE  InPart(q, p + 1, [buf EXCEPT ![d] = name[p + 1]], d + 1)
  <1> DEFINE new == [buf EXCEPT ![d] = name[p + 1]]
  <1>1. p \in Nat /\ q \in Nat /\ Len(name) \in Nat /\ p + 1 \in (q + 1)..(p + 1) /\ p + 1 \in 0..Len(name)
    BY DEF NamedWell
  <1>2. (q + 1)..(p + 1) = (q + 1)..p \union {p + 1}
    BY <1>1
  <1>3. PartFrom(q, p + 1) /\ \E j \in (q + 1)..(p + 1) : name[j] \notin Digits
    BY <1>1, <1>2 DEF InDigits, PartFrom
  <1>4. \A i \in (q + 1)..(p + 1) : Stays(i) /\ ~InIndex(i)
    <2> SUFFICES ASSUME NEW i \in (q + 1)..(p + 1) PROVE Stays(i) /\ ~InIndex(i)
      OBVIOUS
    <2>1. q \in 0..(p + 1)
      BY <1>1
    <2>2. ~InIndex(i)
      BY <1>1, <1>3, <2>1, PartIsNoIndex
    <2> QED
      BY <1>3, <2>2 DEF Stays, PartFrom
  <1>5. CASE InLeadingDigits(q, p, buf, d, start)
    <2>1. (q + 1)..p \in SUBSET (1..p)
      BY <1>1
    <2>2. Holds(new, name, (q + 1)..(p + 1), d + 1)
      BY <1>1, <1>2, <1>5, <2>1, HeldWithNext DEF InLeadingDigits
    <2>3. KeptUpto(q) = {}
      BY <1>1, <1>5, NothingStays DEF InLeadingDigits
    <2>4. 1..(p + 1) = 1..q \union (q + 1)..(p + 1)
      BY <1>1
    <2>5. KeptUpto(p + 1) = (q + 1)..(p + 1)
      BY <1>4, <2>3, <2>4 DEF KeptUpto
    <2> QED
      BY <1>3, <2>2, <2>5 DEF InPart
  <1>6. CASE InLaterDigits(q, p, buf, d, start)
    <2> DEFINE K == KeptUpto(q - 1) \union q..p
    <2>1. K \in SUBSET (1..p) /\ q \in 1..(Len(name) - 1)
      BY <1>1, <1>6 DEF KeptUpto, InLaterDigits
    <2>2. Holds(new, name, K \union {p + 1}, d + 1)
      BY <1>1, <1>6, <2>1, HeldWithNext DEF InLaterDigits
    <2>3. Stays(q)
      <3>1. name[q] = UNDERSCORE /\ SomethingStays(q) /\ q + 1 \in (q + 1)..(p + 1)
        BY <1>1, <1>6, <2>1 DEF InLaterDigits, InDigits, PartFrom
      <3> QED
        BY <1>4, <2>1, <3>1, UnderscoreStays
    <2>4. /\ 1..(p + 1) = 1..(q - 1) \union {q} \union (q + 1)..(p + 1)
          /\ q..p \union {p + 1} = {q} \union (q + 1)..(p + 1)
      BY <1>1, <1>6 DEF InLaterDigits
    <2>5. KeptUpto(p + 1) = K \union {p + 1}
      BY <1>4, <2>3, <2>4 DEF KeptUpto
    <2> QED
      BY <1>3, <2>2, <2>5 DEF InPart
  <1> QED
    BY <1>5, <1>6 DEF InDigits

\* What stays of a name when the part that has been read is an index.
LEMMA IndexGoes ==
  ASSUME NamedWell, NEW p \in 0..Len(name), NEW q \in 0..p, NEW d, NEW buf, NEW start,
         InDigits(q, p, buf, d, start), p = Len(name) \/ name[p + 1] = UNDERSCORE
  PROVE  /\ \A i \in (q + 1)..p : InIndex(i)
         /\ start = 0 => InLeadingDigits(q, p, buf, d, start) /\ KeptUpto(p) = {}
         /\ start # 0 => /\ InLaterDigits(q, p, buf, d, start)
                         /\ KeptUpto(p) = KeptUpto(q - 1)
                         /\ start - 1 = Cardinality(KeptUpto(p)) /\ start - 1 \in Nat
                         /\ Holds(buf, name, KeptUpto(p), start - 1)
  <1>1. p \in Nat /\ q \in Nat /\ Len(name) \in Nat
    BY DEF NamedWell
  <1>2. \A i \in (q + 1)..p : InIndex(i)
    BY DigitsAreIndex DEF InDigits
  <1>3. CASE InLeadingDigits(q, p, buf, d, start)
    <2>1. KeptUpto(q) = {}
      BY <1>1, <1>3, NothingStays DEF InLeadingDigits
    <2>2. 1..p = 1..q \union (q + 1)..p
      BY <1>1
    <2>3. KeptUpto(p) = {}
      BY <1>2, <2>1, <2>2 DEF KeptUpto, Stays
    <2> QED
      BY <1>2, <1>3, <2>3 DEF InLeadingDigits
  <1>4. CASE InLaterDigits(q, p, buf, d, start)
    <2>1. 0 < q /\ q < p /\ name[q] = UNDERSCORE
      BY <1>1, <1>4 DEF InLaterDigits, InDigits, PartFrom
    <2>2. ~Stays(q)
      <3>1. q + 1 \in (q + 1)..p /\ q < Len(name)
        BY <1>1, <2>1
      <3> QED
        BY <1>2, <2>1, <3>1 DEF Stays
    <2>3. 1..p = 1..(q - 1) \union {q} \union (q + 1)..p
      BY <1>1, <2>1
    <2>4. KeptUpto(p) = KeptUpto(q - 1)
      BY <1>2, <2>2, <2>3 DEF KeptUpto, Stays
    <2> DEFINE K == KeptUpto(q - 1) \union q..p
    <2>5. K \in SUBSET (1..p) /\ KeptUpto(q - 1) \in SUBSET (1..p) /\ q - 1 \in Int
      BY <1>1, <2>1 DEF KeptUpto
    <2>6. KeptUpto(q - 1) = {i \in K : i <= q - 1}
      BY <1>1, <2>1 DEF KeptUpto
    <2>7. Holds(buf, name, KeptUpto(q - 1), Cardinality(KeptUpto(q - 1)))
      <3>1. Holds(buf, name, K, d)
        BY <1>4 DEF InLaterDigits
      <3> HIDE DEF K
      <3> QED
        BY <1>1, <2>5, <2>6, <3>1, HeldUpto
    <2>8. Cardinality(KeptUpto(q - 1)) \in Nat /\ start = Cardinality(KeptUpto(q - 1)) + 1
      BY <1>1, <1>4, <2>5, Ranks DEF InLaterDigits
    <2> QED
      BY <1>2, <1>4, <2>4, <2>7, <2>8
  <1> QED
    BY <1>3, <1>4 DEF InDigits

\* An index at the start of a name goes, and the underscore after it.
LEMMA LeadingIndexGoes ==
  ASSUME NamedWell, NEW p \in 0..(Len(name) - 1), NEW q \in 0..p, NEW d, NEW buf,
         InDigits(q, p, buf, d, 0), name[p + 1] = UNDERSCORE
  PROVE  InDigits(p + 1, p + 1, buf, 0, 0)
  <1>1. p \in Nat /\ q \in Nat /\ Len(name) \in Nat /\ p \in 0..Len(name)
    BY DEF NamedWell
  <1>2. (\A i \in (q + 1)..p : InIndex(i)) /\ ~SomethingStays(q)
    BY <1>1, IndexGoes DEF InLeadingDigits
  <1>3. ~SomethingStays(p + 1)
    <2>1. 1..(p + 1) = 1..q \union (q + 1)..p \union {p + 1}
      BY <1>1
    <2> QED
      BY <1>2, <2>1 DEF SomethingStays
  <1>4. ((p + 1) + 1)..(p + 1) = {}
    BY <1>1
  <1>5. Holds(buf, name, {}, 0)
    BY FS_EmptySet DEF Holds
  <1> QED
    BY <1>1, <1>3, <1>4, <1>5 DEF InDigits, InLeadingDigits, PartFrom

\* A later index goes, and the underscore before it.
LEMMA LaterIndexGoes ==
  ASSUME NamedWell, NEW p \in 0..(Len(name) - 1), NEW q \in 0..p, NEW d, NEW buf, NEW start,
         InDigits(q, p, buf, d, start), start # 0, name[p + 1] = UNDERSCORE, start - 1 \in DOMAIN buf
  PROVE  AtPart(p + 1, [buf EXCEPT ![start - 1] = name[p + 1]], (start - 1) + 1)
  <1>1. p \in Nat /\ q \in Nat /\ Len(name) \in Nat /\ p \in 0..Len(name) /\ KeptUpto(p) \in SUBSET (1..p)
    BY DEF NamedWell, KeptUpto
  <1>2. Holds(buf, name, KeptUpto(p), start - 1) /\ InLaterDigits(q, p, buf, d, start)
    BY <1>1, IndexGoes
  <1>3. Holds([buf EXCEPT ![start - 1] = name[p + 1]], name, KeptUpto(p) \union {p + 1}, (start - 1) + 1)
    BY <1>1, <1>2, HeldWithNext
  <1>4. SomethingStays(p + 1)
    <2>1. 1..q \subseteq 1..(p + 1)
      BY <1>1
    <2> QED
      BY <1>2, <2>1 DEF InLaterDigits, SomethingStays
  <1>5. (p + 1) - 1 = p /\ 1..(p + 1) \intersect {p + 1} = {p + 1}
    BY <1>1
  <1> QED
    BY <1>3, <1>4, <1>5 DEF AtPart

\* At the end of a name no part is to come.
LEMMA NoPartAtEnd ==
  ASSUME NamedWell, NEW d, NEW buf, AtPart(Len(name), buf, d)
  PROVE  FALSE
  <1>1. Len(name) > 0 /\ name[Len(name)] # UNDERSCORE
    BY DEF NamedWell, WellFormed
  <1> QED
    BY <1>1 DEF AtPart

\* A name that ends with an index loses it, and the terminator is written in its place.
LEMMA LastIndexGoes ==
  ASSUME NamedWell, NEW q \in 0..Len(name), NEW d, NEW buf, NEW start, NEW r,
         InDigits(q, Len(name), buf, d, start), r = IF start = 0 THEN 0 ELSE start - 1
  PROVE  Holds([buf EXCEPT ![r] = NUL], name, KeptUpto(Len(name)), r)
  <1> DEFINE K == KeptUpto(Len(name))
  <1>1. Len(name) \in Nat /\ Len(name) \in 0..Len(name) /\ K \in SUBSET (1..Len(name))
    BY DEF NamedWell, KeptUpto
  <1>2. Holds(buf, name, K, r)
    <2>1. CASE start = 0
      <3>1. K = {} /\ r = 0
        BY <1>1, <2>1, IndexGoes
      <3> QED
        BY <3>1, FS_EmptySet DEF Holds
    <2>2. CASE start # 0
      BY <1>1, <2>2, IndexGoes
    <2> QED
      BY <2>1, <2>2
  <1> QED
    BY <1>1, <1>2, HeldBefore

\* What the scan reads is the next character of the name, and the terminator at its end.
LEMMA Reading ==
  ASSUME IInv, state \in Scanning
  PROVE  /\ Len(name) \in Nat /\ name \in Seq(Chars) /\ nSrc \in 0..Len(name)
         /\ DOMAIN szField = 0..Len(name) /\ nDest \in 0..nSrc
         /\ nSrc = Len(name) => ch = NUL
         /\ nSrc # Len(name) => nSrc \in 0..(Len(name) - 1) /\ ch = name[nSrc + 1] /\ ch # NUL
  <1>1. Len(name) \in Nat /\ name \in Seq(Chars)
    BY StringTyping, NamesAssumption DEF IInv, TypeOK
  <1>2. nSrc \in 0..Len(name) /\ DOMAIN szField = 0..Len(name) /\ nDest \in 0..nSrc
    BY <1>1 DEF IInv, TypeOK, StaysInBuffer
  <1>3. ch = CString(name)[nSrc]
    <2>1. nSrc \in nSrc..Len(name)
      BY <1>2
    <2> QED
      BY <2>1 DEF IInv, UnreadIsIntact, ch
  <1>4. ch = IF nSrc < Len(name) THEN name[nSrc + 1] ELSE NUL
    BY <1>2, <1>3 DEF CString
  <1>5. NUL \notin Chars
    BY CharsAssumption DEF Chars, NUL, UNDERSCORE
  <1>6. nSrc # Len(name) => nSrc \in 0..(Len(name) - 1) /\ name[nSrc + 1] \in Chars
    BY <1>1, <1>2
  <1> QED
    BY <1>1, <1>2, <1>4, <1>5, <1>6

\* A step that keeps the name keeps what the scan has to do.
LEMMA ScanCarried ==
  ASSUME name' = name, WellFormed => ScanAt(state', nSrc', szField', nDest', nIndexStart')
  PROVE  ScanInv'
  <1>1. WellFormed' <=> WellFormed
    BY DEF WellFormed
  <1>2. ScanAt(state, nSrc, szField, nDest, nIndexStart)'
          <=> ScanAt(state', nSrc', szField', nDest', nIndexStart')
    BY DEF ScanAt, AtPart, InPart, InDigits, InLeadingDigits, InLaterDigits, PartFrom, Holds,
           KeptUpto, SomethingStays, Stays, InIndex
  <1> QED
    BY <1>1, <1>2 DEF ScanInv

\* Every step of the scan goes on from where it stands.
LEMMA ScanStep == IInv /\ ScanInv /\ [Next]_vars => ScanInv'
  <1> SUFFICES ASSUME IInv, ScanInv, [Next]_vars PROVE ScanInv'
    OBVIOUS
  <1>0. name' = name
    BY DEF Next, vars, PassOver, FieldTooLong, CopyField, Lookup, LogValue, MaskThrows, RemoveIndices,
           AtBoundary, InNonIndex, InPossibleIndex, LeadingIndex, EndOfIndex, Loop, arguments
  <1> SUFFICES ASSUME WellFormed
               PROVE  ScanAt(state', nSrc', szField', nDest', nIndexStart')
    BY <1>0, ScanCarried
  <1>a. NamedWell
    BY StringTyping, NamesAssumption DEF IInv, TypeOK, NamedWell
  <1>b. state \in Scanning /\ nSrc # Len(name) =>
          /\ nSrc \in 0..(Len(name) - 1) /\ nDest \in DOMAIN szField
          /\ ch = name[nSrc + 1] /\ ch # NUL
    <2> SUFFICES ASSUME state \in Scanning, nSrc # Len(name)
                 PROVE  /\ nSrc \in 0..(Len(name) - 1) /\ nDest \in DOMAIN szField
                        /\ ch = name[nSrc + 1] /\ ch # NUL
      OBVIOUS
    <2>1. nDest \in 0..nSrc /\ nSrc \in 0..(Len(name) - 1) /\ DOMAIN szField = 0..Len(name)
          /\ Len(name) \in Nat
      BY Reading
    <2> QED
      BY <2>1, Reading
  <1>c. state \in Scanning /\ nSrc = Len(name) => ch = NUL
    BY Reading
  <1>d. NUL \notin Digits /\ UNDERSCORE \notin Digits /\ NUL # UNDERSCORE
    BY CharsAssumption DEF NUL, UNDERSCORE
  <1>e. ScanAt(state, nSrc, szField, nDest, nIndexStart)
    BY DEF ScanInv
  <1>1. CASE AtBoundary
    <2>1. state = "Boundary" /\ state \in Scanning /\ AtPart(nSrc, szField, nDest)
      BY <1>1, <1>e DEF AtBoundary, ScanAt, Scanning
    <2>2. nSrc # Len(name)
      BY <1>a, <2>1, NoPartAtEnd
    <2>3. /\ nSrc' = nSrc + 1 /\ nDest' = nDest + 1 /\ szField' = [szField EXCEPT ![nDest] = name[nSrc + 1]]
          /\ nIndexStart' = IF fDigit THEN nDest ELSE nIndexStart
          /\ state' = IF fDigit THEN "PossibleIndex" ELSE "NonIndex"
      BY <1>1, <1>b, <2>1, <2>2 DEF AtBoundary, Loop, Copy, After
    <2>4. nSrc \in 0..(nSrc + 1)
      BY <1>b, <2>1, <2>2
    <2>5. CASE fDigit
      <3>1. InDigits(nSrc, nSrc + 1, szField', nDest', nIndexStart')
        BY <1>a, <1>b, <2>1, <2>2, <2>3, <2>5, DigitsBegin DEF fDigit
      <3> QED
        BY <2>3, <2>4, <2>5, <3>1 DEF ScanAt
    <2>6. CASE ~fDigit
      <3>1. InPart(nSrc, nSrc + 1, szField', nDest')
        BY <1>a, <1>b, <2>1, <2>2, <2>3, <2>6, PartBegins DEF fDigit
      <3> QED
        BY <2>3, <2>4, <2>6, <3>1 DEF ScanAt
    <2> QED
      BY <2>5, <2>6
  <1>2. CASE InNonIndex
    <2>1. state = "NonIndex" /\ state \in Scanning
      BY <1>2 DEF InNonIndex, Scanning
    <2>2. PICK q \in 0..nSrc : InPart(q, nSrc, szField, nDest)
      BY <1>e, <2>1 DEF ScanAt
    <2>3. /\ nSrc' = nSrc + 1 /\ nDest' = nDest + 1 /\ szField' = [szField EXCEPT ![nDest] = ch]
          /\ state' = IF ch = NUL THEN "Done" ELSE IF ch = UNDERSCORE THEN "Boundary" ELSE "NonIndex"
      BY <1>2 DEF InNonIndex, Loop, Copy, After
    <2>4. CASE nSrc = Len(name)
      <3>1. Len(name) \in Nat /\ KeptUpto(Len(name)) \in SUBSET (1..Len(name))
        BY <1>a DEF NamedWell, KeptUpto
      <3>2. Holds(szField', name, KeptUpto(Len(name)), nDest)
        BY <2>2, <2>3, <2>4, <3>1, HeldBefore DEF InPart
      <3>3. nDest' - 1 = nDest
        BY <2>1, <2>3, Reading
      <3> QED
        BY <1>c, <2>1, <2>3, <2>4, <3>2, <3>3 DEF ScanAt
    <2>5. CASE nSrc # Len(name) /\ ch = UNDERSCORE
      <3>1. AtPart(nSrc + 1, szField', nDest')
        BY <1>a, <1>b, <2>1, <2>2, <2>3, <2>5, PartEnds
      <3> QED
        BY <1>b, <2>1, <2>3, <2>5, <3>1 DEF ScanAt
    <2>6. CASE nSrc # Len(name) /\ ch # UNDERSCORE
      <3>1. InPart(q, nSrc + 1, szField', nDest')
        BY <1>a, <1>b, <2>1, <2>2, <2>3, <2>6, PartGoesOn
      <3>2. q \in 0..(nSrc + 1)
        BY <1>b, <2>1, <2>6
      <3> QED
        BY <1>b, <2>1, <2>3, <2>6, <3>1, <3>2 DEF ScanAt
    <2> QED
      BY <2>4, <2>5, <2>6
  <1>3. CASE InPossibleIndex
    <2>1. state = "PossibleIndex" /\ state \in Scanning /\ ch \notin {UNDERSCORE, NUL}
      BY <1>3 DEF InPossibleIndex, Scanning
    <2>2. PICK q \in 0..nSrc : InDigits(q, nSrc, szField, nDest, nIndexStart)
      BY <1>e, <2>1 DEF ScanAt
    <2>3. nSrc # Len(name)
      BY <1>c, <2>1
    <2>4. /\ nSrc' = nSrc + 1 /\ nDest' = nDest + 1 /\ szField' = [szField EXCEPT ![nDest] = name[nSrc + 1]]
          /\ nIndexStart' = nIndexStart
          /\ state' = IF fDigit THEN "PossibleIndex" ELSE "NonIndex"
      BY <1>3, <1>b, <2>1, <2>3 DEF InPossibleIndex, Loop, Copy, After
    <2>5. q \in 0..(nSrc + 1)
      BY <1>b, <2>1, <2>3
    <2>6. CASE fDigit
      <3>1. InDigits(q, nSrc + 1, szField', nDest', nIndexStart')
        BY <1>a, <1>b, <2>1, <2>2, <2>3, <2>4, <2>6, DigitsGoOn DEF fDigit
      <3> QED
        BY <2>4, <2>5, <2>6, <3>1 DEF ScanAt
    <2>7. CASE ~fDigit
      <3>1. InPart(q, nSrc + 1, szField', nDest')
        BY <1>a, <1>b, <2>1, <2>2, <2>3, <2>4, <2>7, DigitsWereNoIndex DEF fDigit
      <3> QED
        BY <2>4, <2>5, <2>7, <3>1 DEF ScanAt
    <2> QED
      BY <2>6, <2>7
  <1>4. CASE LeadingIndex
    <2>1. /\ state = "PossibleIndex" /\ state \in Scanning /\ ch = UNDERSCORE /\ nIndexStart = 0
          /\ nDest' = 0 /\ nSrc' = nSrc + 1 /\ szField' = szField /\ state' = state
          /\ nIndexStart' = nIndexStart
      BY <1>4 DEF LeadingIndex, Rewind, Loop, Scanning
    <2>2. PICK q \in 0..nSrc : InDigits(q, nSrc, szField, nDest, nIndexStart)
      BY <1>e, <2>1 DEF ScanAt
    <2>3. nSrc # Len(name)
      BY <1>c, <1>d, <2>1
    <2>4. InDigits(nSrc + 1, nSrc + 1, szField, 0, 0)
      BY <1>a, <1>b, <2>1, <2>2, <2>3, LeadingIndexGoes
    <2>5. nSrc + 1 \in 0..(nSrc + 1)
      BY <1>b, <2>1, <2>3
    <2> QED
      BY <2>1, <2>4, <2>5 DEF ScanAt
  <1>5. CASE EndOfIndex
    <2>1. /\ state = "PossibleIndex" /\ state \in Scanning
          /\ nSrc' = nSrc + 1 /\ nDest' = Rewind + 1 /\ szField' = [szField EXCEPT ![Rewind] = ch]
          /\ state' = IF ch = NUL THEN "Done" ELSE "Boundary"
          /\ ch \in {UNDERSCORE, NUL} /\ (ch = UNDERSCORE => nIndexStart # 0)
      BY <1>5 DEF EndOfIndex, Loop, Copy, After, Scanning
    <2>2. PICK q \in 0..nSrc : InDigits(q, nSrc, szField, nDest, nIndexStart)
      BY <1>e, <2>1 DEF ScanAt
    <2>3. nIndexStart \in Nat /\ nIndexStart <= Len(name) /\ Len(name) \in Nat
      BY <1>a DEF NamedWell, IInv, TypeOK
    <2>4. CASE nSrc = Len(name)
      <3>1. Holds(szField', name, KeptUpto(Len(name)), Rewind)
        BY <1>a, <1>c, <2>1, <2>2, <2>4, LastIndexGoes DEF Rewind
      <3>2. nDest' - 1 = Rewind
        BY <2>1, <2>3 DEF Rewind
      <3> QED
        BY <1>c, <2>1, <2>4, <3>1, <3>2 DEF ScanAt
    <2>5. CASE nSrc # Len(name)
      <3>1. ch = UNDERSCORE /\ name[nSrc + 1] = UNDERSCORE /\ nIndexStart # 0
        BY <1>b, <2>1, <2>5
      <3>2. Rewind = nIndexStart - 1 /\ nIndexStart - 1 \in DOMAIN szField
        BY <2>1, <2>3, <3>1, Reading DEF Rewind
      <3>3. AtPart(nSrc + 1, [szField EXCEPT ![nIndexStart - 1] = name[nSrc + 1]], (nIndexStart - 1) + 1)
        BY <1>a, <1>b, <2>1, <2>2, <2>5, <3>1, <3>2, LaterIndexGoes
      <3>4. AtPart(nSrc', szField', nDest')
        BY <2>1, <3>1, <3>2, <3>3
      <3> QED
        BY <1>d, <2>1, <3>1, <3>4 DEF ScanAt
    <2> QED
      BY <2>4, <2>5
  <1>6. CASE CopyField
    <2>1. state' = "Boundary" /\ nSrc' = 0 /\ nDest' = 0
      BY <1>6 DEF CopyField, IInv, IndexIsBehind
    <2>2. KeptUpto(0 - 1) \union (1..0 \intersect {0}) = {}
      BY DEF KeptUpto
    <2>3. AtPart(0, szField', 0)
      BY <2>2, FS_EmptySet DEF AtPart, Holds
    <2> QED
      BY <2>1, <2>3 DEF ScanAt
  <1>7. CASE UNCHANGED vars
    BY <1>e, <1>7 DEF vars
  <1>8. CASE PassOver \/ FieldTooLong \/ Lookup \/ LogValue \/ MaskThrows
    BY <1>8 DEF PassOver, FieldTooLong, Lookup, LogValue, MaskThrows, ScanAt
  <1> QED
    BY <1>1, <1>2, <1>3, <1>4, <1>5, <1>6, <1>7, <1>8 DEF Next, RemoveIndices

\* What RemoveIndices leaves of a name of the service is the name without its indices,
\* whatever its length and however many it has.
THEOREM Indices == Spec => []IndicesAreRemoved
  <1>1. Init => ScanInv
    BY DEF Init, ScanInv, ScanAt
  <1>2. IInv /\ ScanInv => IndicesAreRemoved
    <2> SUFFICES ASSUME IInv, ScanInv, state = "Done", WellFormed PROVE Stripped = WithoutIndices
      BY DEF IndicesAreRemoved
    <2>1. Len(name) \in Nat /\ Holds(szField, name, KeptUpto(Len(name)), nDest - 1)
      BY StringTyping DEF ScanInv, ScanAt, IInv, TypeOK
    <2> QED
      BY <2>1, HeldAtEnd DEF Stripped
  <1> QED
    BY <1>1, <1>2, ScanStep, Invariance, PTL DEF Spec

\* IsSafe answers for the name without its indices, and what it finds is logged in clear.
AnswerInv ==
  state \in {"Answered", "Logged"} /\ WellFormed /\ Len(name) <= MAX_FIELD_LENGTH =>
    /\ safe = IsSafe(Parts(WithoutIndices))
    /\ state = "Logged" /\ safe => shown = 1..length

\* Only Lookup answers for a name that fits the buffer, and nothing changes the answer.
LEMMA AnswerStep == TypeOK /\ IndicesAreRemoved /\ AnswerInv /\ [Next]_vars => AnswerInv'
  <1> SUFFICES ASSUME TypeOK, IndicesAreRemoved, AnswerInv, [Next]_vars PROVE AnswerInv'
    OBVIOUS
  <1>0. name' = name /\ eType' = eType
    BY DEF Next, vars, PassOver, FieldTooLong, CopyField, Lookup, LogValue, MaskThrows, RemoveIndices,
           AtBoundary, InNonIndex, InPossibleIndex, LeadingIndex, EndOfIndex, Loop, arguments
  <1>1. (WellFormed' <=> WellFormed) /\ IsSafe(Parts(WithoutIndices))' = IsSafe(Parts(WithoutIndices))
    <2>1. WellFormed' <=> WellFormed
      BY <1>0 DEF WellFormed
    <2>2. WithoutIndices' = WithoutIndices
      BY <1>0 DEF WithoutIndices, Rank, Stays, InIndex
    <2>3. Parts(WithoutIndices)' = Parts(WithoutIndices)
      BY <1>0, <2>2 DEF Parts
    <2> QED
      BY <2>1, <2>3 DEF IsSafe, strstr, FoundAt
  <1>2. CASE Lookup
    <2>1. WellFormed => safe' = IsSafe(Parts(WithoutIndices))
      BY <1>2 DEF Lookup, IndicesAreRemoved
    <2>2. state' = "Answered"
      BY <1>2 DEF Lookup
    <2> QED
      BY <1>1, <2>1, <2>2 DEF AnswerInv
  <1>3. CASE LogValue
    <2>1. state = "Answered" /\ safe' = safe /\ (safe => shown' = 1..length')
      BY <1>3 DEF LogValue
    <2> QED
      BY <1>0, <1>1, <2>1 DEF AnswerInv
  <1>4. CASE FieldTooLong
    <2>1. Len(name) \in Nat /\ MAX_FIELD_LENGTH \in Nat
      BY StringTyping, NamesAssumption DEF TypeOK
    <2>2. ~(Len(name') <= MAX_FIELD_LENGTH)
      BY <1>0, <1>4, <2>1 DEF FieldTooLong
    <2> QED
      BY <2>2 DEF AnswerInv
  <1>5. CASE UNCHANGED vars
    BY <1>0, <1>1, <1>5 DEF vars, AnswerInv
  <1>6. CASE Next /\ ~Lookup /\ ~LogValue /\ ~FieldTooLong
    <2>1. state' \notin {"Answered", "Logged"}
      BY <1>6 DEF Next, PassOver, CopyField, MaskThrows, RemoveIndices,
                  AtBoundary, InNonIndex, InPossibleIndex, LeadingIndex, EndOfIndex, Copy, After
    <2> QED
      BY <2>1 DEF AnswerInv
  <1> QED
    BY <1>2, <1>3, <1>4, <1>5, <1>6

\* A field that is on the list, with whatever indices in its name, is logged in clear.
THEOREM Listed == Spec => []ListedIsShown
  <1>1. Init => AnswerInv
    BY DEF Init, AnswerInv
  <1>2. ASSUME NEW part, OnTheList(part) PROVE IsSafe(part)
    BY <1>2 DEF OnTheList, IsSafe, strstr
  <1>3. AnswerInv => ListedIsShown
    <2> SUFFICES ASSUME AnswerInv, state = "Logged", WellFormed, Len(name) <= MAX_FIELD_LENGTH,
                        OnTheList(Parts(WithoutIndices))
                 PROVE  shown = 1..length
      BY DEF ListedIsShown
    <2>1. IsSafe(Parts(WithoutIndices)) /\ IsSafe(Parts(WithoutIndices)) \in BOOLEAN
      BY <1>2 DEF IsSafe
    <2> QED
      BY <2>1 DEF AnswerInv
  <1> QED
    BY <1>1, <1>3, AnswerStep, Indices, Typing, PTL DEF Spec
=================================================================================
