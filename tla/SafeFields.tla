------------------------------- MODULE SafeFields -------------------------------
(***************************************************************************)
(* What becomes of one field of a message in the log.  cybs_log_NVP and    *)
(* read_doc, which walks through an XML message, ask SafeFields::IsSafe.   *)
(* It strips the indices off the name in place and looks the rest up in a  *)
(* list of names that may be logged; the value of any other field is       *)
(* masked.                                                                 *)
(*                                                                         *)
(* A name is the sequence of its characters, of which letters stand for    *)
(* all that are neither digits nor underscores.  A value is its length,    *)
(* and what is logged of it the set of positions left readable.            *)
(***************************************************************************)
EXTENDS Integers, Sequences, FiniteSets

CONSTANTS Letters, Digits,
          Names,                         \* names of the fields that are logged
          SafeList,                      \* the list of each parent, words parted by spaces
          REQUEST_MESSAGE, REPLY_MESSAGE, \* the parents of names that have none
          TRACK_DATA,                    \* the name of a field that is masked altogether
          MAX_FIELD_LENGTH,
          Lengths                        \* lengths of values

UNDERSCORE == "_"
NUL == ""
Chars == Letters \union Digits \union {UNDERSCORE}

ASSUME CharsAssumption == {UNDERSCORE, NUL, " "} \intersect (Letters \union Digits) = {}
ASSUME NamesAssumption == /\ Names \subseteq Seq(Chars)
                          /\ MAX_FIELD_LENGTH \in Nat /\ Lengths \subseteq Nat

VARIABLES form,                          \* of the message
          name, eType,                   \* the arguments of IsSafe
          szField, nSrc, nDest,          \* RemoveIndices: array, read and write position
          nIndexStart, state,
          safe,                          \* the answer of IsSafe
          length, shown                  \* the value, and what is logged of it

arguments == <<form, name, eType>>
value == <<length, shown>>
vars == <<form, name, eType, szField, nSrc, nDest, nIndexStart, state, safe, length, shown>>

Scanning == {"Boundary", "NonIndex", "PossibleIndex"}

\* A name as a C string.
CString(s) == [i \in 0..Len(s) |-> IF i < Len(s) THEN s[i + 1] ELSE NUL]

Init ==
  /\ form \in {"NVP", "XML"}
  /\ name \in Names /\ eType \in {"Request", "Reply"}
  /\ szField = [i \in 0..Len(name) |-> NUL]
  /\ nSrc = 0 /\ nDest = 0 /\ nIndexStart = 0
  /\ state = "Start"
  /\ safe = FALSE
  /\ length = 0 /\ shown = {}

\* read_doc: a text that begins with white space is not looked at, and stays as it is.
PassOver ==
  /\ state = "Start" /\ form = "XML"
  /\ length' \in Lengths \ {0} /\ shown' = 1..length'
  /\ state' = "PassedOver"
  /\ UNCHANGED <<arguments, szField, nSrc, nDest, nIndexStart, safe>>

\* A name that does not fit the buffer is not safe.
FieldTooLong ==
  /\ state = "Start" /\ Len(name) > MAX_FIELD_LENGTH
  /\ safe' = FALSE
  /\ state' = "Answered"
  /\ UNCHANGED <<arguments, szField, nSrc, nDest, nIndexStart, value>>

CopyField ==
  /\ state = "Start" /\ Len(name) <= MAX_FIELD_LENGTH
  /\ szField' = CString(name)
  /\ state' = "Boundary"
  /\ UNCHANGED <<arguments, nSrc, nDest, nIndexStart, safe, value>>

------------------------------ (* RemoveIndices *) ------------------------------
ch == szField[nSrc]
fDigit == ch \in Digits

AfterUnlessIndex(next) == IF ch = NUL /\ state # "PossibleIndex" THEN "Done" ELSE next  \* mutant
After(next) == IF ch = NUL THEN "Done" ELSE next

\* szField[nDest++] = ch, and the end of the loop's body.
Copy(dest, next) ==
  /\ szField' = [szField EXCEPT ![dest] = ch]
  /\ nDest' = dest + 1
  /\ state' = After(next)

\* The loop's ++nSrc.
Loop == nSrc' = nSrc + 1 /\ UNCHANGED <<arguments, safe, value>>

AtBoundary ==
  /\ state = "Boundary"
  /\ nIndexStart' = IF fDigit THEN nDest ELSE nIndexStart
  /\ Copy(nDest, IF fDigit THEN "PossibleIndex" ELSE "NonIndex")
  /\ Loop

InNonIndex ==
  /\ state = "NonIndex"
  /\ Copy(nDest, IF ch = UNDERSCORE THEN "Boundary" ELSE "NonIndex")
  /\ Loop /\ nIndexStart' = nIndexStart

InPossibleIndex ==
  /\ state = "PossibleIndex" /\ ch \notin {UNDERSCORE, NUL}
  /\ Copy(nDest, IF fDigit THEN "PossibleIndex" ELSE "NonIndex")
  /\ Loop /\ nIndexStart' = nIndexStart

RewindToIndex == nIndexStart                                            \* mutant
RewindBeforeStart == nIndexStart - 1                                    \* mutant

\* Where an index is cut off: with the underscore before it, unless there is none.
Rewind == IF nIndexStart = 0 THEN 0 ELSE nIndexStart - 1

LeadingIndexAgain ==                                                    \* mutant
  /\ state = "PossibleIndex" /\ ch = UNDERSCORE /\ nIndexStart = 0
  /\ nDest' = Rewind
  /\ UNCHANGED <<arguments, safe, value, szField, state, nIndexStart, nSrc>>

\* The continue: the underscore after an index at the start goes with it.
LeadingIndex ==
  /\ state = "PossibleIndex" /\ ch = UNDERSCORE /\ nIndexStart = 0
  /\ nDest' = Rewind
  /\ Loop /\ UNCHANGED <<szField, state, nIndexStart>>

EndOfIndex ==
  /\ state = "PossibleIndex"
  /\ ch = UNDERSCORE => nIndexStart # 0
  /\ ch \in {UNDERSCORE, NUL}
  /\ Copy(Rewind, "Boundary")
  /\ Loop /\ nIndexStart' = nIndexStart

RemoveIndices == AtBoundary \/ InNonIndex \/ InPossibleIndex \/ LeadingIndex \/ EndOfIndex

---------------------------------- (* IsSafe *) ---------------------------------
\* word is found in list right after its first i characters.
FoundAt(list, word, i) == /\ i + Len(word) <= Len(list)
                          /\ \A j \in DOMAIN word : list[i + j] = word[j]

strstr(list, word) == \E i \in 0..Len(list) : FoundAt(list, word, i)

\* The name that RemoveIndices leaves, split at its first underscore.
Stripped == [i \in 1..(nDest - 1) |-> szField[i - 1]]
Parts(s) ==
  IF UNDERSCORE \notin {s[i] : i \in DOMAIN s}
  THEN [parent |-> IF eType = "Request" THEN REQUEST_MESSAGE ELSE REPLY_MESSAGE, child |-> s]
  ELSE LET u == CHOOSE u \in DOMAIN s : s[u] = UNDERSCORE /\ \A i \in 1..(u - 1) : s[i] # UNDERSCORE
       IN  [parent |-> SubSeq(s, 1, u - 1), child |-> SubSeq(s, u + 1, Len(s))]

WholeListIs(part) ==                                                    \* mutant
  part.parent \in DOMAIN SafeList /\ SafeList[part.parent] = part.child

IsSafe(part) == part.parent \in DOMAIN SafeList /\ strstr(SafeList[part.parent], part.child)

Lookup ==
  /\ state = "Done"
  /\ safe' = IsSafe(Parts(Stripped))
  /\ state' = "Answered"
  /\ UNCHANGED <<arguments, szField, nSrc, nDest, nIndexStart, value>>

----------------------------- (* cybs_mask_in_place *) --------------------------
EndsFrom(n) == IF n <= 9 THEN 0 ELSE IF n <= 14 THEN 2 ELSE 4           \* mutant

\* How many characters at either end of a value stay readable.
Ends(n) == IF n <= 9 THEN 0 ELSE IF n <= 15 THEN 2 ELSE 4

\* Of a wide string the whole name is compared, of a narrow one any part.
IsTrackData == IF form = "NVP" THEN name = TRACK_DATA ELSE strstr(name, TRACK_DATA)

Readable(n) == IF IsTrackData THEN {} ELSE 1..Ends(n) \union (n - Ends(n) + 1)..n

\* The value is logged, masked unless the field is safe; no text is empty.
LogValue ==
  /\ state = "Answered"
  /\ length' \in IF safe /\ form = "NVP" THEN Lengths ELSE Lengths \ {0}
  /\ shown' = IF safe THEN 1..length' ELSE Readable(length')
  /\ state' = "Logged"
  /\ UNCHANGED <<arguments, szField, nSrc, nDest, nIndexStart, safe>>

\* mask of a wide string throws on an empty one.
MaskThrows ==
  /\ state = "Answered" /\ ~safe /\ form = "NVP" /\ 0 \in Lengths
  /\ state' = "Thrown"
  /\ UNCHANGED <<arguments, szField, nSrc, nDest, nIndexStart, safe, value>>

Next == \/ PassOver \/ FieldTooLong \/ CopyField \/ RemoveIndices
        \/ Lookup \/ LogValue \/ MaskThrows

\* The code is sequential: it runs until it returns or throws.
Spec == Init /\ [][Next]_vars /\ WF_vars(Next)
--------------------------------------------------------------------------------
TypeOK ==
  /\ form \in {"NVP", "XML"}
  /\ name \in Names /\ eType \in {"Request", "Reply"}
  /\ szField \in [0..Len(name) -> Chars \union {NUL}]
  /\ nSrc \in 0..(Len(name) + 1) /\ nDest \in 0..(Len(name) + 1)
  /\ nIndexStart \in 0..Len(name)
  /\ state \in Scanning \union {"Start", "Done", "Answered", "Logged", "PassedOver", "Thrown"}
  /\ safe \in BOOLEAN
  /\ length \in Nat /\ shown \subseteq Nat

\* RemoveIndices works in place and looks for no length: still it never writes ahead of
\* what it reads, and never reads beyond the end of the string, whatever the name.
StaysInBuffer == state \in Scanning => nDest <= nSrc /\ nSrc <= Len(name)

\* The comment: "removes indices, e.g. item_0_unitPrice becomes item_unitPrice"
\* (safefields.cpp:271).  An index is a part of the name that consists of digits; the
\* underscore before it goes too, or the one after it when all before it are indices.
InIndex(i) ==
  \E a \in 1..i, b \in i..Len(name) :
    /\ \A j \in a..b : name[j] \in Digits
    /\ a = 1 \/ name[a - 1] = UNDERSCORE
    /\ b = Len(name) \/ name[b + 1] = UNDERSCORE
Stays(i) ==
  /\ ~InIndex(i)
  /\ name[i] = UNDERSCORE => /\ i < Len(name) => ~InIndex(i + 1)
                             /\ \E j \in 1..(i - 1) : name[j] # UNDERSCORE /\ ~InIndex(j)
\* The characters that stay, in their order: the k-th is the one that Rank gives k.
Rank(i) == Cardinality({j \in 1..i : Stays(j)})
WithoutIndices == [k \in 1..Rank(Len(name)) |->
                     name[CHOOSE i \in 1..Len(name) : Stays(i) /\ Rank(i) = k]]

\* No part of the name is empty, as the service names its fields.
WellFormed == /\ name # << >> /\ name[1] # UNDERSCORE /\ name[Len(name)] # UNDERSCORE
              /\ \A i \in 1..(Len(name) - 1) : name[i] = UNDERSCORE => name[i + 1] # UNDERSCORE

IndicesAreRemoved == state = "Done" /\ WellFormed => Stripped = WithoutIndices

\* A word of the list, as opposed to a part of one.
OnTheList(part) ==
  /\ part.parent \in DOMAIN SafeList /\ part.child # << >>
  /\ LET list == SafeList[part.parent]
     IN  \E i \in 0..Len(list) :
           /\ FoundAt(list, part.child, i)
           /\ i = 0 \/ list[i] = " "
           /\ i + Len(part.child) = Len(list) \/ list[i + Len(part.child) + 1] = " "

\* A field that is on the list, with whatever indices, is logged in clear.
ListedIsShown ==
  state = "Logged" /\ WellFormed /\ Len(name) <= MAX_FIELD_LENGTH =>
    (OnTheList(Parts(WithoutIndices)) => shown = 1..length)

\* A field that IsSafe has refused shows half of its value at most, and nothing if its name
\* is that of track data and no more, in either form of message.  (Of a longer name that
\* holds it, as pos_trackData does, a map's value is masked as any other.)
UnsafeIsMasked ==
  state = "Logged" /\ ~safe => /\ 2 * Cardinality(shown) <= length
                               /\ name = TRACK_DATA => shown = {}

\* Every name is dealt with: the scan comes to the terminator.
FieldIsDealtWith == <>(state \in {"Logged", "PassedOver", "Thrown"})

\* The comment in IsSafe: "return whether or not this child is on the list"
\* (safefields.cpp:267).
SafeIsListed == state = "Answered" /\ WellFormed /\ safe => OnTheList(Parts(Stripped))
================================================================================
