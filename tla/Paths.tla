--------------------------------- MODULE Paths ---------------------------------
(***************************************************************************)
(* getKeyFilePath of NVPClient.cpp and XMLClient.cpp, which builds every   *)
(* path of a call in one buffer, szDest: that of the log, that of the      *)
(* certificates of the authorities and that of the key.                    *)
(***************************************************************************)
EXTENDS Texts, Integers

CONSTANT CYBS_MAX_PATH          \* cells of szDest, and the longest path

ASSUME PathAssumption == CYBS_MAX_PATH \in Nat \ {0}

DIR_SEPARATOR == "/"
NUL == "NUL"

\* A buffer, and the string in it: the whole of a buffer without a terminator.
Buffers(chars) == [1..CYBS_MAX_PATH -> chars]
CString(buf) ==
  LET end == CHOOSE n \in 0..Len(buf) :
               /\ \A i \in 1..n : buf[i] # NUL
               /\ n < Len(buf) => buf[n + 1] = NUL
  IN  SubSeq(buf, 1, end)

\* buf after t was copied to its start; t has room, or the call Overruns.
Copied(buf, t) == [i \in DOMAIN buf |-> IF i <= Len(t) THEN t[i] ELSE buf[i]]

\* fAddSeparator.  For an empty directory the code looks at the character before it.
AddSeparator(dir) == IF dir = << >> THEN BOOLEAN ELSE {Last(dir) # DIR_SEPARATOR}

Width(add) == IF add THEN 1 ELSE 0

\* The path is not too long.  ext is counted, though nobody appends it here.
Fits(dir, add, file, ext) == Len(dir) + Width(add) + Len(file) + Len(ext) <= CYBS_MAX_PATH

CopyUnterminated(buf, dir, add) ==                                      \* mutant
  Copied(buf, dir \o (IF add THEN <<DIR_SEPARATOR>> ELSE << >>))

\* The directory; only a separator that is added is followed by a terminator.
CopyDir(buf, dir, add) == Copied(buf, dir \o (IF add THEN <<DIR_SEPARATOR, NUL>> ELSE << >>))

\* The path or its terminator is written behind the buffer: it is longer than its parts
\* when it follows a string that was left there, and the limit leaves no cell for the end.
Overruns(buf, dir, add, file) == Len(CString(CopyDir(buf, dir, add))) + Len(file) >= CYBS_MAX_PATH

\* szDest after getKeyFilePath: the file follows whatever string now starts the buffer.
getKeyFilePath(buf, dir, add, file) ==
  LET start == CopyDir(buf, dir, add)
  IN  Copied(start, CString(start) \o file \o <<NUL>>)

--------------------------------------------------------------------------------
\* The path that a reader of the README expects.
Path(dir, file) == dir \o (IF Last(dir) = DIR_SEPARATOR THEN << >> ELSE <<DIR_SEPARATOR>>) \o file
================================================================================
