------------------------------- MODULE TextProofs ------------------------------
(***************************************************************************)
(* For all texts: what their pieces are, what a map becomes on its way     *)
(* through lines of text, what is read from an answer, and what            *)
(* getKeyFilePath leaves in the buffer.                                    *)
(***************************************************************************)
EXTENDS Paths, NvpCodec, FoldLemmas, FiniteSetTheorems

--------------------------------- (* characters *) -----------------------------
\* Two texts with the same characters are the same.
LEMMA SameText ==
  ASSUME NEW S, NEW s \in Seq(S), NEW t \in Seq(S), Len(s) = Len(t), \A i \in 1..Len(s) : s[i] = t[i]
  PROVE  s = t
  <1>1. s = [i \in 1..Len(s) |-> s[i]] /\ t = [i \in 1..Len(t) |-> t[i]]
    OBVIOUS
  <1> QED
    BY <1>1

\* A character is found at a place of the text, or at 0.
LEMMA FirstTyping ==
  ASSUME NEW S, NEW t \in Seq(S), NEW c
  PROVE  First(c, t) \in 0..Len(t)
  <1> DEFINE I == {i \in 1..Len(t) : t[i] = c}
  <1>1. First(c, t) = IF I # {} THEN Min(I) ELSE 0
    BY DEF First, SelectInSeq
  <1>2. I \in SUBSET (0..Len(t)) /\ Len(t) \in Nat
    OBVIOUS
  <1>3. I # {} => Min(I) \in I
    <2> HIDE DEF I
    <2> QED
      BY <1>2, Extremes
  <1> QED
    BY <1>1, <1>2, <1>3

\* What is before and after it is a text.
LEMMA SidesTyping ==
  ASSUME NEW S, NEW t \in Seq(S), NEW c
  PROVE  Before(c, t) \in Seq(S) /\ After(c, t) \in Seq(S)
  <1>1. First(c, t) \in 0..Len(t) /\ Len(t) \in Nat
    BY FirstTyping
  <1> QED
    BY <1>1 DEF Before, After

\* The first is the one that none is before.
LEMMA FirstIs ==
  ASSUME NEW S, NEW t \in Seq(S), NEW c, NEW i \in 1..Len(t),
         t[i] = c, \A j \in 1..(i - 1) : t[j] # c
  PROVE  First(c, t) = i
  <1> DEFINE I == {j \in 1..Len(t) : t[j] = c}
  <1>1. First(c, t) = IF I # {} THEN Min(I) ELSE 0
    BY DEF First, SelectInSeq
  <1>2. Len(t) \in Nat /\ I \in SUBSET (0..Len(t)) /\ i \in I /\ \A j \in I : i <= j
    OBVIOUS
  <1>3. Min(I) = i
    <2> HIDE DEF I
    <2> QED
      BY <1>2, MinIs
  <1> QED
    BY <1>1, <1>2, <1>3

\* The two sides of the "=" in a line whose name has none.
LEMMA SidesAre ==
  ASSUME NEW S, NEW k \in Seq(S), NEW v \in Seq(S), NEW c \in S, ~Contains(k, c),
         NEW l \in Seq(S), Len(l) = Len(k) + 1 + Len(v),
         \A i \in 1..Len(k) : l[i] = k[i],
         l[Len(k) + 1] = c,
         \A i \in 1..Len(v) : l[Len(k) + 1 + i] = v[i]
  PROVE  First(c, l) # 0 /\ Before(c, l) = k /\ After(c, l) = v
  <1>1. Len(k) \in Nat /\ Len(v) \in Nat
    OBVIOUS
  <1>2. \A i \in 1..Len(k) : l[i] # c
    BY DEF Contains
  <1>3. First(c, l) = Len(k) + 1
    <2>1. Len(k) + 1 \in 1..Len(l) /\ (Len(k) + 1) - 1 = Len(k)
      BY <1>1
    <2> QED
      BY <1>2, <2>1, FirstIs
  <1>4. Before(c, l) = k
    <2>1. Before(c, l) = SubSeq(l, 1, Len(k))
      BY <1>1, <1>3 DEF Before
    <2>2. SubSeq(l, 1, Len(k)) = [i \in 1..Len(k) |-> l[i]]
      BY <1>1
    <2>3. k = [i \in 1..Len(k) |-> k[i]]
      OBVIOUS
    <2> QED
      BY <2>1, <2>2, <2>3
  <1>5. After(c, l) = v
    <2>1. After(c, l) = SubSeq(l, Len(k) + 2, Len(l))
      BY <1>1, <1>3 DEF After
    <2> DEFINE a == SubSeq(l, Len(k) + 2, Len(l))
    <2>2. /\ a \in Seq(S) /\ Len(a) = Len(v)
          /\ \A i \in 1..Len(v) : a[i] = l[Len(k) + 1 + i]
      BY <1>1
    <2> HIDE DEF a
    <2>3. \A i \in 1..Len(v) : a[i] = v[i]
      BY <2>2
    <2>4. a = v
      BY <2>2, <2>3, SameText
    <2> QED
      BY <2>1, <2>4 DEF a
  <1> QED
    BY <1>1, <1>3, <1>4, <1>5
----------------------------------- (* pieces *) -------------------------------
\* A piece of t: as far as it goes without c, between two of them or at an end.
PieceAt(c, t, i, j) ==
  /\ i \in 1..Len(t) /\ j \in i..Len(t)
  /\ \A k \in i..j : t[k] # c
  /\ i > 1 => t[i - 1] = c
  /\ j < Len(t) => t[j + 1] = c

IsPiece(c, t, p) == \E i, j \in 1..Len(t) : PieceAt(c, t, i, j) /\ p = SubSeq(t, i, j)

\* What Pieces takes for the start and the end of one.
Starts(c, t, i) == t[i] # c /\ (i > 1 => t[i - 1] = c)
Stops(c, t, i) == {j \in i..Len(t) : j < Len(t) => t[j + 1] = c}
PieceOf(c, t, i) == IF Starts(c, t, i) THEN <<SubSeq(t, i, Min(Stops(c, t, i)))>> ELSE << >>

\* The end of a piece is the first place before a c, or the last of the text.
LEMMA PieceEnds ==
  ASSUME NEW S, NEW t \in Seq(S), NEW c, NEW i \in 1..Len(t), Starts(c, t, i)
  PROVE  /\ PieceAt(c, t, i, Min(Stops(c, t, i)))
         /\ \A j \in 1..Len(t) : PieceAt(c, t, i, j) => j = Min(Stops(c, t, i))
  <1> DEFINE ends == Stops(c, t, i)
             e == Min(ends)
  <1>1. Len(t) \in Nat /\ i \in Nat /\ ends \in SUBSET (0..Len(t)) /\ Len(t) \in ends
    BY DEF Stops
  <1>2. e \in ends /\ \A j \in ends : e <= j
    <2> HIDE DEF ends
    <2> QED
      BY <1>1, Extremes
  <1>3. e \in i..Len(t) /\ (e < Len(t) => t[e + 1] = c)
    BY <1>2 DEF Stops
  <1> HIDE DEF e
  <1>4. ASSUME NEW k \in i..e PROVE t[k] # c
    <2>1. CASE k = i
      BY <2>1 DEF Starts
    <2>2. CASE k # i
      <3>1. k - 1 \in i..Len(t) /\ k - 1 < Len(t) /\ ~(e <= k - 1) /\ (k - 1) + 1 = k
        BY <1>1, <1>3, <2>2
      <3>2. k - 1 \notin ends
        BY <1>2, <3>1
      <3> QED
        BY <3>1, <3>2 DEF Stops
    <2> QED
      BY <2>1, <2>2
  <1>5. PieceAt(c, t, i, e)
    BY <1>3, <1>4 DEF PieceAt, Starts
  <1>6. ASSUME NEW j \in 1..Len(t), PieceAt(c, t, i, j) PROVE j = e
    <2>1. j \in ends /\ j \in i..Len(t) /\ e <= j
      BY <1>2, <1>6 DEF PieceAt, Stops
    <2>2. ~(e < j)
      <3>1. ASSUME e < j PROVE FALSE
        <4>1. e < Len(t) /\ e + 1 \in i..j
          BY <1>1, <1>3, <2>1, <3>1
        <4> QED
          BY <1>3, <1>6, <4>1 DEF PieceAt
      <3> QED
        BY <3>1
    <2> QED
      BY <1>3, <2>1, <2>2
  <1> QED
    BY <1>5, <1>6 DEF e

\* The pieces of a text are a sequence of texts, and are all of them.
LEMMA PiecesAre ==
  ASSUME NEW S, NEW t \in Seq(S), NEW c
  PROVE  /\ Pieces(c, t) \in Seq(Seq(S))
         /\ \A p : p \in ToSet(Pieces(c, t)) <=> IsPiece(c, t, p)
  <1> DEFINE parts == [i \in DOMAIN t |-> PieceOf(c, t, i)]
  <1>1. Pieces(c, t) = FlattenSeq(parts)
    BY DEF Pieces, PieceOf, Starts, Stops
  <1>2. parts \in Seq(Seq(Seq(S))) /\ DOMAIN parts = 1..Len(t)
    <2>1. ASSUME NEW i \in 1..Len(t) PROVE PieceOf(c, t, i) \in Seq(Seq(S))
      <3>1. CASE Starts(c, t, i)
        <4>1. Min(Stops(c, t, i)) \in i..Len(t)
          BY <3>1, PieceEnds DEF PieceAt
        <4>2. SubSeq(t, i, Min(Stops(c, t, i))) \in Seq(S)
          BY <4>1
        <4> QED
          BY <3>1, <4>2 DEF PieceOf
      <3>2. CASE ~Starts(c, t, i)
        BY <3>2 DEF PieceOf
      <3> QED
        BY <3>1, <3>2
    <2>2. DOMAIN t = 1..Len(t) /\ Len(t) \in Nat
      OBVIOUS
    <2> QED
      BY <2>1, <2>2
  <1>3. ASSUME NEW p PROVE (\E i \in 1..Len(t) : p \in ToSet(PieceOf(c, t, i))) <=> IsPiece(c, t, p)
    <2>1. ASSUME NEW i \in 1..Len(t)
          PROVE  p \in ToSet(PieceOf(c, t, i)) <=> Starts(c, t, i) /\ p = SubSeq(t, i, Min(Stops(c, t, i)))
      <3> DEFINE x == SubSeq(t, i, Min(Stops(c, t, i)))
      <3>1. ToSet(<<x>>) = {x} /\ ToSet(<< >>) = {}
        <4> HIDE DEF x
        <4> QED
          BY DEF ToSet
      <3>2. PieceOf(c, t, i) = IF Starts(c, t, i) THEN <<x>> ELSE << >>
        BY DEF PieceOf
      <3> HIDE DEF x
      <3>3. p \in ToSet(PieceOf(c, t, i)) <=> Starts(c, t, i) /\ p = x
        BY <3>1, <3>2
      <3> QED
        BY <3>3 DEF x
    <2>2. ASSUME NEW i \in 1..Len(t), p \in ToSet(PieceOf(c, t, i)) PROVE IsPiece(c, t, p)
      <3>1. PieceAt(c, t, i, Min(Stops(c, t, i))) /\ p = SubSeq(t, i, Min(Stops(c, t, i)))
        BY <2>1, <2>2, PieceEnds
      <3>2. Min(Stops(c, t, i)) \in 1..Len(t)
        BY <3>1 DEF PieceAt
      <3> QED
        BY <3>1, <3>2 DEF IsPiece
    <2>3. ASSUME IsPiece(c, t, p) PROVE \E i \in 1..Len(t) : p \in ToSet(PieceOf(c, t, i))
      <3>1. PICK i, j \in 1..Len(t) : PieceAt(c, t, i, j) /\ p = SubSeq(t, i, j)
        BY <2>3 DEF IsPiece
      <3>2. Starts(c, t, i)
        BY <3>1 DEF PieceAt, Starts
      <3>3. j = Min(Stops(c, t, i))
        BY <3>1, <3>2, PieceEnds
      <3> QED
        BY <2>1, <3>1, <3>2, <3>3
    <2> QED
      BY <2>2, <2>3
  <1> HIDE DEF parts
  <1>4. FlattenSeq(parts) \in Seq(Seq(S))
    BY <1>2, FlattenIs, Zenon
  <1>5. ASSUME NEW p PROVE p \in ToSet(FlattenSeq(parts)) <=> \E i \in 1..Len(t) : p \in ToSet(parts[i])
    BY <1>2, FlattenElements, Zenon
  <1>6. \A i \in 1..Len(t) : parts[i] = PieceOf(c, t, i)
    BY DEF parts
  <1> QED
    BY <1>1, <1>3, <1>4, <1>5, <1>6

\* A text that its last line ends, and the text with one more line.
Ended(c, t) == t = << >> \/ t[Len(t)] = c
OneLineMore(c, t, l, u) ==
  /\ Len(u) = Len(t) + Len(l) + 1
  /\ \A i \in 1..Len(t) : u[i] = t[i]
  /\ \A i \in 1..Len(l) : u[Len(t) + i] = l[i]
  /\ u[Len(t) + Len(l) + 1] = c

\* The pieces stay what they are.
LEMMA PieceStays ==
  ASSUME NEW S, NEW t \in Seq(S), NEW l \in Seq(S), NEW u \in Seq(S), NEW c,
         Ended(c, t), OneLineMore(c, t, l, u), NEW p, IsPiece(c, t, p)
  PROVE  IsPiece(c, u, p)
  <1>1. Len(t) \in Nat /\ Len(l) \in Nat /\ Len(u) \in Nat /\ Len(u) > Len(t)
    BY DEF OneLineMore
  <1>2. PICK i, j \in 1..Len(t) : PieceAt(c, t, i, j) /\ p = SubSeq(t, i, j)
    BY DEF IsPiece
  <1>3. i \in 1..Len(t) /\ j \in i..Len(t) /\ i \in Nat /\ j \in Nat
    BY <1>1, <1>2 DEF PieceAt
  <1>4. \A k \in 1..Len(t) : u[k] = t[k]
    BY DEF OneLineMore
  <1>5. j < Len(t)
    <2>1. t # << >> /\ t[Len(t)] = c
      BY <1>3 DEF Ended
    <2>2. j # Len(t)
      BY <1>2, <1>3, <2>1 DEF PieceAt
    <2> QED
      BY <1>1, <1>3, <2>2
  <1>6. PieceAt(c, u, i, j)
    <2>1. i \in 1..Len(u) /\ j \in i..Len(u)
      BY <1>1, <1>3
    <2>2. \A k \in i..j : k \in 1..Len(t) /\ t[k] # c
      BY <1>1, <1>2, <1>3 DEF PieceAt
    <2>3. i > 1 => i - 1 \in 1..Len(t) /\ t[i - 1] = c
      BY <1>1, <1>2, <1>3 DEF PieceAt
    <2>4. j + 1 \in 1..Len(t) /\ t[j + 1] = c
      BY <1>1, <1>2, <1>3, <1>5 DEF PieceAt
    <2> QED
      BY <1>4, <2>1, <2>2, <2>3, <2>4 DEF PieceAt
  <1>7. SubSeq(u, i, j) = SubSeq(t, i, j)
    <2>1. \A k \in i..j : u[k] = t[k]
      BY <1>1, <1>3, <1>4
    <2>2. /\ SubSeq(u, i, j) \in Seq(S) /\ SubSeq(t, i, j) \in Seq(S)
          /\ Len(SubSeq(u, i, j)) = j - i + 1 /\ Len(SubSeq(t, i, j)) = j - i + 1
          /\ \A k \in 1..(j - i + 1) : SubSeq(u, i, j)[k] = u[i + k - 1] /\ SubSeq(t, i, j)[k] = t[i + k - 1]
      BY <1>1, <1>3
    <2>3. \A k \in 1..(j - i + 1) : i + k - 1 \in i..j
      BY <1>3
    <2> DEFINE a == SubSeq(u, i, j)
               b == SubSeq(t, i, j)
    <2>4. /\ a \in Seq(S) /\ b \in Seq(S) /\ Len(a) = Len(b)
          /\ \A k \in 1..Len(a) : a[k] = b[k]
      BY <2>1, <2>2, <2>3
    <2> HIDE DEF a, b
    <2>5. a = b
      BY <2>4, SameText
    <2> QED
      BY <2>5 DEF a, b
  <1>8. i \in 1..Len(u) /\ j \in 1..Len(u)
    BY <1>1, <1>3
  <1> QED
    BY <1>2, <1>6, <1>7, <1>8 DEF IsPiece

\* The place of the line in the text.
LEMMA LinePlace ==
  ASSUME NEW S, NEW t \in Seq(S), NEW l \in Seq(S), NEW u \in Seq(S), NEW c,
         OneLineMore(c, t, l, u)
  PROVE  SubSeq(u, Len(t) + 1, Len(t) + Len(l)) = l
  <1> DEFINE a == SubSeq(u, Len(t) + 1, Len(t) + Len(l))
  <1>1. Len(t) \in Nat /\ Len(l) \in Nat /\ Len(u) \in Nat /\ Len(u) = Len(t) + Len(l) + 1
    BY DEF OneLineMore
  <1>2. a \in Seq(S) /\ Len(a) = Len(l) /\ \A i \in 1..Len(l) : a[i] = u[Len(t) + i]
    BY <1>1
  <1>3. \A i \in 1..Len(l) : u[Len(t) + i] = l[i]
    BY DEF OneLineMore
  <1> HIDE DEF a
  <1>4. a = l
    BY <1>2, <1>3, SameText
  <1> QED
    BY <1>4 DEF a

\* A line that is not empty and has no c in it is a piece,
LEMMA LineIsPiece ==
  ASSUME NEW S, NEW t \in Seq(S), NEW l \in Seq(S), NEW u \in Seq(S), NEW c,
         Ended(c, t), OneLineMore(c, t, l, u), l # << >>, ~Contains(l, c)
  PROVE  IsPiece(c, u, l)
  <1> DEFINE i == Len(t) + 1
             j == Len(t) + Len(l)
  <1>1. Len(t) \in Nat /\ Len(l) \in Nat /\ Len(l) # 0 /\ Len(u) = Len(t) + Len(l) + 1
    BY DEF OneLineMore
  <1>2. i \in 1..Len(u) /\ j \in 1..Len(u) /\ j \in i..Len(u)
    BY <1>1
  <1>3. \A k \in i..j : u[k] # c
    <2>1. \A k \in i..j : k - Len(t) \in 1..Len(l) /\ Len(t) + (k - Len(t)) = k
      BY <1>1
    <2>2. \A k \in 1..Len(l) : u[Len(t) + k] = l[k] /\ l[k] # c
      BY DEF OneLineMore, Contains
    <2> QED
      BY <2>1, <2>2
  <1>4. i > 1 => u[i - 1] = c
    <2>1. i - 1 = Len(t) /\ (i > 1 => Len(t) \in 1..Len(t) /\ t # << >>)
      BY <1>1
    <2> QED
      BY <2>1 DEF Ended, OneLineMore
  <1>5. u[j + 1] = c
    BY DEF OneLineMore
  <1>6. SubSeq(u, i, j) = l
    BY LinePlace
  <1> HIDE DEF i, j
  <1>7. PieceAt(c, u, i, j)
    BY <1>2, <1>3, <1>4, <1>5 DEF PieceAt
  <1> QED
    BY <1>2, <1>6, <1>7 DEF IsPiece

\* and the only one that the text has more.
LEMMA NoOtherPiece ==
  ASSUME NEW S, NEW t \in Seq(S), NEW l \in Seq(S), NEW u \in Seq(S), NEW c,
         Ended(c, t), OneLineMore(c, t, l, u), ~Contains(l, c), NEW p, IsPiece(c, u, p)
  PROVE  IsPiece(c, t, p) \/ p = l
  <1>1. Len(t) \in Nat /\ Len(l) \in Nat /\ Len(u) \in Nat /\ Len(u) = Len(t) + Len(l) + 1
    BY DEF OneLineMore
  <1>2. PICK i, j \in 1..Len(u) : PieceAt(c, u, i, j) /\ p = SubSeq(u, i, j)
    BY DEF IsPiece
  <1>3. i \in 1..Len(u) /\ j \in i..Len(u) /\ i \in Nat /\ j \in Nat /\ i <= j
    BY <1>1, <1>2 DEF PieceAt
  <1>4. j < Len(u)
    <2>1. u[Len(u)] = c
      BY <1>1 DEF OneLineMore
    <2>2. j # Len(u)
      BY <1>2, <1>3, <2>1 DEF PieceAt
    <2> QED
      BY <1>1, <1>3, <2>2
  <1>5. CASE i <= Len(t)
    <2>1. \A k \in 1..Len(t) : u[k] = t[k]
      BY DEF OneLineMore
    <2>2. j < Len(t)
      <3>1. ASSUME Len(t) <= j PROVE FALSE
        <4>1. Len(t) \in i..j /\ Len(t) \in 1..Len(t) /\ t # << >>
          BY <1>1, <1>3, <1>5, <3>1
        <4>2. u[Len(t)] = c
          BY <2>1, <4>1 DEF Ended
        <4> QED
          BY <1>2, <4>1, <4>2 DEF PieceAt
      <3> QED
        BY <1>1, <1>3, <3>1
    <2>3. PieceAt(c, t, i, j)
      <3>1. i \in 1..Len(t) /\ j \in i..Len(t)
        BY <1>1, <1>3, <1>5, <2>2
      <3>2. \A k \in i..j : k \in 1..Len(t) /\ u[k] # c
        BY <1>1, <1>2, <1>3, <2>2 DEF PieceAt
      <3>3. i > 1 => i - 1 \in 1..Len(t) /\ u[i - 1] = c
        BY <1>1, <1>2, <1>3, <1>5 DEF PieceAt
      <3>4. j + 1 \in 1..Len(t) /\ u[j + 1] = c
        BY <1>1, <1>2, <1>3, <1>4, <2>2 DEF PieceAt
      <3> QED
        BY <2>1, <3>1, <3>2, <3>3, <3>4 DEF PieceAt
    <2>4. SubSeq(t, i, j) = SubSeq(u, i, j)
      <3> DEFINE a == SubSeq(u, i, j)
                 b == SubSeq(t, i, j)
      <3>1. /\ a \in Seq(S) /\ b \in Seq(S)
            /\ Len(a) = j - i + 1 /\ Len(b) = j - i + 1
            /\ \A k \in 1..(j - i + 1) : a[k] = u[i + k - 1] /\ b[k] = t[i + k - 1]
        BY <1>1, <1>3, <1>4, <2>2
      <3>2. \A k \in 1..(j - i + 1) : i + k - 1 \in 1..Len(t)
        BY <1>1, <1>3, <2>2
      <3> HIDE DEF a, b
      <3>3. a = b
        BY <2>1, <3>1, <3>2, SameText
      <3> QED
        BY <3>3 DEF a, b
    <2>5. i \in 1..Len(t) /\ j \in 1..Len(t)
      BY <1>1, <1>3, <1>5, <2>2
    <2> QED
      BY <1>2, <2>3, <2>4, <2>5 DEF IsPiece
  <1>6. CASE Len(t) < i
    <2>1. \A k \in (Len(t) + 1)..(Len(t) + Len(l)) : u[k] # c
      <3>1. \A k \in (Len(t) + 1)..(Len(t) + Len(l)) :
              k - Len(t) \in 1..Len(l) /\ Len(t) + (k - Len(t)) = k
        BY <1>1
      <3>2. \A k \in 1..Len(l) : u[Len(t) + k] = l[k] /\ l[k] # c
        BY DEF OneLineMore, Contains
      <3> QED
        BY <3>1, <3>2
    <2>2. i = Len(t) + 1
      <3>1. ASSUME i # Len(t) + 1 PROVE FALSE
        <4>1. i > 1 /\ i - 1 \in (Len(t) + 1)..(Len(t) + Len(l))
          BY <1>1, <1>3, <1>4, <1>6, <3>1
        <4> QED
          BY <1>2, <2>1, <4>1 DEF PieceAt
      <3> QED
        BY <3>1
    <2>3. j = Len(t) + Len(l)
      <3>1. ASSUME j # Len(t) + Len(l) PROVE FALSE
        <4>1. j + 1 \in (Len(t) + 1)..(Len(t) + Len(l))
          BY <1>1, <1>3, <1>4, <1>6, <3>1
        <4> QED
          BY <1>2, <1>4, <2>1, <4>1 DEF PieceAt
      <3> QED
        BY <3>1
    <2> QED
      BY <1>2, <2>2, <2>3, LinePlace
  <1> QED
    BY <1>1, <1>3, <1>5, <1>6

---------------------------- (* a map as lines of text *) ----------------------
\* A line, and a text with the line and its end.
Line(k, v) == k \o <<"=">> \o v
WithLine(t, k, v) == t \o k \o <<"=">> \o v \o <<"\n">>

\* l is s and then t.
Follows(s, t, l) ==
  /\ Len(s) \in Nat /\ Len(t) \in Nat /\ Len(l) = Len(s) + Len(t)
  /\ \A i \in 1..Len(s) : l[i] = s[i]
  /\ \A i \in 1..Len(t) : l[Len(s) + i] = t[i]

LEMMA AppendedFollows ==
  ASSUME NEW S, NEW s \in Seq(S), NEW t \in Seq(S)
  PROVE  s \o t \in Seq(S) /\ Follows(s, t, s \o t)
  BY DEF Follows

\* The characters of a line.
IsLine(l, k, v) ==
  /\ Len(k) \in Nat /\ Len(v) \in Nat /\ Len(l) = Len(k) + 1 + Len(v) /\ l # << >>
  /\ \A i \in 1..Len(k) : l[i] = k[i]
  /\ l[Len(k) + 1] = "="
  /\ \A i \in 1..Len(v) : l[Len(k) + 1 + i] = v[i]

LEMMA LineIs ==
  ASSUME NEW S, "=" \in S, NEW k \in Seq(S), NEW v \in Seq(S)
  PROVE  Line(k, v) \in Seq(S) /\ IsLine(Line(k, v), k, v)
  <1> DEFINE eq == <<"=">>
             a == k \o eq
             l == a \o v
  <1>1. eq \in Seq(S) /\ Len(eq) = 1 /\ eq[1] = "="
    OBVIOUS
  <1> HIDE DEF eq
  <1>2. a \in Seq(S) /\ Follows(k, eq, a)
    BY <1>1, AppendedFollows, Zenon
  <1> HIDE DEF a
  <1>3. l \in Seq(S) /\ Follows(a, v, l)
    BY <1>2, AppendedFollows, Zenon
  <1> HIDE DEF l
  <1>4. IsLine(l, k, v)
    <2>1. /\ Len(k) \in Nat /\ Len(v) \in Nat /\ Len(a) = Len(k) + 1 /\ Len(l) = Len(k) + 1 + Len(v)
          /\ l # << >>
      BY <1>1, <1>2, <1>3 DEF Follows
    <2>2. \A i \in 1..Len(k) : i \in 1..Len(a) /\ a[i] = k[i]
      BY <1>2, <2>1 DEF Follows
    <2>3. Len(k) + 1 \in 1..Len(a) /\ a[Len(k) + 1] = "="
      BY <1>1, <1>2, <2>1 DEF Follows
    <2>4. /\ \A i \in 1..Len(a) : l[i] = a[i]
          /\ \A i \in 1..Len(v) : l[Len(k) + 1 + i] = v[i]
      BY <1>3, <2>1 DEF Follows
    <2> QED
      BY <2>1, <2>2, <2>3, <2>4 DEF IsLine
  <1>5. Line(k, v) = l
    BY DEF Line, l, a, eq
  <1> QED
    BY <1>3, <1>4, <1>5

\* It has no end in it if its name and its value have none.
LEMMA LineIsPlain ==
  ASSUME NEW k, NEW v, NEW l, IsLine(l, k, v), Plain(k, v)
  PROVE  ~Contains(l, "\n")
  <1> SUFFICES ASSUME NEW i \in 1..Len(l) PROVE l[i] # "\n"
    BY DEF Contains
  <1>1. /\ Len(k) \in Nat /\ Len(v) \in Nat /\ Len(l) = Len(k) + 1 + Len(v)
        /\ \A j \in 1..Len(k) : k[j] # "\n"
        /\ \A j \in 1..Len(v) : v[j] # "\n"
    BY DEF IsLine, Plain, Contains
  <1>2. CASE i \in 1..Len(k)
    BY <1>1, <1>2 DEF IsLine
  <1>3. CASE i = Len(k) + 1
    BY <1>3 DEF IsLine
  <1>4. CASE i > Len(k) + 1
    <2>1. i - (Len(k) + 1) \in 1..Len(v) /\ Len(k) + 1 + (i - (Len(k) + 1)) = i
      BY <1>1, <1>4
    <2>2. l[i] = v[i - (Len(k) + 1)]
      BY <2>1 DEF IsLine
    <2> QED
      BY <1>1, <2>1, <2>2
  <1> QED
    BY <1>1, <1>2, <1>3, <1>4

\* What the text is with one more.
LEMMA WithLineIs ==
  ASSUME NEW S, "=" \in S, "\n" \in S, NEW t \in Seq(S), NEW k \in Seq(S), NEW v \in Seq(S),
         NEW l, IsLine(l, k, v)
  PROVE  /\ WithLine(t, k, v) \in Seq(S)
         /\ OneLineMore("\n", t, l, WithLine(t, k, v))
         /\ Ended("\n", WithLine(t, k, v))
  <1> DEFINE eq == <<"=">>
             nl == <<"\n">>
             a == t \o k
             b == a \o eq
             d == b \o v
             u == d \o nl
  <1>1. /\ eq \in Seq(S) /\ Len(eq) = 1 /\ eq[1] = "="
        /\ nl \in Seq(S) /\ Len(nl) = 1 /\ nl[1] = "\n"
    OBVIOUS
  <1> HIDE DEF eq, nl
  <1>2. a \in Seq(S) /\ Follows(t, k, a)
    BY AppendedFollows, Zenon
  <1> HIDE DEF a
  <1>3. b \in Seq(S) /\ Follows(a, eq, b)
    BY <1>1, <1>2, AppendedFollows, Zenon
  <1> HIDE DEF b
  <1>4. d \in Seq(S) /\ Follows(b, v, d)
    BY <1>3, AppendedFollows, Zenon
  <1> HIDE DEF d
  <1>5. u \in Seq(S) /\ Follows(d, nl, u)
    BY <1>1, <1>4, AppendedFollows, Zenon
  <1> HIDE DEF u
  <1>6. /\ Len(t) \in Nat /\ Len(k) \in Nat /\ Len(v) \in Nat /\ Len(l) = Len(k) + 1 + Len(v)
        /\ Len(a) = Len(t) + Len(k) /\ Len(b) = Len(t) + Len(k) + 1 /\ Len(d) = Len(t) + Len(l)
        /\ Len(u) = Len(t) + Len(l) + 1
    BY <1>1, <1>2, <1>3, <1>4, <1>5 DEF Follows, IsLine
  <1>7. \A i \in 1..Len(t) : u[i] = t[i]
    <2>1. \A i \in 1..Len(t) : i \in 1..Len(a) /\ i \in 1..Len(b) /\ i \in 1..Len(d)
      BY <1>6
    <2> QED
      BY <2>1, <1>2, <1>3, <1>4, <1>5 DEF Follows
  <1>8. ASSUME NEW i \in 1..Len(l) PROVE u[Len(t) + i] = l[i]
    <2>1. u[Len(t) + i] = d[Len(t) + i]
      <3>1. Len(t) + i \in 1..Len(d)
        BY <1>6
      <3> QED
        BY <3>1, <1>5 DEF Follows
    <2>2. CASE i \in 1..Len(k)
      <3>1. Len(t) + i \in 1..Len(a) /\ Len(t) + i \in 1..Len(b)
        BY <1>6, <2>2
      <3>2. a[Len(t) + i] = k[i] /\ l[i] = k[i]
        BY <1>2, <2>2 DEF Follows, IsLine
      <3> QED
        BY <2>1, <3>1, <3>2, <1>3, <1>4 DEF Follows
    <2>3. CASE i = Len(k) + 1
      <3>1. Len(t) + i = Len(a) + 1 /\ Len(t) + i \in 1..Len(b)
        BY <1>6, <2>3
      <3>2. b[Len(a) + 1] = "=" /\ l[i] = "="
        BY <1>1, <1>3, <2>3 DEF Follows, IsLine
      <3> QED
        BY <2>1, <3>1, <3>2, <1>4 DEF Follows
    <2>4. CASE i > Len(k) + 1
      <3> DEFINE n == i - (Len(k) + 1)
      <3>1. n \in 1..Len(v) /\ Len(b) + n = Len(t) + i /\ Len(k) + 1 + n = i
        BY <1>6, <2>4
      <3> HIDE DEF n
      <3>2. d[Len(b) + n] = v[n] /\ l[Len(k) + 1 + n] = v[n]
        BY <3>1, <1>4 DEF Follows, IsLine
      <3> QED
        BY <2>1, <3>1, <3>2
    <2> QED
      BY <1>6, <2>2, <2>3, <2>4
  <1>9. u[Len(t) + Len(l) + 1] = "\n" /\ u[Len(u)] = "\n"
    BY <1>1, <1>5, <1>6 DEF Follows
  <1>10. OneLineMore("\n", t, l, u) /\ Ended("\n", u)
    BY <1>6, <1>7, <1>8, <1>9 DEF OneLineMore, Ended
  <1>11. WithLine(t, k, v) = u
    BY DEF WithLine, u, d, b, a, eq, nl
  <1> QED
    BY <1>5, <1>10, <1>11

\* A map of texts to texts, as convertMaptoString takes one.
IsTextMap(m, S) == IsFiniteSet(DOMAIN m) /\ \A k \in DOMAIN m : k \in Seq(S) /\ m[k] \in Seq(S)

\* The equation of the function in convertMaptoString, for the sets of keys in D.
Chosen(s) == CHOOSE k \in s : TRUE
LineAfter(m, t, k) == WithLine(t, k, m[k])
TextsOfSets(f, m, D) ==
  f = [s \in D |-> IF s = {} THEN << >> ELSE LineAfter(m, f[s \ {Chosen(s)}], Chosen(s))]

\* The sets of n keys at most.
UpTo(m, n) == {s \in SUBSET DOMAIN m : Cardinality(s) <= n}

\* A set of keys that is not empty, and the same without the chosen one.
LEMMA OneKeyLess ==
  ASSUME NEW m, IsFiniteSet(DOMAIN m), NEW s \in SUBSET DOMAIN m
  PROVE  /\ IsFiniteSet(s) /\ Cardinality(s) \in Nat /\ Cardinality(s) <= Cardinality(DOMAIN m)
         /\ Cardinality(s) = 0 <=> s = {}
         /\ s # {} => /\ Chosen(s) \in s /\ Chosen(s) \in DOMAIN m
                      /\ s \ {Chosen(s)} \in SUBSET DOMAIN m
                      /\ Cardinality(s \ {Chosen(s)}) = Cardinality(s) - 1
  <1>1. IsFiniteSet(s) /\ Cardinality(s) <= Cardinality(DOMAIN m)
    BY FS_Subset
  <1>2. Cardinality(s) \in Nat /\ (Cardinality(s) = 0 <=> s = {})
    BY <1>1, FS_CardinalityType, FS_EmptySet
  <1>3. s # {} => Chosen(s) \in s
    BY DEF Chosen
  <1>4. s # {} => Cardinality(s \ {Chosen(s)}) = Cardinality(s) - 1
    BY <1>1, <1>3, FS_RemoveElement
  <1> QED
    BY <1>1, <1>2, <1>3, <1>4

\* The equation at one set of keys.
LEMMA TextsOfSetsAt ==
  ASSUME NEW f, NEW m, NEW D, TextsOfSets(f, m, D), NEW s \in D
  PROVE  f[s] = IF s = {} THEN << >> ELSE LineAfter(m, f[s \ {Chosen(s)}], Chosen(s))
  <1>1. f[s] = [r \in D |-> IF r = {} THEN << >> ELSE LineAfter(m, f[r \ {Chosen(r)}], Chosen(r))][s]
    BY DEF TextsOfSets
  <1> QED
    BY <1>1

\* There is such a function for all sets of keys.
LEMMA TextsOfSetsExist ==
  ASSUME NEW m, IsFiniteSet(DOMAIN m)
  PROVE  \E f : TextsOfSets(f, m, SUBSET DOMAIN m)
  <1> DEFINE N == Cardinality(DOMAIN m)
             P(n) == \E f : TextsOfSets(f, m, UpTo(m, n))
             bad == {n \in 0..N : ~P(n)}
  <1>1. N \in Nat /\ UpTo(m, N) = SUBSET DOMAIN m
    BY OneKeyLess DEF UpTo
  <1> SUFFICES ASSUME ~P(N) PROVE FALSE
    BY <1>1
  <1>2. N \in bad /\ bad \in SUBSET Nat
    BY <1>1
  <1>3. PICK n \in bad : \A c \in bad : n <= c
    <2> HIDE DEF bad
    <2> QED
      BY <1>2, Least
  <1>4. n \in 0..N /\ ~P(n) /\ n \in Nat
    BY <1>1
  <1>5. n # 0
    <2>1. ASSUME NEW s \in UpTo(m, 0) PROVE s = {}
      <3>1. s \in SUBSET DOMAIN m /\ Cardinality(s) <= 0
        BY DEF UpTo
      <3>2. Cardinality(s) \in Nat /\ (Cardinality(s) = 0 <=> s = {})
        BY <3>1, OneKeyLess
      <3> QED
        BY <3>1, <3>2
    <2>2. TextsOfSets([s \in UpTo(m, 0) |-> << >>], m, UpTo(m, 0))
      BY <2>1 DEF TextsOfSets
    <2> QED
      BY <1>4, <2>2
  <1>6. PICK f : TextsOfSets(f, m, UpTo(m, n - 1))
    <2>1. n - 1 \in 0..N /\ ~(n <= n - 1)
      BY <1>1, <1>4, <1>5
    <2> QED
      BY <1>3, <2>1
  <1> DEFINE g == [s \in UpTo(m, n) |-> IF s = {} THEN << >> ELSE LineAfter(m, f[s \ {Chosen(s)}], Chosen(s))]
  <1>7. ASSUME NEW s \in UpTo(m, n), s # {} PROVE g[s \ {Chosen(s)}] = f[s \ {Chosen(s)}]
    <2> DEFINE r == s \ {Chosen(s)}
    <2>1. r \in UpTo(m, n - 1) /\ r \in UpTo(m, n)
      BY <1>4, <1>7, OneKeyLess DEF UpTo
    <2> HIDE DEF r
    <2>2. f[r] = IF r = {} THEN << >> ELSE LineAfter(m, f[r \ {Chosen(r)}], Chosen(r))
      BY <1>6, <2>1, TextsOfSetsAt
    <2>3. g[r] = f[r]
      BY <2>1, <2>2
    <2> QED
      BY <2>3 DEF r
  <1>8. TextsOfSets(g, m, UpTo(m, n))
    <2> SUFFICES ASSUME NEW s \in UpTo(m, n)
                 PROVE  g[s] = IF s = {} THEN << >> ELSE LineAfter(m, g[s \ {Chosen(s)}], Chosen(s))
      BY DEF TextsOfSets
    <2> QED
      BY <1>7
  <1> QED
    BY <1>4, <1>8

\* What is said of the text for the keys in s.
IsTextOf(t, m, s, S) ==
  /\ t \in Seq(S) /\ Ended("\n", t)
  /\ \A k \in s : Plain(k, m[k]) => IsPiece("\n", t, Line(k, m[k]))
  /\ (\A k \in s : Plain(k, m[k])) => \A p : IsPiece("\n", t, p) => \E k \in s : p = Line(k, m[k])

\* No text, no line.
LEMMA NoLineYet ==
  ASSUME NEW m, NEW S
  PROVE  IsTextOf(<< >>, m, {}, S)
  <1>1. << >> \in Seq(S) /\ Ended("\n", << >>)
    BY DEF Ended
  <1>2. ASSUME NEW p PROVE ~IsPiece("\n", << >>, p)
    BY DEF IsPiece
  <1> QED
    BY <1>1, <1>2 DEF IsTextOf

\* One line more.
LEMMA OneKeyMore ==
  ASSUME NEW S, "=" \in S, "\n" \in S, NEW m, IsTextMap(m, S), NEW s \in SUBSET DOMAIN m,
         NEW k \in s, NEW t, IsTextOf(t, m, s \ {k}, S)
  PROVE  IsTextOf(LineAfter(m, t, k), m, s, S)
  <1> DEFINE v == m[k]
             l == Line(k, v)
             u == LineAfter(m, t, k)
  <1>1. t \in Seq(S) /\ Ended("\n", t)
    BY DEF IsTextOf
  <1>2. k \in Seq(S) /\ v \in Seq(S)
    BY DEF IsTextMap
  <1>3. l \in Seq(S) /\ IsLine(l, k, v)
    BY <1>2, LineIs, Zenon
  <1>4. u = WithLine(t, k, v)
    BY DEF LineAfter
  <1>5. l # << >>
    BY <1>3 DEF IsLine
  <1>6. Plain(k, v) => ~Contains(l, "\n")
    BY <1>3, LineIsPlain, Zenon
  <1> HIDE DEF l, u, v
  <1>7. u \in Seq(S) /\ OneLineMore("\n", t, l, u) /\ Ended("\n", u)
    BY <1>1, <1>2, <1>3, <1>4, WithLineIs, Zenon
  <1>8. ASSUME NEW x \in s, Plain(x, m[x]) PROVE IsPiece("\n", u, Line(x, m[x]))
    <2>1. CASE x = k
      BY <1>1, <1>3, <1>5, <1>6, <1>7, <1>8, <2>1, LineIsPiece, Zenon DEF l, v
    <2>2. CASE x # k
      <3>1. IsPiece("\n", t, Line(x, m[x]))
        BY <1>8, <2>2 DEF IsTextOf
      <3> QED
        BY <1>1, <1>3, <1>7, <3>1, PieceStays, Zenon
    <2> QED
      BY <2>1, <2>2
  <1>9. ASSUME \A x \in s : Plain(x, m[x]), NEW p, IsPiece("\n", u, p)
        PROVE  \E x \in s : p = Line(x, m[x])
    <2>1. ~Contains(l, "\n")
      BY <1>6, <1>9 DEF v
    <2>2. IsPiece("\n", t, p) \/ p = l
      BY <1>1, <1>3, <1>7, <1>9, <2>1, NoOtherPiece, Zenon
    <2>3. IsPiece("\n", t, p) => \E x \in s \ {k} : p = Line(x, m[x])
      BY <1>9, Zenon DEF IsTextOf
    <2> QED
      BY <2>2, <2>3 DEF l, v
  <1>10. IsTextOf(u, m, s, S)
    BY <1>7, <1>8, <1>9, Zenon DEF IsTextOf
  <1> QED
    BY <1>10 DEF u

\* The text that the function gives for a set of keys.
LEMMA TextsOfKeys ==
  ASSUME NEW S, "=" \in S, "\n" \in S, NEW m, IsTextMap(m, S),
         NEW f, TextsOfSets(f, m, SUBSET DOMAIN m), NEW s \in SUBSET DOMAIN m
  PROVE  IsTextOf(f[s], m, s, S)
  <1> DEFINE wrong == {r \in SUBSET DOMAIN m : ~IsTextOf(f[r], m, r, S)}
             bad == {Cardinality(r) : r \in wrong}
  <1>0. IsFiniteSet(DOMAIN m)
    BY DEF IsTextMap
  <1> SUFFICES ASSUME s \in wrong PROVE FALSE
    OBVIOUS
  <1>1. bad \in SUBSET Nat /\ bad # {}
    <2>1. ASSUME NEW r \in wrong PROVE Cardinality(r) \in Nat
      BY <1>0, OneKeyLess
    <2> QED
      BY <2>1
  <1>2. PICK n \in bad : \A c \in bad : n <= c
    <2> HIDE DEF bad
    <2> QED
      BY <1>1, Least
  <1>3. PICK r \in wrong : n = Cardinality(r)
    BY <1>2
  <1>4. r \in SUBSET DOMAIN m /\ ~IsTextOf(f[r], m, r, S)
    BY <1>3
  <1>5. f[r] = IF r = {} THEN << >> ELSE LineAfter(m, f[r \ {Chosen(r)}], Chosen(r))
    BY <1>4, TextsOfSetsAt
  <1>6. CASE r = {}
    BY <1>4, <1>5, <1>6, NoLineYet
  <1>7. CASE r # {}
    <2> DEFINE q == r \ {Chosen(r)}
    <2>1. /\ Chosen(r) \in r /\ q \in SUBSET DOMAIN m
          /\ Cardinality(q) = Cardinality(r) - 1 /\ Cardinality(r) \in Nat
      BY <1>0, <1>4, <1>7, OneKeyLess
    <2>2. q \notin wrong
      <3>1. ~(n <= Cardinality(q))
        BY <1>3, <2>1
      <3> QED
        BY <1>2, <3>1
    <2>3. IsTextOf(f[q], m, q, S)
      BY <2>1, <2>2
    <2>4. IsTextOf(LineAfter(m, f[q], Chosen(r)), m, r, S)
      BY <1>4, <2>1, <2>3, OneKeyMore, Zenon
    <2> QED
      BY <1>4, <1>5, <1>7, <2>4
  <1> QED
    BY <1>6, <1>7

\* What convertMaptoString gives.
LEMMA MapAsText ==
  ASSUME NEW S, "=" \in S, "\n" \in S, NEW m, IsTextMap(m, S)
  PROVE  IsTextOf(convertMaptoString(m), m, DOMAIN m, S)
  <1> DEFINE f == CHOOSE f : TextsOfSets(f, m, SUBSET DOMAIN m)
  <1>1. IsFiniteSet(DOMAIN m)
    BY DEF IsTextMap
  <1>2. TextsOfSets(f, m, SUBSET DOMAIN m)
    BY <1>1, TextsOfSetsExist
  <1>3. convertMaptoString(m) = f[DOMAIN m]
    BY DEF convertMaptoString, FoldSet, MapThenFoldSet, TextsOfSets, LineAfter, WithLine, Chosen
  <1> HIDE DEF f
  <1>4. IsTextOf(f[DOMAIN m], m, DOMAIN m, S)
    BY <1>2, TextsOfKeys
  <1> QED
    BY <1>3, <1>4

\* What a reader of the text finds of one line.
LEMMA LineIsRead ==
  ASSUME NEW S, "=" \in S, NEW k \in Seq(S), NEW v \in Seq(S), Plain(k, v)
  PROVE  First("=", Line(k, v)) # 0 /\ Before("=", Line(k, v)) = k /\ After("=", Line(k, v)) = v
  <1> DEFINE l == Line(k, v)
  <1>1. l \in Seq(S) /\ IsLine(l, k, v)
    BY LineIs, Zenon
  <1>2. ~Contains(k, "=")
    BY DEF Plain
  <1> HIDE DEF l
  <1>3. First("=", l) # 0 /\ Before("=", l) = k /\ After("=", l) = v
    BY <1>1, <1>2, SidesAre DEF IsLine
  <1> QED
    BY <1>3 DEF l

\* The pairs of a map go through the text of convertMaptoString: what is plain is not lost,
\* and if all of it is plain, nothing else is read from the text.
THEOREM PlainPairsArrive ==
  ASSUME NEW S, "=" \in S, "\n" \in S, NEW m, IsTextMap(m, S)
  PROVE  /\ \A k \in PlainKeys(m) : <<k, m[k]>> \in Lines(convertMaptoString(m))
         /\ PlainKeys(m) = DOMAIN m => Lines(convertMaptoString(m)) = PairsOf(m)
  <1> DEFINE t == convertMaptoString(m)
  <1>1. IsTextOf(t, m, DOMAIN m, S)
    BY MapAsText, Zenon
  <1> HIDE DEF t
  <1>2. t \in Seq(S)
    BY <1>1 DEF IsTextOf
  <1>3. \A p : p \in ToSet(Pieces("\n", t)) <=> IsPiece("\n", t, p)
    BY <1>2, PiecesAre
  <1>4. \A k \in DOMAIN m : k \in Seq(S) /\ m[k] \in Seq(S)
    BY DEF IsTextMap
  <1>5. ASSUME NEW k \in DOMAIN m, Plain(k, m[k])
        PROVE  /\ First("=", Line(k, m[k])) # 0
               /\ <<Before("=", Line(k, m[k])), After("=", Line(k, m[k]))>> = <<k, m[k]>>
    BY <1>4, <1>5, LineIsRead
  <1>6. ASSUME NEW k \in DOMAIN m, Plain(k, m[k]) PROVE <<k, m[k]>> \in Lines(t)
    <2>1. Line(k, m[k]) \in ToSet(Pieces("\n", t))
      BY <1>1, <1>3, <1>6 DEF IsTextOf
    <2> QED
      BY <1>5, <1>6, <2>1 DEF Lines
  <1>7. ASSUME PlainKeys(m) = DOMAIN m, NEW p \in Lines(t) PROVE p \in PairsOf(m)
    <2>1. \A k \in DOMAIN m : Plain(k, m[k])
      BY <1>7 DEF PlainKeys
    <2>2. PICK l : l \in ToSet(Pieces("\n", t)) /\ p = <<Before("=", l), After("=", l)>>
      BY <1>7 DEF Lines
    <2>3. IsPiece("\n", t, l)
      BY <1>3, <2>2
    <2>4. PICK k \in DOMAIN m : l = Line(k, m[k])
      BY <1>1, <2>1, <2>3 DEF IsTextOf
    <2>5. p = <<k, m[k]>>
      BY <1>5, <2>1, <2>2, <2>4
    <2> QED
      BY <2>5 DEF PairsOf
  <1>8. ASSUME PlainKeys(m) = DOMAIN m PROVE PairsOf(m) \subseteq Lines(t)
    BY <1>6, <1>8 DEF PairsOf, PlainKeys
  <1> QED
    BY <1>6, <1>7, <1>8 DEF t, PlainKeys

------------------------------- (* an answer as a map *) -----------------------
\* A map with a pair put into it.
LEMMA PutIs ==
  ASSUME NEW m, NEW k, NEW v
  PROVE  Put(m, k, v) = [x \in {k} \union DOMAIN m |-> IF x = k THEN v ELSE m[x]]
  BY DEF Put, Over

\* What a line does to the map: nothing, if the map has its key.
WithPair(m, line) ==
  IF First("=", line) = 0 \/ Before("=", line) \in DOMAIN m THEN m
  ELSE Put(m, Before("=", line), After("=", line))

\* The lines of a set of places with a pair, those for one key, and the map they make.
PairLines(lines, s) == {i \in s : First("=", lines[i]) # 0}
LinesFor(lines, s, k) == {i \in PairLines(lines, s) : Before("=", lines[i]) = k}
KeysOf(lines, s) == {Before("=", lines[i]) : i \in PairLines(lines, s)}
FirstOnes(lines, s) == [k \in KeysOf(lines, s) |-> After("=", lines[Min(LinesFor(lines, s, k))])]

\* The equation of the function in convertStringtoMap.
MapsOfSets(f, lines, n) ==
  f = [s \in SUBSET (1..n) |-> IF s = {} THEN NoPairs ELSE WithPair(f[s \ {Max(s)}], lines[Max(s)])]

\* A set of places that is not empty, and the same without the last.
LEMMA LastPlace ==
  ASSUME NEW n \in Nat, NEW s \in SUBSET (1..n), s # {}
  PROVE  /\ Max(s) \in s /\ Max(s) \in 1..n
         /\ s \ {Max(s)} \in SUBSET (1..n)
         /\ \A i \in s \ {Max(s)} : i < Max(s)
         /\ IsFiniteSet(s) /\ Cardinality(s) \in Nat
         /\ Cardinality(s \ {Max(s)}) = Cardinality(s) - 1
  <1>1. s \in SUBSET (0..n)
    OBVIOUS
  <1>2. Max(s) \in s /\ \A i \in s : i <= Max(s)
    BY <1>1, Extremes
  <1>3. IsFiniteSet(s) /\ Cardinality(s) \in Nat
    <2>1. IsFiniteSet(1..n)
      BY FS_Interval
    <2> QED
      BY <2>1, FS_Subset, FS_CardinalityType
  <1>4. Cardinality(s \ {Max(s)}) = Cardinality(s) - 1
    BY <1>2, <1>3, FS_RemoveElement
  <1>5. \A i \in s : i \in 1..n
    OBVIOUS
  <1>6. ASSUME NEW i \in s \ {Max(s)} PROVE i < Max(s)
    <2>1. PICK e : e = Max(s)
      OBVIOUS
    <2>2. e \in s /\ i \in s /\ i <= e /\ i # e
      BY <1>2, <2>1
    <2>3. i \in Int /\ e \in Int
      BY <1>5, <2>2
    <2> QED
      BY <2>1, <2>2, <2>3
  <1>7. s \ {Max(s)} \in SUBSET (1..n)
    BY <1>5
  <1> QED
    BY <1>2, <1>3, <1>4, <1>5, <1>6, <1>7

\* The first line for a key is one of them.
LEMMA FirstLineFor ==
  ASSUME NEW n \in Nat, NEW lines, NEW s \in SUBSET (1..n), NEW k \in KeysOf(lines, s)
  PROVE  /\ Min(LinesFor(lines, s, k)) \in LinesFor(lines, s, k)
         /\ \A i \in LinesFor(lines, s, k) : Min(LinesFor(lines, s, k)) <= i
  <1>1. LinesFor(lines, s, k) \in SUBSET (0..n) /\ LinesFor(lines, s, k) # {}
    BY DEF LinesFor, KeysOf, PairLines
  <1> QED
    BY <1>1, Extremes

\* One line more, after the others.
LEMMA OneLineLater ==
  ASSUME NEW n \in Nat, NEW lines, NEW s \in SUBSET (1..n), s # {}
  PROVE  FirstOnes(lines, s) = WithPair(FirstOnes(lines, s \ {Max(s)}), lines[Max(s)])
  <1> DEFINE e == Max(s)
             r == s \ {e}
             line == lines[e]
             old == FirstOnes(lines, r)
             key == Before("=", line)
  <1>1. e \in s /\ e \in 1..n /\ r \in SUBSET (1..n) /\ \A i \in r : i < e /\ i \in s
    BY LastPlace
  <1>2. s = r \union {e} /\ e \notin r
    BY <1>1
  <1>0. DOMAIN old = KeysOf(lines, r)
    BY DEF FirstOnes
  <1> HIDE DEF e, r
  <1>3. ASSUME NEW k \in KeysOf(lines, r)
        PROVE  Min(LinesFor(lines, s, k)) = Min(LinesFor(lines, r, k))
    <2> DEFINE a == Min(LinesFor(lines, r, k))
    <2>1. a \in LinesFor(lines, r, k) /\ \A i \in LinesFor(lines, r, k) : a <= i
      BY <1>1, <1>3, FirstLineFor
    <2> HIDE DEF a
    <2>2. a \in LinesFor(lines, s, k) /\ a <= e
      BY <1>1, <2>1 DEF LinesFor, PairLines
    <2>3. \A i \in LinesFor(lines, s, k) : a <= i
      BY <1>2, <2>1, <2>2 DEF LinesFor, PairLines
    <2>4. LinesFor(lines, s, k) \in SUBSET (0..n)
      <3>1. \A i \in s : i \in 0..n
        OBVIOUS
      <3> QED
        BY <3>1 DEF LinesFor, PairLines
    <2> QED
      BY <2>2, <2>3, <2>4, MinIs DEF a
  <1>4. CASE First("=", line) = 0
    <2>1. PairLines(lines, s) = PairLines(lines, r)
      BY <1>2, <1>4 DEF PairLines
    <2>2. KeysOf(lines, s) = KeysOf(lines, r)
      BY <2>1 DEF KeysOf
    <2>3. FirstOnes(lines, s) = old
      BY <1>3, <2>2 DEF FirstOnes
    <2> QED
      BY <1>4, <2>3 DEF WithPair, e, r
  <1>5. CASE First("=", line) # 0 /\ key \in KeysOf(lines, r)
    <2>1. PairLines(lines, s) = PairLines(lines, r) \union {e}
      BY <1>2, <1>5 DEF PairLines
    <2>2. KeysOf(lines, s) = KeysOf(lines, r)
      BY <1>5, <2>1 DEF KeysOf
    <2>3. FirstOnes(lines, s) = old
      BY <1>3, <2>2 DEF FirstOnes
    <2> QED
      BY <1>0, <1>5, <2>3 DEF WithPair, e, r
  <1>6. CASE First("=", line) # 0 /\ key \notin KeysOf(lines, r)
    <2>1. PairLines(lines, s) = PairLines(lines, r) \union {e}
      BY <1>2, <1>6 DEF PairLines
    <2>2. KeysOf(lines, s) = {key} \union KeysOf(lines, r)
      BY <2>1 DEF KeysOf
    <2>3. Min(LinesFor(lines, s, key)) = e
      <3>1. LinesFor(lines, s, key) = {e}
        BY <1>6, <2>1 DEF LinesFor, KeysOf
      <3>2. e \in {e} /\ {e} \in SUBSET (0..n) /\ \A i \in {e} : e <= i
        BY <1>1
      <3>3. Min({e}) = e
        BY <3>2, MinIs
      <3> QED
        BY <3>1, <3>3
    <2> DEFINE value == After("=", line)
    <2>4. FirstOnes(lines, s) = [k \in {key} \union DOMAIN old |-> IF k = key THEN value ELSE old[k]]
      <3>1. ASSUME NEW k \in {key} \union KeysOf(lines, r)
            PROVE  After("=", lines[Min(LinesFor(lines, s, k))]) = IF k = key THEN value ELSE old[k]
        <4>1. CASE k = key
          BY <2>3, <4>1
        <4>2. CASE k # key
          BY <1>3, <3>1, <4>2 DEF FirstOnes
        <4> QED
          BY <4>1, <4>2
      <3> HIDE DEF old, key, value
      <3> QED
        BY <1>0, <2>2, <3>1 DEF FirstOnes
    <2> HIDE DEF old, key, value
    <2>5. FirstOnes(lines, s) = Put(old, key, value)
      BY <2>4, PutIs
    <2> QED
      BY <1>0, <1>6, <2>5 DEF WithPair, old, key, value, e, r
  <1> QED
    BY <1>4, <1>5, <1>6

\* The map that the function gives for a set of places.
LEMMA MapsOfPlaces ==
  ASSUME NEW n \in Nat, NEW lines, NEW f, MapsOfSets(f, lines, n), NEW s \in SUBSET (1..n)
  PROVE  f[s] = FirstOnes(lines, s)
  <1> DEFINE wrong == {r \in SUBSET (1..n) : f[r] # FirstOnes(lines, r)}
             bad == {Cardinality(r) : r \in wrong}
  <1>0. ASSUME NEW r \in SUBSET (1..n)
        PROVE  f[r] = IF r = {} THEN NoPairs ELSE WithPair(f[r \ {Max(r)}], lines[Max(r)])
    <2>1. f[r] = [q \in SUBSET (1..n) |->
                    IF q = {} THEN NoPairs ELSE WithPair(f[q \ {Max(q)}], lines[Max(q)])][r]
      BY DEF MapsOfSets
    <2> QED
      BY <2>1
  <1> SUFFICES ASSUME s \in wrong PROVE FALSE
    OBVIOUS
  <1>1. bad \in SUBSET Nat /\ bad # {}
    <2>1. ASSUME NEW r \in wrong PROVE Cardinality(r) \in Nat
      <3>1. CASE r = {}
        BY <3>1, FS_EmptySet
      <3>2. CASE r # {}
        BY <3>2, LastPlace
      <3> QED
        BY <3>1, <3>2
    <2> QED
      BY <2>1
  <1>2. PICK c \in bad : \A d \in bad : c <= d
    <2> HIDE DEF bad
    <2> QED
      BY <1>1, Least
  <1>3. PICK r \in wrong : c = Cardinality(r)
    BY <1>2
  <1>4. r \in SUBSET (1..n) /\ f[r] # FirstOnes(lines, r)
    BY <1>3
  <1>5. CASE r = {}
    <2>1. f[r] = NoPairs
      BY <1>0, <1>4, <1>5
    <2>2. KeysOf(lines, {}) = {}
      BY DEF KeysOf, PairLines
    <2>3. FirstOnes(lines, r) = NoPairs
      BY <1>5, <2>2 DEF FirstOnes, NoPairs
    <2> QED
      BY <1>4, <2>1, <2>3
  <1>6. CASE r # {}
    <2> DEFINE q == r \ {Max(r)}
    <2>1. q \in SUBSET (1..n) /\ Cardinality(q) = Cardinality(r) - 1 /\ Cardinality(r) \in Nat
      BY <1>4, <1>6, LastPlace
    <2>2. q \notin wrong
      <3>1. ~(c <= Cardinality(q))
        BY <1>3, <2>1
      <3> QED
        BY <1>2, <3>1
    <2>3. f[q] = FirstOnes(lines, q)
      BY <2>1, <2>2
    <2>4. f[r] = WithPair(f[q], lines[Max(r)])
      BY <1>0, <1>4, <1>6
    <2>5. FirstOnes(lines, r) = WithPair(FirstOnes(lines, q), lines[Max(r)])
      BY <1>4, <1>6, OneLineLater
    <2> QED
      BY <1>4, <2>3, <2>4, <2>5
  <1> QED
    BY <1>5, <1>6

\* convertStringtoMap gives each key that a line has the value of the first line that has it;
\* a line without a "=" gives nothing.
THEOREM FirstLineWins ==
  ASSUME NEW S, NEW text \in Seq(S)
  PROVE  convertStringtoMap(text) = FirstOnes(Pieces("\n", text), DOMAIN Pieces("\n", text))
  <1> DEFINE lines == Pieces("\n", text)
             n == Len(lines)
             f == CHOOSE f : MapsOfSets(f, lines, n)
             g == [s \in SUBSET (1..n) |-> FirstOnes(lines, s)]
  <1>1. lines \in Seq(Seq(S))
    BY PiecesAre
  <1>2. n \in Nat /\ DOMAIN lines = 1..n
    <2> HIDE DEF lines
    <2> QED
      BY <1>1
  <1>3. convertStringtoMap(text) = f[DOMAIN lines]
    <2>1. convertStringtoMap(text) = FoldLeft(WithPair, NoPairs, lines)
      BY DEF convertStringtoMap, WithPair
    <2> HIDE DEF lines
    <2> QED
      BY <1>2, <2>1 DEF FoldLeft, MapThenFoldSet, MapsOfSets
  <1> HIDE DEF lines
  <1>4. MapsOfSets(g, lines, n)
    <2> SUFFICES ASSUME NEW s \in SUBSET (1..n)
                 PROVE  g[s] = IF s = {} THEN NoPairs ELSE WithPair(g[s \ {Max(s)}], lines[Max(s)])
      BY DEF MapsOfSets
    <2>1. CASE s = {}
      <3>1. KeysOf(lines, {}) = {}
        BY DEF KeysOf, PairLines
      <3> QED
        BY <2>1, <3>1 DEF FirstOnes, NoPairs
    <2>2. CASE s # {}
      <3>1. s \ {Max(s)} \in SUBSET (1..n)
        OBVIOUS
      <3>2. FirstOnes(lines, s) = WithPair(FirstOnes(lines, s \ {Max(s)}), lines[Max(s)])
        BY <1>2, <2>2, OneLineLater
      <3> QED
        BY <2>2, <3>1, <3>2
    <2> QED
      BY <2>1, <2>2
  <1> HIDE DEF g
  <1>5. MapsOfSets(f, lines, n)
    BY <1>4
  <1> HIDE DEF f
  <1>6. f[1..n] = FirstOnes(lines, 1..n)
    BY <1>2, <1>5, MapsOfPlaces
  <1> QED
    BY <1>2, <1>3, <1>6 DEF lines

\* A map whose names and values are plain comes back from its text as it was.
THEOREM PlainMapReturns ==
  ASSUME NEW S, "=" \in S, "\n" \in S, NEW m, IsTextMap(m, S), m = [k \in DOMAIN m |-> m[k]],
         PlainKeys(m) = DOMAIN m
  PROVE  convertStringtoMap(convertMaptoString(m)) = m
  <1> DEFINE text == convertMaptoString(m)
             lines == Pieces("\n", text)
             s == DOMAIN lines
  <1>1. text \in Seq(S)
    <2>1. IsTextOf(text, m, DOMAIN m, S)
      BY MapAsText, Zenon
    <2> QED
      BY <2>1 DEF IsTextOf
  <1>2. lines \in Seq(Seq(S)) /\ convertStringtoMap(text) = FirstOnes(lines, s)
    <2> HIDE DEF text
    <2> QED
      BY <1>1, PiecesAre, FirstLineWins
  <1>3. Lines(text) = PairsOf(m)
    BY PlainPairsArrive
  <1>4. Lines(text) = {<<Before("=", lines[i]), After("=", lines[i])>> : i \in PairLines(lines, s)}
    BY DEF Lines, ToSet, PairLines
  <1> HIDE DEF text, lines
  <1>5. Len(lines) \in Nat /\ s = 1..Len(lines)
    BY <1>2
  <1>6. KeysOf(lines, s) = DOMAIN m
    <2>1. ASSUME NEW i \in PairLines(lines, s) PROVE Before("=", lines[i]) \in DOMAIN m
      <3>1. <<Before("=", lines[i]), After("=", lines[i])>> \in PairsOf(m)
        BY <1>3, <1>4
      <3> QED
        BY <3>1 DEF PairsOf
    <2>2. ASSUME NEW k \in DOMAIN m PROVE \E i \in PairLines(lines, s) : Before("=", lines[i]) = k
      <3>1. <<k, m[k]>> \in Lines(text)
        BY <1>3 DEF PairsOf
      <3> QED
        BY <1>4, <3>1
    <2> QED
      BY <2>1, <2>2 DEF KeysOf
  <1>7. ASSUME NEW k \in DOMAIN m PROVE FirstOnes(lines, s)[k] = m[k]
    <2> DEFINE i == Min(LinesFor(lines, s, k))
    <2>1. i \in LinesFor(lines, s, k)
      BY <1>5, <1>6, FirstLineFor
    <2>2. FirstOnes(lines, s)[k] = After("=", lines[i])
      BY <1>6 DEF FirstOnes
    <2> HIDE DEF i
    <2>3. i \in PairLines(lines, s) /\ Before("=", lines[i]) = k
      BY <2>1 DEF LinesFor
    <2>4. <<k, After("=", lines[i])>> \in PairsOf(m)
      BY <1>3, <1>4, <2>3
    <2> QED
      BY <2>2, <2>4 DEF PairsOf
  <1>8. FirstOnes(lines, s) = [k \in DOMAIN m |-> FirstOnes(lines, s)[k]]
    BY <1>6 DEF FirstOnes
  <1>9. FirstOnes(lines, s) = m
    BY <1>7, <1>8
  <1> QED
    BY <1>2, <1>9 DEF text

----------------------------------- (* paths *) --------------------------------
\* The string in a buffer is what lies before its first terminator.
LEMMA CStringIs ==
  ASSUME NEW S, NEW buf \in Buffers(S), NEW n \in 0..CYBS_MAX_PATH,
         \A i \in 1..n : buf[i] # NUL,
         n < CYBS_MAX_PATH => buf[n + 1] = NUL
  PROVE  CString(buf) = SubSeq(buf, 1, n)
  <1>1. buf \in Seq(S) /\ Len(buf) = CYBS_MAX_PATH /\ CYBS_MAX_PATH \in Nat
    BY PathAssumption DEF Buffers
  <1> DEFINE Ends(m) == /\ \A i \in 1..m : buf[i] # NUL
                        /\ m < Len(buf) => buf[m + 1] = NUL
  <1>2. Ends(n) /\ n \in 0..Len(buf)
    BY <1>1
  <1>3. ASSUME NEW m \in 0..Len(buf), Ends(m) PROVE m = n
    <2>1. ~(m < n)
      BY <1>1, <1>3
    <2>2. ~(n < m)
      BY <1>1, <1>3
    <2> QED
      BY <2>1, <2>2, <1>1
  <1>4. (CHOOSE m \in 0..Len(buf) : Ends(m)) = n
    <2> HIDE DEF Ends
    <2> QED
      BY <1>2, <1>3
  <1> QED
    BY <1>4 DEF CString

\* A text with its terminator that fits into the buffer becomes the string in it.
LEMMA CopiedString ==
  ASSUME NEW S, NUL \in S, NEW buf \in Buffers(S), NEW t \in Seq(S \ {NUL}),
         Len(t) + 1 <= CYBS_MAX_PATH
  PROVE  /\ Copied(buf, t \o <<NUL>>) \in Buffers(S)
         /\ CString(Copied(buf, t \o <<NUL>>)) = t
  <1> DEFINE new == Copied(buf, t \o <<NUL>>)
  <1>1. CYBS_MAX_PATH \in Nat /\ Len(t) \in Nat /\ t \in Seq(S)
    BY PathAssumption
  <1>2. /\ t \o <<NUL>> \in Seq(S) /\ Len(t \o <<NUL>>) = Len(t) + 1
        /\ \A i \in 1..Len(t) : (t \o <<NUL>>)[i] = t[i] /\ t[i] # NUL
        /\ (t \o <<NUL>>)[Len(t) + 1] = NUL
    BY <1>1
  <1>3. DOMAIN buf = 1..CYBS_MAX_PATH /\ \A i \in 1..CYBS_MAX_PATH : buf[i] \in S
    BY DEF Buffers
  <1>4. /\ new = [i \in 1..CYBS_MAX_PATH |-> IF i <= Len(t) + 1 THEN (t \o <<NUL>>)[i] ELSE buf[i]]
    BY <1>2, <1>3 DEF Copied
  <1>5. new \in Buffers(S)
    <2>1. ASSUME NEW i \in 1..CYBS_MAX_PATH
          PROVE  (IF i <= Len(t) + 1 THEN (t \o <<NUL>>)[i] ELSE buf[i]) \in S
      BY <1>1, <1>2, <1>3
    <2> QED
      BY <1>4, <2>1 DEF Buffers
  <1>6. \A i \in 1..Len(t) : new[i] = t[i] /\ new[i] # NUL
    BY <1>1, <1>2, <1>4
  <1>7. new[Len(t) + 1] = NUL
    BY <1>1, <1>2, <1>4
  <1>8. CString(new) = SubSeq(new, 1, Len(t))
    <2>1. Len(t) \in 0..CYBS_MAX_PATH
      BY <1>1
    <2> HIDE DEF new
    <2> QED
      BY <1>5, <1>6, <1>7, <2>1, CStringIs
  <1>9. SubSeq(new, 1, Len(t)) = t
    <2>1. new \in Seq(S) /\ Len(new) = CYBS_MAX_PATH
      BY <1>5, <1>1 DEF Buffers
    <2> HIDE DEF new
    <2>2. SubSeq(new, 1, Len(t)) = [i \in 1..Len(t) |-> new[i]]
      BY <2>1, <1>1
    <2> QED
      BY <2>2, <1>6, <1>1
  <1> QED
    BY <1>5, <1>8, <1>9

\* A path of a directory that does not end in a separator keeps to the limit with whatever
\* extension was counted.
LEMMA PathLength ==
  ASSUME NEW S, DIR_SEPARATOR \in S, NEW dir \in Seq(S), dir # << >>, Last(dir) # DIR_SEPARATOR,
         NEW file \in Seq(S), NEW ext \in Seq(S),
         NEW add \in AddSeparator(dir), Fits(dir, add, file, ext)
  PROVE  Len(Path(dir, file)) \in Nat /\ Len(Path(dir, file)) + Len(ext) <= CYBS_MAX_PATH
  <1>1. add = TRUE
    BY DEF AddSeparator
  <1>2. Len(dir) \in Nat /\ Len(file) \in Nat /\ Len(ext) \in Nat
    OBVIOUS
  <1>3. dir \o <<DIR_SEPARATOR>> \in Seq(S) /\ Len(dir \o <<DIR_SEPARATOR>>) = Len(dir) + 1
    OBVIOUS
  <1>4. Len((dir \o <<DIR_SEPARATOR>>) \o file) = Len(dir) + 1 + Len(file)
    BY <1>2, <1>3
  <1>5. Path(dir, file) = (dir \o <<DIR_SEPARATOR>>) \o file
    BY DEF Path
  <1> QED
    BY <1>1, <1>2, <1>4, <1>5, PathAssumption DEF Fits, Width

\* The path is the directory, one separator and the file, whatever the buffer held before,
\* and nothing is written behind the buffer, if the directory does not end in a separator
\* and the path with its terminator has room.
THEOREM PathIsDirectoryAndFile ==
  ASSUME NEW S, NUL \in S, DIR_SEPARATOR \in S, NEW buf \in Buffers(S),
         NEW dir \in Seq(S \ {NUL}), dir # << >>, Last(dir) # DIR_SEPARATOR,
         NEW file \in Seq(S \ {NUL}),
         NEW add \in AddSeparator(dir), Len(Path(dir, file)) < CYBS_MAX_PATH
  PROVE  /\ ~Overruns(buf, dir, add, file)
         /\ getKeyFilePath(buf, dir, add, file) \in Buffers(S)
         /\ CString(getKeyFilePath(buf, dir, add, file)) = Path(dir, file)
  <1>1. add = TRUE
    BY DEF AddSeparator
  <1> DEFINE start == dir \o <<DIR_SEPARATOR>>
             first == CopyDir(buf, dir, add)
  <1>2. DIR_SEPARATOR # NUL
    BY DEF DIR_SEPARATOR, NUL
  <1>3. start \in Seq(S \ {NUL}) /\ Len(start) = Len(dir) + 1
    BY <1>2
  <1>4. Len(start) + Len(file) + 1 <= CYBS_MAX_PATH /\ Len(file) \in Nat
    <2>1. Len(file) \in Nat /\ Len(dir) \in Nat
      OBVIOUS
    <2>2. Path(dir, file) = start \o file
      BY DEF Path
    <2>3. Len(start \o file) = Len(start) + Len(file)
      BY <1>3
    <2> QED
      BY <2>1, <2>2, <2>3, <1>3, PathAssumption
  <1>5. dir \o <<DIR_SEPARATOR, NUL>> = start \o <<NUL>>
    <2> DEFINE one == dir \o <<DIR_SEPARATOR, NUL>>
               two == start \o <<NUL>>
    <2>1. dir \in Seq(S) /\ Len(dir) \in Nat
      OBVIOUS
    <2>2. /\ one \in Seq(S) /\ Len(one) = Len(dir) + 2
          /\ \A i \in 1..(Len(dir) + 2) :
               one[i] = IF i <= Len(dir) THEN dir[i] ELSE IF i = Len(dir) + 1 THEN DIR_SEPARATOR ELSE NUL
      BY <2>1
    <2>3. start \in Seq(S) /\ \A i \in 1..(Len(dir) + 1) :
               start[i] = IF i <= Len(dir) THEN dir[i] ELSE DIR_SEPARATOR
      BY <2>1
    <2>4. /\ two \in Seq(S) /\ Len(two) = Len(dir) + 2
          /\ \A i \in 1..(Len(dir) + 2) :
               two[i] = IF i <= Len(dir) THEN dir[i] ELSE IF i = Len(dir) + 1 THEN DIR_SEPARATOR ELSE NUL
      <3> HIDE DEF start
      <3> QED
        BY <2>1, <2>3, <1>3
    <2> HIDE DEF one, two
    <2>5. one = [i \in 1..(Len(dir) + 2) |-> one[i]] /\ two = [i \in 1..(Len(dir) + 2) |-> two[i]]
      BY <2>1, <2>2, <2>4
    <2>6. one = two
      BY <2>1, <2>2, <2>4, <2>5
    <2> QED
      BY <2>6 DEF one, two
  <1>6. first = Copied(buf, start \o <<NUL>>)
    BY <1>1, <1>5 DEF CopyDir
  <1>7. first \in Buffers(S) /\ CString(first) = start
    <2>1. Len(start) + 1 <= CYBS_MAX_PATH
      BY <1>3, <1>4, PathAssumption
    <2> HIDE DEF start
    <2> QED
      BY <1>3, <1>6, <2>1, CopiedString
  <1>8. start \o file \in Seq(S \ {NUL}) /\ Len(start \o file) = Len(start) + Len(file)
    BY <1>3
  <1>9. getKeyFilePath(buf, dir, add, file) = Copied(first, (start \o file) \o <<NUL>>)
    BY <1>7, <1>3 DEF getKeyFilePath
  <1>10. start \o file = Path(dir, file)
    BY DEF Path
  <1>11. /\ Copied(first, (start \o file) \o <<NUL>>) \in Buffers(S)
         /\ CString(Copied(first, (start \o file) \o <<NUL>>)) = start \o file
    <2>1. Len(start \o file) + 1 <= CYBS_MAX_PATH
      BY <1>8, <1>4
    <2> HIDE DEF start, first
    <2> QED
      BY <1>7, <1>8, <2>1, CopiedString
  <1>12. ~Overruns(buf, dir, add, file)
    BY <1>3, <1>4, <1>7, PathAssumption DEF Overruns
  <1> QED
    BY <1>9, <1>10, <1>11, <1>12
================================================================================
