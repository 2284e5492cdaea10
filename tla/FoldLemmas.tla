------------------------------- MODULE FoldLemmas ------------------------------
(***************************************************************************)
(* What the recursive operators of the community modules compute, as far   *)
(* as the proofs need it.  Such an operator is a function chosen by its    *)
(* equation: that there is one is proved from below, as a set of natural   *)
(* numbers that is not empty has a least element.                          *)
(***************************************************************************)
EXTENDS Integers, SequencesExt, WellFoundedInduction, TLAPS

\* A set of natural numbers that is not empty has a least element.
LEMMA Least ==
  ASSUME NEW S \in SUBSET Nat, S # {}
  PROVE  \E b \in S : \A c \in S : b <= c
  <1>1. PICK b \in S : \A c \in S : ~(<<c, b>> \in OpToRel(<, Nat))
    BY NatLessThanWellFounded, WFMin
  <1>2. \A c \in S : ~(c < b)
    BY <1>1 DEF OpToRel
  <1> QED
    BY <1>2

\* Min and Max are elements of a set of natural numbers below a bound.
LEMMA Extremes ==
  ASSUME NEW n \in Nat, NEW S \in SUBSET (0..n), S # {}
  PROVE  /\ Min(S) \in S /\ \A c \in S : Min(S) <= c
         /\ Max(S) \in S /\ \A c \in S : c <= Max(S)
  <1>1. \E b \in S : \A c \in S : b <= c
    <2>1. S \in SUBSET Nat
      OBVIOUS
    <2> QED
      BY <2>1, Least
  <1>2. \E b \in S : \A c \in S : b >= c
    <2> DEFINE T == {n - c : c \in S}
    <2>1. T \in SUBSET Nat /\ T # {}
      <3>1. \A c \in S : n - c \in Nat
        OBVIOUS
      <3> QED
        BY <3>1
    <2>2. PICK b \in T : \A c \in T : b <= c
      <3> HIDE DEF T
      <3> QED
        BY <2>1, Least
    <2>3. PICK a \in S : b = n - a
      OBVIOUS
    <2>4. ASSUME NEW c \in S PROVE a >= c
      <3>1. n - a <= n - c
        BY <2>2, <2>3
      <3> QED
        BY <3>1
    <2> QED
      BY <2>4
  <1>3. Min(S) \in S /\ \A c \in S : Min(S) <= c
    BY <1>1 DEF Min
  <1>4. Max(S) \in S /\ \A c \in S : Max(S) >= c
    BY <1>2 DEF Max
  <1> QED
    BY <1>3, <1>4

\* The greatest element is Max.
LEMMA MaxIs ==
  ASSUME NEW n \in Nat, NEW S \in SUBSET (0..n), NEW m \in S, \A c \in S : c <= m
  PROVE  Max(S) = m
  <1>1. Max(S) \in S /\ m <= Max(S)
    BY Extremes
  <1>2. Max(S) <= m
    BY <1>1
  <1>3. \A c \in S : c \in Nat
    OBVIOUS
  <1>4. m \in Nat /\ Max(S) \in Nat
    BY <1>1, <1>3
  <1> QED
    BY <1>1, <1>2, <1>4

\* The least element is Min.
LEMMA MinIs ==
  ASSUME NEW n \in Nat, NEW S \in SUBSET (0..n), NEW m \in S, \A c \in S : m <= c
  PROVE  Min(S) = m
  <1>1. Min(S) \in S /\ Min(S) <= m
    BY Extremes
  <1>2. m <= Min(S)
    BY <1>1
  <1>3. \A c \in S : c \in Nat
    OBVIOUS
  <1>4. m \in Nat /\ Min(S) \in Nat
    BY <1>1, <1>3
  <1> QED
    BY <1>1, <1>2, <1>4

--------------------------------------------------------------------------------
\* The equation of the function in FlattenSeq, for the first m elements of s.
Joined(x, y) == x \o y
Flattened(f, s, m) ==
  f = [i \in 1..m |-> IF i = 1 THEN s[i] ELSE Joined(f[i - 1], s[i])]

\* The elements of two sequences, one after the other.
LEMMA JoinedElements ==
  ASSUME NEW E, NEW x \in Seq(E), NEW y \in Seq(E)
  PROVE  /\ Joined(x, y) \in Seq(E) /\ Len(Joined(x, y)) = Len(x) + Len(y)
         /\ \A i \in 1..Len(x) : Joined(x, y)[i] = x[i]
         /\ \A i \in 1..Len(y) : Joined(x, y)[Len(x) + i] = y[i]
         /\ ToSet(Joined(x, y)) = ToSet(x) \union ToSet(y)
  <1> DEFINE z == x \o y
  <1>1. /\ z \in Seq(E) /\ Len(z) = Len(x) + Len(y) /\ Len(x) \in Nat /\ Len(y) \in Nat
        /\ \A i \in 1..Len(x) : z[i] = x[i]
        /\ \A i \in 1..Len(y) : z[Len(x) + i] = y[i]
    OBVIOUS
  <1> HIDE DEF z
  <1>2. ToSet(z) = ToSet(x) \union ToSet(y)
    <2>1. ASSUME NEW i \in DOMAIN z PROVE z[i] \in ToSet(x) \union ToSet(y)
      <3>1. CASE i \in 1..Len(x)
        BY <1>1, <3>1 DEF ToSet
      <3>2. CASE i \notin 1..Len(x)
        <4>1. i - Len(x) \in 1..Len(y) /\ Len(x) + (i - Len(x)) = i
          BY <1>1, <3>2
        <4> QED
          BY <1>1, <4>1 DEF ToSet
      <3> QED
        BY <3>1, <3>2
    <2>2. ASSUME NEW i \in DOMAIN x PROVE x[i] \in ToSet(z)
      <3>1. i \in DOMAIN z /\ z[i] = x[i]
        <4>1. i \in 1..Len(x) /\ DOMAIN z = 1..Len(z)
          BY <1>1
        <4> QED
          BY <1>1, <4>1
      <3> QED
        BY <3>1 DEF ToSet
    <2>3. ASSUME NEW i \in DOMAIN y PROVE y[i] \in ToSet(z)
      <3>1. Len(x) + i \in DOMAIN z /\ z[Len(x) + i] = y[i]
        <4>1. i \in 1..Len(y) /\ DOMAIN z = 1..Len(z)
          BY <1>1
        <4> QED
          BY <1>1, <4>1
      <3> QED
        BY <3>1 DEF ToSet
    <2> QED
      BY <2>1, <2>2, <2>3 DEF ToSet
  <1> QED
    BY <1>1, <1>2 DEF Joined, z

\* The equation at one place.
LEMMA FlattenedAt ==
  ASSUME NEW m \in Int, NEW f, NEW s, Flattened(f, s, m), NEW i \in 1..m
  PROVE  f[i] = IF i = 1 THEN s[i] ELSE Joined(f[i - 1], s[i])
  <1>1. f[i] = [j \in 1..m |-> IF j = 1 THEN s[j] ELSE Joined(f[j - 1], s[j])][i]
    BY DEF Flattened
  <1> QED
    BY <1>1

\* A value more.
OneMore(f, s, m) ==
  [i \in 1..m |-> IF i = m THEN IF i = 1 THEN s[i] ELSE Joined(f[i - 1], s[i]) ELSE f[i]]

LEMMA FlattenedOneMore ==
  ASSUME NEW m \in Nat, m # 0, NEW s, NEW f, Flattened(f, s, m - 1)
  PROVE  Flattened(OneMore(f, s, m), s, m)
  <1> DEFINE g == OneMore(f, s, m)
  <1> SUFFICES ASSUME NEW i \in 1..m PROVE g[i] = IF i = 1 THEN s[i] ELSE Joined(g[i - 1], s[i])
    BY DEF Flattened, OneMore
  <1>1. i # 1 => g[i - 1] = f[i - 1]
    BY DEF OneMore
  <1>2. ASSUME i # m PROVE f[i] = IF i = 1 THEN s[i] ELSE Joined(f[i - 1], s[i])
    <2>1. i \in 1..(m - 1) /\ m - 1 \in Int
      BY <1>2
    <2> QED
      BY <2>1, FlattenedAt
  <1> QED
    BY <1>1, <1>2 DEF OneMore

\* There is such a function, of sequences.
LEMMA FlattenedExists ==
  ASSUME NEW E, NEW n \in Nat, NEW s \in [1..n -> Seq(E)]
  PROVE  \E f \in [1..n -> Seq(E)] : Flattened(f, s, n)
  <1> DEFINE P(m) == \E f \in [1..m -> Seq(E)] : Flattened(f, s, m)
             bad == {m \in 0..n : ~P(m)}
  <1> SUFFICES ASSUME ~P(n) PROVE FALSE
    OBVIOUS
  <1>1. n \in bad
    OBVIOUS
  <1>2. PICK m \in bad : \A c \in bad : m <= c
    <2>1. bad \in SUBSET Nat /\ bad # {}
      BY <1>1
    <2> HIDE DEF bad
    <2> QED
      BY <2>1, Least
  <1>3. m \in 0..n /\ ~P(m)
    OBVIOUS
  <1>4. m # 0
    <2>1. [i \in 1..0 |-> IF i = 1 THEN s[i] ELSE << >>] \in [1..0 -> Seq(E)]
      OBVIOUS
    <2>2. ASSUME NEW f \in [1..0 -> Seq(E)] PROVE Flattened(f, s, 0)
      BY DEF Flattened
    <2> QED
      BY <1>3, <2>1, <2>2
  <1>5. PICK f : f \in [1..(m - 1) -> Seq(E)] /\ Flattened(f, s, m - 1)
    <2>1. m - 1 \in 0..n /\ ~(m <= m - 1)
      BY <1>3, <1>4
    <2> QED
      BY <1>2, <2>1
  <1> DEFINE g == OneMore(f, s, m)
  <1>6. g \in [1..m -> Seq(E)]
    <2> SUFFICES ASSUME NEW i \in 1..m
                 PROVE  (IF i = m THEN IF i = 1 THEN s[i] ELSE Joined(f[i - 1], s[i]) ELSE f[i]) \in Seq(E)
      BY DEF OneMore
    <2>1. s[i] \in Seq(E)
      BY <1>3
    <2>2. i # m => f[i] \in Seq(E)
      BY <1>3, <1>5
    <2>3. i # 1 /\ i = m => f[i - 1] \in Seq(E)
      BY <1>3, <1>5
    <2>4. \A x, y \in Seq(E) : Joined(x, y) \in Seq(E)
      BY DEF Joined
    <2> QED
      BY <2>1, <2>2, <2>3, <2>4
  <1>7. Flattened(g, s, m)
    <2>1. m \in Nat
      BY <1>3
    <2> HIDE DEF P, bad
    <2> QED
      BY <1>4, <1>5, <2>1, FlattenedOneMore
  <1> QED
    BY <1>3, <1>6, <1>7

\* Two of them agree as far as both go.
LEMMA FlattenedAgree ==
  ASSUME NEW m \in Nat, NEW n \in Nat, m <= n, NEW s, NEW t, \A i \in 1..m : s[i] = t[i],
         NEW f, NEW g, Flattened(f, s, m), Flattened(g, t, n), NEW i \in 1..m
  PROVE  f[i] = g[i]
  <1> DEFINE bad == {j \in 1..m : f[j] # g[j]}
  <1> SUFFICES ASSUME bad # {} PROVE FALSE
    OBVIOUS
  <1>1. PICK j \in bad : \A c \in bad : j <= c
    <2>1. bad \in SUBSET Nat
      OBVIOUS
    <2> HIDE DEF bad
    <2> QED
      BY <2>1, Least
  <1>2. j \in 1..m /\ j \in 1..n /\ f[j] # g[j]
    OBVIOUS
  <1>3. /\ f[j] = IF j = 1 THEN s[j] ELSE Joined(f[j - 1], s[j])
        /\ g[j] = IF j = 1 THEN t[j] ELSE Joined(g[j - 1], t[j])
    BY <1>2, FlattenedAt
  <1>4. CASE j = 1
    BY <1>2, <1>3, <1>4
  <1>5. CASE j # 1
    <2>1. j - 1 \in 1..m /\ ~(j <= j - 1)
      BY <1>2, <1>5
    <2>2. f[j - 1] = g[j - 1]
      BY <1>1, <2>1
    <2> QED
      BY <1>2, <1>3, <1>5, <2>2
  <1> QED
    BY <1>4, <1>5

\* The last of one that goes one further.
LEMMA FlattenedNext ==
  ASSUME NEW n \in Nat, n # 0, NEW s, NEW t, \A i \in 1..n : s[i] = t[i],
         NEW f, NEW g, Flattened(f, s, n), Flattened(g, t, n + 1)
  PROVE  g[n + 1] = Joined(f[n], t[n + 1])
  <1>1. g[n + 1] = Joined(g[(n + 1) - 1], t[n + 1])
    <2>1. n + 1 \in 1..(n + 1) /\ n + 1 # 1 /\ n + 1 \in Int
      OBVIOUS
    <2> QED
      BY <2>1, FlattenedAt
  <1>2. f[n] = g[n]
    <2>1. n \in 1..n /\ n + 1 \in Nat /\ n <= n + 1
      OBVIOUS
    <2> QED
      BY <2>1, FlattenedAgree
  <1> QED
    BY <1>1, <1>2

\* What FlattenSeq is: the last value of that function.
LEMMA FlattenIs ==
  ASSUME NEW E, NEW s \in Seq(Seq(E))
  PROVE  /\ FlattenSeq(s) \in Seq(E)
         /\ s = << >> => FlattenSeq(s) = << >>
         /\ s # << >> => \E f \in [1..Len(s) -> Seq(E)] :
                           Flattened(f, s, Len(s)) /\ FlattenSeq(s) = f[Len(s)]
  <1>1. CASE s = << >>
    <2>1. FlattenSeq(s) = << >>
      BY <1>1 DEF FlattenSeq
    <2>2. << >> \in Seq(E)
      OBVIOUS
    <2> QED
      BY <1>1, <2>1, <2>2
  <1>2. CASE s # << >>
    <2>1. Len(s) \in Nat /\ Len(s) # 0 /\ s \in [1..Len(s) -> Seq(E)] /\ Len(s) \in 1..Len(s)
      BY <1>2
    <2> DEFINE f == CHOOSE f : Flattened(f, s, Len(s))
    <2>2. PICK g \in [1..Len(s) -> Seq(E)] : Flattened(g, s, Len(s))
      BY <2>1, FlattenedExists
    <2>3. Flattened(f, s, Len(s))
      BY <2>2
    <2>4. f = [i \in 1..Len(s) |-> IF i = 1 THEN s[i] ELSE Joined(f[i - 1], s[i])]
      BY <2>3 DEF Flattened
    <2>5. \A i \in 1..Len(s) : f[i] = g[i]
      <3> HIDE DEF f
      <3> QED
        BY <2>1, <2>2, <2>3, FlattenedAgree
    <2>6. f \in [1..Len(s) -> Seq(E)]
      <3> HIDE DEF f
      <3> QED
        BY <2>2, <2>4, <2>5
    <2>7. FlattenSeq(s) = f[Len(s)]
      BY <2>1 DEF FlattenSeq, Flattened, Joined
    <2> HIDE DEF f
    <2> QED
      BY <1>2, <2>1, <2>3, <2>6, <2>7
  <1> QED
    BY <1>1, <1>2

\* One more sequence comes at the end.
LEMMA FlattenAppend ==
  ASSUME NEW E, NEW s \in Seq(Seq(E)), NEW x \in Seq(E)
  PROVE  FlattenSeq(Append(s, x)) = FlattenSeq(s) \o x
  <1> DEFINE t == Append(s, x)
             n == Len(s)
  <1>1. /\ n \in Nat /\ t \in Seq(Seq(E)) /\ Len(t) = n + 1 /\ t[n + 1] = x /\ t # << >>
        /\ \A i \in 1..n : s[i] = t[i]
    OBVIOUS
  <1>0. n + 1 \in 1..(n + 1) /\ n + 1 \in Nat /\ n + 1 \in Int /\ n <= n + 1 /\ (n + 1) - 1 = n
    BY <1>1
  <1>2. PICK g : Flattened(g, t, n + 1) /\ FlattenSeq(t) = g[n + 1]
    <2> HIDE DEF t
    <2> QED
      BY <1>1, FlattenIs
  <1>3. g[n + 1] = IF n + 1 = 1 THEN x ELSE Joined(g[n], x)
    <2> HIDE DEF t, n
    <2> QED
      BY <1>0, <1>1, <1>2, FlattenedAt
  <1>4. CASE s = << >>
    <2>1. FlattenSeq(s) = << >>
      BY <1>4, FlattenIs
    <2>2. n + 1 = 1 /\ << >> \o x = x
      BY <1>4
    <2> QED
      BY <1>2, <1>3, <2>1, <2>2
  <1>5. CASE s # << >>
    <2>1. PICK f : Flattened(f, s, n) /\ FlattenSeq(s) = f[n]
      BY <1>5, FlattenIs
    <2>2. n # 0
      BY <1>1, <1>5
    <2> DEFINE u == FlattenSeq(s)
    <2>4. FlattenSeq(t) = Joined(u, x)
      <3> HIDE DEF t, n
      <3>1. n \in Nat /\ t[n + 1] = x /\ \A i \in 1..n : s[i] = t[i]
        BY <1>1
      <3>2. Flattened(f, s, n) /\ Flattened(g, t, n + 1)
        BY <1>2, <2>1
      <3>3. g[n + 1] = Joined(f[n], t[n + 1])
        BY <2>2, <3>1, <3>2, FlattenedNext, ZenonT(30)
      <3> QED
        BY <1>2, <2>1, <3>1, <3>3, Zenon
    <2> HIDE DEF u
    <2>5. FlattenSeq(t) = u \o x
      BY <2>4 DEF Joined
    <2> QED
      BY <2>5 DEF u
  <1> QED
    BY <1>4, <1>5

\* The elements of its values.
Sequences(f, n, E) == \A i \in 1..n : f[i] \in Seq(E)
Among(e, f, s, m) == e \in ToSet(f[m]) <=> \E i \in 1..m : e \in ToSet(s[i])

LEMMA FlattenedElements ==
  ASSUME NEW E, NEW n \in Nat, NEW s, NEW f, Flattened(f, s, n),
         Sequences(s, n, E), Sequences(f, n, E), NEW e, NEW m \in 1..n
  PROVE  Among(e, f, s, m)
  <1> DEFINE bad == {j \in 1..n : ~Among(e, f, s, j)}
  <1>1. ASSUME NEW j \in 1..n PROVE f[j] = IF j = 1 THEN s[j] ELSE Joined(f[j - 1], s[j])
    BY FlattenedAt
  <1>2. ASSUME NEW x \in Seq(E), NEW y \in Seq(E) PROVE ToSet(Joined(x, y)) = ToSet(x) \union ToSet(y)
    BY JoinedElements
  <1> SUFFICES ASSUME bad # {} PROVE FALSE
    OBVIOUS
  <1>3. PICK j \in bad : \A c \in bad : j <= c
    <2>1. bad \in SUBSET Nat
      OBVIOUS
    <2> HIDE DEF bad
    <2> QED
      BY <2>1, Least
  <1>4. j \in 1..n /\ ~Among(e, f, s, j)
    OBVIOUS
  <1>5. CASE j = 1
    BY <1>1, <1>4, <1>5 DEF Among
  <1>6. CASE j # 1
    <2>1. j - 1 \in 1..n /\ ~(j <= j - 1) /\ 1..j = (1..(j - 1)) \union {j}
      BY <1>4, <1>6
    <2>2. Among(e, f, s, j - 1)
      BY <1>3, <2>1
    <2>3. e \in ToSet(f[j]) <=> e \in ToSet(f[j - 1]) \/ e \in ToSet(s[j])
      <3>1. f[j] = Joined(f[j - 1], s[j])
        BY <1>1, <1>4, <1>6
      <3>2. ToSet(Joined(f[j - 1], s[j])) = ToSet(f[j - 1]) \union ToSet(s[j])
        BY <1>2, <1>4, <2>1, Zenon DEF Sequences
      <3> QED
        BY <3>1, <3>2, Zenon
    <2> QED
      BY <1>4, <2>1, <2>2, <2>3 DEF Among
  <1> QED
    BY <1>5, <1>6

\* Its elements are those of the sequences.
LEMMA FlattenElements ==
  ASSUME NEW E, NEW s \in Seq(Seq(E)), NEW e
  PROVE  e \in ToSet(FlattenSeq(s)) <=> \E i \in DOMAIN s : e \in ToSet(s[i])
  <1>1. CASE s = << >>
    <2>1. FlattenSeq(s) = << >>
      BY <1>1, FlattenIs
    <2> QED
      BY <1>1, <2>1 DEF ToSet
  <1>2. CASE s # << >>
    <2>0. PICK n : n = Len(s)
      OBVIOUS
    <2>1. n \in Nat /\ n \in 1..n /\ DOMAIN s = 1..n /\ Sequences(s, n, E)
      BY <1>2, <2>0 DEF Sequences
    <2>2. PICK f : f \in [1..n -> Seq(E)] /\ Flattened(f, s, n) /\ FlattenSeq(s) = f[n]
      BY <1>2, <2>0, FlattenIs
    <2>3. Sequences(f, n, E)
      BY <2>2 DEF Sequences
    <2>4. Among(e, f, s, n)
      BY <2>1, <2>2, <2>3, FlattenedElements, Zenon
    <2> QED
      BY <2>1, <2>2, <2>4, Zenon DEF Among
  <1> QED
    BY <1>1, <1>2

\* What is before the last element of a sequence, and another element in the last's place.
AllButLast(s) == [i \in 1..(Len(s) - 1) |-> s[i]]

LEMMA LastReplaced ==
  ASSUME NEW V, NEW s \in Seq(V), s # << >>, NEW y \in V
  PROVE  AllButLast(s) \in Seq(V) /\ [s EXCEPT ![Len(s)] = y] = Append(AllButLast(s), y)
  <1>1. Len(s) \in Nat /\ Len(s) # 0
    OBVIOUS
  <1>2. AllButLast(s) \in Seq(V) /\ Len(AllButLast(s)) = Len(s) - 1
    BY <1>1 DEF AllButLast
  <1> DEFINE t == [s EXCEPT ![Len(s)] = y]
             u == Append(AllButLast(s), y)
  <1>3. t \in Seq(V) /\ Len(t) = Len(s) /\ u \in Seq(V) /\ Len(u) = Len(s)
    BY <1>1, <1>2
  <1>4. \A i \in 1..Len(s) : t[i] = u[i]
    BY <1>1, <1>2 DEF AllButLast
  <1>5. t = u
    <2> HIDE DEF t, u
    <2> QED
      BY <1>3, <1>4
  <1> QED
    BY <1>2, <1>5

\* One more element comes at the end of the last sequence.
LEMMA FlattenLast ==
  ASSUME NEW E, NEW s \in Seq(Seq(E)), s # << >>, NEW e \in E,
         NEW t, t = [s EXCEPT ![Len(s)] = Append(s[Len(s)], e)]
  PROVE  FlattenSeq(t) = Append(FlattenSeq(s), e)
  <1> DEFINE last == s[Len(s)]
             y == Append(last, e)
             front == AllButLast(s)
             u == FlattenSeq(front)
  <1>1. last \in Seq(E) /\ y \in Seq(E)
    OBVIOUS
  <1>2. s = [s EXCEPT ![Len(s)] = last]
    OBVIOUS
  <1> HIDE DEF last, front
  <1>3. t = [s EXCEPT ![Len(s)] = y]
    BY DEF last
  <1> HIDE DEF y
  <1>4. front \in Seq(Seq(E)) /\ s = Append(front, last) /\ t = Append(front, y)
    <2>1. /\ front \in Seq(Seq(E)) /\ [s EXCEPT ![Len(s)] = last] = Append(front, last)
          /\ [s EXCEPT ![Len(s)] = y] = Append(front, y)
      BY <1>1, LastReplaced, Zenon DEF front
    <2> QED
      BY <1>2, <1>3, <2>1, Zenon
  <1>5. FlattenSeq(s) = u \o last /\ FlattenSeq(t) = u \o y
    BY <1>1, <1>4, FlattenAppend, Zenon
  <1>6. u \in Seq(E)
    BY <1>4, FlattenIs
  <1> HIDE DEF u
  <1>7. u \o y = Append(u \o last, e)
    BY <1>1, <1>6 DEF y
  <1> QED
    BY <1>5, <1>7
================================================================================
