---------------------------- MODULE ScmpBridgeProofs ----------------------------
(***************************************************************************)
(* For all messages, files, replies, tables and buffers: cybs.ini is       *)
(* loaded as it is written, line by line; the certificates and the key are *)
(* looked for where it says; the service executes what the message means;  *)
(* and the response is what this payment was answered.                     *)
(***************************************************************************)
EXTENDS ScmpBridge, TextProofs

---------------------------------- (* texts *) ---------------------------------
\* The elements of a sequence, one alone, and one more.
LEMMA Elements ==
  ASSUME NEW S, NEW t \in Seq(S)
  PROVE  Len(t) \in Nat /\ DOMAIN t = 1..Len(t) /\ \A i \in 1..Len(t) : t[i] \in S
  OBVIOUS

LEMMA OneElement ==
  ASSUME NEW S, NEW x \in S
  PROVE  <<x>> \in Seq(S)
  OBVIOUS

OneLonger(t, x, u) ==
  /\ DOMAIN u = 1..(Len(t) + 1) /\ u[Len(t) + 1] = x
  /\ \A i \in 1..Len(t) : u[i] = t[i]
  /\ u = [i \in 1..(Len(t) + 1) |-> IF i = Len(t) + 1 THEN x ELSE t[i]]

LEMMA AppendIs ==
  ASSUME NEW S, NEW t \in Seq(S), NEW x \in S
  PROVE  OneLonger(t, x, Append(t, x))
  <1> DEFINE u == Append(t, x)
  <1>1. /\ u \in Seq(S) /\ Len(u) = Len(t) + 1 /\ Len(t) \in Nat
        /\ u[Len(t) + 1] = x /\ \A i \in 1..Len(t) : u[i] = t[i]
    OBVIOUS
  <1> HIDE DEF u
  <1>2. DOMAIN u = 1..(Len(t) + 1)
    BY <1>1
  <1>3. \A i \in 1..(Len(t) + 1) : u[i] = IF i = Len(t) + 1 THEN x ELSE t[i]
    BY <1>1
  <1>4. u = [i \in 1..(Len(t) + 1) |-> u[i]]
    BY <1>1, <1>2
  <1>5. u = [i \in 1..(Len(t) + 1) |-> IF i = Len(t) + 1 THEN x ELSE t[i]]
    BY <1>3, <1>4
  <1> QED
    BY <1>1, <1>2, <1>5 DEF OneLonger, u

\* What is taken out of a text is a text.
LEMMA PartTyping ==
  ASSUME NEW S, NEW t \in Seq(S), NEW c
  PROVE  Before(c, t) \in Seq(S) /\ After(c, t) \in Seq(S) /\ trim(t) \in Seq(S)
  <1>1. Len(t) \in Nat
    OBVIOUS
  <1>2. Before(c, t) \in Seq(S) /\ After(c, t) \in Seq(S)
    BY SidesTyping
  <1>3. trim(t) \in Seq(S)
    <2> DEFINE kept == {i \in DOMAIN t : t[i] \notin isspace}
    <2>1. kept \in SUBSET (0..Len(t)) /\ kept \subseteq 1..Len(t)
      OBVIOUS
    <2>2. CASE kept = {}
      BY <2>2 DEF trim
    <2>3. CASE kept # {}
      <3>1. Min(kept) \in kept /\ Max(kept) \in kept
        <4> HIDE DEF kept
        <4> QED
          BY <1>1, <2>1, <2>3, Extremes
      <3>2. Min(kept) \in 1..Len(t) /\ Max(kept) \in 1..Len(t)
        <4> HIDE DEF kept
        <4> QED
          BY <3>1, <2>1
      <3>3. SubSeq(t, Min(kept), Max(kept)) \in Seq(S)
        <4> HIDE DEF kept
        <4> QED
          BY <3>2
      <3> QED
        BY <2>3, <3>3 DEF trim
    <2> QED
      BY <2>2, <2>3
  <1> QED
    BY <1>2, <1>3

------------------------------- (* configuration *) ----------------------------
\* The lines that give a value, and what a file says, by its lines.
Giving(lines) == {i \in DOMAIN lines : IsPair(lines[i])}
LastFor(lines, n) == Max({i \in Giving(lines) : Name(lines[i]) = n})

\* What a file says, name by name.
LEMMA WrittenIs ==
  ASSUME NEW lines
  PROVE  Written(lines) = [n \in {Name(lines[i]) : i \in Giving(lines)} |-> Value(lines[LastFor(lines, n)])]
  BY DEF Written, Giving, LastFor

\* A file with no line says nothing.
LEMMA WrittenNothing == Written(<< >>) = NoPairs
  <1>1. Giving(<< >>) = {}
    BY DEF Giving
  <1>2. {Name(<< >>[i]) : i \in Giving(<< >>)} = {}
    BY <1>1
  <1>3. Written(<< >>) = [n \in {} |-> Value(<< >>[LastFor(<< >>, n)])]
    BY <1>2, WrittenIs
  <1> QED
    BY <1>3 DEF NoPairs

\* A file with one more line says what that line does to what it said before.
LEMMA WrittenWithLine ==
  ASSUME NEW S, NEW lines \in Seq(S), NEW line \in S
  PROVE  Written(Append(lines, line)) = LoadLine(line, Written(lines))
  <1> DEFINE new == Append(lines, line)
             end == Len(lines) + 1
             Of(n) == {i \in Giving(lines) : Name(lines[i]) = n}
             NewOf(n) == {i \in Giving(new) : Name(new[i]) = n}
             names == {Name(lines[i]) : i \in Giving(lines)}
             newNames == {Name(new[i]) : i \in Giving(new)}
  <1>1. /\ DOMAIN new = DOMAIN lines \union {end} /\ end \notin DOMAIN lines
        /\ new[end] = line /\ \A i \in DOMAIN lines : new[i] = lines[i] /\ i < end
        /\ end \in Nat
    OBVIOUS
  <1>2. CASE ~IsPair(line)
    <2>1. Giving(new) = Giving(lines)
      BY <1>1, <1>2 DEF Giving
    <2>2. \A i \in Giving(lines) : new[i] = lines[i]
      BY <1>1 DEF Giving
    <2>3. newNames = names
      BY <2>1, <2>2
    <2>4. ASSUME NEW n \in names PROVE new[LastFor(new, n)] = lines[LastFor(lines, n)]
      <3>1. NewOf(n) = Of(n)
        BY <2>1, <2>2
      <3>2. LastFor(new, n) = LastFor(lines, n)
        BY <3>1 DEF LastFor
      <3>3. Of(n) # {} /\ Of(n) \in SUBSET (0..end)
        BY <1>1 DEF Giving
      <3>4. Max(Of(n)) \in Of(n)
        <4> HIDE DEF Of
        <4> QED
          BY <1>1, <3>3, Extremes
      <3> QED
        BY <2>2, <3>2, <3>4 DEF LastFor
    <2>5. Written(new) = Written(lines)
      <3> HIDE DEF new, names
      <3>1. Written(new) = [n \in names |-> Value(new[LastFor(new, n)])]
        BY <2>3, WrittenIs
      <3>2. Written(lines) = [n \in names |-> Value(lines[LastFor(lines, n)])]
        BY WrittenIs DEF names
      <3> QED
        BY <3>1, <3>2, <2>4
    <2> QED
      BY <2>5, <1>2 DEF LoadLine
  <1>3. CASE IsPair(line)
    <2>1. Giving(new) = Giving(lines) \union {end}
      BY <1>1, <1>3 DEF Giving
    <2>2. \A i \in Giving(lines) : new[i] = lines[i] /\ i # end
      BY <1>1 DEF Giving
    <2>3. newNames = {Name(line)} \union names
      BY <2>1, <2>2, <1>1
    <2>4. LastFor(new, Name(line)) = end
      <3>1. /\ end \in NewOf(Name(line)) /\ NewOf(Name(line)) \in SUBSET (0..end)
            /\ \A i \in NewOf(Name(line)) : i <= end
        BY <1>1, <2>1 DEF Giving
      <3>2. Max(NewOf(Name(line))) = end
        <4> HIDE DEF NewOf
        <4> QED
          BY <1>1, <3>1, MaxIs
      <3> QED
        BY <3>2 DEF LastFor
    <2>5. ASSUME NEW n \in names, n # Name(line) PROVE new[LastFor(new, n)] = lines[LastFor(lines, n)]
      <3>1. NewOf(n) = Of(n)
        BY <2>1, <2>2, <2>5, <1>1
      <3>2. LastFor(new, n) = LastFor(lines, n)
        BY <3>1 DEF LastFor
      <3>3. Of(n) # {} /\ Of(n) \in SUBSET (0..end)
        BY <1>1 DEF Giving
      <3>4. Max(Of(n)) \in Of(n)
        <4> HIDE DEF Of
        <4> QED
          BY <1>1, <3>3, Extremes
      <3> QED
        BY <2>2, <3>2, <3>4 DEF LastFor
    <2>6. Written(new) = Put(Written(lines), Name(line), Value(line))
      <3> HIDE DEF new, names
      <3>1. Written(new) = [n \in {Name(line)} \union names |-> Value(new[LastFor(new, n)])]
        BY <2>3, WrittenIs
      <3>2. Written(lines) = [n \in names |-> Value(lines[LastFor(lines, n)])]
        BY WrittenIs DEF names
      <3>3. Put(Written(lines), Name(line), Value(line))
              = [n \in {Name(line)} \union names |-> IF n = Name(line) THEN Value(line) ELSE Written(lines)[n]]
        BY <3>2, PutIs
      <3>4. ASSUME NEW n \in {Name(line)} \union names
            PROVE  Value(new[LastFor(new, n)]) = IF n = Name(line) THEN Value(line) ELSE Written(lines)[n]
        <4>1. CASE n = Name(line)
          BY <4>1, <2>4, <1>1 DEF new
        <4>2. CASE n # Name(line)
          BY <4>2, <2>5, <3>2
        <4> QED
          BY <4>1, <4>2
      <3> QED
        BY <3>1, <3>3, <3>4
    <2> QED
      BY <2>6, <1>3 DEF LoadLine
  <1> QED
    BY <1>2, <1>3

----------------------------------- (* data *) ---------------------------------
\* The words of a text; the prover has to be told which of them the code writes itself.
Words == STRING \union {DIR_SEPARATOR, NUL, "cybs.log", "ca-bundle", ".", "crt", ".p12",
                        "true", "item_", "5 less of", "_unitPrice", "_quantity", "_productName",
                        "_productDescription", "_productCode", "_productSKU", "_taxAmount",
                        "merchantID", "clientLibrary", "CPP", "=", "\n"}
CleanWords == Words \ {NUL}
CleanText == Seq(CleanWords)
CleanLine == Seq(CleanWords \ {"\n"})

\* The texts of the files and the messages are clean, as are those the code adds.
LEMMA CTextIsClean ==
  /\ CText \subseteq CleanText /\ LineText \subseteq CleanLine
  /\ CleanLine \subseteq CleanText /\ CleanText \subseteq Seq(Words)
  /\ <<DIR_SEPARATOR>> \in CleanText /\ <<"cybs.log">> \in CleanText /\ <<"ca-bundle">> \in CleanText
  /\ <<".p12">> \in CleanText /\ <<"true">> \in CleanText
  /\ <<"merchantID">> \in CleanText /\ <<"clientLibrary">> \in CleanText /\ <<"CPP">> \in CleanText
  <1>1. /\ CText \subseteq CleanText /\ LineText \subseteq CleanLine
        /\ CleanLine \subseteq CleanText /\ CleanText \subseteq Seq(Words)
    <2>1. /\ STRING \ {NUL} \subseteq CleanWords /\ CleanWords \subseteq Words
          /\ STRING \ {NUL, "\n"} \subseteq CleanWords \ {"\n"} /\ CleanWords \ {"\n"} \subseteq CleanWords
      BY DEF Words, CleanWords
    <2>2. \A S, T : S \subseteq T => Seq(S) \subseteq Seq(T)
      OBVIOUS
    <2> QED
      BY <2>1, <2>2 DEF CText, LineText, CleanText, CleanLine
  <1>2. {DIR_SEPARATOR, "cybs.log", "ca-bundle", ".p12", "true", "merchantID", "clientLibrary", "CPP"}
          \subseteq CleanWords
    BY DEF Words, CleanWords, NUL, DIR_SEPARATOR
  <1> QED
    BY <1>1, <1>2 DEF CleanText

\* The values of the configuration are parts of lines.
Clean(m) == \A k \in DOMAIN m : m[k] \in CleanLine

\* A line of the configuration leaves the values clean.
LEMMA LoadKeepsClean ==
  ASSUME NEW line \in LineText, NEW map, Clean(map)
  PROVE  Clean(LoadLine(line, map))
  <1>1. Value(line) \in CleanLine
    <2>1. line \in CleanLine
      BY CTextIsClean
    <2> QED
      BY <2>1, PartTyping DEF Value, CleanLine
  <1>2. Clean(Put(map, Name(line), Value(line)))
    BY <1>1, PutIs DEF Clean
  <1> QED
    BY <1>2 DEF LoadLine

------------------------------- (* maps of pairs *) -----------------------------
\* The keys of a sequence of pairs, and the places of those for one key.
KeysIn(pairs) == {p[1] : p \in ToSet(pairs)}
PlacesFor(pairs, k) == {i \in DOMAIN pairs : pairs[i][1] = k}

\* The map, key by key.
LEMMA MapOfIs ==
  ASSUME NEW pairs
  PROVE  MapOf(pairs) = [k \in KeysIn(pairs) |-> pairs[Max(PlacesFor(pairs, k))][2]]
  BY DEF MapOf, KeysIn, PlacesFor

\* The last pair for a key is one of them.
LEMMA LastPairFor ==
  ASSUME NEW A, NEW pairs \in Seq(A), NEW k \in KeysIn(pairs)
  PROVE  /\ Max(PlacesFor(pairs, k)) \in DOMAIN pairs
         /\ pairs[Max(PlacesFor(pairs, k))][1] = k
         /\ \A i \in PlacesFor(pairs, k) : i <= Max(PlacesFor(pairs, k))
  <1>1. Len(pairs) \in Nat /\ DOMAIN pairs = 1..Len(pairs)
    OBVIOUS
  <1>2. \E i \in DOMAIN pairs : pairs[i][1] = k
    BY DEF KeysIn, ToSet
  <1>3. PlacesFor(pairs, k) \in SUBSET (0..Len(pairs)) /\ PlacesFor(pairs, k) # {}
    BY <1>1, <1>2 DEF PlacesFor
  <1>4. /\ Max(PlacesFor(pairs, k)) \in PlacesFor(pairs, k)
        /\ \A i \in PlacesFor(pairs, k) : i <= Max(PlacesFor(pairs, k))
    BY <1>1, <1>3, Extremes
  <1> QED
    BY <1>4 DEF PlacesFor

\* A pair of texts, and the map of a sequence of them.
TextPair(S) == Seq(S) \X Seq(S)

LEMMA MapOfTyping ==
  ASSUME NEW S, NEW pairs \in Seq(TextPair(S))
  PROVE  IsTextMap(MapOf(pairs), S)
  <1>1. Len(pairs) \in Nat /\ DOMAIN pairs = 1..Len(pairs) /\ \A i \in 1..Len(pairs) : pairs[i] \in TextPair(S)
    OBVIOUS
  <1>2. IsFiniteSet(KeysIn(pairs))
    <2> DEFINE f == [i \in 1..Len(pairs) |-> pairs[i][1]]
    <2>1. KeysIn(pairs) = {pairs[i][1] : i \in 1..Len(pairs)}
      BY <1>1 DEF KeysIn, ToSet
    <2>2. f \in Surjection(1..Len(pairs), KeysIn(pairs))
      BY <2>1 DEF Surjection
    <2>3. IsFiniteSet(1..Len(pairs))
      BY <1>1, FS_Interval
    <2> QED
      BY <2>2, <2>3, FS_Surjection
  <1>3. ASSUME NEW k \in KeysIn(pairs) PROVE k \in Seq(S) /\ MapOf(pairs)[k] \in Seq(S)
    <2>1. PICK i : i = Max(PlacesFor(pairs, k))
      OBVIOUS
    <2>2. i \in DOMAIN pairs /\ pairs[i][1] = k
      BY <2>1, LastPairFor
    <2>3. pairs[i] \in TextPair(S)
      BY <1>1, <2>2
    <2>4. MapOf(pairs)[k] = pairs[i][2]
      BY <2>1, MapOfIs
    <2> QED
      BY <2>2, <2>3, <2>4 DEF TextPair
  <1>4. DOMAIN MapOf(pairs) = KeysIn(pairs)
    BY MapOfIs
  <1> QED
    BY <1>2, <1>3, <1>4 DEF IsTextMap

\* One map over another.
LEMMA OverTyping ==
  ASSUME NEW S, NEW a, NEW b, IsTextMap(a, S), IsTextMap(b, S)
  PROVE  IsTextMap(Over(a, b), S)
  <1>1. DOMAIN Over(a, b) = DOMAIN a \union DOMAIN b
    BY DEF Over
  <1>2. IsFiniteSet(DOMAIN a \union DOMAIN b)
    BY FS_Union DEF IsTextMap
  <1>3. ASSUME NEW k \in DOMAIN a \union DOMAIN b PROVE k \in Seq(S) /\ Over(a, b)[k] \in Seq(S)
    BY DEF Over, IsTextMap
  <1> QED
    BY <1>1, <1>2, <1>3 DEF IsTextMap

\* A map with one more pair.
LEMMA PutTyping ==
  ASSUME NEW S, NEW m, IsTextMap(m, S), NEW k \in Seq(S), NEW v \in Seq(S)
  PROVE  IsTextMap(Put(m, k, v), S)
  <1> DEFINE one == [x \in {k} |-> v]
  <1>1. IsTextMap(one, S)
    BY FS_Singleton DEF IsTextMap
  <1> HIDE DEF one
  <1>2. IsTextMap(Over(one, m), S)
    BY <1>1, OverTyping
  <1> QED
    BY <1>2 DEF Put, one

\* Pairs put into a map one after the other, and all at once.
LEMMA MapOfJoined ==
  ASSUME NEW A, NEW s \in Seq(A), NEW t \in Seq(A)
  PROVE  MapOf(s \o t) = WithPairs(MapOf(s), t)
  <1> DEFINE u == Joined(s, t)
             n == Len(s)
  <1>1. /\ u \in Seq(A) /\ Len(u) = n + Len(t) /\ n \in Nat /\ Len(t) \in Nat
        /\ \A i \in 1..n : u[i] = s[i]
        /\ \A i \in 1..Len(t) : u[n + i] = t[i]
        /\ ToSet(u) = ToSet(s) \union ToSet(t)
    <2>1. Len(s) \in Nat /\ Len(t) \in Nat
      OBVIOUS
    <2>2. ToSet(Joined(s, t)) = ToSet(s) \union ToSet(t)
      BY JoinedElements
    <2>3. s \o t \in Seq(A) /\ Follows(s, t, s \o t)
      BY AppendedFollows, Zenon
    <2>4. Joined(s, t) \in Seq(A) /\ Follows(s, t, Joined(s, t))
      BY <2>3, Zenon DEF Joined
    <2> HIDE DEF u
    <2>5. u = Joined(s, t)
      BY DEF u
    <2>6. u \in Seq(A) /\ Follows(s, t, u) /\ ToSet(u) = ToSet(s) \union ToSet(t)
      BY <2>2, <2>4, <2>5, Zenon
    <2> QED
      BY <2>1, <2>6 DEF Follows
  <1>2. s \o t = u
    BY DEF Joined
  <1> HIDE DEF u
  <1>3. DOMAIN u = 1..(n + Len(t)) /\ DOMAIN s = 1..n /\ DOMAIN t = 1..Len(t)
    BY <1>1
  <1>4. KeysIn(u) = KeysIn(s) \union KeysIn(t)
    BY <1>1 DEF KeysIn
  <1>5. ASSUME NEW k \in KeysIn(t) PROVE u[Max(PlacesFor(u, k))] = t[Max(PlacesFor(t, k))]
    <2>1. PICK i : i = Max(PlacesFor(t, k))
      OBVIOUS
    <2>2. i \in 1..Len(t) /\ t[i][1] = k /\ \A j \in PlacesFor(t, k) : j <= i
      BY <1>3, <2>1, LastPairFor
    <2>3. n + i \in PlacesFor(u, k)
      BY <1>1, <1>3, <2>2 DEF PlacesFor
    <2>4. ASSUME NEW j \in PlacesFor(u, k) PROVE j <= n + i
      <3>1. j \in 1..(n + Len(t)) /\ u[j][1] = k
        BY <1>3 DEF PlacesFor
      <3>2. CASE j <= n
        BY <1>1, <2>2, <3>1, <3>2
      <3>3. CASE j > n
        <4>1. j - n \in 1..Len(t) /\ n + (j - n) = j
          BY <1>1, <3>1, <3>3
        <4>2. j - n \in PlacesFor(t, k)
          BY <1>1, <1>3, <3>1, <4>1 DEF PlacesFor
        <4> QED
          BY <1>1, <2>2, <4>1, <4>2
      <3> QED
        BY <1>1, <3>1, <3>2, <3>3
    <2>5. PlacesFor(u, k) \in SUBSET (0..(n + Len(t))) /\ n + Len(t) \in Nat
      BY <1>1, <1>3 DEF PlacesFor
    <2>6. Max(PlacesFor(u, k)) = n + i
      BY <2>3, <2>4, <2>5, MaxIs
    <2> QED
      BY <1>1, <2>1, <2>2, <2>6
  <1>6. ASSUME NEW k \in KeysIn(s), k \notin KeysIn(t)
        PROVE  u[Max(PlacesFor(u, k))] = s[Max(PlacesFor(s, k))]
    <2>1. PICK i : i = Max(PlacesFor(s, k))
      OBVIOUS
    <2>2. i \in 1..n /\ s[i][1] = k /\ \A j \in PlacesFor(s, k) : j <= i
      BY <1>3, <2>1, LastPairFor
    <2>3. i \in PlacesFor(u, k)
      BY <1>1, <1>3, <2>2 DEF PlacesFor
    <2>4. ASSUME NEW j \in PlacesFor(u, k) PROVE j <= i
      <3>1. j \in 1..(n + Len(t)) /\ u[j][1] = k
        BY <1>3 DEF PlacesFor
      <3>2. CASE j <= n
        <4>1. j \in PlacesFor(s, k)
          BY <1>1, <1>3, <3>1, <3>2 DEF PlacesFor
        <4> QED
          BY <2>2, <4>1
      <3>3. CASE j > n
        <4>1. j - n \in 1..Len(t) /\ n + (j - n) = j
          BY <1>1, <3>1, <3>3
        <4>2. t[j - n][1] = k
          BY <1>1, <3>1, <4>1
        <4> QED
          BY <1>3, <1>6, <4>1, <4>2 DEF KeysIn, ToSet
      <3> QED
        BY <1>1, <3>1, <3>2, <3>3
    <2>5. PlacesFor(u, k) \in SUBSET (0..(n + Len(t))) /\ n + Len(t) \in Nat
      BY <1>1, <1>3 DEF PlacesFor
    <2>6. Max(PlacesFor(u, k)) = i
      BY <2>3, <2>4, <2>5, MaxIs
    <2> QED
      BY <1>1, <2>1, <2>2, <2>6
  <1> DEFINE a == MapOf(s)
             b == MapOf(t)
  <1>7. /\ DOMAIN a = KeysIn(s) /\ DOMAIN b = KeysIn(t)
        /\ \A k \in KeysIn(s) : a[k] = s[Max(PlacesFor(s, k))][2]
        /\ \A k \in KeysIn(t) : b[k] = t[Max(PlacesFor(t, k))][2]
    BY MapOfIs
  <1> HIDE DEF a, b
  <1>8. MapOf(u) = [k \in KeysIn(t) \union KeysIn(s) |-> u[Max(PlacesFor(u, k))][2]]
    BY <1>4, MapOfIs
  <1>9. Over(b, a) = [k \in KeysIn(t) \union KeysIn(s) |-> IF k \in KeysIn(t) THEN b[k] ELSE a[k]]
    BY <1>7 DEF Over
  <1>10. ASSUME NEW k \in KeysIn(t) \union KeysIn(s)
         PROVE  u[Max(PlacesFor(u, k))][2] = IF k \in KeysIn(t) THEN b[k] ELSE a[k]
    BY <1>5, <1>6, <1>7
  <1>11. MapOf(u) = Over(b, a)
    BY <1>8, <1>9, <1>10
  <1> QED
    BY <1>2, <1>11 DEF WithPairs, a, b

--------------------------- (* the fields of a message *) ------------------------
\* A table has one pair for a key, or none.
LEMMA EntryTyping ==
  ASSUME NEW S, NEW table, IsTextMap(table, S), NEW key, NEW val \in Seq(S)
  PROVE  Entry(table, key, val) \in Seq(TextPair(S))
  <1>1. key \in DOMAIN table => <<table[key], val>> \in TextPair(S)
    BY DEF IsTextMap, TextPair
  <1> HIDE DEF TextPair
  <1> QED
    BY <1>1 DEF Entry

\* The map of a .properties file is one of texts.
LEMMA TableTyping ==
  ASSUME NEW S, NEW lines \in Seq(Seq(S))
  PROVE  IsTextMap(Properties(lines), S)
  <1> DEFINE Counts(line) == /\ line # << >> /\ Head(line) # "#"
                             /\ First("=", line) # 0 /\ After("=", line) # << >>
             Pair(line) == IF Counts(line) THEN << <<Before("=", line), After("=", line)>> >> ELSE << >>
             parts == [i \in DOMAIN lines |-> Pair(lines[i])]
  <1>1. ASSUME NEW line \in Seq(S) PROVE Pair(line) \in Seq(TextPair(S))
    <2> DEFINE p == <<Before("=", line), After("=", line)>>
    <2>1. p \in TextPair(S)
      BY SidesTyping DEF TextPair
    <2> HIDE DEF p, Counts
    <2>2. (IF Counts(line) THEN <<p>> ELSE << >>) \in Seq(TextPair(S))
      BY <2>1
    <2> QED
      BY <2>2 DEF p
  <1>2. parts \in Seq(Seq(TextPair(S)))
    <2>1. /\ Len(lines) \in Nat /\ DOMAIN lines = 1..Len(lines)
          /\ \A i \in 1..Len(lines) : lines[i] \in Seq(S)
      BY Elements
    <2> HIDE DEF Pair
    <2>2. \A i \in 1..Len(lines) : Pair(lines[i]) \in Seq(TextPair(S))
      BY <1>1, <2>1
    <2> QED
      BY <2>1, <2>2
  <1>3. Properties(lines) = MapOf(FlattenSeq(parts))
    BY DEF Properties
  <1> HIDE DEF parts
  <1>4. FlattenSeq(parts) \in Seq(TextPair(S))
    BY <1>2, FlattenIs, Zenon
  <1> QED
    BY <1>3, <1>4, MapOfTyping, Zenon

\* A text with a word less at its start, or one more.
LEMMA TailOrMore ==
  ASSUME NEW S, NEW t \in Seq(S), t # << >>, NEW x \in S
  PROVE  Tail(t) \in Seq(S) /\ <<x>> \o t \in Seq(S)
  <1>1. Tail(t) \in Seq(S)
    OBVIOUS
  <1>2. <<x>> \in Seq(S)
    OBVIOUS
  <1>3. <<x>> \o t \in Seq(S)
    BY <1>2
  <1> QED
    BY <1>1, <1>3

\* The key of an item.
ItemKey(name, what) == <<"item_">> \o ItemNumber(name) \o <<what>>

LEMMA ItemKeyTyping ==
  ASSUME NEW name \in CleanText, name # << >>, NEW what \in CleanWords
  PROVE  ItemKey(name, what) \in CleanText
  <1>1. "5 less of" \in CleanWords /\ "item_" \in CleanWords
    BY DEF Words, CleanWords, NUL
  <1>2. ItemNumber(name) \in CleanText
    BY <1>1, TailOrMore DEF ItemNumber, CleanText
  <1>3. <<"item_">> \in CleanText /\ <<what>> \in CleanText
    BY <1>1, OneElement, Zenon DEF CleanText
  <1> DEFINE a == <<"item_">> \o ItemNumber(name)
  <1>4. a \in CleanText
    BY <1>2, <1>3 DEF CleanText
  <1> HIDE DEF a
  <1>5. a \o <<what>> \in CleanText
    BY <1>3, <1>4 DEF CleanText
  <1> QED
    BY <1>5 DEF ItemKey, a

\* The pairs of an offer are texts.
LEMMA OfferTyping ==
  ASSUME NEW field \in [name : CText, value : CText], Contains(field.name, "offer")
  PROVE  Offer(field) \in Seq(TextPair(CleanWords))
  <1> DEFINE pieces == Pieces("^", field.value)
             Key(piece) == ItemKey(field.name, ItemKeys[ItemSplit(piece)[1][1]])
             Pair(piece) == IF IsOfItem(piece) THEN << <<Key(piece), ItemSplit(piece)[2]>> >> ELSE << >>
             parts == [i \in DOMAIN pieces |-> Pair(pieces[i])]
  <1>1. field.name \in CleanText /\ field.value \in CleanText /\ field.name # << >>
    BY CTextIsClean DEF Contains
  <1>2. pieces \in Seq(CleanText)
    BY <1>1, PiecesAre DEF CleanText
  <1>3. ASSUME NEW piece \in CleanText PROVE Pair(piece) \in Seq(TextPair(CleanWords))
    <2>1. CASE IsOfItem(piece)
      <3>1. ItemSplit(piece)[1][1] \in DOMAIN ItemKeys
        BY <2>1 DEF IsOfItem
      <3>2. \A x \in DOMAIN ItemKeys : ItemKeys[x] \in CleanWords
        <4>1. DOMAIN ItemKeys = {"amount", "quantity", "product_name", "product_description",
                                 "product_code", "merchant_product_sku", "tax_amount"}
          BY DEF ItemKeys
        <4>2. /\ ItemKeys["amount"] = "_unitPrice" /\ ItemKeys["quantity"] = "_quantity"
              /\ ItemKeys["product_name"] = "_productName"
              /\ ItemKeys["product_description"] = "_productDescription"
              /\ ItemKeys["product_code"] = "_productCode"
              /\ ItemKeys["merchant_product_sku"] = "_productSKU"
              /\ ItemKeys["tax_amount"] = "_taxAmount"
          BY DEF ItemKeys
        <4>3. {"_unitPrice", "_quantity", "_productName", "_productDescription", "_productCode",
               "_productSKU", "_taxAmount"} \subseteq CleanWords
          BY DEF Words, CleanWords, NUL
        <4> QED
          BY <4>1, <4>2, <4>3
      <3>3. Key(piece) \in CleanText
        BY <1>1, <3>1, <3>2, ItemKeyTyping
      <3>4. ItemSplit(piece)[2] \in CleanText
        BY SidesTyping DEF ItemSplit, CleanText
      <3> DEFINE p == <<Key(piece), ItemSplit(piece)[2]>>
      <3>5. p \in TextPair(CleanWords)
        BY <3>3, <3>4 DEF TextPair, CleanText
      <3> HIDE DEF p
      <3>6. <<p>> \in Seq(TextPair(CleanWords))
        BY <3>5
      <3> QED
        BY <2>1, <3>6 DEF p
    <2>2. CASE ~IsOfItem(piece)
      BY <2>2
    <2> QED
      BY <2>1, <2>2
  <1>4. parts \in Seq(Seq(TextPair(CleanWords)))
    <2> HIDE DEF Pair, pieces
    <2> QED
      BY <1>2, <1>3
  <1>5. Offer(field) = FlattenSeq(parts)
    BY DEF Offer, ItemKey
  <1> HIDE DEF parts
  <1> QED
    BY <1>4, <1>5, FlattenIs, Zenon

\* Those of a bundle are too.
LEMMA ApplicationsTyping ==
  ASSUME NEW field \in [name : CText, value : CText], NEW apps, IsTextMap(apps, CleanWords)
  PROVE  Applications(field, apps) \in Seq(TextPair(CleanWords))
  <1> DEFINE names == Pieces(",", field.name)
             parts == [i \in DOMAIN names |-> Entry(apps, names[i], <<"true">>)]
  <1>1. <<"true">> \in Seq(CleanWords) /\ field.name \in Seq(CleanWords)
    BY CTextIsClean DEF CleanText
  <1>2. \A key : Entry(apps, key, <<"true">>) \in Seq(TextPair(CleanWords))
    BY <1>1, EntryTyping
  <1>3. names \in Seq(Seq(CleanWords))
    BY <1>1, PiecesAre
  <1>4. parts \in Seq(Seq(TextPair(CleanWords)))
    <2> HIDE DEF names
    <2> QED
      BY <1>2, <1>3
  <1>5. Applications(field, apps) =
          IF Contains(field.name, ",") THEN FlattenSeq(parts) ELSE Entry(apps, field.value, <<"true">>)
    BY DEF Applications
  <1> HIDE DEF parts
  <1>6. FlattenSeq(parts) \in Seq(TextPair(CleanWords))
    BY <1>4, FlattenIs, Zenon
  <1> QED
    BY <1>2, <1>5, <1>6

\* The pairs of a field are texts.
LEMMA PairsTyping ==
  ASSUME NEW field \in [name : CText, value : CText],
         NEW table, IsTextMap(table, CleanWords), NEW apps, IsTextMap(apps, CleanWords)
  PROVE  Pairs(field, table, apps) \in Seq(TextPair(CleanWords))
  <1>1. field.value \in Seq(CleanWords)
    BY CTextIsClean DEF CleanText
  <1>2. Entry(table, field.name, field.value) \in Seq(TextPair(CleanWords))
    BY <1>1, EntryTyping
  <1> QED
    BY <1>2, OfferTyping, ApplicationsTyping DEF Pairs

\* The two tables of the request.
LEMMA TablesTyping == IsTextMap(RequestMap, CleanWords) /\ IsTextMap(AppMap, CleanWords)
  <1>1. ASSUME NEW t \in Seq(LineText) PROVE t \in Seq(Seq(CleanWords))
    <2>1. LineText \subseteq Seq(CleanWords)
      BY CTextIsClean DEF CleanText
    <2> QED
      BY <2>1
  <1>2. RequestTable \in Seq(Seq(CleanWords)) /\ AppTable \in Seq(Seq(CleanWords))
    BY <1>1, BridgeAssumption
  <1> QED
    BY <1>2, TableTyping DEF RequestMap, AppMap

\* What the fields of a message mean.
PairsOfFields(fields) == FlattenSeq([i \in DOMAIN fields |-> Pairs(fields[i], RequestMap, AppMap)])

LEMMA MeantTyping ==
  ASSUME NEW fields \in Seq([name : CText, value : CText])
  PROVE  PairsOfFields(fields) \in Seq(TextPair(CleanWords))
  <1> DEFINE parts == [i \in DOMAIN fields |-> Pairs(fields[i], RequestMap, AppMap)]
  <1>1. /\ Len(fields) \in Nat /\ DOMAIN fields = 1..Len(fields)
        /\ \A i \in 1..Len(fields) : fields[i] \in [name : CText, value : CText]
    BY Elements
  <1>2. \A i \in DOMAIN fields : Pairs(fields[i], RequestMap, AppMap) \in Seq(TextPair(CleanWords))
    BY <1>1, TablesTyping, PairsTyping
  <1>3. parts \in Seq(Seq(TextPair(CleanWords)))
    BY <1>2
  <1> HIDE DEF parts
  <1>4. FlattenSeq(parts) \in Seq(TextPair(CleanWords))
    BY <1>3, FlattenIs, Zenon
  <1> QED
    BY <1>4 DEF PairsOfFields, parts

\* Without a field nothing is meant; one more field puts its pairs over the others.
LEMMA MeantNothing == MapOf(PairsOfFields(<< >>)) = NoPairs
  <1> DEFINE parts == [i \in DOMAIN << >> |-> Pairs(<< >>[i], RequestMap, AppMap)]
  <1>1. parts = << >>
    OBVIOUS
  <1>2. PairsOfFields(<< >>) = FlattenSeq(parts)
    BY DEF PairsOfFields
  <1>3. FlattenSeq(<< >>) = << >>
    <2>1. << >> \in Seq(Seq(Words))
      OBVIOUS
    <2> QED
      BY <2>1, FlattenIs
  <1> HIDE DEF parts
  <1>4. KeysIn(<< >>) = {}
    BY DEF KeysIn, ToSet
  <1>5. MapOf(<< >>) = NoPairs
    <2>1. MapOf(<< >>) = [k \in {} |-> << >>[Max(PlacesFor(<< >>, k))][2]]
      BY <1>4, MapOfIs
    <2> QED
      BY <2>1 DEF NoPairs
  <1> QED
    BY <1>1, <1>2, <1>3, <1>5

LEMMA OneFieldMore ==
  ASSUME NEW fields \in Seq([name : CText, value : CText]), NEW field \in [name : CText, value : CText]
  PROVE  MapOf(PairsOfFields(Append(fields, field)))
           = WithPairs(MapOf(PairsOfFields(fields)), Pairs(field, RequestMap, AppMap))
  <1> DEFINE more == Append(fields, field)
             x == Pairs(field, RequestMap, AppMap)
             parts == [i \in DOMAIN fields |-> Pairs(fields[i], RequestMap, AppMap)]
             new == [i \in DOMAIN more |-> Pairs(more[i], RequestMap, AppMap)]
  <1>1. /\ DOMAIN more = 1..(Len(fields) + 1) /\ DOMAIN fields = 1..Len(fields) /\ Len(fields) \in Nat
        /\ more[Len(fields) + 1] = field /\ \A i \in 1..Len(fields) : more[i] = fields[i]
        /\ \A i \in DOMAIN fields : fields[i] \in [name : CText, value : CText]
    <2>1. /\ Len(fields) \in Nat /\ DOMAIN fields = 1..Len(fields)
          /\ \A i \in 1..Len(fields) : fields[i] \in [name : CText, value : CText]
      BY Elements, Zenon
    <2>2. /\ DOMAIN more = 1..(Len(fields) + 1) /\ more[Len(fields) + 1] = field
          /\ \A i \in 1..Len(fields) : more[i] = fields[i]
      <3>1. OneLonger(fields, field, more)
        BY AppendIs, Zenon
      <3> QED
        BY <3>1 DEF OneLonger
    <2> QED
      BY <2>1, <2>2
  <1>2. x \in Seq(TextPair(CleanWords))
    BY TablesTyping, PairsTyping
  <1>3. parts \in Seq(Seq(TextPair(CleanWords))) /\ Len(parts) = Len(fields)
    <2>1. \A i \in DOMAIN fields : Pairs(fields[i], RequestMap, AppMap) \in Seq(TextPair(CleanWords))
      BY <1>1, TablesTyping, PairsTyping
    <2> QED
      BY <1>1, <2>1
  <1>4. new = Append(parts, x)
    <2>1. Append(parts, x) = [i \in 1..(Len(fields) + 1) |-> IF i = Len(fields) + 1 THEN x ELSE parts[i]]
      <3> HIDE DEF parts, x
      <3> QED
        BY <1>2, <1>3, AppendIs DEF OneLonger
    <2>2. ASSUME NEW i \in 1..(Len(fields) + 1)
          PROVE  Pairs(more[i], RequestMap, AppMap) = IF i = Len(fields) + 1 THEN x ELSE parts[i]
      BY <1>1
    <2> HIDE DEF more, x, parts
    <2> QED
      BY <1>1, <2>1, <2>2
  <1>5. PairsOfFields(more) = FlattenSeq(new) /\ PairsOfFields(fields) = FlattenSeq(parts)
    BY DEF PairsOfFields
  <1> HIDE DEF more, x, parts, new
  <1> DEFINE s == FlattenSeq(parts)
  <1>6. FlattenSeq(new) = s \o x /\ s \in Seq(TextPair(CleanWords))
    BY <1>2, <1>3, <1>4, FlattenAppend, FlattenIs, Zenon
  <1> HIDE DEF s
  <1>7. MapOf(s \o x) = WithPairs(MapOf(s), x)
    BY <1>2, <1>6, MapOfJoined, Zenon
  <1>8. PairsOfFields(fields) = s
    BY <1>5 DEF s
  <1>9. MapOf(PairsOfFields(more)) = WithPairs(MapOf(PairsOfFields(fields)), x)
    BY <1>5, <1>6, <1>7, <1>8, Zenon
  <1> QED
    BY <1>9 DEF more, x

---------------------------------- (* buffers *) --------------------------------
\* The string in a buffer, and the buffer with a text copied into it.
LEMMA BufferTyping ==
  ASSUME NEW S, NEW buf \in Buffers(S), NEW t \in Seq(S)
  PROVE  CString(buf) \in Seq(S) /\ Copied(buf, t) \in Buffers(S)
  <1>1. /\ buf \in Seq(S) /\ Len(buf) = CYBS_MAX_PATH /\ CYBS_MAX_PATH \in Nat
        /\ DOMAIN buf = 1..CYBS_MAX_PATH /\ \A i \in 1..CYBS_MAX_PATH : buf[i] \in S
    BY PathAssumption DEF Buffers
  <1>2. CString(buf) \in Seq(S)
    <2> DEFINE Ends(m) == /\ \A i \in 1..m : buf[i] # NUL
                          /\ m < Len(buf) => buf[m + 1] = NUL
               ends == {i \in 1..Len(buf) : buf[i] = NUL}
    <2>1. \E m \in 0..Len(buf) : Ends(m)
      <3>1. CASE ends = {}
        <4>1. Len(buf) \in 0..Len(buf) /\ Ends(Len(buf))
          BY <1>1, <3>1
        <4> QED
          BY <4>1
      <3>2. CASE ends # {}
        <4>1. ends \in SUBSET Nat /\ \A e \in ends : e \in 1..Len(buf) /\ buf[e] = NUL
          BY <1>1
        <4>2. PICK e \in ends : \A c \in ends : e <= c
          <5> HIDE DEF ends
          <5> QED
            BY <3>2, <4>1, Least
        <4>3. e - 1 \in 0..Len(buf) /\ (e - 1) + 1 = e /\ buf[e] = NUL
          BY <1>1, <4>1
        <4>4. \A j \in 1..(e - 1) : buf[j] # NUL
          BY <1>1, <4>1, <4>2
        <4> QED
          BY <4>3, <4>4
      <3> QED
        BY <3>1, <3>2
    <2> HIDE DEF Ends
    <2>2. (CHOOSE m \in 0..Len(buf) : Ends(m)) \in 0..Len(buf)
      BY <2>1
    <2>3. \A m \in 0..Len(buf) : SubSeq(buf, 1, m) \in Seq(S)
      BY <1>1
    <2>4. CString(buf) = SubSeq(buf, 1, CHOOSE m \in 0..Len(buf) : Ends(m))
      BY DEF CString, Ends
    <2> QED
      BY <2>2, <2>3, <2>4
  <1>3. Copied(buf, t) \in Buffers(S)
    <2>1. \A i \in 1..Len(t) : t[i] \in S
      OBVIOUS
    <2>2. ASSUME NEW i \in 1..CYBS_MAX_PATH PROVE (IF i <= Len(t) THEN t[i] ELSE buf[i]) \in S
      BY <1>1, <2>1
    <2> QED
      BY <1>1, <2>2 DEF Copied, Buffers
  <1> QED
    BY <1>2, <1>3

\* Whatever path is built in it, the buffer stays one of words.
LEMMA PathTyping ==
  ASSUME NEW buf \in Buffers(Words), NEW dir \in CleanText, NEW file \in CleanText, NEW add
  PROVE  getKeyFilePath(buf, dir, add, file) \in Buffers(Words)
  <1>1. /\ <<NUL>> \in Seq(Words) /\ <<DIR_SEPARATOR, NUL>> \in Seq(Words)
        /\ dir \in Seq(Words) /\ file \in Seq(Words)
    <2>1. NUL \in Words /\ DIR_SEPARATOR \in Words
      BY DEF Words
    <2> QED
      BY <2>1, CTextIsClean
  <1> DEFINE first == CopyDir(buf, dir, add)
  <1>2. first \in Buffers(Words)
    <2>1. dir \o (IF add THEN <<DIR_SEPARATOR, NUL>> ELSE << >>) \in Seq(Words)
      BY <1>1
    <2> QED
      BY <2>1, BufferTyping DEF CopyDir
  <1> HIDE DEF first
  <1>3. CString(first) \o file \o <<NUL>> \in Seq(Words)
    <2>1. CString(first) \in Seq(Words)
      BY <1>2, <1>1, BufferTyping
    <2> QED
      BY <2>1, <1>1
  <1>4. Copied(first, CString(first) \o file \o <<NUL>>) \in Buffers(Words)
    BY <1>2, <1>3, BufferTyping
  <1> QED
    BY <1>4 DEF getKeyFilePath, first

--------------------------------- (* invariant *) -------------------------------
\* The configuration is complete.
Configured == {"log", "check", "key", "call", "exchange"}

\* As much of cybs.ini as has been read is in the map.
LoadedSoFar ==
  /\ pc = "convert" => cfgMap = NoPairs
  /\ pc = "load" => cfgMap = Written(SubSeq(ini, 1, done))
  /\ ConfigIsAsWritten

\* The texts that paths are made of.
TextsAreClean == Clean(cfgMap) /\ IsTextMap(soRequest, CleanWords) /\ szDest \in Buffers(Words)

\* What getKeyFilePath needs of the keys directory.
PlainDirectory == TerminatesItself(Get("keysDirectory"))
CertInPlace ==
  certPath = IF Has("sslCertFile") THEN Get("sslCertFile")
             ELSE Path(Get("keysDirectory"), <<"ca-bundle">> \o CERT_EXT)

\* The paths that have been built, and what they were built from.
PathsSoFar ==
  /\ pc \in {"key", "call", "exchange"} =>
       /\ Has("keysDirectory")
       /\ <<"merchantID">> \in DOMAIN soRequest \/ Has("merchantID")
       /\ PlainDirectory => CertInPlace
  /\ pc \in {"call", "exchange"} => (PlainDirectory => keyPath = Path(Get("keysDirectory"), KeyFilename))

\* What has been answered is in the result map, which was empty; the response is made from it.
Closed == {"rejected", "answered", "acknowledged", "failed"}
AnswerSoFar ==
  /\ fate[theCall] \notin {"answered", "thrown"} => resMap = NoPairs
  /\ resMap # NoPairs => theCall \in executed
  /\ fate[theCall] = "answered" => resMap = convertStringtoMap(replyText) /\ theCall \in executed
  /\ replyText \in CText
  /\ pc = "respond" => fate[theCall] \in Closed
  /\ IF ended = "returned"
     THEN pc = "done" /\ fate[theCall] \in Closed /\ response = Response(resMap, ResponseMap)
     ELSE response = {}

\* The fields converted so far are in the request; once it has been sent it stays as it is.
RequestSoFar ==
  /\ pc = "convert" => soRequest = MapOf(PairsOfFields(SubSeq(message, 1, done)))
  /\ pc \notin {"convert", "done"} => soRequest = Meant
  /\ theCall \in dispatched =>
       /\ pc \in {"exchange", "respond", "done"}
       /\ soRequest = Meant
       /\ <<"merchantID">> \in DOMAIN soRequest \/ Has("merchantID")
       /\ wireText = convertMaptoString(Outgoing)
  /\ theCall \in executed => theCall \in dispatched /\ received = Lines(wireText)

IInv == TypeOK /\ LoadedSoFar /\ TextsAreClean /\ PathsSoFar /\ AnswerSoFar /\ RequestSoFar

\* The inputs: no line, name or value holds a terminator.
LEMMA InputTyping ==
  ASSUME TypeOK
  PROVE  /\ Len(ini) \in Nat /\ \A i \in 1..Len(ini) : ini[i] \in LineText
         /\ ini \in Seq(LineText)
         /\ Len(message) \in Nat
         /\ \A i \in 1..Len(message) : message[i] \in [name : CText, value : CText]
         /\ message \in Seq([name : CText, value : CText])
  <1>1. ini \in Seq(LineText) /\ message \in Seq([name : CText, value : CText])
    BY BridgeAssumption DEF TypeOK
  <1>2. ASSUME NEW S, NEW t \in Seq(S) PROVE Len(t) \in Nat /\ \A i \in 1..Len(t) : t[i] \in S
    OBVIOUS
  <1> QED
    BY <1>1, <1>2

\* The beginnings of a text.
LEMMA Beginnings ==
  ASSUME NEW S, NEW t \in Seq(S)
  PROVE  /\ SubSeq(t, 1, 0) = << >> /\ SubSeq(t, 1, Len(t)) = t
         /\ \A n \in 0..(Len(t) - 1) :
              SubSeq(t, 1, n) \in Seq(S) /\ SubSeq(t, 1, n + 1) = Append(SubSeq(t, 1, n), t[n + 1])
  <1>1. SubSeq(t, 1, 0) = << >> /\ SubSeq(t, 1, Len(t)) = t
    OBVIOUS
  <1>2. ASSUME NEW n \in 0..(Len(t) - 1)
        PROVE  SubSeq(t, 1, n) \in Seq(S) /\ SubSeq(t, 1, n + 1) = Append(SubSeq(t, 1, n), t[n + 1])
    OBVIOUS
  <1> QED
    BY <1>1, <1>2

\* What the configuration gives is clean.
LEMMA GetIsClean ==
  ASSUME Clean(cfgMap), NEW key, Has(key)
  PROVE  Get(key) \in CleanLine /\ Get(key) \in CleanText
  <1>1. Get(key) \in CleanLine
    BY DEF Clean, Has, Get
  <1> QED
    BY <1>1, CTextIsClean

\* So is the merchantID, and the name of the key file.
LEMMA MerchantIDIsClean ==
  ASSUME TextsAreClean, <<"merchantID">> \in DOMAIN soRequest \/ Has("merchantID")
  PROVE  MerchantID \in CleanText
  BY GetIsClean DEF MerchantID, TextsAreClean, IsTextMap, CleanText

LEMMA KeyFilenameIsClean ==
  ASSUME TextsAreClean, <<"merchantID">> \in DOMAIN soRequest \/ Has("merchantID")
  PROVE  KeyFilename \in CleanText
  <1>1. MerchantID \in CleanText
    BY MerchantIDIsClean
  <1>2. MerchantID \o <<".p12">> \in CleanText
    BY <1>1, CTextIsClean DEF CleanText
  <1>3. Has("keyFilename") => Get("keyFilename") \in CleanText
    BY GetIsClean DEF TextsAreClean
  <1> QED
    BY <1>2, <1>3 DEF KeyFilename

\* The field that is converted next.
LEMMA NextField ==
  ASSUME TypeOK, Convert
  PROVE  /\ done \in 0..(Len(message) - 1)
         /\ message[done + 1] \in [name : CText, value : CText]
         /\ soRequest' = WithPairs(soRequest, Pairs(message[done + 1], RequestMap, AppMap))
  <1>1. done \in 0..(Len(message) - 1) /\ done + 1 \in 1..Len(message)
    BY InputTyping DEF Convert, TypeOK
  <1>2. message[done + 1] \in [name : CText, value : CText]
    BY <1>1, InputTyping
  <1>3. soRequest' = WithPairs(soRequest, Pairs(message[done + 1], RequestMap, AppMap))
    BY DEF Convert
  <1> QED
    BY <1>1, <1>2, <1>3

\* A step leaves the texts clean.
LEMMA CleanStep == IInv /\ [Next]_vars => TextsAreClean'
  <1> SUFFICES ASSUME IInv, [Next]_vars PROVE TextsAreClean'
    OBVIOUS
  <1>1. Clean(cfgMap) /\ IsTextMap(soRequest, CleanWords) /\ szDest \in Buffers(Words) /\ TypeOK
    BY DEF IInv, TextsAreClean
  <1>2. CASE Convert
    <2> DEFINE pairs == Pairs(message[done + 1], RequestMap, AppMap)
    <2>1. pairs \in Seq(TextPair(CleanWords))
      BY <1>1, <1>2, NextField, TablesTyping, PairsTyping
    <2>2. soRequest' = WithPairs(soRequest, pairs) /\ UNCHANGED <<cfgMap, szDest>>
      BY <1>1, <1>2, NextField DEF Convert, paths
    <2> HIDE DEF pairs
    <2>3. IsTextMap(WithPairs(soRequest, pairs), CleanWords)
      BY <1>1, <2>1, MapOfTyping, OverTyping, Zenon DEF WithPairs
    <2> QED
      BY <1>1, <2>2, <2>3 DEF TextsAreClean
  <1>3. CASE Load
    <2>1. done + 1 \in 1..Len(ini)
      BY <1>1, <1>3, InputTyping DEF Load, TypeOK
    <2>2. cfgMap' = LoadLine(ini[done + 1], cfgMap) /\ UNCHANGED <<soRequest, szDest>>
      BY <1>3 DEF Load, paths
    <2>3. Clean(cfgMap')
      BY <1>1, <2>1, <2>2, InputTyping, LoadKeepsClean
    <2> QED
      BY <1>1, <2>2, <2>3 DEF TextsAreClean
  <1>4. CASE PrepareLog \/ CertPath \/ KeyPath
    <2>1. UNCHANGED <<soRequest, cfgMap>>
      BY <1>4 DEF PrepareLog, CertPath, KeyPath, maps
    <2>2. CASE PrepareLog
      <3>1. LogDirectory \in CleanText /\ LogFilename \in CleanText
        BY <1>1, GetIsClean, CTextIsClean DEF LogDirectory, LogFilename
      <3> QED
        BY <1>1, <2>1, <2>2, <3>1, PathTyping DEF PrepareLog, Build, TextsAreClean
    <2>3. CASE CertPath
      <3>1. Get("keysDirectory") \in CleanText
        BY <1>1, <2>3, GetIsClean DEF CertPath, IsComplete
      <3> QED
        BY <1>1, <2>1, <2>3, <3>1, PathTyping, CTextIsClean DEF CertPath, Build, TextsAreClean
    <2>4. CASE KeyPath
      <3>1. Get("keysDirectory") \in CleanText /\ KeyFilename \in CleanText
        BY <1>1, <2>4, GetIsClean, KeyFilenameIsClean DEF KeyPath, IInv, PathsSoFar
      <3> QED
        BY <1>1, <2>1, <2>4, <3>1, PathTyping DEF KeyPath, Build, TextsAreClean
    <2> QED
      BY <1>4, <2>2, <2>3, <2>4
  <1>5. CASE \/ ConvertThrows \/ Converted \/ LoadThrows \/ Loaded \/ PathOverruns \/ Reject
             \/ MaskThrows \/ Dispatch \/ Respond \/ RespondThrows \/ Environment \/ UNCHANGED vars
    <2>1. UNCHANGED <<soRequest, cfgMap, szDest>>
      BY <1>5 DEF ConvertThrows, Converted, LoadThrows, Loaded, PathOverruns, Reject,
                  MaskThrows, Dispatch, Respond, RespondThrows, Environment, Execute, Answer, NoAnswer, vars, maps, paths
    <2> QED
      BY <1>1, <2>1 DEF TextsAreClean
  <1> QED
    BY <1>2, <1>3, <1>4, <1>5 DEF Next, processRequest

\* The steps of the payment keep its types.
LEMMA PaymentTyping ==
  ASSUME Payment!TypeOK,
         \/ Payment!Begin(theCall) \/ Payment!Reject(theCall) \/ Payment!Dispatch(theCall)
         \/ Payment!Execute(theCall) \/ Payment!Answer(theCall) \/ Payment!Acknowledge(theCall)
         \/ Payment!Fail(theCall) \/ Payment!Throw(theCall)
  PROVE  Payment!TypeOK'
  <1>1. fate' \in [{1} -> {"none", "open"} \union Payment!Ended]
    BY DEF Payment!TypeOK, Payment!Ended, Payment!Begin, Payment!Reject, Payment!Dispatch, Payment!Execute,
           Payment!Answer, Payment!Acknowledge, Payment!Fail, Payment!Throw
  <1>2. dispatched' \subseteq {1} /\ executed' \subseteq {1} /\ held' \in {1} \union {0}
    BY DEF Payment!TypeOK, Payment!Begin, Payment!Reject, Payment!Dispatch, Payment!Execute,
           Payment!Answer, Payment!Acknowledge, Payment!Fail, Payment!Throw, theCall
  <1> QED
    BY <1>1, <1>2 DEF Payment!TypeOK

\* A step keeps the types.
LEMMA StepTyping == IInv /\ TextsAreClean' /\ [Next]_vars => TypeOK'
  <1> SUFFICES ASSUME IInv, TextsAreClean', [Next]_vars PROVE TypeOK'
    OBVIOUS
  <1>1. TypeOK /\ UNCHANGED inputs
    BY DEF IInv, Next, processRequest, Environment, Convert, ConvertThrows, Converted, Load, LoadThrows,
           Loaded, PrepareLog, CertPath, KeyPath, PathOverruns, Reject, MaskThrows, Dispatch, Execute,
           Answer, NoAnswer, Respond, RespondThrows, vars, inputs
  <1>2. message' \in Messages /\ ini' \in Inis /\ missing' \in Missing
    BY <1>1 DEF TypeOK, inputs
  <1>3. DOMAIN szDest' = 1..CYBS_MAX_PATH
    BY DEF TextsAreClean, Buffers
  <1>4. Payment!TypeOK'
    <2>1. CASE UNCHANGED payment
      BY <1>1, <2>1 DEF TypeOK, payment, Payment!TypeOK
    <2>2. CASE Loaded \/ Reject \/ MaskThrows \/ Dispatch \/ Environment
      BY <1>1, <2>2, PaymentTyping
      DEF TypeOK, Loaded, Reject, MaskThrows, Dispatch, Environment, Execute, Answer, NoAnswer
    <2> QED
      BY <2>1, <2>2 DEF Next, processRequest, Convert, ConvertThrows, Converted, Load, LoadThrows,
           PrepareLog, CertPath, KeyPath, PathOverruns, Respond, RespondThrows, vars, payment
  <1>5. /\ pc' \in {"convert", "load", "log", "check", "key", "call", "exchange", "respond", "overrun", "done"}
        /\ ended' \in {"no", "returned", "thrown"}
    BY <1>1 DEF TypeOK, Next, processRequest, Environment, Convert, ConvertThrows, Converted, Load,
           LoadThrows, Loaded, PrepareLog, CertPath, KeyPath, PathOverruns, Reject, MaskThrows, Dispatch, Execute,
           Answer, NoAnswer, Respond, RespondThrows, Throw, vars
  <1>6. /\ done' \in Nat
        /\ pc' = "convert" => done' <= Len(message')
        /\ pc' = "load" => done' <= Len(ini')
    <2>1. /\ message' = message /\ ini' = ini
          /\ Len(message) \in Nat /\ Len(ini) \in Nat
      BY <1>1, InputTyping DEF inputs
    <2>2. CASE Convert
      BY <1>1, <2>1, <2>2 DEF TypeOK, Convert
    <2>3. CASE Load
      BY <1>1, <2>1, <2>3 DEF TypeOK, Load
    <2>4. CASE Converted \/ Loaded
      BY <2>1, <2>4 DEF Converted, Loaded
    <2>5. CASE done' = done /\ (pc' = pc \/ pc' \notin {"convert", "load"})
      BY <1>1, <2>1, <2>5 DEF TypeOK
    <2> QED
      BY <2>2, <2>3, <2>4, <2>5
      DEF Next, processRequest, Environment, ConvertThrows, LoadThrows, PrepareLog, CertPath, KeyPath,
          PathOverruns, Reject, MaskThrows, Dispatch, Execute, Answer, NoAnswer, Respond, RespondThrows, Throw, vars
  <1> QED
    BY <1>2, <1>3, <1>4, <1>5, <1>6 DEF TypeOK

\* The map is what has been read, line by line.
LEMMA LoadedStep == IInv /\ TypeOK' /\ [Next]_vars => LoadedSoFar'
  <1> SUFFICES ASSUME IInv, TypeOK', [Next]_vars PROVE LoadedSoFar'
    OBVIOUS
  <1>1. TypeOK /\ LoadedSoFar
    BY DEF IInv
  <1>2. ini \in Seq(LineText) /\ Len(ini) \in Nat /\ \A i \in 1..Len(ini) : ini[i] \in LineText
    BY <1>1, InputTyping
  <1>3. ini' = ini
    BY DEF Next, processRequest, Environment, Convert, ConvertThrows, Converted, Load, LoadThrows,
           Loaded, PrepareLog, CertPath, KeyPath, PathOverruns, Reject, MaskThrows, Dispatch, Execute,
           Answer, NoAnswer, Respond, RespondThrows, vars, inputs
  <1>4. CASE Converted
    <2>1. pc' = "load" /\ done' = 0 /\ cfgMap' = NoPairs
      BY <1>1, <1>4 DEF Converted, LoadedSoFar, maps
    <2>2. SubSeq(ini, 1, 0) = << >>
      BY <1>2, Beginnings
    <2> QED
      BY <1>3, <2>1, <2>2, WrittenNothing DEF LoadedSoFar, ConfigIsAsWritten
  <1>5. CASE Load
    <2>1. /\ pc = "load" /\ pc' = "load" /\ done' = done + 1 /\ done \in 0..(Len(ini) - 1)
          /\ cfgMap = Written(SubSeq(ini, 1, done)) /\ cfgMap' = LoadLine(ini[done + 1], cfgMap)
      BY <1>1, <1>2, <1>5 DEF Load, LoadedSoFar, TypeOK
    <2>2. /\ SubSeq(ini, 1, done) \in Seq(LineText) /\ ini[done + 1] \in LineText
          /\ SubSeq(ini, 1, done + 1) = Append(SubSeq(ini, 1, done), ini[done + 1])
      BY <1>2, <2>1, Beginnings
    <2>3. cfgMap' = Written(SubSeq(ini, 1, done'))
      BY <2>1, <2>2, WrittenWithLine
    <2> QED
      BY <1>3, <2>1, <2>3 DEF LoadedSoFar, ConfigIsAsWritten
  <1>6. CASE Loaded
    <2>1. pc' = "log" /\ cfgMap' = Written(SubSeq(ini, 1, Len(ini)))
      BY <1>1, <1>6 DEF Loaded, LoadedSoFar, maps
    <2>2. SubSeq(ini, 1, Len(ini)) = ini
      BY <1>2, Beginnings
    <2> QED
      BY <1>3, <2>1, <2>2 DEF LoadedSoFar, ConfigIsAsWritten
  <1>7. CASE /\ cfgMap' = cfgMap
             /\ \/ pc' = pc /\ (done' = done \/ pc # "load")
                \/ pc' \in {"respond", "overrun", "done"}
                \/ pc \in Configured /\ pc' \in Configured
    BY <1>1, <1>3, <1>7 DEF LoadedSoFar, ConfigIsAsWritten, Configured
  <1> QED
    BY <1>4, <1>5, <1>6, <1>7
    DEF Next, processRequest, Environment, Convert, ConvertThrows, LoadThrows, PrepareLog, CertPath,
        KeyPath, PathOverruns, Reject, MaskThrows, Dispatch, Execute, Answer, NoAnswer, Respond, RespondThrows, Throw,
        Configured, maps, vars

\* The path of a file whose name is extended.
LEMMA PathExtended ==
  ASSUME NEW S, DIR_SEPARATOR \in S, NEW dir \in Seq(S), TerminatesItself(dir),
         NEW file \in Seq(S), NEW ext \in Seq(S)
  PROVE  Path(dir, file) \o ext = Path(dir, file \o ext)
  <1>1. dir \o <<DIR_SEPARATOR>> \in Seq(S)
    OBVIOUS
  <1>2. /\ Path(dir, file) = (dir \o <<DIR_SEPARATOR>>) \o file
        /\ Path(dir, file \o ext) = (dir \o <<DIR_SEPARATOR>>) \o (file \o ext)
    BY DEF Path, TerminatesItself
  <1>3. ASSUME NEW a \in Seq(S) PROVE (a \o file) \o ext = a \o (file \o ext)
    OBVIOUS
  <1> QED
    BY <1>1, <1>2, <1>3

LEMMA CertExtension == CERT_EXT \in Seq(Words) /\ CERT_EXT # << >> /\ Len(CERT_EXT) = 2
  <1>1. "." \in Words /\ "crt" \in Words
    BY DEF Words
  <1> QED
    BY <1>1 DEF CERT_EXT

\* Of a directory that does not end in a separator the path is built as it should be; it can
\* overrun the buffer only if no extension is counted, and it is as long as the limit allows.
LEMMA PlainPath ==
  ASSUME szDest \in Buffers(Words), NEW dir \in CleanText, TerminatesItself(dir),
         NEW file \in CleanText, NEW ext \in Seq(Words), NEW add \in AddSeparator(dir),
         Fits(dir, add, file, ext)
  PROVE  /\ Len(Path(dir, file)) \in Nat /\ Len(ext) \in Nat
         /\ Len(Path(dir, file)) + Len(ext) <= CYBS_MAX_PATH
         /\ Len(Path(dir, file)) # CYBS_MAX_PATH =>
              /\ ~Overruns(szDest, dir, add, file)
              /\ CString(getKeyFilePath(szDest, dir, add, file)) = Path(dir, file)
  <1>1. /\ NUL \in Words /\ DIR_SEPARATOR \in Words
        /\ dir \in Seq(Words \ {NUL}) /\ file \in Seq(Words \ {NUL})
        /\ dir \in Seq(Words) /\ file \in Seq(Words)
    BY CTextIsClean DEF Words, CleanText, CleanWords
  <1>2. dir # << >> /\ Last(dir) # DIR_SEPARATOR
    BY DEF TerminatesItself
  <1>3. /\ Len(Path(dir, file)) \in Nat /\ Len(ext) \in Nat
        /\ Len(Path(dir, file)) + Len(ext) <= CYBS_MAX_PATH
    BY <1>1, <1>2, PathLength
  <1>4. ASSUME Len(Path(dir, file)) # CYBS_MAX_PATH
        PROVE  /\ ~Overruns(szDest, dir, add, file)
               /\ CString(getKeyFilePath(szDest, dir, add, file)) = Path(dir, file)
    <2>1. Len(Path(dir, file)) < CYBS_MAX_PATH
      BY <1>3, <1>4, PathAssumption
    <2> QED
      BY <1>1, <1>2, <2>1, PathIsDirectoryAndFile
  <1> QED
    BY <1>3, <1>4

\* So it is where an extension is counted.
LEMMA BuiltPath ==
  ASSUME szDest \in Buffers(Words), NEW dir \in CleanText, TerminatesItself(dir),
         NEW file \in CleanText, NEW ext \in Seq(Words), ext # << >>, NEW more,
         Build(dir, file, ext, more)
  PROVE  CString(szDest') = Path(dir, file)
  <1>1. PICK add \in AddSeparator(dir) :
          Fits(dir, add, file, ext) /\ szDest' = getKeyFilePath(szDest, dir, add, file)
    BY DEF Build
  <1>2. Len(ext) # 0
    OBVIOUS
  <1>3. Len(Path(dir, file)) # CYBS_MAX_PATH
    BY <1>1, <1>2, PlainPath, PathAssumption
  <1> QED
    BY <1>1, <1>3, PlainPath

\* And none of them overruns.
LEMMA PlainPathOverruns ==
  ASSUME szDest \in Buffers(Words), NEW dir \in CleanText, TerminatesItself(dir),
         NEW file \in CleanText, NEW ext \in Seq(Words), NEW more \in {ext, << >>},
         BuildOverruns(dir, file, ext, more)
  PROVE  ext = << >> /\ Len(Path(dir, file)) = CYBS_MAX_PATH
  <1>1. PICK add \in AddSeparator(dir) :
          /\ Fits(dir, add, file, ext)
          /\ \/ Overruns(szDest, dir, add, file)
             \/ Len(CString(getKeyFilePath(szDest, dir, add, file))) + Len(more) > CYBS_MAX_PATH
    BY DEF BuildOverruns
  <1>2. Len(more) \in Nat /\ Len(more) <= Len(ext)
    OBVIOUS
  <1>3. Len(Path(dir, file)) = CYBS_MAX_PATH
    BY <1>1, <1>2, PlainPath, PathAssumption
  <1>4. Len(ext) = 0
    BY <1>1, <1>3, PlainPath, PathAssumption
  <1> QED
    BY <1>3, <1>4

\* Where the map and the request stay, so do the facts about them.
LEMMA SameConfiguration ==
  ASSUME UNCHANGED <<cfgMap, soRequest>>
  PROVE  /\ \A key : Has(key)' = Has(key) /\ Get(key)' = Get(key)
         /\ PlainDirectory' = PlainDirectory /\ KeyFilename' = KeyFilename
  BY DEF Has, Get, PlainDirectory, KeyFilename, MerchantID

\* The certificates are looked for in the keys directory, whatever was in the buffer.
LEMMA CertStep ==
  ASSUME IInv, CertPath
  PROVE  PathsSoFar'
  <1>1. TextsAreClean /\ Clean(cfgMap) /\ szDest \in Buffers(Words)
    BY DEF IInv, TextsAreClean
  <1>2. /\ UNCHANGED <<cfgMap, soRequest>> /\ pc' = "key"
        /\ Has("keysDirectory") /\ (<<"merchantID">> \in DOMAIN soRequest \/ Has("merchantID"))
    BY DEF CertPath, IsComplete, maps
  <1>3. \A key : Has(key)' = Has(key) /\ Get(key)' = Get(key)
    BY <1>2, SameConfiguration
  <1>4. PlainDirectory' = PlainDirectory
    BY <1>2, SameConfiguration
  <1>5. CASE Has("sslCertFile")
    <2>1. CertInPlace'
      BY <1>2, <1>3, <1>5 DEF CertPath, CertInPlace
    <2> QED
      BY <1>2, <1>3, <2>1 DEF PathsSoFar
  <1>6. CASE ~Has("sslCertFile")
    <2> DEFINE dir == Get("keysDirectory")
    <2>1. Build(dir, <<"ca-bundle">>, CERT_EXT, CERT_EXT) /\ certPath' = CString(szDest') \o CERT_EXT
      BY <1>6 DEF CertPath
    <2>2. ASSUME PlainDirectory PROVE certPath' = Path(dir, <<"ca-bundle">> \o CERT_EXT)
      <3>1. dir \in CleanText /\ TerminatesItself(dir)
        BY <1>1, <1>2, <2>2, GetIsClean DEF PlainDirectory
      <3>2. <<"ca-bundle">> \in CleanText /\ CERT_EXT \in Seq(Words) /\ CERT_EXT # << >>
        BY CTextIsClean, CertExtension
      <3> HIDE DEF dir
      <3>3. CString(szDest') = Path(dir, <<"ca-bundle">>)
        BY <1>1, <2>1, <3>1, <3>2, BuiltPath
      <3>4. dir \in Seq(Words) /\ <<"ca-bundle">> \in Seq(Words) /\ DIR_SEPARATOR \in Words
        BY <3>1, <3>2, CTextIsClean DEF Words
      <3>5. Path(dir, <<"ca-bundle">>) \o CERT_EXT = Path(dir, <<"ca-bundle">> \o CERT_EXT)
        <4> DEFINE file == <<"ca-bundle">>
        <4>1. file \in Seq(Words)
          BY <3>4
        <4> HIDE DEF file
        <4>2. Path(dir, file) \o CERT_EXT = Path(dir, file \o CERT_EXT)
          BY <3>1, <3>2, <3>4, <4>1, PathExtended
        <4> QED
          BY <4>2 DEF file
      <3> QED
        BY <2>1, <3>3, <3>5
    <2>3. PlainDirectory => CertInPlace'
      BY <1>3, <1>6, <2>2 DEF CertInPlace
    <2> QED
      BY <1>2, <1>3, <1>4, <2>3 DEF PathsSoFar
  <1> QED
    BY <1>5, <1>6

\* So is the key.
LEMMA KeyStep ==
  ASSUME IInv, KeyPath
  PROVE  PathsSoFar'
  <1>1. TextsAreClean /\ Clean(cfgMap) /\ szDest \in Buffers(Words) /\ PathsSoFar
    BY DEF IInv, TextsAreClean
  <1>2. UNCHANGED <<cfgMap, soRequest, certPath>> /\ pc = "key" /\ pc' = "call"
    BY DEF KeyPath, maps
  <1>3. /\ \A key : Has(key)' = Has(key) /\ Get(key)' = Get(key)
        /\ PlainDirectory' = PlainDirectory /\ KeyFilename' = KeyFilename
    BY <1>2, SameConfiguration
  <1>4. /\ Has("keysDirectory") /\ (<<"merchantID">> \in DOMAIN soRequest \/ Has("merchantID"))
        /\ PlainDirectory => CertInPlace
    BY <1>1, <1>2 DEF PathsSoFar
  <1> DEFINE dir == Get("keysDirectory")
  <1>5. Build(dir, KeyFilename, <<".p12">>, << >>) /\ keyPath' = CString(szDest')
    BY DEF KeyPath
  <1>6. ASSUME PlainDirectory PROVE keyPath' = Path(dir, KeyFilename)
    <2>1. dir \in CleanText /\ TerminatesItself(dir) /\ KeyFilename \in CleanText
      BY <1>1, <1>4, <1>6, GetIsClean, KeyFilenameIsClean DEF PlainDirectory
    <2>2. <<".p12">> \in Seq(Words) /\ <<".p12">> # << >>
      BY CTextIsClean
    <2> HIDE DEF dir
    <2> QED
      BY <1>1, <1>5, <2>1, <2>2, BuiltPath
  <1>7. PlainDirectory => CertInPlace'
    BY <1>2, <1>3, <1>4 DEF CertInPlace
  <1> QED
    BY <1>2, <1>3, <1>4, <1>6, <1>7 DEF PathsSoFar

\* A step leaves the paths as they were built.
LEMMA PathsStep == IInv /\ [Next]_vars => PathsSoFar'
  <1> SUFFICES ASSUME IInv, [Next]_vars PROVE PathsSoFar'
    OBVIOUS
  <1>1. CASE CertPath
    BY <1>1, CertStep
  <1>2. CASE KeyPath
    BY <1>2, KeyStep
  <1>3. CASE pc' \notin {"key", "call", "exchange"}
    BY <1>3 DEF PathsSoFar
  <1>4. CASE UNCHANGED <<cfgMap, soRequest, certPath, keyPath>>
             /\ (pc' = pc \/ (pc = "call" /\ pc' = "exchange"))
    <2>1. /\ \A key : Has(key)' = Has(key) /\ Get(key)' = Get(key)
          /\ PlainDirectory' = PlainDirectory /\ KeyFilename' = KeyFilename
      BY <1>4, SameConfiguration
    <2>2. CertInPlace' = CertInPlace
      BY <1>4, <2>1 DEF CertInPlace
    <2> QED
      BY <1>4, <2>1, <2>2 DEF PathsSoFar, IInv
  <1>5. CASE Convert \/ Load
    BY <1>3, <1>5 DEF Convert, Load
  <1>6. CASE \/ ConvertThrows \/ Converted \/ LoadThrows \/ Loaded \/ PrepareLog
             \/ PathOverruns \/ Reject \/ MaskThrows \/ Respond \/ RespondThrows
    BY <1>3, <1>6
    DEF ConvertThrows, Converted, LoadThrows, Loaded, PrepareLog, PathOverruns, Reject, MaskThrows,
        Respond, RespondThrows, Throw
  <1>7. CASE Dispatch \/ Execute
    <2>1. UNCHANGED <<maps, paths>> /\ (pc' = pc \/ (pc = "call" /\ pc' = "exchange"))
      BY <1>7 DEF Dispatch, Execute, maps, paths
    <2> QED
      BY <1>4, <2>1 DEF maps, paths
  <1>8. CASE Answer \/ NoAnswer
    <2>1. pc' \in {"respond", "done"}
      BY <1>8 DEF Answer, NoAnswer, Throw
    <2> QED
      BY <1>3, <2>1
  <1>9. CASE UNCHANGED vars
    <2>1. UNCHANGED <<maps, paths>> /\ pc' = pc
      BY <1>9 DEF maps, paths, vars
    <2> QED
      BY <1>4, <2>1 DEF maps, paths
  <1> QED
    BY <1>1, <1>2, <1>5, <1>6, <1>7, <1>8, <1>9 DEF Next, processRequest, Environment

\* What the steps of the payment do to the fate of the call.
LEMMA PaymentSteps ==
  ASSUME Payment!TypeOK
  PROVE  /\ Payment!Begin(theCall) => fate[theCall] = "none" /\ fate'[theCall] = "open" /\ executed' = executed
         /\ Payment!Reject(theCall) =>
              fate[theCall] = "open" /\ fate'[theCall] = "rejected" /\ executed' = executed
         /\ Payment!Throw(theCall) =>
              fate[theCall] = "open" /\ fate'[theCall] = "thrown" /\ executed' = executed
         /\ Payment!Dispatch(theCall) => fate' = fate /\ executed' = executed
         /\ Payment!Execute(theCall) => fate' = fate /\ executed' = executed \union {theCall}
         /\ Payment!Answer(theCall) =>
              /\ fate[theCall] = "open" /\ fate'[theCall] \in {"answered", "thrown"}
              /\ theCall \in executed /\ executed' = executed
         /\ Payment!Acknowledge(theCall) \/ Payment!Fail(theCall) =>
              /\ fate[theCall] = "open" /\ fate'[theCall] \in {"acknowledged", "thrown", "failed"}
              /\ executed' = executed
  <1>1. \A end : [fate EXCEPT ![theCall] = end][theCall] = end
    BY DEF Payment!TypeOK, theCall
  <1> QED
    BY <1>1 DEF Payment!Begin, Payment!Reject, Payment!Throw, Payment!Dispatch, Payment!Execute,
                Payment!Answer, Payment!Acknowledge, Payment!Fail

\* A step keeps the result map and the response as the payment has made them.
LEMMA AnswerStep == IInv /\ [Next]_vars => AnswerSoFar'
  <1> SUFFICES ASSUME IInv, [Next]_vars PROVE AnswerSoFar'
    OBVIOUS
  <1>1. AnswerSoFar /\ Payment!TypeOK
    BY DEF IInv, TypeOK
  <1>2. CASE /\ UNCHANGED <<resMap, replyText, response, ended, fate, executed>>
             /\ pc # "done" /\ pc' # "respond"
    BY <1>1, <1>2 DEF AnswerSoFar
  <1>3. CASE Convert \/ Converted \/ Load \/ PrepareLog \/ CertPath \/ KeyPath \/ PathOverruns
    BY <1>2, <1>3
    DEF Convert, Converted, Load, PrepareLog, CertPath, KeyPath, PathOverruns, maps, texts, payment
  <1>4. CASE /\ Throw /\ pc # "done" /\ UNCHANGED <<resMap, replyText, fate, executed>>
    BY <1>1, <1>4 DEF AnswerSoFar, Throw
  <1>5. CASE ConvertThrows \/ LoadThrows \/ RespondThrows
    BY <1>4, <1>5 DEF ConvertThrows, LoadThrows, RespondThrows, maps, texts, payment
  <1>6. CASE Loaded
    <2>1. /\ UNCHANGED <<resMap, replyText, response, ended>> /\ pc = "load" /\ pc' = "log"
          /\ fate[theCall] = "none" /\ fate'[theCall] = "open" /\ executed' = executed
      BY <1>1, <1>6, PaymentSteps DEF Loaded, maps, texts
    <2> QED
      BY <1>1, <2>1 DEF AnswerSoFar
  <1>7. CASE Reject
    <2>1. /\ UNCHANGED <<resMap, replyText, response, ended>> /\ pc # "done"
          /\ fate[theCall] = "open" /\ fate'[theCall] = "rejected" /\ executed' = executed
      BY <1>1, <1>7, PaymentSteps DEF Reject, maps, texts
    <2> QED
      BY <1>1, <2>1 DEF AnswerSoFar, Closed
  <1>8. CASE MaskThrows
    <2>1. /\ UNCHANGED <<resMap, replyText>> /\ pc = "call" /\ Throw
          /\ fate[theCall] = "open" /\ fate'[theCall] = "thrown" /\ executed' = executed
      BY <1>1, <1>8, PaymentSteps DEF MaskThrows, maps, texts
    <2> QED
      BY <1>1, <2>1 DEF AnswerSoFar, Throw
  <1>9. CASE Dispatch
    <2>1. /\ UNCHANGED <<resMap, replyText, response, ended>> /\ pc = "call" /\ pc' = "exchange"
          /\ fate' = fate /\ executed' = executed
      BY <1>1, <1>9, PaymentSteps DEF Dispatch, maps
    <2> QED
      BY <1>2, <2>1
  <1>10. CASE Execute
    <2>1. /\ UNCHANGED <<resMap, replyText, response, ended, pc>>
          /\ fate' = fate /\ executed' = executed \union {theCall}
      BY <1>1, <1>10, PaymentSteps DEF Execute, maps
    <2> QED
      BY <1>1, <2>1 DEF AnswerSoFar
  <1>11. CASE Answer
    <2>1. /\ pc = "exchange" /\ replyText' \in Replies /\ resMap' = convertStringtoMap(replyText')
          /\ fate'[theCall] \in {"answered", "thrown"} /\ theCall \in executed'
          /\ IF fate'[theCall] = "thrown" THEN Throw
             ELSE pc' = "respond" /\ UNCHANGED <<response, ended>>
      BY <1>1, <1>11, PaymentSteps DEF Answer
    <2>2. replyText' \in CText
      BY <2>1, BridgeAssumption
    <2> QED
      BY <1>1, <2>1, <2>2 DEF AnswerSoFar, Throw, Closed
  <1>12. CASE NoAnswer
    <2>1. /\ UNCHANGED <<resMap, replyText, response, ended>> /\ pc = "exchange" /\ pc' = "respond"
          /\ fate[theCall] = "open" /\ fate'[theCall] \in {"acknowledged", "failed"}
          /\ executed' = executed
      BY <1>1, <1>12, PaymentSteps DEF NoAnswer, maps, texts
    <2> QED
      BY <1>1, <2>1 DEF AnswerSoFar, Closed
  <1>13. CASE Respond
    <2>1. /\ UNCHANGED <<resMap, replyText, fate, executed>> /\ pc = "respond" /\ pc' = "done"
          /\ ended' = "returned" /\ response' = Response(resMap, ResponseMap)
      BY <1>13 DEF Respond, maps, texts, payment
    <2> QED
      BY <1>1, <2>1 DEF AnswerSoFar
  <1>14. CASE UNCHANGED vars
    BY <1>1, <1>14 DEF AnswerSoFar, vars
  <1> QED
    BY <1>3, <1>5, <1>6, <1>7, <1>8, <1>9, <1>10, <1>11, <1>12, <1>13, <1>14
    DEF Next, processRequest, Environment

\* Only Dispatch and Execute change what has been sent and executed.
LEMMA PaymentSends ==
  /\ Payment!Begin(theCall) \/ Payment!Reject(theCall) \/ Payment!Throw(theCall)
       \/ Payment!Answer(theCall) \/ Payment!Acknowledge(theCall) \/ Payment!Fail(theCall)
     => UNCHANGED <<dispatched, executed>>
  /\ Payment!Dispatch(theCall) =>
       theCall \notin dispatched /\ dispatched' = dispatched \union {theCall} /\ executed' = executed
  /\ Payment!Execute(theCall) =>
       theCall \in dispatched /\ dispatched' = dispatched /\ executed' = executed \union {theCall}
  BY DEF Payment!Begin, Payment!Reject, Payment!Throw, Payment!Dispatch, Payment!Execute,
         Payment!Answer, Payment!Acknowledge, Payment!Fail

\* What goes out is made of the request and the configuration.
LEMMA SameRequest ==
  ASSUME UNCHANGED <<cfgMap, soRequest>>
  PROVE  Outgoing' = Outgoing /\ Has("merchantID")' = Has("merchantID")
  BY DEF Outgoing, Stamps, MerchantID, Has, Get

\* A step keeps the request as the message means it.
LEMMA RequestStep == IInv /\ [Next]_vars => RequestSoFar'
  <1> SUFFICES ASSUME IInv, [Next]_vars PROVE RequestSoFar'
    OBVIOUS
  <1>1. TypeOK /\ RequestSoFar /\ PathsSoFar
    BY DEF IInv
  <1>2. /\ message' = message
        /\ Meant' = Meant /\ \A fields : PairsOfFields(fields)' = PairsOfFields(fields)
    <2>1. message' = message
      BY DEF Next, processRequest, Environment, Convert, ConvertThrows, Converted, Load, LoadThrows,
             Loaded, PrepareLog, CertPath, KeyPath, PathOverruns, Reject, MaskThrows, Dispatch, Execute,
             Answer, NoAnswer, Respond, RespondThrows, vars, inputs
    <2> QED
      BY <2>1 DEF Meant, MeantPairs, PairsOfFields
  <1>3. message \in Seq([name : CText, value : CText]) /\ Len(message) \in Nat
    BY <1>1, InputTyping
  <1> DEFINE Quiet == UNCHANGED <<soRequest, cfgMap, dispatched, executed, wireText, received>>
  <1>4. CASE Convert
    <2> DEFINE field == message[done + 1]
               pairs == Pairs(field, RequestMap, AppMap)
    <2>1. /\ pc = "convert" /\ pc' = "convert" /\ done' = done + 1
          /\ UNCHANGED <<dispatched, executed>> /\ theCall \notin dispatched /\ theCall \notin executed
          /\ soRequest = MapOf(PairsOfFields(SubSeq(message, 1, done)))
      BY <1>1, <1>4 DEF Convert, RequestSoFar, payment
    <2>2. done \in 0..(Len(message) - 1) /\ field \in [name : CText, value : CText]
          /\ soRequest' = WithPairs(soRequest, pairs)
      BY <1>1, <1>4, NextField
    <2>3. /\ SubSeq(message, 1, done) \in Seq([name : CText, value : CText])
          /\ SubSeq(message, 1, done + 1) = Append(SubSeq(message, 1, done), field)
      BY <1>3, <2>2, Beginnings
    <2> DEFINE before == SubSeq(message, 1, done)
    <2> HIDE DEF field, before
    <2>4. MapOf(PairsOfFields(Append(before, field))) = WithPairs(MapOf(PairsOfFields(before)), pairs)
      BY <2>2, <2>3, OneFieldMore DEF before
    <2>5. soRequest' = MapOf(PairsOfFields(SubSeq(message, 1, done + 1)))
      BY <2>1, <2>2, <2>3, <2>4 DEF before
    <2> QED
      BY <1>2, <2>1, <2>5 DEF RequestSoFar
  <1>5. CASE Converted
    <2>1. /\ pc = "convert" /\ pc' = "load" /\ done = Len(message) /\ Quiet
          /\ theCall \notin dispatched /\ theCall \notin executed
          /\ soRequest = MapOf(PairsOfFields(SubSeq(message, 1, done)))
      BY <1>1, <1>5 DEF Converted, RequestSoFar, payment, maps, texts
    <2>2. SubSeq(message, 1, done) = message
      BY <1>3, <2>1, Beginnings
    <2>3. soRequest = Meant
      BY <2>1, <2>2 DEF Meant, MeantPairs, PairsOfFields
    <2> QED
      BY <1>2, <2>1, <2>3 DEF RequestSoFar
  <1>6. CASE Load
    <2>1. /\ pc = "load" /\ pc' = "load" /\ soRequest' = soRequest
          /\ UNCHANGED <<dispatched, executed>> /\ theCall \notin dispatched /\ theCall \notin executed
      BY <1>1, <1>6 DEF Load, RequestSoFar, payment
    <2> QED
      BY <1>1, <1>2, <2>1 DEF RequestSoFar
  <1>7. CASE /\ Quiet
             /\ \/ pc' = "done"
                \/ pc' = pc /\ done' = done
                \/ pc \notin {"convert", "done"} /\ pc' = "respond"
                \/ /\ pc \notin {"convert", "done"} /\ theCall \notin dispatched
                   /\ pc' \in {"log", "check", "key", "overrun", "call"}
    <2>1. Outgoing' = Outgoing /\ Has("merchantID")' = Has("merchantID")
      BY <1>7, SameRequest
    <2> QED
      BY <1>1, <1>2, <1>7, <2>1 DEF RequestSoFar
  <1>8. CASE ConvertThrows \/ LoadThrows \/ Respond \/ RespondThrows \/ UNCHANGED vars
    BY <1>7, <1>8 DEF ConvertThrows, LoadThrows, Respond, RespondThrows, Throw, maps, texts, payment, vars
  <1>9. CASE PrepareLog \/ CertPath \/ KeyPath \/ PathOverruns
    <2>1. /\ Quiet /\ pc \in {"log", "check", "key"} /\ pc' \in {"check", "key", "overrun", "call"}
      BY <1>9 DEF PrepareLog, CertPath, KeyPath, PathOverruns, maps, texts, payment
    <2>2. theCall \notin dispatched
      BY <1>1, <2>1 DEF RequestSoFar
    <2> QED
      BY <1>7, <2>1, <2>2
  <1>10. CASE Loaded
    <2>1. Quiet /\ pc = "load" /\ pc' = "log"
      BY <1>10, PaymentSends DEF Loaded, maps, texts
    <2>2. theCall \notin dispatched
      BY <1>1, <2>1 DEF RequestSoFar
    <2> QED
      BY <1>7, <2>1, <2>2
  <1>11. CASE Reject \/ MaskThrows
    <2>1. Quiet /\ pc \in {"log", "check", "key", "call"} /\ pc' \in {"respond", "done"}
      BY <1>11, PaymentSends DEF Reject, MaskThrows, Throw, maps, texts
    <2> QED
      BY <1>7, <2>1
  <1>12. CASE Answer \/ NoAnswer
    <2>1. Quiet /\ pc = "exchange" /\ pc' \in {"respond", "done"}
      BY <1>12, PaymentSends DEF Answer, NoAnswer, Throw, maps, texts
    <2> QED
      BY <1>7, <2>1
  <1>13. CASE Dispatch
    <2>1. /\ pc = "call" /\ pc' = "exchange" /\ UNCHANGED <<soRequest, cfgMap, received>>
          /\ wireText' = convertMaptoString(Outgoing)
          /\ theCall \notin dispatched /\ executed' = executed
      BY <1>13, PaymentSends DEF Dispatch, maps
    <2>2. Outgoing' = Outgoing /\ Has("merchantID")' = Has("merchantID")
      BY <2>1, SameRequest
    <2>3. soRequest = Meant /\ theCall \notin executed
      BY <1>1, <2>1 DEF RequestSoFar
    <2>4. <<"merchantID">> \in DOMAIN soRequest \/ Has("merchantID")
      BY <1>1, <2>1 DEF PathsSoFar
    <2> QED
      BY <1>2, <2>1, <2>2, <2>3, <2>4 DEF RequestSoFar
  <1>14. CASE Execute
    <2>1. /\ UNCHANGED <<soRequest, cfgMap, wireText, pc, done>> /\ received' = Lines(wireText)
          /\ theCall \in dispatched /\ dispatched' = dispatched
      BY <1>14, PaymentSends DEF Execute, maps
    <2>2. Outgoing' = Outgoing /\ Has("merchantID")' = Has("merchantID")
      BY <2>1, SameRequest
    <2> QED
      BY <1>1, <1>2, <2>1, <2>2 DEF RequestSoFar
  <1> QED
    BY <1>4, <1>5, <1>6, <1>8, <1>9, <1>10, <1>11, <1>12, <1>13, <1>14
    DEF Next, processRequest, Environment

\* Nothing has been read, built or promised when the bridge starts.
LEMMA InitInvariant == Init => IInv
  <1> SUFFICES ASSUME Init PROVE IInv
    OBVIOUS
  <1>1. szDest \in Buffers(STRING) /\ szDest \in Buffers(Words)
    BY BridgeAssumption DEF Init, Buffers, Words
  <1>2. TypeOK
    <2>1. Payment!TypeOK
      BY DEF Init, Payment!Init, Payment!TypeOK
    <2>2. Len(message) \in Nat /\ pc = "convert" /\ done = 0
      BY BridgeAssumption DEF Init
    <2> QED
      BY <1>1, <2>1, <2>2 DEF Init, TypeOK, Buffers
  <1>3. DOMAIN NoPairs = {}
    BY DEF NoPairs
  <1>4. IsTextMap(NoPairs, CleanWords)
    BY <1>3, FS_EmptySet DEF IsTextMap
  <1>5. AnswerSoFar
    <2>1. << >> \in CText
      BY DEF CText
    <2>2. /\ fate[theCall] = "none" /\ resMap = NoPairs /\ replyText = << >> /\ pc = "convert"
          /\ ended = "no" /\ response = {}
      BY DEF Init, Payment!Init, theCall
    <2> QED
      BY <2>1, <2>2 DEF AnswerSoFar
  <1>6. RequestSoFar
    <2>1. /\ pc = "convert" /\ done = 0 /\ soRequest = NoPairs /\ theCall \notin dispatched
          /\ theCall \notin executed
      BY DEF Init, Payment!Init
    <2>2. SubSeq(message, 1, 0) = << >>
      BY <1>2, InputTyping, Beginnings
    <2> QED
      BY <2>1, <2>2, MeantNothing DEF RequestSoFar
  <1>7. LoadedSoFar /\ TextsAreClean /\ PathsSoFar
    BY <1>1, <1>3, <1>4
    DEF Init, LoadedSoFar, ConfigIsAsWritten, TextsAreClean, Clean, PathsSoFar
  <1> QED
    BY <1>2, <1>5, <1>6, <1>7 DEF IInv

\* Every step keeps the invariant.
LEMMA StepInvariant == IInv /\ [Next]_vars => IInv'
  BY CleanStep, StepTyping, LoadedStep, PathsStep, AnswerStep, RequestStep DEF IInv

\* The inductive invariant holds throughout every behaviour.
THEOREM Invariance == Spec => []IInv
  BY InitInvariant, StepInvariant, PTL DEF Spec

\* Every variable keeps its type.
THEOREM Typing == Spec => []TypeOK
  <1>1. IInv => TypeOK
    BY DEF IInv
  <1> QED
    BY <1>1, Invariance, PTL

\* Whatever cybs.ini holds, runTransaction is called with the configuration it says.
THEOREM Loading == Spec => []ConfigIsAsWritten
  <1>1. IInv => ConfigIsAsWritten
    BY DEF IInv, LoadedSoFar
  <1> QED
    BY <1>1, Invariance, PTL

\* Whatever the buffer held, and however long it is, the certificates and the key are
\* looked for in the directory that the configuration names.
THEOREM Files == Spec => []FilesAreAsConfigured
  <1>1. IInv => FilesAreAsConfigured
    BY DEF IInv, PathsSoFar, FilesAreAsConfigured, FilesAreIn, PlainDirectory, CertInPlace
  <1> QED
    BY <1>1, Invariance, PTL

\* For every limit and whatever the buffer held: a path is written behind its buffer only
\* behind a directory that ends in a separator or is empty, or if it is the path of the log
\* and as long as the limit allows.
THEOREM KnownOverruns == Spec => OverrunsAreKnown
  <1> DEFINE Known == IF pc = "log" THEN TerminatesItself(LogDirectory) =>
                                           Len(Path(LogDirectory, LogFilename)) = CYBS_MAX_PATH
                      ELSE ~TerminatesItself(Get("keysDirectory"))
  <1>1. ASSUME IInv, [Next]_vars, pc' = "overrun", pc # "overrun" PROVE Known
    <2>1. TextsAreClean /\ Clean(cfgMap) /\ szDest \in Buffers(Words) /\ PathsSoFar
      BY <1>1 DEF IInv, TextsAreClean
    <2>2. PathOverruns
      BY <1>1 DEF Next, processRequest, Environment, Convert, ConvertThrows, Converted, Load,
                  LoadThrows, Loaded, PrepareLog, CertPath, KeyPath, Reject, MaskThrows, Dispatch,
                  Execute, Answer, NoAnswer, Respond, RespondThrows, Throw, vars
    <2>3. CASE pc = "log"
      <3>1. BuildOverruns(LogDirectory, LogFilename, << >>, << >>)
        BY <2>2, <2>3 DEF PathOverruns
      <3>2. LogDirectory \in CleanText /\ LogFilename \in CleanText /\ << >> \in Seq(Words)
        BY <2>1, GetIsClean, CTextIsClean DEF LogDirectory, LogFilename
      <3> QED
        BY <2>1, <2>3, <3>1, <3>2, PlainPathOverruns
    <2>4. CASE pc = "check"
      <3>1. /\ Has("keysDirectory")
            /\ BuildOverruns(Get("keysDirectory"), <<"ca-bundle">>, CERT_EXT, CERT_EXT)
        BY <2>2, <2>4 DEF PathOverruns, IsComplete
      <3>2. Get("keysDirectory") \in CleanText /\ <<"ca-bundle">> \in CleanText
        BY <2>1, <3>1, GetIsClean, CTextIsClean
      <3> QED
        BY <2>1, <2>4, <3>1, <3>2, CertExtension, PlainPathOverruns
    <2>5. CASE pc = "key"
      <3>1. BuildOverruns(Get("keysDirectory"), KeyFilename, <<".p12">>, << >>)
        BY <2>2, <2>5 DEF PathOverruns
      <3>2. /\ Get("keysDirectory") \in CleanText /\ KeyFilename \in CleanText
            /\ <<".p12">> \in Seq(Words) /\ <<".p12">> # << >>
        BY <2>1, <2>5, GetIsClean, KeyFilenameIsClean, CTextIsClean DEF PathsSoFar
      <3> QED
        BY <2>1, <2>5, <3>1, <3>2, PlainPathOverruns
    <2> QED
      BY <2>2, <2>3, <2>4, <2>5 DEF PathOverruns
  <1>2. IInv /\ [Next]_vars => [pc' = "overrun" /\ pc # "overrun" => Known]_vars
    BY <1>1
  <1> QED
    BY <1>2, Invariance, PTL DEF Spec, OverrunsAreKnown

------------------------------- (* the response *) ------------------------------
\* The line at i is the first with a pair for its key.
IsFirst(lines, i) ==
  /\ First("=", lines[i]) # 0
  /\ \A j \in 1..(i - 1) : First("=", lines[j]) # 0 => Before("=", lines[j]) # Before("=", lines[i])

\* Those are the lines that the map of an answer is made of.
LEMMA FirstIsMin ==
  ASSUME NEW n \in Nat, NEW lines, NEW i \in 1..n, IsFirst(lines, i)
  PROVE  /\ Before("=", lines[i]) \in KeysOf(lines, 1..n)
         /\ FirstOnes(lines, 1..n)[Before("=", lines[i])] = After("=", lines[i])
  <1> DEFINE k == Before("=", lines[i])
  <1>1. i \in LinesFor(lines, 1..n, k) /\ k \in KeysOf(lines, 1..n)
    BY DEF IsFirst, LinesFor, PairLines, KeysOf
  <1>2. ASSUME NEW j \in LinesFor(lines, 1..n, k) PROVE i <= j
    <2>1. j \in 1..n /\ First("=", lines[j]) # 0 /\ Before("=", lines[j]) = k
      BY DEF LinesFor, PairLines
    <2>2. j \notin 1..(i - 1)
      BY <2>1 DEF IsFirst
    <2> QED
      BY <2>1, <2>2
  <1>3. LinesFor(lines, 1..n, k) \in SUBSET (0..n)
    BY DEF LinesFor, PairLines
  <1>4. Min(LinesFor(lines, 1..n, k)) = i
    BY <1>1, <1>2, <1>3, MinIs
  <1> QED
    BY <1>1, <1>4 DEF FirstOnes

LEMMA MinIsFirst ==
  ASSUME NEW n \in Nat, NEW lines, NEW k \in KeysOf(lines, 1..n)
  PROVE  \E i \in 1..n : /\ IsFirst(lines, i) /\ Before("=", lines[i]) = k
                         /\ FirstOnes(lines, 1..n)[k] = After("=", lines[i])
  <1>1. PICK i : i = Min(LinesFor(lines, 1..n, k))
    OBVIOUS
  <1>2. i \in LinesFor(lines, 1..n, k) /\ \A j \in LinesFor(lines, 1..n, k) : i <= j
    BY <1>1, FirstLineFor
  <1>3. i \in 1..n /\ First("=", lines[i]) # 0 /\ Before("=", lines[i]) = k
    BY <1>2 DEF LinesFor, PairLines
  <1>4. ASSUME NEW j \in 1..(i - 1), First("=", lines[j]) # 0 PROVE Before("=", lines[j]) # k
    <2>1. j \in 1..n /\ ~(i <= j)
      BY <1>3
    <2>2. j \notin LinesFor(lines, 1..n, k)
      BY <1>2, <2>1
    <2> QED
      BY <1>4, <2>1, <2>2 DEF LinesFor, PairLines
  <1>5. FirstOnes(lines, 1..n)[k] = After("=", lines[i])
    BY <1>1 DEF FirstOnes
  <1> QED
    BY <1>3, <1>4, <1>5 DEF IsFirst

\* The fields of the response, line by line.
FieldOf(table, l) == [name |-> table[Before("=", l)], value |-> After("=", l)]
Answering(lines, table) ==
  {i \in DOMAIN lines : /\ First("=", lines[i]) # 0 /\ Before("=", lines[i]) \in DOMAIN table
                        /\ After("=", lines[i]) # << >>
                        /\ \A j \in 1..(i - 1) : First("=", lines[j]) # 0 =>
                             Before("=", lines[j]) # Before("=", lines[i])}

LEMMA ResponseOfLines ==
  ASSUME NEW S, NEW lines \in Seq(S), NEW table
  PROVE  Response(FirstOnes(lines, DOMAIN lines), table)
           = {FieldOf(table, lines[i]) : i \in Answering(lines, table)}
  <1> DEFINE n == Len(lines)
             m == FirstOnes(lines, 1..n)
  <1>1. n \in Nat /\ DOMAIN lines = 1..n
    OBVIOUS
  <1>2. DOMAIN m = KeysOf(lines, 1..n)
    BY DEF FirstOnes
  <1>3. Answering(lines, table) = {i \in 1..n : /\ IsFirst(lines, i) /\ Before("=", lines[i]) \in DOMAIN table
                                                /\ After("=", lines[i]) # << >>}
    BY <1>1 DEF Answering, IsFirst
  <1>4. Response(m, table) = {[name |-> table[k], value |-> m[k]] :
                                k \in {x \in DOMAIN m \intersect DOMAIN table : m[x] # << >>}}
    BY DEF Response
  <1> HIDE DEF n, m
  <1>5. ASSUME NEW k \in {x \in DOMAIN m \intersect DOMAIN table : m[x] # << >>}
        PROVE  \E i \in Answering(lines, table) : [name |-> table[k], value |-> m[k]] = FieldOf(table, lines[i])
    <2>1. PICK i \in 1..n : IsFirst(lines, i) /\ Before("=", lines[i]) = k /\ m[k] = After("=", lines[i])
      BY <1>1, <1>2, MinIsFirst DEF m
    <2> QED
      BY <1>3, <2>1 DEF FieldOf
  <1>6. ASSUME NEW i \in Answering(lines, table)
        PROVE  \E k \in {x \in DOMAIN m \intersect DOMAIN table : m[x] # << >>} :
                 [name |-> table[k], value |-> m[k]] = FieldOf(table, lines[i])
    <2>1. i \in 1..n /\ IsFirst(lines, i) /\ Before("=", lines[i]) \in DOMAIN table /\ After("=", lines[i]) # << >>
      BY <1>3
    <2>2. Before("=", lines[i]) \in DOMAIN m /\ m[Before("=", lines[i])] = After("=", lines[i])
      BY <1>1, <1>2, <2>1, FirstIsMin DEF m
    <2> QED
      BY <2>1, <2>2 DEF FieldOf
  <1>7. Response(m, table) = {FieldOf(table, lines[i]) : i \in Answering(lines, table)}
    BY <1>4, <1>5, <1>6
  <1> QED
    BY <1>1, <1>7 DEF m

\* An answer, and the response that is made from its map.
LEMMA ResponseOfAnswer ==
  ASSUME NEW text \in CText
  PROVE  Response(convertStringtoMap(text), ResponseMap)
           = {FieldOf(ResponseMap, Pieces("\n", text)[i]) : i \in Answering(Pieces("\n", text), ResponseMap)}
  <1>1. text \in Seq(STRING \ {NUL})
    BY DEF CText
  <1>2. Pieces("\n", text) \in Seq(Seq(STRING \ {NUL}))
    BY <1>1, PiecesAre
  <1>3. convertStringtoMap(text) = FirstOnes(Pieces("\n", text), DOMAIN Pieces("\n", text))
    BY <1>1, FirstLineWins
  <1> QED
    BY <1>2, <1>3, ResponseOfLines

\* Whatever the tables and the service say, a response holds what the reply to this payment
\* gives, and nothing is answered that was not executed.
THEOREM Responses == Spec => []ResponseIsOfThisPayment
  <1>1. ASSUME IInv PROVE ResponseIsOfThisPayment
    <2>1. AnswerSoFar
      BY <1>1 DEF IInv
    <2>2. response # {} => fate[theCall] = "answered" /\ theCall \in executed
      <3>1. Response(NoPairs, ResponseMap) = {}
        BY DEF Response, NoPairs
      <3> QED
        BY <2>1, <3>1 DEF AnswerSoFar, Closed
    <2>3. ended = "returned" /\ fate[theCall] = "answered" =>
            response = {FieldOf(ResponseMap, Pieces("\n", replyText)[i]) :
                          i \in Answering(Pieces("\n", replyText), ResponseMap)}
      BY <2>1, ResponseOfAnswer DEF AnswerSoFar
    <2> QED
      BY <2>2, <2>3 DEF ResponseIsOfThisPayment, FieldOf, Answering
  <1> QED
    BY <1>1, Invariance, PTL

------------------------------- (* the request *) -------------------------------
\* What the client writes itself.
LEMMA StampsAre ==
  /\ DOMAIN Stamps = {<<"clientLibrary">>} /\ Stamps[<<"clientLibrary">>] = <<"CPP">>
  /\ IsTextMap(Stamps, CleanWords)
  /\ Plain(<<"clientLibrary">>, <<"CPP">>)
  <1>1. Stamps = [x \in {<<"clientLibrary">>} |-> <<"CPP">>]
    <2>1. PICK k, v : k = <<"clientLibrary">> /\ v = <<"CPP">>
      OBVIOUS
    <2>2. DOMAIN NoPairs = {}
      BY DEF NoPairs
    <2>3. Put(NoPairs, k, v) = [x \in {k} |-> v]
      BY <2>2, PutIs
    <2> QED
      BY <2>1, <2>3 DEF Stamps
  <1>2. IsTextMap(NoPairs, CleanWords)
    BY FS_EmptySet DEF IsTextMap, NoPairs
  <1>3. IsTextMap(Stamps, CleanWords)
    BY <1>2, CTextIsClean, PutTyping DEF Stamps, CleanText
  <1>4. Plain(<<"clientLibrary">>, <<"CPP">>)
    BY DEF Plain, Contains
  <1> QED
    BY <1>1, <1>3, <1>4

\* The request that goes out, key by key.
LEMMA OutgoingIs ==
  ASSUME TextsAreClean, <<"merchantID">> \in DOMAIN soRequest \/ Has("merchantID")
  PROVE  /\ IsTextMap(Outgoing, CleanWords)
         /\ DOMAIN Outgoing = DOMAIN Stamps \union DOMAIN soRequest \union {<<"merchantID">>}
         /\ \A k \in DOMAIN Stamps : Outgoing[k] = Stamps[k]
         /\ \A k \in DOMAIN soRequest \ DOMAIN Stamps : Outgoing[k] = soRequest[k]
         /\ <<"merchantID">> \notin DOMAIN soRequest =>
              Outgoing[<<"merchantID">>] = cfgMap[<<"merchantID">>]
  <1> DEFINE id == <<"merchantID">>
             m == Put(soRequest, id, MerchantID)
  <1>1. IsTextMap(m, CleanWords)
    <2>1. MerchantID \in CleanText /\ id \in CleanText
      BY MerchantIDIsClean, CTextIsClean
    <2> QED
      BY <2>1, PutTyping DEF TextsAreClean, CleanText
  <1>2. m = [x \in {id} \union DOMAIN soRequest |-> IF x = id THEN MerchantID ELSE soRequest[x]]
    BY PutIs
  <1>3. MerchantID = IF id \in DOMAIN soRequest THEN soRequest[id] ELSE cfgMap[id]
    BY DEF MerchantID, Get
  <1>4. id \notin DOMAIN Stamps
    BY StampsAre
  <1>5. Outgoing = Over(Stamps, m)
    BY DEF Outgoing
  <1> HIDE DEF m, id
  <1>6. IsTextMap(Outgoing, CleanWords)
    BY <1>1, <1>5, StampsAre, OverTyping
  <1>7. /\ DOMAIN Outgoing = DOMAIN Stamps \union DOMAIN m
        /\ \A k \in DOMAIN Outgoing : Outgoing[k] = IF k \in DOMAIN Stamps THEN Stamps[k] ELSE m[k]
    BY <1>5 DEF Over
  <1>8. DOMAIN m = DOMAIN soRequest \union {id} /\ \A k \in DOMAIN soRequest : m[k] = soRequest[k]
    BY <1>2, <1>3
  <1>9. id \notin DOMAIN soRequest => m[id] = cfgMap[id]
    BY <1>2, <1>3
  <1> QED
    BY <1>4, <1>6, <1>7, <1>8, <1>9 DEF id

\* A plain request stays plain: a value of the configuration has no end of a line in it.
LEMMA OutgoingIsPlain ==
  ASSUME TextsAreClean, <<"merchantID">> \in DOMAIN soRequest \/ Has("merchantID"),
         PlainKeys(soRequest) = DOMAIN soRequest
  PROVE  PlainKeys(Outgoing) = DOMAIN Outgoing
  <1> SUFFICES ASSUME NEW k \in DOMAIN Outgoing PROVE Plain(k, Outgoing[k])
    BY DEF PlainKeys
  <1>1. CASE k \in DOMAIN Stamps
    BY <1>1, OutgoingIs, StampsAre
  <1>2. CASE k \in DOMAIN soRequest \ DOMAIN Stamps
    BY <1>2, OutgoingIs DEF PlainKeys
  <1>3. CASE k \notin DOMAIN Stamps \union DOMAIN soRequest
    <2>1. k = <<"merchantID">> /\ Has("merchantID") /\ Outgoing[k] = Get("merchantID")
      BY <1>3, OutgoingIs DEF Get
    <2>2. Get("merchantID") \in CleanLine
      BY <2>1, GetIsClean DEF TextsAreClean
    <2>3. \A i \in 1..Len(Get("merchantID")) : Get("merchantID")[i] # "\n"
      BY <2>2 DEF CleanLine
    <2>4. Plain(<<"merchantID">>, Get("merchantID"))
      BY <2>3 DEF Plain, Contains
    <2> QED
      BY <2>1, <2>4
  <1> QED
    BY <1>1, <1>2, <1>3

\* Whatever the message holds, the service executes what it means.
THEOREM Executions == Spec => []ExecutesWhatIsMeant
  <1>1. ASSUME IInv, theCall \in executed PROVE
          /\ \A k \in PlainKeys(Meant) \ DOMAIN Stamps : <<k, Meant[k]>> \in received
          /\ PlainKeys(Meant) = DOMAIN Meant =>
               received \subseteq PairsOf(Meant) \union PairsOf(Stamps)
                                    \union {p \in PairsOf(cfgMap) : p[1] = <<"merchantID">>}
    <2>1. /\ TextsAreClean /\ soRequest = Meant
          /\ <<"merchantID">> \in DOMAIN soRequest \/ Has("merchantID")
          /\ received = Lines(convertMaptoString(Outgoing))
      BY <1>1 DEF IInv, RequestSoFar
    <2>2. /\ IsTextMap(Outgoing, CleanWords)
          /\ DOMAIN Outgoing = DOMAIN Stamps \union DOMAIN Meant \union {<<"merchantID">>}
          /\ \A k \in DOMAIN Stamps : Outgoing[k] = Stamps[k]
          /\ \A k \in DOMAIN Meant \ DOMAIN Stamps : Outgoing[k] = Meant[k]
          /\ <<"merchantID">> \notin DOMAIN Meant =>
               Outgoing[<<"merchantID">>] = cfgMap[<<"merchantID">>]
      BY <2>1, OutgoingIs
    <2>3. "=" \in CleanWords /\ "\n" \in CleanWords
      BY DEF CleanWords, Words, NUL
    <2>4. /\ \A k \in PlainKeys(Outgoing) : <<k, Outgoing[k]>> \in received
          /\ PlainKeys(Outgoing) = DOMAIN Outgoing => received = PairsOf(Outgoing)
      BY <2>1, <2>2, <2>3, PlainPairsArrive
    <2>5. ASSUME NEW k \in PlainKeys(Meant) \ DOMAIN Stamps PROVE <<k, Meant[k]>> \in received
      <3>1. k \in DOMAIN Outgoing /\ Outgoing[k] = Meant[k] /\ k \in PlainKeys(Outgoing)
        BY <2>2 DEF PlainKeys
      <3> QED
        BY <2>4, <3>1
    <2>6. ASSUME PlainKeys(Meant) = DOMAIN Meant, NEW p \in received
          PROVE  p \in PairsOf(Meant) \union PairsOf(Stamps)
                         \union {q \in PairsOf(cfgMap) : q[1] = <<"merchantID">>}
      <3>1. PICK k \in DOMAIN Outgoing : p = <<k, Outgoing[k]>>
        <4>1. PlainKeys(Outgoing) = DOMAIN Outgoing
          BY <2>1, <2>6, OutgoingIsPlain
        <4> QED
          BY <2>4, <2>6, <4>1 DEF PairsOf
      <3>2. CASE k \in DOMAIN Stamps
        BY <2>2, <3>1, <3>2 DEF PairsOf
      <3>3. CASE k \in DOMAIN Meant \ DOMAIN Stamps
        BY <2>2, <3>1, <3>3 DEF PairsOf
      <3>4. CASE k \notin DOMAIN Stamps \union DOMAIN Meant
        <4>1. k = <<"merchantID">> /\ k \in DOMAIN cfgMap /\ Outgoing[k] = cfgMap[k]
          BY <2>1, <2>2, <3>4 DEF Has
        <4> QED
          BY <3>1, <4>1 DEF PairsOf
      <3> QED
        BY <3>2, <3>3, <3>4
    <2> QED
      BY <2>5, <2>6
  <1>2. IInv => ExecutesWhatIsMeant
    BY <1>1 DEF ExecutesWhatIsMeant
  <1> QED
    BY <1>2, Invariance, PTL
================================================================================
