--------------------------------- MODULE Texts ---------------------------------
(***************************************************************************)
(* Texts as sequences of words.  A character that the code looks for       *)
(* ("=", ",", ":", "^", "#", "/", a space, a newline) is a word of its own; *)
(* whatever it never takes apart is one word, however long.                *)
(***************************************************************************)
EXTENDS SequencesExt, Integers

\* strchr, wcschr, find: the position of the first c in t, 0 if there is none.
First(c, t) == SelectInSeq(t, LAMBDA x : x = c)

\* The two sides of the first c in t.
Before(c, t) == SubSeq(t, 1, First(c, t) - 1)
After(c, t) == SubSeq(t, First(c, t) + 1, Len(t))

\* getline, wcstok: the pieces of t between the c's; nobody asks for the empty ones.
Pieces(c, t) ==
  LET Starts(i) == t[i] # c /\ (i > 1 => t[i - 1] = c)
      End(i) == Min({j \in i..Len(t) : j < Len(t) => t[j + 1] = c})
  IN  FlattenSeq([i \in DOMAIN t |-> IF Starts(i) THEN <<SubSeq(t, i, End(i))>> ELSE << >>])

\* A map whose pairs are those of new, and those of m for other keys.
Over(new, m) == [k \in DOMAIN new \union DOMAIN m |-> IF k \in DOMAIN new THEN new[k] ELSE m[k]]

\* A map with one more pair, or another value for a key it has.
Put(m, k, v) == Over([x \in {k} |-> v], m)

NoPairs == << >>   \* the empty map

\* The map of a sequence of pairs: of two for one key the later counts.
MapOf(pairs) == [k \in {p[1] : p \in ToSet(pairs)} |->
                   pairs[Max({i \in DOMAIN pairs : pairs[i][1] = k})][2]]
================================================================================
