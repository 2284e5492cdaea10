------------------------------ MODULE MCSafeFields ------------------------------
EXTENDS SafeFields, TLC

CONSTANT MaxLength              \* bound: characters of a name

AllNames == UNION {[1..n -> Chars] : n \in 0..MaxLength}
Request == <<"b">>
Reply == <<"b", "b">>
\* Lists that overlap: "ab a_b", "b", "a 0b"; the parents' names are field names too.
Lists == (<<"a">> :> <<"a", "b", " ", "a", "_", "b">>) @@ (Request :> <<"b">>)
           @@ (Reply :> <<"a", " ", "0", "b">>)
TrackData == <<"b", "a">>
Boundaries == {0, 1, 9, 10, 15, 16, 17}
================================================================================
