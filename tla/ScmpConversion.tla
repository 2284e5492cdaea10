----------------------------- MODULE ScmpConversion -----------------------------
(***************************************************************************)
(* What ics_util.cpp makes of an SCMP message: the fields of a Simple      *)
(* Order request by the tables of the .properties files, the items of an   *)
(* offer by name, and back.  A message is a sequence of fields.            *)
(***************************************************************************)
EXTENDS Texts, Integers

\* loadPropertiesFile: a line needs a value; the last one for a name counts.
Properties(lines) ==
  LET Counts(line) == /\ line # << >> /\ Head(line) # "#"
                      /\ First("=", line) # 0 /\ After("=", line) # << >>
      Pair(line) == IF Counts(line) THEN << <<Before("=", line), After("=", line)>> >> ELSE << >>
  IN  MapOf(FlattenSeq([i \in DOMAIN lines |-> Pair(lines[i])]))

\* What a table says of a key: one pair, or none.
Entry(table, key, value) == IF key \in DOMAIN table THEN << <<table[key], value>> >> ELSE << >>

\* The bundle of applications is looked for in the name of the field.
Applications(field, apps) ==
  LET names == Pieces(",", field.name)
  IN  IF Contains(field.name, ",")
      THEN FlattenSeq([i \in DOMAIN names |-> Entry(apps, names[i], <<"true">>)])
      ELSE Entry(apps, field.value, <<"true">>)

ItemKeys == [amount |-> "_unitPrice", quantity |-> "_quantity", product_name |-> "_productName",
             product_description |-> "_productDescription", product_code |-> "_productCode",
             merchant_product_sku |-> "_productSKU", tax_amount |-> "_taxAmount"]

\* substr(5): the number of an offer, or what is left of another name that holds the word.
ItemNumber(name) == IF Head(name) = "offer" THEN Tail(name) ELSE <<"5 less of">> \o name

\* A piece of an offer, at its first colon.
ItemSplit(piece) == <<Before(":", piece), After(":", piece)>>

\* A piece with one of the names that an item has.
IsOfItem(piece) ==
  First(":", piece) # 0 /\ Len(ItemSplit(piece)[1]) = 1 /\ ItemSplit(piece)[1][1] \in DOMAIN ItemKeys

\* amount:4.59^quantity:1 gives the price and the quantity of the item.
Offer(field) ==
  LET pieces == Pieces("^", field.value)
      Key(piece) == <<"item_">> \o ItemNumber(field.name) \o <<ItemKeys[ItemSplit(piece)[1][1]]>>
      Pair(piece) == IF IsOfItem(piece) THEN << <<Key(piece), ItemSplit(piece)[2]>> >> ELSE << >>
  IN  FlattenSeq([i \in DOMAIN pieces |-> Pair(pieces[i])])

\* The pairs that a field puts into the Simple Order request, in their order.
Pairs(field, table, apps) ==
  IF field.name = <<"ics_applications">> THEN Applications(field, apps)
  ELSE IF Contains(field.name, "offer") THEN Offer(field)
  ELSE Entry(table, field.name, field.value)

FirstFieldStays(m, pairs) == Over(m, MapOf(pairs))                     \* mutant

\* soRequest[key] = value, pair by pair.
WithPairs(m, pairs) == Over(MapOf(pairs), m)

\* The fields of the SCMP response: each value that is not empty and has a name there.
Response(reply, table) ==
  {[name |-> table[k], value |-> reply[k]] :
     k \in {x \in DOMAIN reply \intersect DOMAIN table : reply[x] # << >>}}
================================================================================
