----------------------------- MODULE MCRedactWalk -----------------------------
(* RedactWalk for TLC: three shapes of payload with mixed texts in their    *)
(* leaves, and payloads of one leaf that holds any of many texts.           *)
EXTENDS RedactWalk

Entities == {r.entity : r \in all}
MCWords ==
  [key \in Entities \cup {"data", "customer account", "sep"} |->
     CASE key = "data" -> <<"data">>
       [] key = "customer account" -> <<"data", "BANK_ACCOUNT_US">>
       [] key = "sep" -> <<>>
       [] OTHER -> <<key>>]

Shape(rows, kind, kids, key) == [rows |-> rows, kind |-> kind, kids |-> kids, key |-> key, holds |-> "mixed"]
Column(key, holds) ==
  [rows |-> <<1>>, kind |-> <<"object", "string", "scalar", "scalar", "scalar", "scalar">>,
   kids |-> <<<<2>>, <<>>, <<>>, <<>>, <<>>, <<>>>>, key |-> [x \in Nodes |-> key], holds |-> holds]

(* A row with a nested array before a scalar column, and the supporting    *)
(* key over the array; a row with an object inside the supporting key, and *)
(* a key without words; two rows with the same column, a text in one and   *)
(* an object in the other.                                                 *)
Shapes == {
  Shape(<<1>>, <<"object", "string", "array", "string", "string", "scalar">>,
        <<<<2, 3, 6>>, <<>>, <<4, 5>>, <<>>, <<>>, <<>>>>,
        <<"sep", "data", "customer account", "sep", "sep", "data">>),
  Shape(<<1>>, <<"object", "object", "string", "object", "string", "string">>,
        <<<<2, 6>>, <<3, 4>>, <<>>, <<5>>, <<>>, <<>>>>,
        <<"sep", "customer account", "sep", "data", "data", "data">>),
  Shape(<<1, 3>>, <<"object", "string", "object", "object", "string", "string">>,
        <<<<2>>, <<>>, <<4>>, <<5, 6>>, <<>>, <<>>>>,
        <<"sep", "data", "sep", "data", "customer account", "sep">>)}
MCPayloads ==
  Shapes \cup {Column(entity, entity) : entity \in Entities}
  \cup {Column("data", "numbers"), Column("data", "introduced")}

(* For every pattern of an entity, the least text of each of its forms, or *)
(* a text in each of its formats, found sound or not.                      *)
Least(form) == Run([i \in DOMAIN form |-> CHOOSE c \in form[i] : \A d \in form[i] : c <= d])
Samples(p) ==
  {Least(form) : form \in p.forms}
  \cup {Written(format, <<1, 2, 3, 4, 5, 6, 7, 8, 9>>, sound) : format \in p.formats, sound \in BOOLEAN}
SamplesOf(entity) == UNION {UNION {Samples(p) : p \in r.patterns} : r \in {r \in all : r.entity = entity}}

(* Numbers that the validators know, with their last and another digit     *)
(* changed to every other.                                                 *)
Known == {
  <<0, 2, 1, 0, 0, 0, 0, 2, 1>>,
  <<4, 1, 1, 1, 1, 1, 1, 1, 1, 1, 1, 1, 1, 1, 1, 1>>,
  <<0, 4, 6, 4, 5, 4, 2, 8, 6>>,
  <<1, 2, 3, 4, 5, 6, 7, 8, 9, 3>>,
  <<9, 4, 3, 4, 7, 6, 5, 9, 1, 9>>,
  <<10, 1, 2, 3, 4, 5, 6, 7, 8, 0>>,
  <<1, 2, 3, 4, 5, 6, 7, 8, 9, 0, 3>>,
  <<13, 14, 8, 9, 3, 7, 0, 4, 0, 0, 4, 4, 0, 5, 3, 2, 0, 1, 3, 0, 0, 0>>,
  <<12, 0, 1, 33, 0, 0, 29, 4, 1>>,
  <<21, 0, 1, 33, 0, 0, 29, 4, 4>>,
  <<1, 5, 0, 7, 0, 6, 4, 9, 12, 1, 0, 3>>,
  <<1, 2, 3, 4, 5, 6, 6, 0, 1>>,
  <<10, 11, 1, 2, 3, 4, 5, 6, 3>>,
  <<1, 2, 3, 4, 5, 6, 7, 8, 9>>,
  <<0, 2, 1, 2, 3, 4, 5, 6, 8>>}
Variants(s) == {Run([s EXCEPT ![Len(s) - 3] = d, ![Len(s)] = e]) : d \in Digit, e \in Digit}

MCTexts ==
  [holds \in Entities \cup {"mixed", "numbers", "introduced"} |->
     CASE holds = "mixed" -> {Empty, Name, Written("prose", <<>>, TRUE), Written("email", <<>>, TRUE), Run(Rep(1, 8))}
       [] holds = "numbers" -> UNION {Variants(s) : s \in Known}
       [] holds = "introduced" -> UNION {{[t EXCEPT !.near = {entity}] : t \in SamplesOf(entity)} : entity \in Entities}
       [] OTHER -> SamplesOf(holds)]
MCSelections == {{}, {"financial"}, {"government", "digital-identity"}}
=============================================================================
