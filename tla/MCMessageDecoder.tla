-------------------------- MODULE MCMessageDecoder ---------------------------
(***************************************************************************)
(* Buffers for MessageDecoder: the fields of an attribute, well formed or  *)
(* not, in any order, alone, after a whole attribute, and inside the       *)
(* messages that hold attributes.  Each is decoded as every message.       *)
(***************************************************************************)
EXTENDS MessageDecoder, MessageSchema

CONSTANT MaxFields   \* fields of an attribute, besides those of a whole one

Delimited(tag, b) == <<8 * tag + 2, Len(b)>> \o b

\* type, three names of which the last is too long, the members of the union,
\* a negative number, fields unknown to any message, and what is no field.
SomeFields ==
    {<<8, 1>>,
     Delimited(2, <<>>), Delimited(2, <<97, 98>>), Delimited(2, <<97, 98, 99>>),
     Delimited(3, <<97>>), <<32, 255, 255, 255, 255, 255, 255, 255, 255, 255, 1>>,
     <<45, 1, 2, 3, 4>>, <<56, 0>>, <<18, 9>>, <<122, 1, 0>>, <<0>>, <<130, 1>>}

Whole == <<8, 1>> \o Delimited(2, <<97>>)

Parts ==
    {<<>>} \cup SomeFields
    \cup (IF MaxFields >= 2 THEN {a \o b : a, b \in SomeFields} ELSE {})

Attributes == Parts \cup {Whole \o a : a \in Parts}

\* The messages around an attribute, from the inside; arrays get one entry more
\* than they hold.
Around(b) ==
    LET operator   == <<8, 0>> \o Delimited(2, b)
        comparator == <<8, 0, 16, 0, 24, 61>> \o Delimited(4, operator) \o Delimited(5, operator)
        entity(n)  == CASE n = 1 -> Delimited(1, b)
                        [] n = 2 -> Delimited(1, Whole) \o Delimited(1, b)
                        [] n = 3 -> Delimited(1, Whole) \o Delimited(1, Whole) \o Delimited(1, b)
        tuple      == Delimited(1, entity(2)) \o <<16, 1, 24, 0>>
    IN  {operator, comparator, <<8, 0>> \o Delimited(2, comparator),
         entity(1), entity(2), entity(3), tuple,
         Delimited(1, tuple) \o Delimited(1, Delimited(1, entity(1)))}

SomeBuffers ==
    Attributes \cup UNION {Around(a) : a \in {b \in Attributes : Len(b) <= 8}}
=============================================================================
