----------------------------- MODULE MCExchange ------------------------------
(* Values for the constants of Exchange and MessageDecoder. *)
EXTENDS Exchange

Field == [field |-> 1, type |-> 0, name |-> <<97>>]
Number == [field |-> 0, type |-> 1, name |-> <<>>]

Comparison(negative, a, b) ==
    [negative |-> negative, is_true |-> 0, operation |-> 61, op1 |-> a, op2 |-> b]

Plain(place, negative, value) ==
    [place |-> place, negative |-> negative, any |-> 0, value |-> value, filters |-> <<>>]

With(l, filters) == [l EXCEPT !.filters = filters]

Filter(negative, comparators) == [negative |-> negative, comparators |-> comparators]

Levels(place) ==
    LET one == Plain(place, 0, <<200>>)
    IN  {one,
         Plain(place, 1, <<1>>),
         With(one, <<Filter(1, <<Comparison(0, Field, Number)>>)>>),
         With(one, <<Filter(0, <<>>), Filter(0, <<>>)>>)}

\* Levels that convert_to_message does not survive: any id, and a comparator that is a name.
Deadly ==
    {[Plain(0, 0, <<>>) EXCEPT !.any = 1],
     With(Plain(0, 0, <<1>>),
          <<Filter(0, <<[negative |-> 0, is_true |-> 1, operation |-> 0, op1 |-> None, op2 |-> None]>>)>>)}

Trees ==
    {<<l>> : l \in Levels(0) \cup Levels(1) \cup Deadly}
    \cup {<<b, a>> : a \in Levels(0), b \in Levels(2)}
    \cup {<<Plain(2, 0, <<3>>), Plain(2, 0, <<2>>), Plain(0, 0, <<1>>)>>}

Queries ==
    [crud_operation : {45, 63}, tree : Trees, name : {<<>>}, value : {0}]
    \cup [crud_operation : {61}, tree : Trees, name : {<<97, 98>>}, value : {1, 300}]

Tuples == {[id |-> 1, parent |-> 0], [id |-> 2, parent |-> 1]}

\* With one that is longer than the array.
TupleLists == UNION {[1..n -> Tuples] : n \in 0..2} \cup {[n \in 1..3 |-> [id |-> n, parent |-> 1]]}

AnyPart == 0..BufferSize

NoBuffers == {}
=============================================================================
