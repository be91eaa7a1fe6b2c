--------------------------- MODULE MessageSchema ----------------------------
(***************************************************************************)
(* The messages of the protocol (src/proto/message.pb.h): their fields,    *)
(* the C structs that hold them, and the descriptors the codec works from. *)
(* A descriptor keeps each field's place in one, two or four words, with   *)
(* so many bits for each number.                                           *)
(* Sizes are those of a 64-bit Linux.                                      *)
(***************************************************************************)
EXTENDS Integers, Sequences

CONSTANTS
    ArraySize,   \* max_count, 5: entries of every repeated field
    StringSize   \* max_size, 16: bytes of every string, its terminator included

ASSUME SizesAssumption == ArraySize \in Nat \ {0} /\ StringSize \in Nat \ {0}

Largest(S) == CHOOSE x \in S : \A y \in S : y <= x

-----------------------------------------------------------------------------
Scalar(rule, type, name, tag) ==
    [rule |-> rule, type |-> type, name |-> name, tag |-> tag, sub |-> ""]

Embedded(rule, sub, name, tag) ==
    [rule |-> rule, type |-> "MESSAGE", name |-> name, tag |-> tag, sub |-> sub]

\* The FIELDLISTs.
FieldList ==
    [ Attribute   |-> << Scalar("REQUIRED", "INT32",  "type",    1),
                         Scalar("REQUIRED", "STRING", "name",    2),
                         Scalar("ONEOF",    "STRING", "str",     3),
                         Scalar("ONEOF",    "INT32",  "integer", 4),
                         Scalar("ONEOF",    "FLOAT",  "real",    5),
                         Scalar("ONEOF",    "INT32",  "int32ean", 6) >>,
      Operator    |-> << Scalar("REQUIRED", "INT32", "field", 1),
                         Embedded("REQUIRED", "Attribute", "value", 2) >>,
      Comparator  |-> << Scalar("REQUIRED", "INT32", "negative",  1),
                         Scalar("REQUIRED", "INT32", "is_true",   2),
                         Scalar("REQUIRED", "INT32", "operation", 3),
                         Embedded("REQUIRED", "Operator", "op1", 4),
                         Embedded("REQUIRED", "Operator", "op2", 5) >>,
      Filter      |-> << Scalar("REQUIRED", "INT32", "negative", 1),
                         Embedded("REPEATED", "Comparator", "comp", 2) >>,
      Level       |-> << Scalar("REQUIRED", "INT32", "negative", 1),
                         Scalar("REQUIRED", "INT32", "any",      2),
                         Scalar("REQUIRED", "INT32", "parent",   3),
                         Scalar("REQUIRED", "INT32", "id",       4),
                         Embedded("REPEATED", "Filter", "filters", 5) >>,
      Query_tree  |-> << Scalar("REQUIRED", "INT32", "command", 1),
                         Embedded("REPEATED", "Level", "level", 2),
                         Scalar("REQUIRED", "STRING", "name",  3),
                         Scalar("REQUIRED", "INT64",  "value", 4) >>,
      Return_code |-> << Scalar("REQUIRED", "INT32", "code", 1) >>,
      Entity      |-> << Embedded("REPEATED", "Attribute", "values", 1) >>,
      Tuple       |-> << Embedded("REQUIRED", "Entity", "data", 1),
                         Scalar("REQUIRED", "INT32", "id",        2),
                         Scalar("REQUIRED", "INT32", "parent_id", 3) >>,
      Collection  |-> << Embedded("REPEATED", "Tuple", "tuples", 1) >> ]

MessageNames == DOMAIN FieldList

\* How PB_BIND is told to store the descriptor of each message; 0 is AUTO.
Width == [m \in MessageNames |-> CASE m \in {"Filter", "Level", "Collection"} -> 2
                                   [] m = "Query_tree" -> 4
                                   [] OTHER -> 0]

-----------------------------------------------------------------------------
(***************************************************************************)
(* The structs, by C's rules: a member comes at the next multiple of its   *)
(* alignment.  A count goes before an array and a which_ before a union,   *)
(* whose members share their place.                                        *)
(***************************************************************************)
CountSize == 2    \* sizeof(pb_size_t)

AlignUp(n, a) == a * ((n + a - 1) \div a)

\* sizeof and the alignment of one item of a field; known has the messages declared before.
Item(f, known) ==
    CASE f.type \in {"INT32", "FLOAT"} -> [size |-> 4, align |-> 4]
      [] f.type = "INT64"  -> [size |-> 8, align |-> 8]
      [] f.type = "STRING" -> [size |-> StringSize, align |-> 1]
      [] f.type = "MESSAGE" -> [size |-> known[f.sub].size, align |-> known[f.sub].align]

\* A union is aligned as its strictest member is.
Alignment(f, fields, items) ==
    Largest({items[i].align : i \in {j \in DOMAIN fields :
                 fields[j] = f \/ (fields[j].rule = "ONEOF" /\ f.rule = "ONEOF")}})

\* Where a member's count or which_ goes, where the member, and what follows;
\* before is the member before it.
CountPlace(f, before) ==
    IF f.rule = "ONEOF" /\ before.rule = "ONEOF" THEN before.count
    ELSE AlignUp(before.end, CountSize)

DataPlace(f, align, before, count) ==
    CASE f.rule = "REQUIRED" -> AlignUp(before.end, align)
      [] f.rule = "ONEOF" /\ before.rule = "ONEOF" -> before.data
      [] OTHER -> AlignUp(count + CountSize, align)

Placed(f, item, before, count, data) ==
    [count |-> count, data |-> data, size |-> item.size, rule |-> f.rule,
     end |-> Largest({before.end, data + item.size * IF f.rule = "REPEATED" THEN ArraySize ELSE 1})]

After(f, item, align, before, count) ==
    Placed(f, item, before, count, DataPlace(f, align, before, count))

NoMember == [count |-> 0, data |-> 0, size |-> 0, rule |-> "", end |-> 0]

PlaceAfter(fields, items, i, before) ==
    After(fields[i], items[i], Alignment(fields[i], fields, items), before,
          CountPlace(fields[i], before))

Places(fields, items) ==
    LET place[i \in 0..Len(fields)] ==
          IF i = 0 THEN NoMember ELSE PlaceAfter(fields, items, i, place[i - 1])
    IN  place

\* A struct is aligned as its strictest member is, counts included.
Struct(fields, places, align) ==
    [place |-> places, align |-> align, size |-> AlignUp(places[Len(fields)].end, align)]

Aligned(fields, items) ==
    Largest({item.align : item \in {items[i] : i \in DOMAIN items}}
            \cup {CountSize : i \in {j \in DOMAIN fields : fields[j].rule # "REQUIRED"}})

Declared(fields, items) == Struct(fields, Places(fields, items), Aligned(fields, items))

\* The structs in the order message.pb.h declares them.
Order == <<"Attribute", "Operator", "Comparator", "Filter", "Level", "Query_tree",
           "Return_code", "Entity", "Tuple", "Collection">>

\* What is known of the messages, and m is x.
Knowing(known, m, x) == [y \in DOMAIN known \cup {m} |-> IF y = m THEN x ELSE known[y]]

LayoutAdded(known, m, fields) ==
    Knowing(known, m, Declared(fields, [i \in DOMAIN fields |-> Item(fields[i], known)]))

Layouts ==
    LET layouts[n \in 0..Len(Order)] ==
          IF n = 0 THEN <<>> ELSE LayoutAdded(layouts[n - 1], Order[n], FieldList[Order[n]])
    IN  layouts

Layout == Layouts[Len(Order)]

-----------------------------------------------------------------------------
(***************************************************************************)
(* The descriptors.                                                        *)
(***************************************************************************)
\* PB_DATA_OFFSET, PB_DATA_SIZE, PB_ARRAY_SIZE, PB_SIZE_OFFSET of a field and its place.
Measures(f, place) ==
    [tag         |-> f.tag,
     offset      |-> place.data,
     data_size   |-> place.size,
     array_size  |-> IF f.rule = "REPEATED" THEN ArraySize ELSE 1,
     size_offset |-> IF f.rule = "REQUIRED" THEN 0 ELSE place.data - place.count]

\* PB_FIELDINFO_WIDTH_AUTO.
AutoWidth(f) == IF f.rule = "REPEATED" \/ f.type \in {"STRING", "MESSAGE"} THEN 2 ELSE 1

Words(m, i) == IF Width[m] = 0 THEN AutoWidth(FieldList[m][i]) ELSE Width[m]

\* The bits each number has in so many words.
Bits(words) ==
    CASE words = 1 -> [tag |-> 6,  offset |-> 8,  data_size |-> 4,  size_offset |-> 4, array_size |-> 1]
      [] words = 2 -> [tag |-> 10, offset |-> 16, data_size |-> 12, size_offset |-> 4, array_size |-> 12]
      [] words = 4 -> [tag |-> 16, offset |-> 16, data_size |-> 16, size_offset |-> 7, array_size |-> 16]

\* PB_FIELDINFO_ASSERT: what does not fit does not compile.
ASSUME FieldsFit ==
    \A m \in MessageNames : \A i \in DOMAIN FieldList[m] :
        LET numbers == Measures(FieldList[m][i], Layout[m].place[i])
        IN  \A n \in DOMAIN numbers : numbers[n] < 2^Bits(Words(m, i))[n]

LType(type) == CASE type \in {"INT32", "INT64"} -> "VARINT"
                 [] type = "FLOAT" -> "FIXED32"
                 [] OTHER -> type

\* What load_descriptor_values finds of a field.
FieldInfo(f, place) ==
    LET numbers == Measures(f, place)
    IN  [rule |-> f.rule, type |-> LType(f.type), sub |-> f.sub,
         tag         |-> numbers.tag,
         offset      |-> numbers.offset,
         data_size   |-> numbers.data_size,
         array_size  |-> numbers.array_size,
         size_offset |-> numbers.size_offset]

InfoList ==
    LET info(fields, places) == [i \in DOMAIN fields |-> FieldInfo(fields[i], places[i])]
    IN  [m \in MessageNames |-> info(FieldList[m], Layout[m].place)]

\* Whether a message holds messages: submsg_info[0] is not NULL.
HoldsMessages(m) == \E i \in DOMAIN FieldList[m] : FieldList[m][i].type = "MESSAGE"

\* The offsets that pb_message_set_to_defaults sets to 0: of an array its count
\* alone, of a union its which_ alone, of an embedded message every byte, unless
\* that holds messages itself and is gone through field by field.
Cleared(f, known) ==
    CASE f.rule # "REQUIRED" ->
           {f.offset - f.size_offset + i : i \in 0..CountSize - 1}
      [] f.rule = "REQUIRED" /\ f.type = "MESSAGE" /\ HoldsMessages(f.sub) ->
           {f.offset + i : i \in known[f.sub]}
      [] OTHER -> {f.offset + i : i \in 0..f.data_size - 1}

ZeroedAdded(known, m, info) ==
    Knowing(known, m, UNION {Cleared(info[i], known) : i \in DOMAIN info})

Zeroed ==
    LET zeroed[n \in 0..Len(Order)] ==
          IF n = 0 THEN <<>> ELSE ZeroedAdded(zeroed[n - 1], Order[n], InfoList[Order[n]])
    IN  zeroed[Len(Order)]

\* What the codec knows of each message.
Described(size, fields, zeroed) ==
    [size     |-> size,
     fields   |-> fields,
     required |-> {f.tag : f \in {g \in fields : g.rule = "REQUIRED"}},
     zeroed   |-> zeroed]

InfoSet(info) == {info[i] : i \in DOMAIN info}

Descriptors ==
    [m \in MessageNames |-> Described(Layout[m].size, InfoSet(InfoList[m]), Zeroed[m])]
=============================================================================
