--------------------------- MODULE MessageEncoder ---------------------------
(***************************************************************************)
(* Encoding a message (src/proto/nanopb/pb_encode.c): what pb_encode       *)
(* writes of a struct in memory into a buffer of so many bytes.            *)
(*                                                                         *)
(* pb_encode is a run of calls of pb_write, and ends at the first that has *)
(* no room; what was written before stays in the buffer.  So a message is  *)
(* its writes, in order.  The memory is bytes by their address, and 0      *)
(* where nothing was written: every struct that is encoded starts as {}.   *)
(***************************************************************************)
EXTENDS MessageSchema, SequencesExt

ByteAt(mem, a) == IF a \in DOMAIN mem THEN mem[a] ELSE 0

\* In place of a write: the encoder reports an error instead.
Refused == <<-1>>

-----------------------------------------------------------------------------
(***************************************************************************)
(* Numbers.  pb_encode_varint takes 64 bits, here eight bytes, and writes  *)
(* no group of seven bits behind the last that is not 0.                   *)
(***************************************************************************)
Group(b, k) ==
    LET first == (7 * k) \div 8
        next  == IF first < 7 THEN b[first + 1] ELSE 0
    IN  ((b[first] + 256 * next) \div 2^((7 * k) % 8)) % 128

Varint(b) ==
    LET last == Max({0} \cup {k \in 1..9 : Group(b, k) # 0})
    IN  [k \in 1..last + 1 |-> Group(b, k - 1) + IF k <= last THEN 128 ELSE 0]

\* A length or a tag.
Unsigned(n) == Varint([i \in 0..7 |-> IF i < 4 THEN (n \div 256^i) % 256 ELSE 0])

\* pb_enc_varint extends a number by its sign.
Extended(mem, a, size) ==
    [i \in 0..7 |-> IF i < size THEN ByteAt(mem, a + i)
                    ELSE IF ByteAt(mem, a + size - 1) >= 128 THEN 255 ELSE 0]

Bytes(mem, a, n) == [i \in 1..n |-> ByteAt(mem, a + i - 1)]

-----------------------------------------------------------------------------
(***************************************************************************)
(* Fields.                                                                 *)
(***************************************************************************)
\* pb_enc_string: the last byte there is room for must end the string.
StringWrites(mem, a, size) ==
    LET ends == {i \in 0..size - 1 : ByteAt(mem, a + i) = 0}
    IN  IF ends = {} THEN <<Refused>>
        ELSE <<Unsigned(Min(ends)), Bytes(mem, a, Min(ends))>>

\* pb_encode_submessage: a message is encoded once for its length and once
\* for its bytes, which are written only if there is room for them all.
MessageWrites(writes) ==
    IF Contains(writes, Refused) THEN <<Refused>>
    ELSE <<Unsigned(Len(FlattenSeq(writes))), FlattenSeq(writes)>>

TagWrite(f) ==
    Unsigned(8 * f.tag + CASE f.type = "VARINT" -> 0 [] f.type = "FIXED32" -> 5 [] OTHER -> 2)

CountAt(mem, f, base) ==
    ByteAt(mem, base + f.offset - f.size_offset)
    + 256 * ByteAt(mem, base + f.offset - f.size_offset + 1)

\* A slip: the first entry of an array is left out.
Entries_FirstLeft(mem, f, base) ==
    CASE f.rule = "REQUIRED" -> <<base + f.offset>>
      [] f.rule = "ONEOF" -> IF CountAt(mem, f, base) = f.tag THEN <<base + f.offset>> ELSE <<>>
      [] f.rule = "REPEATED" -> [i \in 1..CountAt(mem, f, base) - 1 |->
                                    base + f.offset + i * f.data_size]

\* Where the values of a field are: of a union only of the member it says it holds.
Entries(mem, f, base) ==
    CASE f.rule = "REQUIRED" -> <<base + f.offset>>
      [] f.rule = "ONEOF" -> IF CountAt(mem, f, base) = f.tag THEN <<base + f.offset>> ELSE <<>>
      [] f.rule = "REPEATED" -> [i \in 1..CountAt(mem, f, base) |->
                                    base + f.offset + (i - 1) * f.data_size]

\* encode_field, of a field whose values are written so.
FieldWrites(f, values) ==
    IF f.rule = "REPEATED" /\ Len(values) > f.array_size THEN <<Refused>>
    ELSE FlattenSeq([i \in DOMAIN values |-> <<TagWrite(f)>> \o values[i]])

\* What is written of the value of a field at address a; writes has it of the messages
\* that are embedded.
ValueWrites(mem, f, a, writes) ==
    CASE f.type = "VARINT"  -> <<Varint(Extended(mem, a, f.data_size))>>
      [] f.type = "FIXED32" -> <<Bytes(mem, a, 4)>>
      [] f.type = "STRING"  -> StringWrites(mem, a, f.data_size)
      [] f.type = "MESSAGE" -> MessageWrites(writes[f.sub][a])

EntriesWrites(mem, f, places, writes) ==
    FieldWrites(f, [i \in DOMAIN places |-> ValueWrites(mem, f, places[i], writes)])

StructWrites(mem, fields, base, writes) ==
    FlattenSeq([i \in DOMAIN fields |->
        EntriesWrites(mem, fields[i], Entries(mem, fields[i], base), writes)])

\* pb_encode: the writes of a message whose struct is at base, field by field.
WritesAdded(mem, known, m, fields) ==
    Knowing(known, m, [base \in Nat |-> StructWrites(mem, fields, base, known)])

Writes(mem) ==
    LET writes[n \in 0..Len(Order)] ==
          IF n = 0 THEN <<>> ELSE WritesAdded(mem, writes[n - 1], Order[n], InfoList[Order[n]])
    IN  writes[Len(Order)]

\* The first k writes, if there is room for them.
Fits(writes, k, max) ==
    /\ ~Contains(SubSeq(writes, 1, k), Refused)
    /\ Len(FlattenSeq(SubSeq(writes, 1, k))) <= max

Kept(writes, k) ==
    [bytes |-> FlattenSeq(SubSeq(writes, 1, k)), ok |-> k = Len(writes)]

InBuffer(writes, max) == Kept(writes, Max({k \in 0..Len(writes) : Fits(writes, k, max)}))

\* What pb_encode leaves in a buffer of max bytes.
Encoded(mem, m, max) == InBuffer(Writes(mem)[m][0], max)
=============================================================================
