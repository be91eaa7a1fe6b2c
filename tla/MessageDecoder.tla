--------------------------- MODULE MessageDecoder ---------------------------
(***************************************************************************)
(* Decoding a message (src/proto/nanopb/pb_decode.c): pb_decode reads a    *)
(* buffer, field by field, into a struct.  An embedded message is read     *)
(* from a substream of its own, with its own count of the bytes left.      *)
(*                                                                         *)
(* Memory is bytes: dest holds those of the struct that were written, the  *)
(* others are as they were.  A step is one field, its tag and its value.   *)
(* Field types, and ways to keep a field, that no message of this program  *)
(* has are left out, and so are extensions and callbacks.                  *)
(***************************************************************************)
EXTENDS Integers, Sequences

CONSTANTS
    Messages,    \* names of messages
    Descriptor,  \* of each, its struct and its fields
    Buffers      \* what is there to be decoded

Byte == 0..255
CountBytes == 0..1             \* pb_size_t
CountLimit == 65535

\* Where the count or the which_ of a field is, and what the field takes of the struct.
SizePlace(f) == f.offset - f.size_offset

Span(f) ==
    f.offset..f.offset + f.data_size * f.array_size - 1
        \cup {SizePlace(f) + i : i \in IF f.rule = "REQUIRED" THEN {} ELSE CountBytes}

\* What every descriptor that PB_BIND makes and asserts has.
FieldAssumption(m, f) ==
    /\ f.tag \in 1..CountLimit
    /\ f.rule \in {"REQUIRED", "REPEATED", "ONEOF"}
    /\ f.type \in {"VARINT", "FIXED32", "STRING", "MESSAGE"}
    /\ f.offset \in Nat /\ f.data_size \in Nat
    /\ f.offset + f.data_size * f.array_size <= Descriptor[m].size
    /\ f.array_size \in 1..CountLimit
    /\ f.size_offset \in 0..f.offset
    /\ f.rule # "REQUIRED" => f.size_offset >= 2
    /\ f.type = "FIXED32" => f.data_size = 4
    /\ f.type = "MESSAGE" => /\ f.sub \in Messages
                             /\ Descriptor[f.sub].size = f.data_size
                             /\ f.rule # "ONEOF"
    \* Every count and every which_ has a default, in embedded messages too.
    /\ f.rule # "REQUIRED" =>
         \A i \in CountBytes : SizePlace(f) + i \in Descriptor[m].zeroed
    /\ f.rule = "REQUIRED" /\ f.type = "MESSAGE" =>
         \A i \in Descriptor[f.sub].zeroed : f.offset + i \in Descriptor[m].zeroed

\* Two members of a struct.
MembersAssumption(f, g) ==
    /\ f.tag # g.tag
    /\ \/ Span(f) \cap Span(g) = {}
       \/ f.rule = "ONEOF" /\ g.rule = "ONEOF" /\ SizePlace(f) = SizePlace(g)

ASSUME DescriptorAssumption ==
    \A m \in Messages :
        /\ Descriptor[m].size \in Nat
        /\ Descriptor[m].zeroed \subseteq 0..Descriptor[m].size - 1
        /\ \A f \in Descriptor[m].fields :
              /\ FieldAssumption(m, f)
              /\ f.rule = "REQUIRED" => f.tag \in Descriptor[m].required
              /\ \A g \in Descriptor[m].fields \ {f} : MembersAssumption(f, g)

\* No struct is in itself.
ASSUME NestingAssumption ==
    \A S \in (SUBSET Messages) \ {{}} :
        \E m \in S : \A f \in Descriptor[m].fields : f.type = "MESSAGE" => f.sub \notin S

ASSUME BuffersAssumption == Buffers \subseteq Seq(Byte)

VARIABLES
    buf,     \* the buffer
    pos,     \* stream->state: bytes of it that were read
    stack,   \* the stream and the substreams in it that are being read
    dest,    \* the bytes of dest_struct that were written
    status   \* "decoding", "ok", or the error

decoder == <<buf, pos, stack, dest, status>>

\* A message that is being read: its descriptor, where its struct is, its
\* stream's bytes_left, and fields_seen.  end is where the stream ends in the
\* buffer, which the code does not know; it is here for the invariant.
Frame(m, base, left, end) ==
    [msg |-> m, base |-> base, left |-> left, seen |-> {}, end |-> end]

Top == stack[Len(stack)]

-----------------------------------------------------------------------------
(***************************************************************************)
(* Bytes and numbers.  A varint has seven bits of its number in each byte, *)
(* the lowest first, and goes on as long as the eighth bit is set.         *)
(***************************************************************************)
\* The length of the varint at p, if it ends within the next left bytes.
VarintLengths(p, left) ==
    {n \in 1..left : /\ buf[p + n] < 128
                     /\ \A k \in 1..n - 1 : buf[p + k] >= 128}

\* Its k-th seven bits.
Bits7(p, n, k) == IF k \in 1..n THEN buf[p + k] % 128 ELSE 0

\* pb_decode_varint: a number of 64 bits.
Fits64(p, n) == n <= 10 /\ (n = 10 => buf[p + 10] <= 1)

\* pb_decode_varint32_eof: a number of 32 bits, or a negative one extended to 64.
Fits32(p, n) ==
    /\ n <= 10
    /\ n >= 5 => (buf[p + 5] \div 16) % 8 = 0 \/ (buf[p + 5] \div 8) % 16 = 15
    /\ \A k \in 6..n : \/ buf[p + k] % 128 = 0
                       \/ /\ (buf[p + 5] \div 8) % 2 = 1
                          /\ buf[p + k] = IF k < 10 THEN 255 ELSE 1

\* Lengths from 2^30 up are one: TLC's numbers end soon after, and no buffer is as long.
Value32(p, n) ==
    IF Bits7(p, n, 5) % 16 >= 4 THEN 1024 * 1024 * 1024
    ELSE Bits7(p, n, 1) + 128 * Bits7(p, n, 2) + 16384 * Bits7(p, n, 3)
         + 2097152 * Bits7(p, n, 4) + 268435456 * (Bits7(p, n, 5) % 4)

\* A tag is a wire type in three bits, and a field's number.
WireType(p, n) == buf[p + 1] % 8

TagNumber(p, n) ==
    Bits7(p, n, 1) \div 8 + 16 * Bits7(p, n, 2) + 2048 * Bits7(p, n, 3)
    + 262144 * Bits7(p, n, 4) + 33554432 * (Bits7(p, n, 5) % 16)

\* The i-th byte, from 0, of the number in the varint: it spans two groups.
VarintByte(p, n, i) ==
    LET group == (8 * i) \div 7    shift == (8 * i) % 7
    IN  (Bits7(p, n, group + 1) \div 2^shift + Bits7(p, n, group + 2) * 2^(7 - shift)) % 256

\* Memory after the bytes b[0], b[1], ... were written at a.
Written(mem, a, b) ==
    [x \in DOMAIN mem \cup {a + i : i \in DOMAIN b} |->
        IF x - a \in DOMAIN b THEN b[x - a] ELSE mem[x]]

Zeros(m) == [i \in Descriptor[m].zeroed |-> 0]

\* A count or a which_, of two bytes; every one is written before it is read.
Number16(n) == [i \in CountBytes |-> (n \div 256^i) % 256]

Read16(mem, a) == mem[a] + 256 * mem[a + 1]

-----------------------------------------------------------------------------
\* The stream that pb_istream_from_buffer makes of buffer b, and what is decoded from it.
Opened(b, m) == <<Frame(m, 0, Len(b), Len(b))>>

\* pb_message_set_to_defaults comes first.
Init ==
    /\ buf \in Buffers
    /\ pos = 0
    /\ \E m \in Messages : stack = Opened(buf, m) /\ dest = Zeros(m)
    /\ status = "decoding"

Errors ==
    {"no tag", "zero tag", "cannot skip", "array overflow", "wrong wire type", "no varint",
     "end-of-stream", "no length", "string overflow", "parent stream too short",
     "missing required field"}

\* PB_RETURN_ERROR, which every caller passes on; what was written stays.
Fail(error, mem) ==
    /\ status' = error
    /\ dest' = mem
    /\ UNCHANGED <<buf, pos, stack>>

\* n bytes are taken off the stream, and the field numbered tag was seen.
Taken(n, tag) ==
    [stack EXCEPT ![Len(stack)] = [Top EXCEPT !.left = @ - n, !.seen = @ \cup {tag}]]

Advance(n, tag) ==
    /\ pos' = pos + n
    /\ stack' = Taken(n, tag)
    /\ UNCHANGED <<buf, status>>

-----------------------------------------------------------------------------
(***************************************************************************)
(* pb_decode_inner's loop: a field whose tag is t bytes long.              *)
(***************************************************************************)
InField == status = "decoding" /\ Top.left > 0

Tags == {t \in VarintLengths(pos, Top.left) : Fits32(pos, t)}

\* The tag is cut off by the end of the stream, or too large, or 0.
BadTag ==
    /\ InField
    /\ \A t \in Tags : TagNumber(pos, t) = 0
    /\ Fail(IF Tags = {} THEN "no tag" ELSE "zero tag", dest)

Fields(t) == {f \in Descriptor[Top.msg].fields : f.tag = TagNumber(pos, t)}

\* What pb_skip_field reads after the tag, if it is there.
Skipped(wire, p, left) ==
    CASE wire = 0 -> VarintLengths(p, left)
      [] wire = 1 -> {8} \cap (0..left)
      [] wire = 2 -> {n + Value32(p, n) : n \in {k \in VarintLengths(p, left) : Fits32(p, k)}}
                        \cap (0..left)
      [] wire = 5 -> {4} \cap (0..left)
      [] OTHER -> {}

\* A slip: what is skipped is not taken off the stream.
SkipField_Peeked ==
    /\ InField
    /\ \E t \in Tags :
        /\ TagNumber(pos, t) # 0
        /\ Fields(t) = {}
        /\ UNCHANGED decoder

\* A field this message does not have is skipped.
SkipField ==
    /\ InField
    /\ \E t \in Tags :
        /\ TagNumber(pos, t) # 0
        /\ Fields(t) = {}
        /\ \/ /\ Skipped(WireType(pos, t), pos + t, Top.left - t) = {}
              /\ Fail("cannot skip", dest)
           \/ \E n \in Skipped(WireType(pos, t), pos + t, Top.left - t) :
                /\ Advance(t + n, 0)
                /\ UNCHANGED dest

\* decode_static_field: an array counts its new entry, and a union says what
\* it holds, before anything of the value is read.
SizeAt(f) == Top.base + SizePlace(f)

Count(f) == Read16(dest, SizeAt(f))

\* A slip: the count is compared after the entry was made.
Full_OneMore(f) == f.rule = "REPEATED" /\ Count(f) > f.array_size

Full(f) == f.rule = "REPEATED" /\ Count(f) >= f.array_size

Counted(f) ==
    CASE f.rule = "REPEATED" -> Written(dest, SizeAt(f), Number16(Count(f) + 1))
      [] f.rule = "ONEOF"    -> Written(dest, SizeAt(f), Number16(f.tag))
      [] OTHER -> dest

\* A slip: every entry of an array is put where the first one is.
Address_First(f) == Top.base + f.offset

Address(f) ==
    Top.base + f.offset + IF f.rule = "REPEATED" THEN f.data_size * Count(f) ELSE 0

Wire(f) == CASE f.type = "VARINT" -> 0 [] f.type = "FIXED32" -> 5 [] OTHER -> 2

\* A field of this message, whose value comes after t bytes.
KnownField(t, f) ==
    /\ InField
    /\ t \in Tags
    /\ TagNumber(pos, t) # 0
    /\ f \in Fields(t)

Acceptable(t, f) == ~Full(f) /\ WireType(pos, t) = Wire(f)

RefuseField(t, f) ==
    /\ KnownField(t, f)
    /\ ~Acceptable(t, f)
    /\ Fail(IF Full(f) THEN "array overflow" ELSE "wrong wire type", Counted(f))

\* pb_dec_varint: a number loses the bits its field has no room for.
DecodeVarint(t, f) ==
    LET lengths == {n \in VarintLengths(pos + t, Top.left - t) : Fits64(pos + t, n)}
    IN  /\ KnownField(t, f)
        /\ Acceptable(t, f)
        /\ f.type = "VARINT"
        /\ \/ lengths = {} /\ Fail("no varint", Counted(f))
           \/ \E n \in lengths :
                /\ dest' = Written(Counted(f), Address(f),
                                   [i \in 0..f.data_size - 1 |-> VarintByte(pos + t, n, i)])
                /\ Advance(t + n, f.tag)

\* pb_decode_fixed32.
DecodeFixed32(t, f) ==
    /\ KnownField(t, f)
    /\ Acceptable(t, f)
    /\ f.type = "FIXED32"
    /\ \/ Top.left - t < 4 /\ Fail("end-of-stream", Counted(f))
       \/ /\ Top.left - t >= 4
          /\ dest' = Written(Counted(f), Address(f), [i \in 0..3 |-> buf[pos + t + i + 1]])
          /\ Advance(t + 4, f.tag)

\* The lengths of the length at p.
PrefixLengths(p, left) == {n \in VarintLengths(p, left) : Fits32(p, n)}

\* A slip: a string is not terminated.
DecodeString_Open(t, f) ==
    /\ KnownField(t, f)
    /\ Acceptable(t, f)
    /\ f.type = "STRING"
    /\ \/ PrefixLengths(pos + t, Top.left - t) = {} /\ Fail("no length", Counted(f))
       \/ \E n \in PrefixLengths(pos + t, Top.left - t) :
            LET size == Value32(pos + t, n)
            IN  \/ /\ size > f.data_size \/ size > Top.left - t - n
                   /\ Fail("end-of-stream", Counted(f))
                \/ /\ size <= f.data_size
                   /\ size <= Top.left - t - n
                   /\ dest' = Written(Counted(f), Address(f),
                                      [i \in 0..size - 1 |-> buf[pos + t + n + i + 1]])
                   /\ Advance(t + n + size, f.tag)

\* pb_dec_string: the terminator is written first, and stays when the rest fails.
DecodeString(t, f) ==
    /\ KnownField(t, f)
    /\ Acceptable(t, f)
    /\ f.type = "STRING"
    /\ \/ PrefixLengths(pos + t, Top.left - t) = {} /\ Fail("no length", Counted(f))
       \/ \E n \in PrefixLengths(pos + t, Top.left - t) :
            LET size       == Value32(pos + t, n)
                terminated == Written(Counted(f), Address(f) + size, [i \in {0} |-> 0])
            IN  \/ /\ size + 1 > f.data_size
                   /\ Fail("string overflow", Counted(f))
                \/ /\ size + 1 <= f.data_size
                   /\ size > Top.left - t - n
                   /\ Fail("end-of-stream", terminated)
                \/ /\ size + 1 <= f.data_size
                   /\ size <= Top.left - t - n
                   /\ dest' = Written(terminated, Address(f),
                                      [i \in 0..size - 1 |-> buf[pos + t + n + i + 1]])
                   /\ Advance(t + n + size, f.tag)

\* A slip: the entry of an array is decoded over what is in it.
Entered_Uncleared(f) == Counted(f)

\* An array's entry gets its defaults now; what is embedded otherwise got them
\* with the message it is in.
Entered(f) ==
    IF f.rule = "REPEATED" THEN Written(Counted(f), Address(f), Zeros(f.sub)) ELSE Counted(f)

\* A slip: the parent goes on with the bytes of the substream too.
DecodeSubmessage_ParentKept(t, f) ==
    /\ KnownField(t, f)
    /\ Acceptable(t, f)
    /\ f.type = "MESSAGE"
    /\ \E n \in PrefixLengths(pos + t, Top.left - t) :
        LET size == Value32(pos + t, n)
        IN  /\ size <= Top.left - t - n
            /\ pos' = pos + t + n
            /\ stack' = Append(Taken(t + n, f.tag),
                               Frame(f.sub, Address(f), size, pos + t + n + size))
            /\ dest' = Counted(f)
            /\ UNCHANGED <<buf, status>>

\* pb_dec_submessage: the bytes of the substream are taken off the parent's at
\* once.
DecodeSubmessage(t, f) ==
    /\ KnownField(t, f)
    /\ Acceptable(t, f)
    /\ f.type = "MESSAGE"
    /\ \/ PrefixLengths(pos + t, Top.left - t) = {} /\ Fail("no length", Counted(f))
       \/ \E n \in PrefixLengths(pos + t, Top.left - t) :
            LET size == Value32(pos + t, n)
            IN  \/ /\ size > Top.left - t - n
                   /\ Fail("parent stream too short", Counted(f))
                \/ /\ size <= Top.left - t - n
                   /\ pos' = pos + t + n
                   /\ stack' = Append(Taken(t + n + size, f.tag),
                                      Frame(f.sub, Address(f), size, pos + t + n + size))
                   /\ dest' = Entered(f)
                   /\ UNCHANGED <<buf, status>>

\* The end of a message: the caller goes on with the stream it is in.
EndMessage ==
    /\ status = "decoding"
    /\ Top.left = 0
    /\ \/ /\ ~(Descriptor[Top.msg].required \subseteq Top.seen)
          /\ Fail("missing required field", dest)
       \/ /\ Descriptor[Top.msg].required \subseteq Top.seen
          /\ Len(stack) = 1
          /\ status' = "ok"
          /\ UNCHANGED <<buf, pos, stack, dest>>
       \/ /\ Descriptor[Top.msg].required \subseteq Top.seen
          /\ Len(stack) > 1
          /\ stack' = SubSeq(stack, 1, Len(stack) - 1)
          /\ UNCHANGED <<buf, pos, dest, status>>

DecodeField(t, f) == \/ RefuseField(t, f)
                     \/ DecodeVarint(t, f)
                     \/ DecodeFixed32(t, f)
                     \/ DecodeString(t, f)
                     \/ DecodeSubmessage(t, f)

Next == \/ BadTag
        \/ SkipField
        \/ \E t \in Tags : \E f \in Fields(t) : DecodeField(t, f)
        \/ EndMessage

Spec == Init /\ [][Next]_decoder

FairSpec == Spec /\ WF_decoder(Next)

-----------------------------------------------------------------------------
TypeOK ==
    /\ buf \in Seq(Byte)
    /\ pos \in Nat
    /\ stack \in Seq([msg: Messages, base: Nat, left: Nat, seen: SUBSET Nat, end: Nat])
    /\ stack # <<>>
    /\ \A a \in DOMAIN dest : dest[a] \in Byte
    /\ status \in {"decoding", "ok"} \cup Errors

Size(k) == Descriptor[stack[k].msg].size

(***************************************************************************)
(* Every byte written is a byte of the struct, whatever was received and   *)
(* however messages are nested in it: counts are compared with the arrays' *)
(* sizes (decode_static_field) and lengths with the strings' (pb_dec_string). *)
(***************************************************************************)
WritesInside == DOMAIN dest \subseteq 0..Size(1) - 1

(***************************************************************************)
(* The streams account for every byte of the buffer: the stream that is    *)
(* being read ends where its bytes_left say, and each other one goes on    *)
(* where the one in it ends.  So nothing behind the buffer is read, though *)
(* no stream but the outermost knows how long the buffer is.               *)
(***************************************************************************)
StreamsNest ==
    /\ pos + Top.left = Top.end
    /\ \A k \in 1..Len(stack) - 1 : stack[k].end = stack[k + 1].end + stack[k].left
    /\ \A k \in 1..Len(stack) : stack[k].end <= Len(buf)

\* What makes these two inductive: each embedded message is all inside the
\* outermost one, and the counts in it were set before they are counted up.
MessagesFit == \A k \in 1..Len(stack) : stack[k].base + Size(k) <= Size(1)

CountsThere ==
    \A k \in 1..Len(stack) :
        \A i \in Descriptor[stack[k].msg].zeroed : stack[k].base + i \in DOMAIN dest

(***************************************************************************)
(* The inductive invariant of pb_decode.                                   *)
(***************************************************************************)
DecoderInv == TypeOK /\ WritesInside /\ StreamsNest /\ MessagesFit /\ CountsThere

\* What a reader finds in memory: that bytes were written, that a count is of
\* entries that are there, which values there are, and that they can be read; readable
\* tells this of the messages that are embedded.
There(mem, a, n) == \A i \in 0..n - 1 : a + i \in DOMAIN mem

CountReadable(mem, base, f) ==
    f.rule # "REQUIRED" =>
        /\ There(mem, base + SizePlace(f), 2)
        /\ f.rule = "REPEATED" => Read16(mem, base + SizePlace(f)) <= f.array_size

Items(mem, base, f) ==
    CASE f.rule = "REQUIRED" -> {0}
      [] f.rule = "ONEOF"    -> {i \in {0} : Read16(mem, base + SizePlace(f)) = f.tag}
      [] f.rule = "REPEATED" -> 0..Read16(mem, base + SizePlace(f)) - 1

ItemAt(base, f, i) == base + f.offset + f.data_size * i

ValueReadable(mem, f, a, readable) ==
    CASE f.type = "MESSAGE" -> readable[f.sub][a]
      [] f.type = "STRING"  -> \E n \in 1..f.data_size :
                                  There(mem, a, n) /\ mem[a + n - 1] = 0
      [] OTHER -> There(mem, a, f.data_size)

StructReadable(mem, m, base, readable) ==
    \A f \in Descriptor[m].fields :
        /\ CountReadable(mem, base, f)
        /\ \A i \in Items(mem, base, f) :
              ValueReadable(mem, f, ItemAt(base, f, i), readable)

\* Whether all can be read of a message in the struct at an address: every string
\* ends in its field, every count is of entries that are there, and no byte is what
\* was in memory before.
Readable(mem) ==
    LET readable[m \in Messages] ==
          [base \in Nat |-> StructReadable(mem, m, base, readable)]
    IN  readable

(***************************************************************************)
(* When pb_decode returns true, all of the struct can be read, whatever it *)
(* was before and whatever was received: what fields had no value have a   *)
(* default, in the messages embedded in it too (pb_message_set_to_defaults). *)
(***************************************************************************)
OkIsReadable == status = "ok" => Readable(dest)[stack[1].msg][0]

\* What makes it inductive.  Of the message that is being read, every value can be
\* read but those of required fields that were not seen yet; an embedded message
\* among these has its defaults, or can be read since it was read before.
Fresh(mem, m, base) ==
    \A i \in Descriptor[m].zeroed : base + i \in DOMAIN mem /\ mem[base + i] = 0

FrameReadable(mem, frame, filled) ==
    \A f \in Descriptor[frame.msg].fields :
        /\ CountReadable(mem, frame.base, f)
        /\ \A i \in Items(mem, frame.base, f) :
              \/ <<f, i>> \in filled
              \/ ValueReadable(mem, f, ItemAt(frame.base, f, i), Readable(mem))
              \/ /\ f.rule = "REQUIRED" /\ f.tag \notin frame.seen
                 /\ f.type = "MESSAGE" => Fresh(mem, f.sub, ItemAt(frame.base, f, i))

\* Of the messages around it, this holds but for the value that it is.
AroundReadable(k) ==
    \E f \in Descriptor[stack[k].msg].fields :
        \E i \in Items(dest, stack[k].base, f) :
            /\ f.type = "MESSAGE" /\ f.sub = stack[k + 1].msg
            /\ stack[k + 1].base = ItemAt(stack[k].base, f, i)
            /\ FrameReadable(dest, stack[k], {<<f, i>>})

StructsNest ==
    \A j \in 1..Len(stack) : \A k \in j..Len(stack) :
        /\ stack[j].base <= stack[k].base
        /\ stack[k].base + Size(k) <= stack[j].base + Size(j)

(***************************************************************************)
(* The inductive invariant of what was decoded.                            *)
(***************************************************************************)
ReadableInv ==
    /\ stack[1].base = 0
    /\ StructsNest
    /\ status = "decoding" =>
          /\ FrameReadable(dest, Top, {})
          /\ \A k \in 1..Len(stack) - 1 : AroundReadable(k)
    /\ OkIsReadable

\* pb_decode returns, whatever was received: no field that is skipped and no
\* embedded message keeps it from the end of the buffer (pb_decode_inner's loop).
DecodingEnds == <>(status # "decoding")
=============================================================================
