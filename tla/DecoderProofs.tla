--------------------------- MODULE DecoderProofs ----------------------------
(***************************************************************************)
(* Decoding stays inside the struct and inside the buffer, whatever the    *)
(* messages are that a program has and whatever it receives; and all of    *)
(* what it returns true for can be read.                                   *)
(***************************************************************************)
EXTENDS MessageDecoder, SequenceTheorems, TLAPS

\* Memory of n bytes that were written or not.
Memory(mem, n) == /\ DOMAIN mem \subseteq 0..n - 1
                  /\ \A a \in DOMAIN mem : mem[a] \in Byte

LEMMA WrittenMemory ==
    ASSUME NEW mem, NEW n \in Nat, Memory(mem, n),
           NEW a \in Nat, NEW b,
           \A i \in DOMAIN b : i \in Int /\ a + i \in 0..n - 1 /\ b[i] \in Byte
    PROVE  /\ Memory(Written(mem, a, b), n)
           /\ DOMAIN mem \subseteq DOMAIN Written(mem, a, b)
           /\ \A i \in DOMAIN b : a + i \in DOMAIN Written(mem, a, b)
<1> DEFINE new == {a + i : i \in DOMAIN b}
           w == Written(mem, a, b)
<1>1. /\ DOMAIN w = DOMAIN mem \cup new
      /\ \A x \in DOMAIN w : w[x] = IF x - a \in DOMAIN b THEN b[x - a] ELSE mem[x]
  BY DEF Written
<1>2. ASSUME NEW x \in new PROVE x \in 0..n - 1 /\ x - a \in DOMAIN b
  <2>1. PICK i \in DOMAIN b : x = a + i
    BY <1>2
  <2>2. i \in Int /\ x - a = i
    BY <2>1
  <2> QED BY <2>1, <2>2
<1>3. DOMAIN w \subseteq 0..n - 1
  BY <1>1, <1>2 DEF Memory
<1>4. ASSUME NEW x \in DOMAIN w PROVE w[x] \in Byte
  BY <1>1, <1>2, <1>4 DEF Memory
<1> QED BY <1>1, <1>3, <1>4 DEF Memory

-----------------------------------------------------------------------------
(***************************************************************************)
(* Numbers.                                                                *)
(***************************************************************************)
LEMMA Bits7Type ==
    ASSUME buf \in Seq(Byte), NEW p \in Nat, NEW n \in Nat, p + n <= Len(buf), NEW k \in Int
    PROVE  Bits7(p, n, k) \in 0..127
<1>1. CASE k \in 1..n
  <2>1. p + k \in 1..Len(buf)
    BY <1>1
  <2>2. buf[p + k] \in Byte
    BY <2>1
  <2>3. \A b \in Byte : b % 128 \in 0..127
    BY DEF Byte
  <2> QED BY <1>1, <2>2, <2>3, Zenon DEF Bits7
<1>2. CASE k \notin 1..n
  BY <1>2 DEF Bits7
<1> QED BY <1>1, <1>2

LEMMA Value32Type ==
    ASSUME buf \in Seq(Byte), NEW p \in Nat, NEW n \in Nat, p + n <= Len(buf)
    PROVE  Value32(p, n) \in Nat
<1>1. /\ Bits7(p, n, 1) \in 0..127 /\ Bits7(p, n, 2) \in 0..127 /\ Bits7(p, n, 3) \in 0..127
      /\ Bits7(p, n, 4) \in 0..127 /\ Bits7(p, n, 5) \in 0..127
  <2>1. \A k \in Int : Bits7(p, n, k) \in 0..127
    BY Bits7Type
  <2>2. 1 \in Int /\ 2 \in Int /\ 3 \in Int /\ 4 \in Int /\ 5 \in Int
    OBVIOUS
  <2> QED BY <2>1, <2>2, Zenon
<1>2. /\ Bits7(p, n, 1) \in Nat /\ Bits7(p, n, 2) \in Nat /\ Bits7(p, n, 3) \in Nat
      /\ Bits7(p, n, 4) \in Nat /\ Bits7(p, n, 5) \in Nat
  <2>1. \A x \in 0..127 : x \in Nat
    OBVIOUS
  <2> QED BY <1>1, <2>1, Zenon
<1>3. Bits7(p, n, 5) % 4 \in Nat
  BY <1>2, SMT
<1>4. CASE Bits7(p, n, 5) % 16 >= 4
  <2>1. Value32(p, n) = 1024 * 1024 * 1024
    BY <1>4, SMT DEF Value32
  <2> QED BY <2>1, SMT
<1>5. CASE ~(Bits7(p, n, 5) % 16 >= 4)
  <2>1. Value32(p, n) = Bits7(p, n, 1) + 128 * Bits7(p, n, 2) + 16384 * Bits7(p, n, 3)
                        + 2097152 * Bits7(p, n, 4) + 268435456 * (Bits7(p, n, 5) % 4)
    BY <1>5, SMT DEF Value32
  <2> DEFINE b == 128 * Bits7(p, n, 2)
             c == 16384 * Bits7(p, n, 3)
             d == 2097152 * Bits7(p, n, 4)
             e == 268435456 * (Bits7(p, n, 5) % 4)
  <2>2. b \in Nat
    BY <1>2, SMT
  <2>3. c \in Nat
    BY <1>2, SMT
  <2>4. d \in Nat
    BY <1>2, SMT
  <2>5. e \in Nat
    BY <1>3, SMT
  <2>6. Value32(p, n) = Bits7(p, n, 1) + b + c + d + e
    BY <2>1, SMT
  <2> HIDE DEF b, c, d, e
  <2>7. \A v, w, x, y, z \in Nat : v + w + x + y + z \in Nat
    OBVIOUS
  <2> DEFINE a == Bits7(p, n, 1)
  <2>8. a \in Nat /\ Value32(p, n) = a + b + c + d + e
    BY <1>2, <2>6, Zenon
  <2> HIDE DEF a
  <2>9. a + b + c + d + e \in Nat
    BY <2>2, <2>3, <2>4, <2>5, <2>7, <2>8, Zenon
  <2> QED BY <2>8, <2>9
<1> QED BY <1>4, <1>5

LEMMA Power ==
    ASSUME NEW s \in 0..7 PROVE 2^s \in Nat \ {0}
<1>0. CASE s = 0
  BY <1>0
<1>1. CASE s = 1
  BY <1>1
<1>2. CASE s = 2
  BY <1>2
<1>3. CASE s = 3
  BY <1>3
<1>4. CASE s = 4
  BY <1>4
<1>5. CASE s = 5
  BY <1>5
<1>6. CASE s = 6
  BY <1>6
<1>7. CASE s = 7
  BY <1>7
<1> QED BY <1>0, <1>1, <1>2, <1>3, <1>4, <1>5, <1>6, <1>7

LEMMA VarintByteType ==
    ASSUME buf \in Seq(Byte), NEW p \in Nat, NEW n \in Nat, p + n <= Len(buf), NEW i \in Nat
    PROVE  VarintByte(p, n, i) \in Byte
<1> DEFINE group == (8 * i) \div 7
           shift == (8 * i) % 7
           low   == Bits7(p, n, group + 1) \div 2^shift
           high  == Bits7(p, n, group + 2) * 2^(7 - shift)
<1>1. group \in Nat /\ shift \in 0..6 /\ 7 - shift \in 0..7
  OBVIOUS
<1> HIDE DEF group, shift
<1>2. Bits7(p, n, group + 1) \in 0..127 /\ Bits7(p, n, group + 2) \in 0..127
  <2>1. group + 1 \in Int /\ group + 2 \in Int
    BY <1>1
  <2> QED BY <2>1, Bits7Type
<1>3. 2^shift \in Nat \ {0} /\ 2^(7 - shift) \in Nat \ {0}
  <2>1. shift \in 0..7
    BY <1>1
  <2> QED BY <1>1, <2>1, Power, Zenon
<1>4. low \in Int /\ high \in Int
  <2>1. \A x \in 0..127 : \A y \in Nat \ {0} : x \div y \in Int /\ x * y \in Int
    OBVIOUS
  <2> QED BY <1>2, <1>3, <2>1, Zenon
<1> HIDE DEF low, high
<1>5. (low + high) % 256 \in 0..255
  BY <1>4
<1> QED BY <1>5, Zenon DEF VarintByte, Byte, low, high, group, shift

LEMMA Number16Type ==
    ASSUME NEW n \in Nat
    PROVE  DOMAIN Number16(n) = 0..1 /\ \A i \in 0..1 : Number16(n)[i] \in Byte
<1>1. 256^0 = 1 /\ 256^1 = 256
  OBVIOUS
<1>2. \A i \in 0..1 : i = 0 \/ i = 1
  OBVIOUS
<1>3. (n \div 1) % 256 \in 0..255 /\ (n \div 256) % 256 \in 0..255
  OBVIOUS
<1> QED BY <1>1, <1>2, <1>3 DEF Number16, CountBytes, Byte

-----------------------------------------------------------------------------
(***************************************************************************)
(* What the invariant says of the message that is being read.              *)
(***************************************************************************)
Frames == [msg: Messages, base: Nat, left: Nat, seen: SUBSET Nat, end: Nat]

LEMMA TopFacts ==
    ASSUME DecoderInv
    PROVE  /\ Len(stack) \in Nat \ {0}
           /\ \A k \in 1..Len(stack) : stack[k] \in Frames
           /\ Top \in Frames
           /\ Size(1) \in Nat
           /\ Top.base + Descriptor[Top.msg].size <= Size(1)
           /\ pos \in Nat
           /\ pos + Top.left = Top.end
           /\ Top.end <= Len(buf)
           /\ \A i \in Descriptor[Top.msg].zeroed : Top.base + i \in DOMAIN dest
           /\ Memory(dest, Size(1))
<1>1. stack \in Seq(Frames) /\ stack # <<>>
  BY DEF DecoderInv, TypeOK, Frames
<1>2. Len(stack) \in Nat \ {0}
  BY <1>1
<1>3. \A k \in 1..Len(stack) : stack[k] \in Frames
  BY <1>1
<1>4. Len(stack) \in 1..Len(stack) /\ 1 \in 1..Len(stack)
  BY <1>2
<1>5. Top \in Frames /\ stack[1] \in Frames
  BY <1>3, <1>4 DEF Top
<1>6. Size(1) \in Nat
  BY <1>5, DescriptorAssumption DEF Size, Frames
<1>7. Top.base + Descriptor[Top.msg].size <= Size(1)
  BY <1>4 DEF DecoderInv, MessagesFit, Top, Size
<1>8. pos \in Nat /\ pos + Top.left = Top.end /\ Top.end <= Len(buf)
  BY <1>4 DEF DecoderInv, TypeOK, StreamsNest, Top
<1>9. \A i \in Descriptor[Top.msg].zeroed : Top.base + i \in DOMAIN dest
  BY <1>4 DEF DecoderInv, CountsThere, Top
<1>10. Memory(dest, Size(1))
  BY DEF DecoderInv, TypeOK, WritesInside, Memory
<1> QED BY <1>2, <1>3, <1>5, <1>6, <1>7, <1>8, <1>9, <1>10

\* Memory after a step: what was written stays written.
Grown(mem) == DOMAIN dest \subseteq DOMAIN mem /\ Memory(mem, Size(1))

\* What is known of every field of a message.
FieldParts(m, f) ==
    /\ f.tag \in Nat /\ f.tag # 0 /\ f.tag <= CountLimit
    /\ f.rule \in {"REQUIRED", "REPEATED", "ONEOF"}
    /\ f.type \in {"VARINT", "FIXED32", "STRING", "MESSAGE"}
    /\ f.offset \in Nat /\ f.data_size \in Nat
    /\ f.array_size \in Nat /\ f.array_size # 0 /\ f.array_size <= CountLimit
    /\ f.offset + f.data_size * f.array_size <= Descriptor[m].size
    /\ SizePlace(f) \in Nat
    /\ f.rule # "REQUIRED" => /\ SizePlace(f) + 2 <= f.offset
                              /\ SizePlace(f) \in Descriptor[m].zeroed
                              /\ SizePlace(f) + 1 \in Descriptor[m].zeroed
    /\ f.type = "FIXED32" => f.data_size = 4
    /\ f.type = "MESSAGE" => /\ f.sub \in Messages
                             /\ Descriptor[f.sub].size = f.data_size
                             /\ f.rule # "ONEOF"
    /\ f.rule = "REQUIRED" /\ f.type = "MESSAGE" =>
         \A i \in Descriptor[f.sub].zeroed : f.offset + i \in Descriptor[m].zeroed

LEMMA Fielded ==
    ASSUME NEW m \in Messages, NEW f \in Descriptor[m].fields
    PROVE  FieldParts(m, f)
<1>1. FieldAssumption(m, f)
  BY DescriptorAssumption
<1>2. /\ f.tag \in Nat /\ f.tag # 0 /\ f.tag <= CountLimit
      /\ f.array_size \in Nat /\ f.array_size # 0 /\ f.array_size <= CountLimit
  <2>1. f.tag \in 1..CountLimit /\ f.array_size \in 1..CountLimit
    BY <1>1, Zenon DEF FieldAssumption
  <2>2. \A x \in 1..CountLimit : x \in Nat /\ x # 0 /\ x <= CountLimit
    <3>1. CountLimit \in Nat
      BY DEF CountLimit
    <3> QED BY <3>1
  <2> QED BY <2>1, <2>2, Zenon
<1>3. SizePlace(f) \in Nat /\ (f.rule # "REQUIRED" => SizePlace(f) + 2 <= f.offset)
  BY <1>1 DEF FieldAssumption, SizePlace
<1>4. ASSUME f.rule # "REQUIRED"
      PROVE  /\ SizePlace(f) \in Descriptor[m].zeroed
             /\ SizePlace(f) + 1 \in Descriptor[m].zeroed
  <2>1. \A i \in CountBytes : SizePlace(f) + i \in Descriptor[m].zeroed
    BY <1>1, <1>4 DEF FieldAssumption
  <2>2. 0 \in CountBytes /\ 1 \in CountBytes
    BY DEF CountBytes
  <2>3. SizePlace(f) + 0 = SizePlace(f)
    BY <1>3
  <2> QED BY <2>1, <2>2, <2>3
<1> QED BY <1>1, <1>2, <1>3, <1>4 DEF FieldAssumption, FieldParts

LEMMA Sized ==
    ASSUME NEW m \in Messages
    PROVE  /\ Descriptor[m].size \in Nat
           /\ \A i \in Descriptor[m].zeroed : i \in Nat /\ i < Descriptor[m].size
<1>1. Descriptor[m].size \in Nat /\ Descriptor[m].zeroed \subseteq 0..Descriptor[m].size - 1
  BY DescriptorAssumption
<1> QED BY <1>1

LEMMA FieldFacts ==
    ASSUME DecoderInv, NEW f \in Descriptor[Top.msg].fields
    PROVE  FieldParts(Top.msg, f)
<1>1. Top.msg \in Messages
  BY TopFacts DEF Frames
<1> QED BY <1>1, Fielded

LEMMA SizeAtFacts ==
    ASSUME DecoderInv, NEW f \in Descriptor[Top.msg].fields, f.rule # "REQUIRED"
    PROVE  /\ SizeAt(f) \in Nat
           /\ SizeAt(f) \in DOMAIN dest /\ SizeAt(f) + 1 \in DOMAIN dest
           /\ SizeAt(f) + 1 <= Size(1) - 1
<1> DEFINE at == SizePlace(f)
<1>1. at \in Nat /\ at \in Descriptor[Top.msg].zeroed /\ at + 1 \in Descriptor[Top.msg].zeroed
  BY FieldFacts DEF FieldParts
<1>3. Top.base \in Nat
  BY TopFacts DEF Frames
<1>4. at \in Nat /\ SizeAt(f) = Top.base + at
  BY <1>1, <1>3 DEF SizeAt
<1> HIDE DEF at
<1>6. Top.base + at \in DOMAIN dest /\ Top.base + (at + 1) \in DOMAIN dest
  BY <1>1, TopFacts
<1>7. SizeAt(f) \in Nat /\ SizeAt(f) \in DOMAIN dest /\ SizeAt(f) + 1 \in DOMAIN dest
  <2>1. Top.base + at = SizeAt(f) /\ Top.base + (at + 1) = SizeAt(f) + 1
    BY <1>3, <1>4
  <2> QED BY <1>3, <1>4, <1>6, <2>1
<1>8. SizeAt(f) + 1 \in 0..Size(1) - 1
  BY <1>7, TopFacts DEF Memory
<1> QED BY <1>7, <1>8

LEMMA CountType ==
    ASSUME DecoderInv, NEW f \in Descriptor[Top.msg].fields, f.rule # "REQUIRED"
    PROVE  Count(f) \in Nat
<1>1. dest[SizeAt(f)] \in Byte /\ dest[SizeAt(f) + 1] \in Byte
  BY SizeAtFacts, TopFacts DEF Memory
<1>2. \A a \in Byte : a \in Nat
  BY DEF Byte
<1>3. dest[SizeAt(f)] \in Nat /\ dest[SizeAt(f) + 1] \in Nat
  BY <1>1, <1>2
<1> QED BY <1>3 DEF Count, Read16

LEMMA CountedGrows ==
    ASSUME DecoderInv, NEW f \in Descriptor[Top.msg].fields
    PROVE  Grown(Counted(f))
<1>1. ASSUME NEW n \in Nat, f.rule # "REQUIRED"
      PROVE  Grown(Written(dest, SizeAt(f), Number16(n)))
  <2>1. /\ SizeAt(f) \in Nat /\ Size(1) \in Nat /\ Memory(dest, Size(1))
        /\ SizeAt(f) + 1 <= Size(1) - 1
    BY <1>1, SizeAtFacts, TopFacts
  <2>2. \A i \in DOMAIN Number16(n) : /\ i \in Int /\ SizeAt(f) + i \in 0..Size(1) - 1
                                      /\ Number16(n)[i] \in Byte
    BY <2>1, Number16Type
  <2> QED BY <2>1, <2>2, WrittenMemory DEF Grown
<1>2. f.rule \in {"REQUIRED", "REPEATED", "ONEOF"} /\ f.tag \in Nat
  BY FieldFacts DEF FieldParts
<1>3. CASE f.rule = "REQUIRED"
  BY <1>3, TopFacts DEF Counted, Grown
<1>4. CASE f.rule = "REPEATED"
  <2>1. Count(f) + 1 \in Nat /\ f.rule # "REQUIRED"
    BY <1>4, CountType
  <2>2. Counted(f) = Written(dest, SizeAt(f), Number16(Count(f) + 1))
    BY <1>4 DEF Counted
  <2> QED BY <1>1, <2>1, <2>2
<1>5. CASE f.rule = "ONEOF"
  <2>1. Counted(f) = Written(dest, SizeAt(f), Number16(f.tag))
    BY <1>5 DEF Counted
  <2> QED BY <1>1, <1>2, <1>5, <2>1
<1> QED BY <1>2, <1>3, <1>4, <1>5

LEMMA EntryFits ==
    ASSUME NEW d \in Nat, NEW c \in Nat, NEW n \in Nat, c < n
    PROVE  d * c \in Nat /\ d * c + d <= d * n
  OBVIOUS

LEMMA AddressFits ==
    ASSUME DecoderInv, NEW f \in Descriptor[Top.msg].fields, ~Full(f)
    PROVE  /\ Address(f) \in Nat
           /\ f.data_size \in Nat
           /\ Address(f) + f.data_size <= Size(1)
<1>1. /\ f.offset \in Nat /\ f.data_size \in Nat /\ f.array_size \in Nat /\ f.array_size >= 1
      /\ f.offset + f.data_size * f.array_size <= Descriptor[Top.msg].size
  BY FieldFacts DEF FieldParts
<1>2. /\ Top.base \in Nat /\ Descriptor[Top.msg].size \in Nat /\ Size(1) \in Nat
      /\ Top.base + Descriptor[Top.msg].size <= Size(1)
  BY TopFacts, DescriptorAssumption DEF Frames
<1> DEFINE c == IF f.rule = "REPEATED" THEN Count(f) ELSE 0
<1>3. c \in Nat /\ c < f.array_size
  BY <1>1, CountType DEF Full
<1>4. Address(f) = Top.base + f.offset + f.data_size * c
  BY <1>1, <1>2 DEF Address
<1> HIDE DEF c
<1>5. f.data_size * c \in Nat /\ f.data_size * c + f.data_size <= f.data_size * f.array_size
  BY <1>1, <1>3, EntryFits
<1>6. f.data_size * f.array_size \in Nat
  BY <1>1
<1> QED BY <1>1, <1>2, <1>4, <1>5, <1>6

-----------------------------------------------------------------------------
(***************************************************************************)
(* The ways the streams change.                                            *)
(***************************************************************************)
LEMMA SameStack ==
    ASSUME DecoderInv, UNCHANGED <<buf, pos, stack>>, Grown(dest'), status' \in {"ok"} \cup Errors
    PROVE  DecoderInv'
<1>1. /\ DOMAIN dest \subseteq DOMAIN dest'
      /\ DOMAIN dest' \subseteq 0..Size(1) - 1
      /\ \A a \in DOMAIN dest' : dest'[a] \in Byte
  BY DEF Grown, Memory
<1>2. TypeOK'
  BY <1>1 DEF DecoderInv, TypeOK
<1>3. WritesInside' /\ MessagesFit'
  BY <1>1 DEF DecoderInv, WritesInside, MessagesFit, Size
<1>4. StreamsNest'
  BY DEF DecoderInv, StreamsNest, Top
<1>5. CountsThere'
  BY <1>1 DEF DecoderInv, CountsThere
<1> QED BY <1>2, <1>3, <1>4, <1>5 DEF DecoderInv

LEMMA Replaced ==
    ASSUME NEW S, NEW q \in Seq(S), NEW i \in 1..Len(q), NEW e \in S,
           NEW s, s = [q EXCEPT ![i] = e]
    PROVE  /\ s \in Seq(S) /\ Len(s) = Len(q)
           /\ \A k \in 1..Len(q) : s[k] = IF k = i THEN e ELSE q[k]
BY ExceptSeq

\* The frame that is read loses n bytes and nothing else of the stack changes.
LEMMA TakenStack ==
    ASSUME DecoderInv, NEW n \in 0..Top.left, NEW tag \in Nat
    PROVE  /\ Taken(n, tag) \in Seq(Frames) /\ Len(Taken(n, tag)) = Len(stack)
           /\ \A k \in 1..Len(stack) :
                 /\ Taken(n, tag)[k].msg = stack[k].msg
                 /\ Taken(n, tag)[k].base = stack[k].base
                 /\ Taken(n, tag)[k].end = stack[k].end
                 /\ Taken(n, tag)[k].left = IF k = Len(stack) THEN Top.left - n ELSE stack[k].left
<1> DEFINE top == [Top EXCEPT !.left = @ - n, !.seen = @ \cup {tag}]
<1>1. stack \in Seq(Frames) /\ Len(stack) \in 1..Len(stack)
  BY TopFacts DEF DecoderInv, TypeOK, Frames
<1>2. Taken(n, tag) = [stack EXCEPT ![Len(stack)] = top]
  BY DEF Taken
<1>3. Top \in Frames
  BY TopFacts
<1>4. /\ top \in Frames /\ top.msg = Top.msg /\ top.base = Top.base /\ top.end = Top.end
      /\ top.left = Top.left - n
  <2>1. Top.left \in Nat /\ Top.left - n \in Nat /\ Top.seen \cup {tag} \in SUBSET Nat
    BY <1>3 DEF Frames
  <2> QED BY <1>3, <2>1 DEF Frames
<1> HIDE DEF top
<1>5. /\ Taken(n, tag) \in Seq(Frames) /\ Len(Taken(n, tag)) = Len(stack)
      /\ \A k \in 1..Len(stack) :
            Taken(n, tag)[k] = IF k = Len(stack) THEN top ELSE stack[k]
  BY <1>1, <1>2, <1>4, Replaced
<1> QED BY <1>4, <1>5 DEF Top

LEMMA AdvanceStep ==
    ASSUME DecoderInv, NEW n \in 0..Top.left, NEW tag \in Nat,
           Advance(n, tag), Grown(dest')
    PROVE  DecoderInv'
<1>1. /\ stack' \in Seq(Frames) /\ Len(stack') = Len(stack)
      /\ \A k \in 1..Len(stack) :
            /\ stack'[k].msg = stack[k].msg
            /\ stack'[k].base = stack[k].base
            /\ stack'[k].end = stack[k].end
            /\ stack'[k].left = IF k = Len(stack) THEN Top.left - n ELSE stack[k].left
  <2>1. stack' = Taken(n, tag)
    BY DEF Advance
  <2> QED BY <2>1, TakenStack
<1>2. Len(stack) \in Nat \ {0} /\ 1 \in 1..Len(stack) /\ Len(stack) \in 1..Len(stack)
  BY TopFacts
<1>3. /\ pos' = pos + n /\ UNCHANGED <<buf, status>>
      /\ pos \in Nat /\ Top.left \in Nat /\ Top.end \in Nat /\ pos + Top.left = Top.end
  BY TopFacts DEF Advance, Frames
<1>4. /\ DOMAIN dest \subseteq DOMAIN dest'
      /\ DOMAIN dest' \subseteq 0..Size(1) - 1
      /\ \A a \in DOMAIN dest' : dest'[a] \in Byte
  BY DEF Grown, Memory
<1>5. TypeOK'
  <2>1. stack' # <<>>
    BY <1>1, <1>2
  <2> QED BY <1>1, <1>3, <1>4, <2>1 DEF DecoderInv, TypeOK, Frames
<1>6. WritesInside' /\ MessagesFit'
  BY <1>1, <1>2, <1>4 DEF DecoderInv, WritesInside, MessagesFit, Size
<1>7. StreamsNest'
  <2>1. pos' + Top'.left = Top'.end
    BY <1>1, <1>2, <1>3 DEF Top
  <2>2. ASSUME NEW k \in 1..Len(stack) - 1
        PROVE  stack'[k].end = stack'[k + 1].end + stack'[k].left
    <3>1. k \in 1..Len(stack) /\ k + 1 \in 1..Len(stack) /\ k # Len(stack)
      BY <1>2
    <3>2. stack[k].end = stack[k + 1].end + stack[k].left
      BY DEF DecoderInv, StreamsNest
    <3> QED BY <1>1, <3>1, <3>2
  <2>3. \A k \in 1..Len(stack) : stack'[k].end <= Len(buf)
    BY <1>1 DEF DecoderInv, StreamsNest
  <2> QED BY <1>1, <1>3, <2>1, <2>2, <2>3 DEF StreamsNest
<1>8. CountsThere'
  BY <1>1, <1>4 DEF DecoderInv, CountsThere
<1> QED BY <1>5, <1>6, <1>7, <1>8 DEF DecoderInv

LEMMA Appended ==
    ASSUME NEW S, NEW q \in Seq(S), NEW e \in S
    PROVE  /\ Append(q, e) \in Seq(S) /\ Len(Append(q, e)) = Len(q) + 1
           /\ Append(q, e)[Len(q) + 1] = e
           /\ \A k \in 1..Len(q) : Append(q, e)[k] = q[k]
OBVIOUS

LEMMA DescendStep ==
    ASSUME DecoderInv, NEW n \in Nat, NEW size \in Nat, n + size <= Top.left, NEW tag \in Nat,
           NEW m \in Messages, NEW base \in Nat, base + Descriptor[m].size <= Size(1),
           pos' = pos + n, UNCHANGED <<buf, status>>, Grown(dest'),
           \A i \in Descriptor[m].zeroed : base + i \in DOMAIN dest',
           stack' = Append(Taken(n + size, tag), Frame(m, base, size, pos + n + size))
    PROVE  DecoderInv'
<1> DEFINE s == Taken(n + size, tag)
           frame == Frame(m, base, size, pos + n + size)
<1>1. /\ s \in Seq(Frames) /\ Len(s) = Len(stack)
      /\ \A k \in 1..Len(stack) :
            /\ s[k].msg = stack[k].msg /\ s[k].base = stack[k].base /\ s[k].end = stack[k].end
            /\ s[k].left = IF k = Len(stack) THEN Top.left - (n + size) ELSE stack[k].left
  <2>1. n + size \in 0..Top.left
    BY TopFacts DEF Frames
  <2> QED BY <2>1, TakenStack
<1>2. /\ Len(stack) \in Nat \ {0} /\ 1 \in 1..Len(stack) /\ Len(stack) \in 1..Len(stack)
      /\ Len(stack) + 1 \notin 1..Len(stack)
  BY TopFacts
<1>3. /\ pos \in Nat /\ Top.left \in Nat /\ Top.end \in Nat /\ pos + Top.left = Top.end
      /\ Top.end <= Len(buf)
  BY TopFacts DEF Frames
<1>4. /\ DOMAIN dest \subseteq DOMAIN dest'
      /\ DOMAIN dest' \subseteq 0..Size(1) - 1
      /\ \A a \in DOMAIN dest' : dest'[a] \in Byte
  BY DEF Grown, Memory
<1>5. /\ frame \in Frames /\ frame.msg = m /\ frame.base = base /\ frame.left = size
      /\ frame.end = pos + n + size
  BY <1>3 DEF frame, Frame, Frames
<1>6. stack' = Append(s, frame)
  OBVIOUS
<1> HIDE DEF s, frame
<1>7. /\ stack' \in Seq(Frames) /\ Len(stack') = Len(stack) + 1
      /\ \A k \in 1..Len(stack) : stack'[k] = s[k]
      /\ stack'[Len(stack) + 1] = frame
  <2>1. s \in Seq(Frames) /\ frame \in Frames /\ Len(s) = Len(stack)
    BY <1>1, <1>5
  <2>2. /\ Append(s, frame) \in Seq(Frames) /\ Len(Append(s, frame)) = Len(s) + 1
        /\ Append(s, frame)[Len(s) + 1] = frame
        /\ \A k \in 1..Len(s) : Append(s, frame)[k] = s[k]
    BY <2>1, Appended
  <2> QED BY <1>6, <2>1, <2>2, Zenon
<1>8. TypeOK'
  <2>1. stack' # <<>>
    BY <1>2, <1>7
  <2>2. pos' \in Nat
    BY <1>3
  <2> QED BY <1>4, <1>7, <2>1, <2>2 DEF DecoderInv, TypeOK, Frames
<1>9. Size(1)' = Size(1)
  BY <1>1, <1>2, <1>7 DEF Size
<1>10. WritesInside'
  BY <1>4, <1>9 DEF WritesInside
<1>11. ASSUME NEW k \in 1..Len(stack')
       PROVE  \/ /\ k \in 1..Len(stack)
                 /\ stack'[k].msg = stack[k].msg /\ stack'[k].base = stack[k].base
                 /\ stack'[k].end = stack[k].end
              \/ k = Len(stack) + 1 /\ stack'[k] = frame
  <2>1. k \in 1..Len(stack) \/ k = Len(stack) + 1
    BY <1>2, <1>7
  <2> QED BY <1>1, <1>7, <2>1
<1>12. MessagesFit'
  <2> SUFFICES ASSUME NEW k \in 1..Len(stack')
               PROVE  stack'[k].base + Descriptor[stack'[k].msg].size <= Size(1)
    BY <1>9 DEF MessagesFit, Size
  <2> QED BY <1>5, <1>11 DEF DecoderInv, MessagesFit, Size
<1>13. StreamsNest'
  <2>1. pos' + Top'.left = Top'.end
    BY <1>3, <1>5, <1>7 DEF Top
  <2>2. ASSUME NEW k \in 1..Len(stack)
        PROVE  stack'[k].end = stack'[k + 1].end + stack'[k].left
    <3>1. CASE k = Len(stack)
      <4>1. stack'[k].end = Top.end /\ stack'[k].left = Top.left - (n + size)
        BY <1>1, <1>2, <1>7, <3>1 DEF Top
      <4>2. stack'[k + 1].end = pos + n + size
        BY <1>5, <1>7, <3>1
      <4>3. Top.end = (pos + n + size) + (Top.left - (n + size))
        BY <1>3
      <4> QED BY <4>1, <4>2, <4>3, Zenon
    <3>2. CASE k # Len(stack)
      <4>1. k \in 1..Len(stack) - 1 /\ k + 1 \in 1..Len(stack)
        BY <1>2, <3>2
      <4>2. stack[k].end = stack[k + 1].end + stack[k].left
        BY <4>1 DEF DecoderInv, StreamsNest
      <4> QED BY <1>1, <1>7, <3>2, <4>1, <4>2
    <3> QED BY <3>1, <3>2
  <2>3. ASSUME NEW k \in 1..Len(stack') PROVE stack'[k].end <= Len(buf)
    <3>1. pos + n + size <= Len(buf)
      BY <1>3
    <3> QED BY <1>5, <1>11, <3>1 DEF DecoderInv, StreamsNest
  <2>4. \A k \in 1..Len(stack') - 1 : k \in 1..Len(stack)
    BY <1>2, <1>7
  <2>5. buf' = buf
    OBVIOUS
  <2> QED BY <2>1, <2>2, <2>3, <2>4, <2>5 DEF StreamsNest
<1>14. CountsThere'
  <2> SUFFICES ASSUME NEW k \in 1..Len(stack'), NEW i \in Descriptor[stack'[k].msg].zeroed
               PROVE  stack'[k].base + i \in DOMAIN dest'
    BY DEF CountsThere
  <2> QED BY <1>4, <1>5, <1>11 DEF DecoderInv, CountsThere
<1> QED BY <1>8, <1>10, <1>12, <1>13, <1>14 DEF DecoderInv

LEMMA AscendStep ==
    ASSUME DecoderInv, Top.left = 0, Len(stack) > 1,
           stack' = SubSeq(stack, 1, Len(stack) - 1), UNCHANGED <<buf, pos, dest, status>>
    PROVE  DecoderInv'
<1>1. stack \in Seq(Frames) /\ Len(stack) \in Nat \ {0}
  BY TopFacts DEF DecoderInv, TypeOK, Frames
<1> DEFINE last == Len(stack) - 1
<1>2. last \in 1..Len(stack) /\ 1 \in 1..last /\ last \in 1..Len(stack) - 1
  BY <1>1
<1>3. /\ stack' \in Seq(Frames) /\ Len(stack') = last
      /\ \A k \in 1..last : stack'[k] = stack[k] /\ k \in 1..Len(stack)
  BY <1>1, <1>2
<1>4. TypeOK'
  <2>1. Len(stack') # 0
    BY <1>2, <1>3
  <2>2. stack' # <<>>
    BY <2>1
  <2> QED BY <1>3, <2>2 DEF DecoderInv, TypeOK, Frames
<1>5. Size(1)' = Size(1)
  BY <1>2, <1>3 DEF Size
<1>6. WritesInside'
  BY <1>5 DEF DecoderInv, WritesInside
<1>7. MessagesFit' /\ CountsThere'
  BY <1>3, <1>5 DEF DecoderInv, MessagesFit, CountsThere, Size
<1>8. StreamsNest'
  <2>1. pos' + Top'.left = Top'.end
    <3>1. stack[last].end = stack[last + 1].end + stack[last].left
      BY <1>2 DEF DecoderInv, StreamsNest
    <3>2. last + 1 = Len(stack)
      BY <1>1
    <3>3. Top' = stack[last]
      BY <1>2, <1>3 DEF Top
    <3>4. pos \in Nat /\ pos = Top.end
      BY TopFacts
    <3>5. stack[last].left \in Nat
      <4>1. stack[last] \in Frames
        BY <1>1, <1>2
      <4> QED BY <4>1 DEF Frames
    <3> QED BY <3>1, <3>2, <3>3, <3>4, <3>5 DEF Top
  <2>2. \A k \in 1..last - 1 : k \in 1..last /\ k + 1 \in 1..last /\ k \in 1..Len(stack) - 1
    BY <1>1
  <2> QED BY <1>3, <2>1, <2>2 DEF DecoderInv, StreamsNest
<1> QED BY <1>4, <1>6, <1>7, <1>8 DEF DecoderInv

-----------------------------------------------------------------------------
(***************************************************************************)
(* Each action takes one of these ways.                                    *)
(***************************************************************************)
LEMMA TagFacts ==
    ASSUME DecoderInv, NEW t \in Tags
    PROVE  t \in Nat /\ t \in 1..Top.left /\ Top.left \in Nat /\ Top.left - t \in Nat
<1>1. Top.left \in Nat
  BY TopFacts DEF Frames
<1>2. t \in 1..Top.left
  BY DEF Tags, VarintLengths
<1> QED BY <1>1, <1>2

\* What comes next in the stream is in the buffer.
LEMMA ReadByte ==
    ASSUME DecoderInv, NEW n \in Nat, n <= Top.left
    PROVE  /\ buf \in Seq(Byte) /\ pos + n \in Nat /\ pos + n <= Len(buf)
           /\ \A k \in 1..n : buf[pos + k] \in Byte
<1>1. buf \in Seq(Byte)
  BY DEF DecoderInv, TypeOK
<1>2. /\ pos \in Nat /\ Top.left \in Nat /\ Top.end \in Nat /\ pos + Top.left = Top.end
      /\ Top.end <= Len(buf)
  BY TopFacts DEF Frames
<1>3. pos + n \in Nat /\ pos + n <= Len(buf) /\ \A k \in 1..n : pos + k \in 1..Len(buf)
  BY <1>1, <1>2
<1> QED BY <1>1, <1>3

LEMMA FailStep ==
    ASSUME DecoderInv, NEW mem, Grown(mem), NEW e \in Errors,
           status' = e, dest' = mem, UNCHANGED <<buf, pos, stack>>
    PROVE  DecoderInv'
<1>1. Grown(dest')
  BY DEF Grown
<1> QED BY <1>1, SameStack

LEMMA BadTagStep == ASSUME DecoderInv, BadTag PROVE DecoderInv'
<1>1. Grown(dest)
  BY TopFacts DEF Grown
<1>2. (IF Tags = {} THEN "no tag" ELSE "zero tag") \in Errors
  BY DEF Errors
<1> QED BY <1>1, <1>2, FailStep DEF BadTag, Fail

LEMMA SkipFieldStep == ASSUME DecoderInv, SkipField PROVE DecoderInv'
<1>1. Grown(dest)
  BY TopFacts DEF Grown
<1>2. PICK t \in Tags :
        \/ Fail("cannot skip", dest)
        \/ \E n \in Skipped(WireType(pos, t), pos + t, Top.left - t) :
              Advance(t + n, 0) /\ UNCHANGED dest
  BY DEF SkipField
<1>3. CASE Fail("cannot skip", dest)
  BY <1>1, <1>3, FailStep DEF Fail, Errors
<1>4. ASSUME NEW n \in Skipped(WireType(pos, t), pos + t, Top.left - t),
             Advance(t + n, 0), UNCHANGED dest
      PROVE  DecoderInv'
  <2>1. n \in 0..Top.left - t
    BY DEF Skipped, VarintLengths
  <2>2. t + n \in 0..Top.left
    BY <2>1, TagFacts
  <2>3. Grown(dest')
    BY <1>1, <1>4 DEF Grown, Memory
  <2> QED BY <1>4, <2>2, <2>3, AdvanceStep
<1> QED BY <1>2, <1>3, <1>4

LEMMA RefuseFieldStep ==
    ASSUME DecoderInv, NEW t \in Tags, NEW f \in Descriptor[Top.msg].fields, RefuseField(t, f)
    PROVE  DecoderInv'
<1>1. (IF Full(f) THEN "array overflow" ELSE "wrong wire type") \in Errors
  BY DEF Errors
<1> QED BY <1>1, CountedGrows, FailStep DEF RefuseField, Fail

\* The bytes b, of which the field has room for all, are written as its value.
LEMMA ValueGrows ==
    ASSUME DecoderInv, NEW f \in Descriptor[Top.msg].fields, ~Full(f),
           NEW mem, Grown(mem), NEW at \in Nat, NEW b,
           \A i \in DOMAIN b : i \in Nat /\ at + i < f.data_size /\ b[i] \in Byte
    PROVE  /\ Grown(Written(mem, Address(f) + at, b))
           /\ \A i \in DOMAIN b : Address(f) + at + i \in DOMAIN Written(mem, Address(f) + at, b)
<1>1. /\ Address(f) + at \in Nat /\ Size(1) \in Nat /\ Memory(mem, Size(1))
      /\ DOMAIN dest \subseteq DOMAIN mem
  BY AddressFits, TopFacts DEF Grown
<1>2. /\ Address(f) \in Nat /\ f.data_size \in Nat /\ Size(1) \in Nat
      /\ Address(f) + f.data_size <= Size(1)
  BY AddressFits, TopFacts
<1>3. \A i \in Nat : at + i < f.data_size =>
        i \in Int /\ Address(f) + at + i \in 0..Size(1) - 1
  BY <1>2
<1>4. \A i \in DOMAIN b : i \in Int /\ Address(f) + at + i \in 0..Size(1) - 1 /\ b[i] \in Byte
  BY <1>3
<1> QED BY <1>1, <1>4, WrittenMemory DEF Grown

LEMMA DecodeVarintStep ==
    ASSUME DecoderInv, NEW t \in Tags, NEW f \in Descriptor[Top.msg].fields, DecodeVarint(t, f)
    PROVE  DecoderInv'
<1>1. Grown(Counted(f)) /\ ~Full(f) /\ f.tag \in Nat /\ f.data_size \in Nat /\ Address(f) \in Nat
  <2>1. ~Full(f)
    BY DEF DecodeVarint, Acceptable
  <2>2. FieldParts(Top.msg, f)
    BY FieldFacts
  <2>3. f.tag \in Nat
    BY <2>2 DEF FieldParts
  <2> QED BY <2>1, <2>3, CountedGrows, AddressFits
<1>2. CASE Fail("no varint", Counted(f))
  BY <1>1, <1>2, FailStep DEF Fail, Errors
<1>3. ASSUME NEW n \in VarintLengths(pos + t, Top.left - t),
             dest' = Written(Counted(f), Address(f),
                             [i \in 0..f.data_size - 1 |-> VarintByte(pos + t, n, i)]),
             Advance(t + n, f.tag)
      PROVE  DecoderInv'
  <2> DEFINE b == [i \in 0..f.data_size - 1 |-> VarintByte(pos + t, n, i)]
  <2>1. n \in 1..Top.left - t
    BY DEF VarintLengths
  <2>2. t + n \in 0..Top.left /\ t + n \in Nat /\ t + n <= Top.left /\ n \in Nat /\ t \in Nat
    BY <2>1, TagFacts
  <2>3. /\ buf \in Seq(Byte) /\ pos + t \in Nat /\ pos + t + n <= Len(buf)
    <3>1. buf \in Seq(Byte) /\ pos + (t + n) <= Len(buf) /\ pos \in Nat
      BY <2>2, ReadByte, TopFacts
    <3>2. Len(buf) \in Nat
      BY <3>1
    <3> QED BY <2>2, <3>1, <3>2
  <2>4. \A i \in Nat : VarintByte(pos + t, n, i) \in Byte
    BY <2>2, <2>3, VarintByteType
  <2>5. \A i \in DOMAIN b : i \in Nat /\ 0 + i < f.data_size /\ b[i] \in Byte
    BY <1>1, <2>4
  <2>6. dest' = Written(Counted(f), Address(f) + 0, b)
    BY <1>1, <1>3
  <2> HIDE DEF b
  <2>7. Grown(dest')
    BY <1>1, <2>5, <2>6, ValueGrows
  <2> QED BY <1>1, <1>3, <2>2, <2>7, AdvanceStep
<1> QED BY <1>2, <1>3 DEF DecodeVarint

LEMMA DecodeFixed32Step ==
    ASSUME DecoderInv, NEW t \in Tags, NEW f \in Descriptor[Top.msg].fields, DecodeFixed32(t, f)
    PROVE  DecoderInv'
<1>1. /\ Grown(Counted(f)) /\ ~Full(f) /\ f.tag \in Nat /\ f.data_size \in Nat
      /\ f.data_size >= 4 /\ Address(f) \in Nat
  BY CountedGrows, AddressFits, FieldFacts DEF DecodeFixed32, Acceptable, FieldParts
<1>2. CASE Fail("end-of-stream", Counted(f))
  BY <1>1, <1>2, FailStep DEF Fail, Errors
<1> DEFINE b == [i \in 0..3 |-> buf[pos + t + i + 1]]
<1>3. CASE Top.left - t >= 4 /\ dest' = Written(Counted(f), Address(f), b) /\ Advance(t + 4, f.tag)
  <2>1. t + 4 \in 0..Top.left /\ t + 4 \in Nat /\ t + 4 <= Top.left /\ t \in Nat
    BY <1>3, TagFacts
  <2>2. pos \in Nat /\ \A k \in 1..t + 4 : buf[pos + k] \in Byte
    BY <2>1, ReadByte, TopFacts
  <2>3. \A i \in 0..3 : t + i + 1 \in 1..t + 4 /\ pos + t + i + 1 = pos + (t + i + 1)
    BY <2>1, <2>2
  <2>4. \A i \in DOMAIN b : i \in Nat /\ 0 + i < f.data_size /\ b[i] \in Byte
    BY <1>1, <2>2, <2>3
  <2>5. dest' = Written(Counted(f), Address(f) + 0, b)
    BY <1>1, <1>3
  <2> HIDE DEF b
  <2>6. Grown(dest')
    BY <1>1, <2>4, <2>5, ValueGrows
  <2> QED BY <1>1, <1>3, <2>1, <2>6, AdvanceStep
<1> QED BY <1>2, <1>3 DEF DecodeFixed32

\* The length at the beginning of a string or a message.
LEMMA PrefixFacts ==
    ASSUME DecoderInv, NEW t \in Tags, NEW n \in PrefixLengths(pos + t, Top.left - t)
    PROVE  /\ t \in Nat /\ n \in Nat /\ Top.left \in Nat /\ pos \in Nat
           /\ t + n <= Top.left
           /\ Value32(pos + t, n) \in Nat
<1>1. n \in 1..Top.left - t
  BY DEF PrefixLengths, VarintLengths
<1>2. t \in Nat /\ n \in Nat /\ Top.left \in Nat /\ t + n \in Nat /\ t + n <= Top.left
  BY <1>1, TagFacts
<1>3. /\ buf \in Seq(Byte) /\ pos \in Nat /\ pos + (t + n) <= Len(buf)
  BY <1>2, ReadByte, TopFacts
<1>4. pos + t \in Nat /\ pos + t + n <= Len(buf)
  <2>1. Len(buf) \in Nat
    BY <1>3
  <2> QED BY <1>2, <1>3, <2>1
<1> QED BY <1>2, <1>3, <1>4, Value32Type

LEMMA DecodeStringStep ==
    ASSUME DecoderInv, NEW t \in Tags, NEW f \in Descriptor[Top.msg].fields, DecodeString(t, f)
    PROVE  DecoderInv'
<1>1. Grown(Counted(f)) /\ ~Full(f) /\ f.tag \in Nat /\ f.data_size \in Nat /\ Address(f) \in Nat
  <2>1. ~Full(f)
    BY DEF DecodeString, Acceptable
  <2>2. FieldParts(Top.msg, f)
    BY FieldFacts
  <2>3. f.tag \in Nat
    BY <2>2 DEF FieldParts
  <2> QED BY <2>1, <2>3, CountedGrows, AddressFits
<1>2. CASE Fail("no length", Counted(f))
  BY <1>1, <1>2, FailStep DEF Fail, Errors
<1>3. CASE Fail("string overflow", Counted(f))
  BY <1>1, <1>3, FailStep DEF Fail, Errors
<1>4. ASSUME NEW n \in PrefixLengths(pos + t, Top.left - t), NEW size, size = Value32(pos + t, n),
             size + 1 <= f.data_size,
             NEW terminated, terminated = Written(Counted(f), Address(f) + size, [i \in {0} |-> 0])
      PROVE  Grown(terminated) /\ size \in Nat /\ size + 1 \in Nat
  <2> DEFINE b == [i \in {0} |-> 0]
  <2>1. size \in Nat
    BY <1>4, PrefixFacts
  <2>2. \A i \in DOMAIN b : i \in Nat /\ size + i < f.data_size /\ b[i] \in Byte
    BY <1>1, <1>4, <2>1 DEF Byte
  <2>3. terminated = Written(Counted(f), Address(f) + size, b)
    BY <1>4
  <2> HIDE DEF b
  <2> QED BY <1>1, <2>1, <2>2, <2>3, ValueGrows
<1>5. ASSUME NEW n \in PrefixLengths(pos + t, Top.left - t), NEW size, size = Value32(pos + t, n),
             size + 1 <= f.data_size, size <= Top.left - t - n,
             NEW terminated, terminated = Written(Counted(f), Address(f) + size, [i \in {0} |-> 0]),
             dest' = Written(terminated, Address(f),
                             [i \in 0..size - 1 |-> buf[pos + t + n + i + 1]]),
             Advance(t + n + size, f.tag)
      PROVE  DecoderInv'
  <2> DEFINE b == [i \in 0..size - 1 |-> buf[pos + t + n + i + 1]]
  <2>1. Grown(terminated) /\ size \in Nat
    BY <1>4, <1>5
  <2>2. /\ t \in Nat /\ n \in Nat /\ pos \in Nat /\ Top.left \in Nat
        /\ t + n + size \in 0..Top.left /\ t + n + size \in Nat /\ t + n + size <= Top.left
    BY <1>5, <2>1, PrefixFacts
  <2>3. \A k \in 1..t + n + size : buf[pos + k] \in Byte
    BY <2>2, ReadByte
  <2>4. \A i \in 0..size - 1 : /\ t + n + i + 1 \in 1..t + n + size
                               /\ pos + t + n + i + 1 = pos + (t + n + i + 1)
    BY <2>1, <2>2
  <2>5. \A i \in 0..size - 1 : b[i] \in Byte
    BY <2>3, <2>4
  <2>6. \A i \in DOMAIN b : i \in Nat /\ 0 + i < f.data_size /\ b[i] \in Byte
    BY <1>1, <1>5, <2>1, <2>5
  <2>7. dest' = Written(terminated, Address(f) + 0, b)
    BY <1>1, <1>5
  <2> HIDE DEF b
  <2>8. Grown(dest')
    BY <1>1, <2>1, <2>6, <2>7, ValueGrows
  <2> QED BY <1>1, <1>5, <2>2, <2>8, AdvanceStep
<1>6. ASSUME NEW n \in PrefixLengths(pos + t, Top.left - t), NEW size, size = Value32(pos + t, n),
             size + 1 <= f.data_size,
             NEW terminated, terminated = Written(Counted(f), Address(f) + size, [i \in {0} |-> 0]),
             Fail("end-of-stream", terminated)
      PROVE  DecoderInv'
  <2>1. Grown(terminated)
    BY <1>4, <1>6
  <2> QED BY <1>6, <2>1, FailStep DEF Fail, Errors
<1> QED BY <1>2, <1>3, <1>5, <1>6 DEF DecodeString

LEMMA DecodeSubmessageStep ==
    ASSUME DecoderInv, NEW t \in Tags, NEW f \in Descriptor[Top.msg].fields,
           DecodeSubmessage(t, f)
    PROVE  DecoderInv'
<1>1. /\ Grown(Counted(f)) /\ ~Full(f) /\ f.tag \in Nat /\ f.data_size \in Nat
      /\ Address(f) \in Nat /\ Address(f) + f.data_size <= Size(1)
      /\ f.sub \in Messages /\ Descriptor[f.sub].size = f.data_size
      /\ f.offset \in Nat /\ f.rule \in {"REQUIRED", "REPEATED"}
      /\ f.rule = "REQUIRED" =>
            \A i \in Descriptor[f.sub].zeroed : f.offset + i \in Descriptor[Top.msg].zeroed
  <2>1. ~Full(f) /\ f.type = "MESSAGE"
    BY DEF DecodeSubmessage, Acceptable
  <2>2. FieldParts(Top.msg, f)
    BY FieldFacts
  <2>3. /\ f.tag \in Nat /\ f.sub \in Messages /\ Descriptor[f.sub].size = f.data_size
        /\ f.offset \in Nat /\ f.rule \in {"REQUIRED", "REPEATED"}
        /\ f.rule = "REQUIRED" =>
              \A i \in Descriptor[f.sub].zeroed : f.offset + i \in Descriptor[Top.msg].zeroed
    BY <2>1, <2>2 DEF FieldParts
  <2> QED BY <2>1, <2>3, CountedGrows, AddressFits
<1>2. CASE Fail("no length", Counted(f)) \/ Fail("parent stream too short", Counted(f))
  BY <1>1, <1>2, FailStep DEF Fail, Errors
<1>3. ASSUME NEW n \in PrefixLengths(pos + t, Top.left - t), NEW size, size = Value32(pos + t, n),
             size <= Top.left - t - n,
             pos' = pos + t + n,
             stack' = Append(Taken(t + n + size, f.tag),
                             Frame(f.sub, Address(f), size, pos + t + n + size)),
             dest' = Entered(f),
             UNCHANGED <<buf, status>>
      PROVE  DecoderInv'
  <2>1. /\ t \in Nat /\ n \in Nat /\ pos \in Nat /\ size \in Nat /\ Top.left \in Nat
    BY <1>3, PrefixFacts
  <2>2. /\ t + n \in Nat /\ t + n + size <= Top.left /\ pos' = pos + (t + n)
        /\ pos + t + n + size = pos + (t + n) + size
    BY <1>3, <2>1
  <2>3. Grown(dest') /\ \A i \in Descriptor[f.sub].zeroed : Address(f) + i \in DOMAIN dest'
    <3>1. CASE f.rule = "REPEATED"
      <4>1. \A i \in DOMAIN Zeros(f.sub) : /\ i \in Nat /\ 0 + i < f.data_size
                                           /\ Zeros(f.sub)[i] \in Byte
        BY <1>1, DescriptorAssumption DEF Zeros, Byte
      <4>2. dest' = Written(Counted(f), Address(f) + 0, Zeros(f.sub))
        BY <1>1, <1>3, <3>1 DEF Entered
      <4>3. /\ Grown(dest')
            /\ \A i \in DOMAIN Zeros(f.sub) : Address(f) + 0 + i \in DOMAIN dest'
        BY <1>1, <4>1, <4>2, ValueGrows
      <4>4. \A i \in DOMAIN Zeros(f.sub) : Address(f) + i \in DOMAIN dest'
        BY <1>1, <4>3
      <4> QED BY <4>3, <4>4 DEF Zeros
    <3>2. CASE f.rule = "REQUIRED"
      <4>1. dest' = Counted(f) /\ Counted(f) = dest
        BY <1>3, <3>2 DEF Counted, Entered
      <4>2. Grown(dest')
        BY <1>1, <4>1 DEF Grown
      <4>3. ASSUME NEW i \in Descriptor[f.sub].zeroed
            PROVE  Address(f) + i \in DOMAIN dest'
        <5>1. Top.base + (f.offset + i) \in DOMAIN dest
          BY <1>1, <3>2, TopFacts
        <5>2. Address(f) = Top.base + f.offset + 0
          BY <3>2 DEF Address
        <5>3. Top.base \in Nat /\ i \in Int
          BY <1>1, TopFacts, Sized DEF Frames
        <5>4. Address(f) + i = Top.base + (f.offset + i)
          BY <1>1, <5>2, <5>3
        <5> QED BY <4>1, <5>1, <5>4
      <4> QED BY <4>2, <4>3
    <3> QED BY <1>1, <3>1, <3>2
  <2> QED BY <1>1, <1>3, <2>1, <2>2, <2>3, DescendStep
<1> QED BY <1>2, <1>3 DEF DecodeSubmessage

LEMMA EndMessageStep == ASSUME DecoderInv, EndMessage PROVE DecoderInv'
<1>1. Grown(dest)
  BY TopFacts DEF Grown
<1>2. CASE Fail("missing required field", dest)
  BY <1>1, <1>2, FailStep DEF Fail, Errors
<1>3. CASE status' = "ok" /\ UNCHANGED <<buf, pos, stack, dest>>
  <2>1. Grown(dest')
    BY <1>1, <1>3 DEF Grown
  <2> QED BY <1>3, <2>1, SameStack
<1>4. CASE /\ Top.left = 0 /\ Len(stack) > 1
           /\ stack' = SubSeq(stack, 1, Len(stack) - 1) /\ UNCHANGED <<buf, pos, dest, status>>
  BY <1>4, AscendStep
<1> QED BY <1>2, <1>3, <1>4 DEF EndMessage

-----------------------------------------------------------------------------
(***************************************************************************)
(* The invariant holds in the first state and in every later one.          *)
(***************************************************************************)
LEMMA InitStep == Init => DecoderInv
<1> SUFFICES ASSUME Init PROVE DecoderInv
  OBVIOUS
<1>1. PICK m \in Messages : stack = <<Frame(m, 0, Len(buf), Len(buf))>> /\ dest = Zeros(m)
  BY DEF Init, Opened
<1>2. /\ buf \in Seq(Byte) /\ Len(buf) \in Nat /\ pos = 0 /\ status = "decoding"
  BY BuffersAssumption DEF Init
<1>3. /\ Len(stack) = 1 /\ stack[1] = Frame(m, 0, Len(buf), Len(buf)) /\ Top = stack[1]
  BY <1>1 DEF Top
<1>4. /\ stack[1].msg = m /\ stack[1].base = 0 /\ stack[1].left = Len(buf)
      /\ stack[1].end = Len(buf)
  BY <1>3 DEF Frame
<1>5. /\ DOMAIN dest = Descriptor[m].zeroed
      /\ DOMAIN dest \subseteq 0..Descriptor[m].size - 1
      /\ Descriptor[m].size \in Nat
      /\ \A i \in Descriptor[m].zeroed : i \in Int
  BY <1>1, DescriptorAssumption DEF Zeros
<1>6. TypeOK
  <2>1. stack \in Seq([msg: Messages, base: Nat, left: Nat, seen: SUBSET Nat, end: Nat])
    <3>1. Frame(m, 0, Len(buf), Len(buf))
            \in [msg: Messages, base: Nat, left: Nat, seen: SUBSET Nat, end: Nat]
      BY <1>2 DEF Frame
    <3> QED BY <1>1, <3>1
  <2>2. \A a \in DOMAIN dest : dest[a] \in Byte
    BY <1>1 DEF Zeros, Byte
  <2> QED BY <1>1, <1>2, <2>1, <2>2 DEF TypeOK
<1>7. WritesInside /\ MessagesFit
  BY <1>3, <1>4, <1>5 DEF WritesInside, MessagesFit, Size
<1>8. StreamsNest
  BY <1>2, <1>3, <1>4 DEF StreamsNest
<1>9. CountsThere
  BY <1>3, <1>4, <1>5 DEF CountsThere
<1> QED BY <1>6, <1>7, <1>8, <1>9 DEF DecoderInv

LEMMA NextStep == DecoderInv /\ [Next]_decoder => DecoderInv'
<1> SUFFICES ASSUME DecoderInv, [Next]_decoder PROVE DecoderInv'
  OBVIOUS
<1>1. CASE BadTag
  BY <1>1, BadTagStep
<1>2. CASE SkipField
  BY <1>2, SkipFieldStep
<1>3. ASSUME NEW t \in Tags, NEW f \in Fields(t), DecodeField(t, f) PROVE DecoderInv'
  BY <1>3, RefuseFieldStep, DecodeVarintStep, DecodeFixed32Step, DecodeStringStep,
     DecodeSubmessageStep DEF DecodeField, Fields
<1>4. CASE EndMessage
  BY <1>4, EndMessageStep
<1>5. CASE UNCHANGED decoder
  BY <1>5 DEF decoder, DecoderInv, TypeOK, WritesInside, StreamsNest, MessagesFit, CountsThere,
              Size, Top
<1> QED BY <1>1, <1>2, <1>3, <1>4, <1>5 DEF Next

(***************************************************************************)
(* pb_decode keeps its invariant, for every descriptor that passes nanopb's *)
(* assertions, every buffer and every nesting of messages in it.           *)
(***************************************************************************)
THEOREM DecoderCorrect == Spec => []DecoderInv
BY InitStep, NextStep, PTL DEF Spec

(***************************************************************************)
(* The decoder's state is always of its type: the struct holds bytes only, *)
(* and there is always a stream that is being read.                        *)
(***************************************************************************)
THEOREM DecoderTypeOK == Spec => []TypeOK
<1>1. DecoderInv => TypeOK
  BY DEF DecoderInv
<1> QED BY <1>1, DecoderCorrect, PTL

(***************************************************************************)
(* No received bytes make pb_decode write outside dest_struct: not an array *)
(* counted over its end, nor a string with its terminator, nor an embedded *)
(* message in an entry of an array of messages.                            *)
(***************************************************************************)
THEOREM DecoderWritesInside == Spec => []WritesInside
<1>1. DecoderInv => WritesInside
  BY DEF DecoderInv
<1> QED BY <1>1, DecoderCorrect, PTL

(***************************************************************************)
(* However substreams nest, no stream's bytes_left reaches over the end of *)
(* the stream it is in, nor the outermost one's over the buffer's.         *)
(***************************************************************************)
THEOREM DecoderStreamsNest == Spec => []StreamsNest
<1>1. DecoderInv => StreamsNest
  BY DEF DecoderInv
<1> QED BY <1>1, DecoderCorrect, PTL

-----------------------------------------------------------------------------
(***************************************************************************)
(* What can be read of a struct is told by recursion over the messages in  *)
(* it, which ends since no struct is in itself.                            *)
(***************************************************************************)
\* The messages in the struct of a message.
Subs(m) == {f.sub : f \in {g \in Descriptor[m].fields : g.type = "MESSAGE"}}

\* Induction: what holds of a message when it holds of all that are in it.
LEMMA MessageInduction ==
    ASSUME NEW S \in SUBSET Messages, \A m \in Messages : Subs(m) \subseteq S => m \in S
    PROVE  S = Messages
<1> SUFFICES ASSUME Messages \ S # {} PROVE FALSE
  OBVIOUS
<1>1. PICK m \in Messages \ S :
        \A f \in Descriptor[m].fields : f.type = "MESSAGE" => f.sub \notin Messages \ S
  BY NestingAssumption
<1>2. ASSUME NEW f \in Descriptor[m].fields, f.type = "MESSAGE" PROVE f.sub \in S
  <2>1. f.sub \in Messages
    BY <1>1, <1>2, Fielded DEF FieldParts
  <2> QED BY <1>1, <1>2, <2>1
<1>3. Subs(m) \subseteq S
  BY <1>2 DEF Subs
<1> QED BY <1>1, <1>3

LEMMA SubsMessages == ASSUME NEW m \in Messages PROVE Subs(m) \subseteq Messages
BY Fielded DEF Subs, FieldParts

LEMMA StructDepends ==
    ASSUME NEW mem, NEW m, NEW base, NEW g, NEW h, \A s \in Subs(m) : g[s] = h[s]
    PROVE  StructReadable(mem, m, base, g) = StructReadable(mem, m, base, h)
<1>1. ASSUME NEW f \in Descriptor[m].fields, NEW a
      PROVE  ValueReadable(mem, f, a, g) <=> ValueReadable(mem, f, a, h)
  <2>1. f.type = "MESSAGE" => g[f.sub] = h[f.sub]
    BY DEF Subs
  <2> QED BY <2>1 DEF ValueReadable
<1>2. StructReadable(mem, m, base, g) <=> StructReadable(mem, m, base, h)
  BY <1>1, Zenon DEF StructReadable
<1> QED BY <1>2, Zenon DEF StructReadable

\* g tells of the messages in D what can be read of them.
Reads(mem, D, g) ==
    /\ D \subseteq Messages /\ \A m \in D : Subs(m) \subseteq D
    /\ g = [m \in D |-> [base \in Nat |-> StructReadable(mem, m, base, g)]]

LEMMA ReadsAgree ==
    ASSUME NEW mem, NEW D, NEW E, NEW g, NEW h, Reads(mem, D, g), Reads(mem, E, h)
    PROVE  \A m \in D \cap E : g[m] = h[m]
<1> DEFINE S == {m \in Messages : m \in D \cap E => g[m] = h[m]}
<1>1. ASSUME NEW m \in Messages, Subs(m) \subseteq S PROVE m \in S
  <2> SUFFICES ASSUME m \in D, m \in E PROVE g[m] = h[m]
    OBVIOUS
  <2>1. \A s \in Subs(m) : g[s] = h[s]
    BY <1>1 DEF Reads
  <2>2. \A base \in Nat : StructReadable(mem, m, base, g) = StructReadable(mem, m, base, h)
    BY <2>1, StructDepends
  <2>3. g[m] = [base \in Nat |-> StructReadable(mem, m, base, g)]
    BY Zenon DEF Reads
  <2>4. h[m] = [base \in Nat |-> StructReadable(mem, m, base, h)]
    BY Zenon DEF Reads
  <2> QED BY <2>2, <2>3, <2>4, Zenon
<1> HIDE DEF S
<1>2. S = Messages
  <2>1. S \in SUBSET Messages
    BY DEF S
  <2> QED BY <1>1, <2>1, MessageInduction
<1> QED BY <1>2 DEF S, Reads

LEMMA ReadsExist == ASSUME NEW mem PROVE \E g : Reads(mem, Messages, g)
<1> DEFINE All == {D \in SUBSET Messages : \E g : Reads(mem, D, g)}
           of(D) == CHOOSE g : Reads(mem, D, g)
           E == UNION All
           with(m) == CHOOSE D \in All : m \in D
           h == [m \in E |-> of(with(m))[m]]
<1>1. \A D \in All : D \in SUBSET Messages /\ Reads(mem, D, of(D))
  OBVIOUS
<1>2. \A m \in E : with(m) \in All /\ m \in with(m)
  OBVIOUS
<1>3. E \subseteq Messages
  OBVIOUS
<1> HIDE DEF All, of, with
<1>4. ASSUME NEW D \in All, NEW m \in D PROVE h[m] = of(D)[m]
  <2>1. m \in E /\ with(m) \in All /\ m \in with(m)
    BY <1>2
  <2>2. Reads(mem, D, of(D)) /\ Reads(mem, with(m), of(with(m)))
    BY <1>1, <2>1
  <2>3. of(D)[m] = of(with(m))[m]
    BY <2>1, <2>2, ReadsAgree
  <2> QED BY <2>1, <2>3
<1>5. \A m \in E : Subs(m) \subseteq E
  BY <1>1, <1>2 DEF Reads
<1>6. ASSUME NEW m \in E
      PROVE  h[m] = [base \in Nat |-> StructReadable(mem, m, base, h)]
  <2> DEFINE D == with(m)
  <2>1. D \in All /\ m \in D /\ Reads(mem, D, of(D))
    BY <1>1, <1>2
  <2>2. \A s \in Subs(m) : h[s] = of(D)[s]
    BY <1>4, <2>1 DEF Reads
  <2>3. \A base \in Nat : StructReadable(mem, m, base, h) = StructReadable(mem, m, base, of(D))
    <3> HIDE DEF h
    <3> QED BY <2>2, StructDepends
  <2>4. of(D)[m] = [base \in Nat |-> StructReadable(mem, m, base, of(D))]
    BY <2>1, Zenon DEF Reads
  <2>5. h[m] = of(D)[m]
    BY <1>4, <2>1
  <2> QED BY <2>3, <2>4, <2>5, Zenon
<1>7. \A D, g : Reads(mem, D, g) => D \in All
  BY DEF All, Reads
<1> HIDE DEF E, h
<1>8. ASSUME NEW m \in Messages, Subs(m) \subseteq E PROVE m \in E
  <2> DEFINE F == E \cup {m}
             k == [x \in F |-> [base \in Nat |-> StructReadable(mem, x, base, h)]]
  <2>1. \A x \in F : Subs(x) \subseteq E
    BY <1>5, <1>8
  <2>2. ASSUME NEW x \in E PROVE k[x] = h[x]
    <3>1. k[x] = [base \in Nat |-> StructReadable(mem, x, base, h)]
      OBVIOUS
    <3> QED BY <1>6, <3>1, Zenon
  <2>3. ASSUME NEW x \in F
        PROVE  k[x] = [base \in Nat |-> StructReadable(mem, x, base, k)]
    <3>1. \A s \in Subs(x) : k[s] = h[s]
      BY <2>1, <2>2
    <3>2. \A base \in Nat : StructReadable(mem, x, base, k) = StructReadable(mem, x, base, h)
      <4> HIDE DEF k
      <4> QED BY <3>1, StructDepends
    <3>3. k[x] = [base \in Nat |-> StructReadable(mem, x, base, h)]
      OBVIOUS
    <3> HIDE DEF k
    <3> QED BY <3>2, <3>3, Zenon
  <2>4. k = [x \in F |-> k[x]]
    OBVIOUS
  <2>5. k = [x \in F |-> [base \in Nat |-> StructReadable(mem, x, base, k)]]
    <3> HIDE DEF k
    <3> QED BY <2>3, <2>4, Zenon
  <2>6. F \subseteq Messages /\ \A x \in F : Subs(x) \subseteq F
    BY <1>3, <2>1
  <2>7. Reads(mem, F, k)
    <3> HIDE DEF k
    <3> QED BY <2>5, <2>6 DEF Reads
  <2>8. F \in All
    BY <1>7, <2>7
  <2> QED BY <2>8 DEF E
<1>9. E = Messages
  BY <1>3, <1>8, MessageInduction
<1>10. h = [m \in E |-> h[m]]
  BY DEF h
<1>11. h = [m \in E |-> [base \in Nat |-> StructReadable(mem, m, base, h)]]
  BY <1>6, <1>10, Zenon
<1>12. Reads(mem, Messages, h)
  BY <1>5, <1>9, <1>11 DEF Reads
<1> QED BY <1>12

\* What Readable says of a message, in terms of those in it.
LEMMA ReadableStruct ==
    ASSUME NEW mem, NEW m \in Messages, NEW base \in Nat
    PROVE  Readable(mem)[m][base] <=> StructReadable(mem, m, base, Readable(mem))
<1> DEFINE Is(g) == g = [x \in Messages |-> [b \in Nat |-> StructReadable(mem, x, b, g)]]
           readable == CHOOSE g : Is(g)
<1>1. PICK g : Reads(mem, Messages, g)
  BY ReadsExist
<1>2. Is(g)
  BY <1>1 DEF Reads
<1>3. Is(readable)
  BY <1>2
<1>4. Readable(mem) = readable
  BY DEF Readable
<1> HIDE DEF readable
<1>5. readable[m] = [b \in Nat |-> StructReadable(mem, m, b, readable)]
  BY <1>3, Zenon
<1>6. readable[m][base] = StructReadable(mem, m, base, readable)
  BY <1>5, Zenon
<1> QED BY <1>4, <1>6, Zenon

-----------------------------------------------------------------------------
(***************************************************************************)
(* What can be read of a struct depends on its own bytes only.             *)
(***************************************************************************)
\* The n bytes at a that were written are the same in new memory.
Same(mem, new, a, n) ==
    \A x \in DOMAIN mem : a <= x /\ x < a + n => x \in DOMAIN new /\ new[x] = mem[x]

LEMMA SamePart ==
    ASSUME NEW mem, NEW new, NEW N \in Nat, Memory(mem, N),
           NEW a \in Nat, NEW n \in Nat, NEW b \in Nat, NEW k \in Nat,
           Same(mem, new, a, n), a <= b, b + k <= a + n
    PROVE  Same(mem, new, b, k)
<1> SUFFICES ASSUME NEW x \in DOMAIN mem, b <= x, x < b + k
             PROVE  x \in DOMAIN new /\ new[x] = mem[x]
  BY DEF Same
<1>1. x \in Nat
  BY DEF Memory
<1>2. a <= x /\ x < a + n
  BY <1>1
<1> QED BY <1>2 DEF Same

LEMMA ThereKept ==
    ASSUME NEW mem, NEW new, NEW a \in Nat, NEW n \in Nat, Same(mem, new, a, n),
           NEW k \in Nat, k <= n, There(mem, a, k)
    PROVE  There(new, a, k) /\ \A i \in 0..k - 1 : new[a + i] = mem[a + i]
<1> SUFFICES ASSUME NEW i \in 0..k - 1
             PROVE  a + i \in DOMAIN new /\ new[a + i] = mem[a + i]
  BY DEF There
<1>1. a + i \in DOMAIN mem
  BY DEF There
<1>2. a <= a + i /\ a + i < a + n
  OBVIOUS
<1> QED BY <1>1, <1>2 DEF Same

\* Where a field's parts are in the struct.
LEMMA CountPlaces ==
    ASSUME NEW m \in Messages, NEW f \in Descriptor[m].fields, NEW base \in Nat
    PROVE  /\ base + SizePlace(f) \in Nat /\ base <= base + SizePlace(f)
           /\ f.rule # "REQUIRED" => base + SizePlace(f) + 2 <= base + Descriptor[m].size
<1>1. FieldParts(m, f) /\ Descriptor[m].size \in Nat
  BY Fielded, Sized
<1>2. SizePlace(f) \in Nat /\ (f.rule # "REQUIRED" => SizePlace(f) + 1 \in Descriptor[m].zeroed)
  BY <1>1 DEF FieldParts
<1>3. f.rule # "REQUIRED" => SizePlace(f) + 1 < Descriptor[m].size
  BY <1>2, Sized
<1> QED BY <1>1, <1>2, <1>3

LEMMA ItemPlaces ==
    ASSUME NEW m \in Messages, NEW f \in Descriptor[m].fields, NEW base \in Nat,
           NEW i \in Nat, i < f.array_size
    PROVE  /\ ItemAt(base, f, i) \in Nat /\ f.data_size \in Nat
           /\ base + f.offset <= ItemAt(base, f, i)
           /\ ItemAt(base, f, i) + f.data_size <= base + f.offset + f.data_size * f.array_size
           /\ ItemAt(base, f, i) + f.data_size <= base + Descriptor[m].size
           /\ base <= ItemAt(base, f, i)
<1>1. /\ f.offset \in Nat /\ f.data_size \in Nat /\ f.array_size \in Nat
      /\ f.offset + f.data_size * f.array_size <= Descriptor[m].size
  BY Fielded DEF FieldParts
<1>2. f.data_size * i \in Nat /\ f.data_size * i + f.data_size <= f.data_size * f.array_size
  BY <1>1, EntryFits
<1>3. f.data_size * f.array_size \in Nat /\ Descriptor[m].size \in Nat
  BY <1>1, Sized
<1> DEFINE all == f.data_size * f.array_size
           before == f.data_size * i
<1>4. ItemAt(base, f, i) = base + f.offset + before
  BY DEF ItemAt
<1>5. all \in Nat /\ before \in Nat /\ before + f.data_size <= all
      /\ f.offset + all <= Descriptor[m].size
  BY <1>1, <1>2, <1>3
<1> HIDE DEF all, before
<1>6. /\ ItemAt(base, f, i) + f.data_size <= base + f.offset + all
      /\ ItemAt(base, f, i) \in Nat /\ base + f.offset <= ItemAt(base, f, i)
      /\ ItemAt(base, f, i) + f.data_size <= base + Descriptor[m].size
      /\ base <= ItemAt(base, f, i)
  BY <1>1, <1>3, <1>4, <1>5
<1> QED BY <1>1, <1>6 DEF all

\* A count that was written is a number.
LEMMA CountRead ==
    ASSUME NEW mem, NEW N \in Nat, Memory(mem, N), NEW a \in Nat, There(mem, a, 2)
    PROVE  Read16(mem, a) \in Nat
<1>1. a + 0 \in DOMAIN mem /\ a + 1 \in DOMAIN mem
  BY DEF There
<1>2. a \in DOMAIN mem
  BY <1>1
<1>3. mem[a] \in Byte /\ mem[a + 1] \in Byte
  BY <1>1, <1>2 DEF Memory
<1>4. \A x \in Byte : x \in Nat
  BY DEF Byte
<1>5. mem[a] \in Nat /\ mem[a + 1] \in Nat
  BY <1>3, <1>4
<1> QED BY <1>5 DEF Read16

LEMMA ItemsInside ==
    ASSUME NEW m \in Messages, NEW f \in Descriptor[m].fields, NEW base \in Nat,
           NEW mem, NEW N \in Nat, Memory(mem, N), CountReadable(mem, base, f),
           NEW i \in Items(mem, base, f)
    PROVE  i \in Nat /\ i < f.array_size
<1>1. f.array_size \in Nat /\ f.array_size # 0 /\ f.rule \in {"REQUIRED", "REPEATED", "ONEOF"}
  BY Fielded DEF FieldParts
<1>2. CASE f.rule \in {"REQUIRED", "ONEOF"}
  <2>1. i = 0
    BY <1>2 DEF Items
  <2> QED BY <1>1, <2>1
<1>3. CASE f.rule = "REPEATED"
  <2> DEFINE n == Read16(mem, base + SizePlace(f))
  <2>1. n \in Nat /\ n <= f.array_size
    BY <1>3, CountPlaces, CountRead DEF CountReadable
  <2>2. i \in 0..n - 1
    BY <1>3 DEF Items
  <2> HIDE DEF n
  <2> QED BY <1>1, <2>1, <2>2
<1> QED BY <1>1, <1>2, <1>3

LEMMA CountKept ==
    ASSUME NEW m \in Messages, NEW f \in Descriptor[m].fields, NEW base \in Nat,
           NEW mem, NEW new, CountReadable(mem, base, f),
           f.rule # "REQUIRED" => Same(mem, new, base + SizePlace(f), 2)
    PROVE  CountReadable(new, base, f) /\ Items(new, base, f) = Items(mem, base, f)
<1>1. CASE f.rule = "REQUIRED"
  BY <1>1 DEF CountReadable, Items
<1>2. CASE f.rule # "REQUIRED"
  <2> DEFINE a == base + SizePlace(f)
  <2>1. a \in Nat /\ There(mem, a, 2) /\ Same(mem, new, a, 2)
    BY <1>2, CountPlaces DEF CountReadable
  <2> HIDE DEF a
  <2>2. There(new, a, 2) /\ \A i \in 0..2 - 1 : new[a + i] = mem[a + i]
    <3> DEFINE n == 2
    <3>1. There(mem, a, n) /\ Same(mem, new, a, n) /\ n \in Nat /\ n <= n
      BY <2>1
    <3> HIDE DEF n
    <3>2. There(new, a, n) /\ \A i \in 0..n - 1 : new[a + i] = mem[a + i]
      BY <2>1, <3>1, ThereKept
    <3> QED BY <3>2 DEF n
  <2>3. new[a + 0] = mem[a + 0] /\ new[a + 1] = mem[a + 1] /\ a + 0 = a
    BY <2>1, <2>2
  <2>4. Read16(new, a) = Read16(mem, a)
    BY <2>3 DEF Read16
  <2> QED BY <1>2, <2>2, <2>4 DEF CountReadable, Items, a
<1> QED BY <1>1, <1>2

LEMMA ValueKept ==
    ASSUME NEW m \in Messages, NEW f \in Descriptor[m].fields, NEW a \in Nat,
           NEW mem, NEW new, Same(mem, new, a, f.data_size),
           NEW r, NEW s, ValueReadable(mem, f, a, r),
           f.type = "MESSAGE" /\ r[f.sub][a] => s[f.sub][a]
    PROVE  ValueReadable(new, f, a, s)
<1>1. f.data_size \in Nat /\ f.type \in {"VARINT", "FIXED32", "STRING", "MESSAGE"}
  BY Fielded DEF FieldParts
<1>2. CASE f.type = "MESSAGE"
  BY <1>2 DEF ValueReadable
<1>3. CASE f.type = "STRING"
  <2>1. PICK n \in 1..f.data_size : There(mem, a, n) /\ mem[a + n - 1] = 0
    BY <1>3 DEF ValueReadable
  <2>2. n \in Nat /\ n <= f.data_size /\ n - 1 \in 0..n - 1 /\ a + n - 1 = a + (n - 1)
    BY <1>1
  <2>3. There(new, a, n) /\ new[a + (n - 1)] = mem[a + (n - 1)]
    <3>1. n \in Nat /\ n <= f.data_size /\ There(mem, a, n)
      BY <2>1, <2>2
    <3>2. There(new, a, n) /\ \A i \in 0..n - 1 : new[a + i] = mem[a + i]
      BY <1>1, <3>1, ThereKept
    <3> QED BY <2>2, <3>2
  <2>4. new[a + n - 1] = 0
    BY <2>1, <2>2, <2>3
  <2> QED BY <1>3, <2>3, <2>4 DEF ValueReadable
<1>4. CASE f.type \in {"VARINT", "FIXED32"}
  <2>1. There(mem, a, f.data_size)
    BY <1>4 DEF ValueReadable
  <2>2. There(new, a, f.data_size)
    <3>1. f.data_size <= f.data_size
      BY <1>1
    <3> QED BY <1>1, <2>1, <3>1, ThereKept, Zenon
  <2> QED BY <1>4, <2>2 DEF ValueReadable
<1> QED BY <1>1, <1>2, <1>3, <1>4

LEMMA ReadableKept ==
    ASSUME NEW mem, NEW new, NEW N \in Nat, Memory(mem, N)
    PROVE  \A m \in Messages : \A base \in Nat :
             Readable(mem)[m][base] /\ Same(mem, new, base, Descriptor[m].size)
               => Readable(new)[m][base]
<1> DEFINE Kept(m, base) ==
             Readable(mem)[m][base] /\ Same(mem, new, base, Descriptor[m].size)
               => Readable(new)[m][base]
           S == {m \in Messages : \A base \in Nat : Kept(m, base)}
<1>1. ASSUME NEW m \in Messages, Subs(m) \subseteq S PROVE m \in S
  <2> SUFFICES ASSUME NEW base \in Nat, Readable(mem)[m][base],
                      Same(mem, new, base, Descriptor[m].size)
               PROVE  Readable(new)[m][base]
    OBVIOUS
  <2>1. StructReadable(mem, m, base, Readable(mem)) /\ Descriptor[m].size \in Nat
    BY ReadableStruct, Sized
  <2>2. ASSUME NEW f \in Descriptor[m].fields
        PROVE  /\ CountReadable(new, base, f)
               /\ \A i \in Items(new, base, f) :
                     ValueReadable(new, f, ItemAt(base, f, i), Readable(new))
    <3>1. CountReadable(mem, base, f)
      BY <2>1 DEF StructReadable
    <3>2. f.rule # "REQUIRED" => Same(mem, new, base + SizePlace(f), 2)
      BY <2>1, CountPlaces, SamePart
    <3>3. CountReadable(new, base, f) /\ Items(new, base, f) = Items(mem, base, f)
      BY <3>1, <3>2, CountKept
    <3>4. ASSUME NEW i \in Items(mem, base, f)
          PROVE  ValueReadable(new, f, ItemAt(base, f, i), Readable(new))
      <4> DEFINE a == ItemAt(base, f, i)
      <4>1. i \in Nat /\ i < f.array_size
        BY <3>1, ItemsInside
      <4>2. /\ a \in Nat /\ f.data_size \in Nat /\ base <= a
            /\ a + f.data_size <= base + Descriptor[m].size
        BY <4>1, ItemPlaces
      <4> HIDE DEF a
      <4>3. Same(mem, new, a, f.data_size)
        BY <2>1, <4>2, SamePart
      <4>4. ValueReadable(mem, f, a, Readable(mem))
        BY <2>1 DEF StructReadable, a
      <4>5. f.type = "MESSAGE" /\ Readable(mem)[f.sub][a] => Readable(new)[f.sub][a]
        <5> SUFFICES ASSUME f.type = "MESSAGE", Readable(mem)[f.sub][a]
                     PROVE  Readable(new)[f.sub][a]
          OBVIOUS
        <5>1. f.sub \in S
          BY <1>1 DEF Subs
        <5>2. Descriptor[f.sub].size = f.data_size
          BY Fielded DEF FieldParts
        <5>3. Kept(f.sub, a)
          BY <4>2, <5>1
        <5> QED BY <4>3, <5>2, <5>3
      <4> QED BY <4>2, <4>3, <4>4, <4>5, ValueKept DEF a
    <3> QED BY <3>3, <3>4
  <2>3. StructReadable(new, m, base, Readable(new))
    BY <2>2, Zenon DEF StructReadable
  <2> QED BY <2>3, ReadableStruct
<1> HIDE DEF Kept
<1>2. S = Messages
  <2>1. S \in SUBSET Messages
    OBVIOUS
  <2> HIDE DEF S
  <2> QED BY <1>1, <2>1, MessageInduction
<1> QED BY <1>2 DEF Kept

\* A part of the struct and what is around it: what was written outside of the n
\* bytes at a is the same in new memory.
SameOutside(mem, new, a, n) ==
    \A x \in DOMAIN mem : ~(a <= x /\ x < a + n) => x \in DOMAIN new /\ new[x] = mem[x]

LEMMA WrittenAt ==
    ASSUME NEW mem, NEW N \in Nat, Memory(mem, N), NEW a \in Nat, NEW b,
           \A i \in DOMAIN b : i \in Nat
    PROVE  /\ \A i \in DOMAIN b : /\ a + i \in DOMAIN Written(mem, a, b)
                                  /\ Written(mem, a, b)[a + i] = b[i]
           /\ \A x \in DOMAIN mem :
                 /\ x \in DOMAIN Written(mem, a, b)
                 /\ (\A i \in DOMAIN b : x # a + i) => Written(mem, a, b)[x] = mem[x]
<1> DEFINE w == Written(mem, a, b)
<1>1. /\ DOMAIN w = DOMAIN mem \cup {a + i : i \in DOMAIN b}
      /\ \A x \in DOMAIN w : w[x] = IF x - a \in DOMAIN b THEN b[x - a] ELSE mem[x]
  BY DEF Written
<1> HIDE DEF w
<1>2. ASSUME NEW i \in DOMAIN b PROVE a + i \in DOMAIN w /\ w[a + i] = b[i]
  <2>1. a + i \in DOMAIN w
    BY <1>1
  <2>2. (a + i) - a = i
    OBVIOUS
  <2> QED BY <1>1, <2>1, <2>2
<1>3. ASSUME NEW x \in DOMAIN mem
      PROVE  x \in DOMAIN w /\ ((\A i \in DOMAIN b : x # a + i) => w[x] = mem[x])
  <2>1. x \in Nat /\ x = a + (x - a)
    BY DEF Memory
  <2> QED BY <1>1, <2>1
<1> QED BY <1>2, <1>3 DEF w

LEMMA Halves ==
    ASSUME NEW n \in Nat, n <= CountLimit
    PROVE  (n % 256) + 256 * ((n \div 256) % 256) = n
<1>1. n <= 65535
  BY DEF CountLimit
<1>2. n \div 256 \in 0..255
  BY <1>1
<1> QED BY <1>2

LEMMA NumberRead ==
    ASSUME NEW mem, NEW N \in Nat, Memory(mem, N), NEW a \in Nat, NEW n \in Nat, n <= CountLimit
    PROVE  /\ There(Written(mem, a, Number16(n)), a, 2)
           /\ Read16(Written(mem, a, Number16(n)), a) = n
           /\ SameOutside(mem, Written(mem, a, Number16(n)), a, 2)
<1> DEFINE b == Number16(n)
           w == Written(mem, a, b)
<1>1. DOMAIN b = 0..1 /\ b[0] = n % 256 /\ b[1] = (n \div 256) % 256
  <2>1. 256^0 = 1 /\ 256^1 = 256 /\ n \div 1 = n
    OBVIOUS
  <2> QED BY <2>1 DEF Number16, CountBytes
<1>2. (n % 256) + 256 * ((n \div 256) % 256) = n
  BY Halves
<1> HIDE DEF b
<1>3. \A i \in DOMAIN b : i \in Nat
  BY <1>1
<1>4. /\ \A i \in DOMAIN b : a + i \in DOMAIN w /\ w[a + i] = b[i]
      /\ \A x \in DOMAIN mem :
            x \in DOMAIN w /\ ((\A i \in DOMAIN b : x # a + i) => w[x] = mem[x])
  BY <1>3, WrittenAt
<1> HIDE DEF w
<1>5. a + 0 \in DOMAIN w /\ w[a + 0] = b[0] /\ a + 1 \in DOMAIN w /\ w[a + 1] = b[1] /\ a + 0 = a
  BY <1>1, <1>4
<1>6. Read16(w, a) = n
  BY <1>1, <1>2, <1>5 DEF Read16
<1>7. There(w, a, 2)
  <2>1. \A i \in 0..2 - 1 : i = 0 \/ i = 1
    OBVIOUS
  <2> QED BY <1>5, <2>1 DEF There
<1>8. SameOutside(mem, w, a, 2)
  <2> SUFFICES ASSUME NEW x \in DOMAIN mem, ~(a <= x /\ x < a + 2)
               PROVE  x \in DOMAIN w /\ w[x] = mem[x]
    BY DEF SameOutside
  <2>1. x \in Nat
    BY DEF Memory
  <2>2. \A i \in DOMAIN b : x # a + i
    BY <1>1, <2>1
  <2> QED BY <1>4, <2>2
<1> QED BY <1>6, <1>7, <1>8 DEF w, b

-----------------------------------------------------------------------------
(***************************************************************************)
(* The messages that are being read.                                       *)
(***************************************************************************)
LEMMA FreshKept ==
    ASSUME NEW m \in Messages, NEW a \in Nat, NEW mem, NEW new,
           Fresh(mem, m, a), Same(mem, new, a, Descriptor[m].size)
    PROVE  Fresh(new, m, a)
<1> SUFFICES ASSUME NEW i \in Descriptor[m].zeroed
             PROVE  a + i \in DOMAIN new /\ new[a + i] = 0
  BY DEF Fresh
<1>1. i \in Nat /\ i < Descriptor[m].size /\ Descriptor[m].size \in Nat
  BY Sized
<1>2. a <= a + i /\ a + i < a + Descriptor[m].size
  BY <1>1
<1> QED BY <1>2 DEF Fresh, Same

\* What is needed of a value of a message that is being read.
ItemReadable(mem, frame, f, i) ==
    \/ ValueReadable(mem, f, ItemAt(frame.base, f, i), Readable(mem))
    \/ /\ f.rule = "REQUIRED" /\ f.tag \notin frame.seen
       /\ f.type = "MESSAGE" => Fresh(mem, f.sub, ItemAt(frame.base, f, i))

LEMMA FrameItems ==
    ASSUME NEW mem, NEW frame, NEW filled
    PROVE  FrameReadable(mem, frame, filled)
             <=> \A f \in Descriptor[frame.msg].fields :
                   /\ CountReadable(mem, frame.base, f)
                   /\ \A i \in Items(mem, frame.base, f) :
                         <<f, i>> \in filled \/ ItemReadable(mem, frame, f, i)
BY Zenon DEF FrameReadable, ItemReadable

LEMMA ItemKept ==
    ASSUME NEW mem, NEW new, NEW N \in Nat, Memory(mem, N),
           NEW frame, frame.msg \in Messages, frame.base \in Nat,
           NEW f \in Descriptor[frame.msg].fields, NEW i \in Nat, i < f.array_size,
           ItemReadable(mem, frame, f, i),
           Same(mem, new, ItemAt(frame.base, f, i), f.data_size)
    PROVE  ItemReadable(new, frame, f, i)
<1> DEFINE a == ItemAt(frame.base, f, i)
<1>1. a \in Nat
  BY ItemPlaces
<1>2. f.type = "MESSAGE" => f.sub \in Messages /\ Descriptor[f.sub].size = f.data_size
  BY Fielded DEF FieldParts
<1>3. Same(mem, new, a, f.data_size)
  OBVIOUS
<1>4. CASE ValueReadable(mem, f, a, Readable(mem))
  <2> HIDE DEF a
  <2>1. f.type = "MESSAGE" /\ Readable(mem)[f.sub][a] => Readable(new)[f.sub][a]
    BY <1>1, <1>2, <1>3, ReadableKept
  <2>2. ValueReadable(new, f, a, Readable(new))
    BY <1>1, <1>3, <1>4, <2>1, ValueKept
  <2> QED BY <2>2 DEF ItemReadable, a
<1>5. CASE /\ f.rule = "REQUIRED" /\ f.tag \notin frame.seen
           /\ f.type = "MESSAGE" => Fresh(mem, f.sub, a)
  <2> HIDE DEF a
  <2>1. f.type = "MESSAGE" => Fresh(new, f.sub, a)
    BY <1>1, <1>2, <1>3, <1>5, FreshKept
  <2> QED BY <1>5, <2>1 DEF ItemReadable, a
<1> QED BY <1>4, <1>5 DEF ItemReadable

\* A message's counts and its values, but those that are filled.
PartsSame(mem, new, frame, filled) ==
    \A f \in Descriptor[frame.msg].fields :
        /\ f.rule # "REQUIRED" => Same(mem, new, frame.base + SizePlace(f), 2)
        /\ \A i \in Items(mem, frame.base, f) :
              <<f, i>> \notin filled
                => Same(mem, new, ItemAt(frame.base, f, i), f.data_size)

\* Writing elsewhere leaves what can be read.
LEMMA FrameKept ==
    ASSUME NEW mem, NEW new, NEW N \in Nat, Memory(mem, N),
           NEW frame, frame.msg \in Messages, frame.base \in Nat,
           NEW filled, FrameReadable(mem, frame, filled), PartsSame(mem, new, frame, filled)
    PROVE  /\ FrameReadable(new, frame, filled)
           /\ \A f \in Descriptor[frame.msg].fields :
                 Items(new, frame.base, f) = Items(mem, frame.base, f)
<1>1. ASSUME NEW f \in Descriptor[frame.msg].fields
      PROVE  /\ CountReadable(new, frame.base, f)
             /\ Items(new, frame.base, f) = Items(mem, frame.base, f)
             /\ \A i \in Items(new, frame.base, f) :
                   <<f, i>> \in filled \/ ItemReadable(new, frame, f, i)
  <2>1. CountReadable(mem, frame.base, f)
    BY FrameItems
  <2>2. /\ CountReadable(new, frame.base, f)
        /\ Items(new, frame.base, f) = Items(mem, frame.base, f)
    BY <2>1, CountKept DEF PartsSame
  <2>3. ASSUME NEW i \in Items(mem, frame.base, f), <<f, i>> \notin filled
        PROVE  ItemReadable(new, frame, f, i)
    <3>1. i \in Nat /\ i < f.array_size
      BY <2>1, ItemsInside
    <3>2. ItemReadable(mem, frame, f, i)
      BY <2>3, FrameItems
    <3>3. Same(mem, new, ItemAt(frame.base, f, i), f.data_size)
      BY <2>3 DEF PartsSame
    <3> QED BY <3>1, <3>2, <3>3, ItemKept
  <2> QED BY <2>2, <2>3
<1>2. FrameReadable(new, frame, filled)
  BY <1>1, FrameItems
<1> QED BY <1>1, <1>2

LEMMA FrameFilled ==
    ASSUME NEW mem, NEW frame, NEW f, NEW i, FrameReadable(mem, frame, {<<f, i>>}),
           ValueReadable(mem, f, ItemAt(frame.base, f, i), Readable(mem))
    PROVE  FrameReadable(mem, frame, {})
<1>1. ItemReadable(mem, frame, f, i)
  BY DEF ItemReadable
<1>2. \A g, j : <<g, j>> \in {<<f, i>>} => g = f /\ j = i
  OBVIOUS
<1> QED BY <1>1, <1>2, FrameItems, Zenon

\* A message that has its defaults has no value but required ones.
LEMMA FreshFrame ==
    ASSUME NEW mem, NEW N \in Nat, Memory(mem, N), NEW m \in Messages, NEW base \in Nat,
           Fresh(mem, m, base),
           NEW frame, frame.msg = m, frame.base = base, frame.seen = {}
    PROVE  FrameReadable(mem, frame, {})
<1> SUFFICES ASSUME NEW f \in Descriptor[m].fields
             PROVE  /\ CountReadable(mem, base, f)
                    /\ \A i \in Items(mem, base, f) : ItemReadable(mem, frame, f, i)
  BY FrameItems
<1>1. FieldParts(m, f)
  BY Fielded
<1>2. CASE f.rule = "REQUIRED"
  <2>1. CountReadable(mem, base, f) /\ Items(mem, base, f) = {0}
    BY <1>2 DEF CountReadable, Items
  <2>2. f.type = "MESSAGE" => Fresh(mem, f.sub, ItemAt(base, f, 0))
    <3> SUFFICES ASSUME f.type = "MESSAGE", NEW i \in Descriptor[f.sub].zeroed
                 PROVE  /\ ItemAt(base, f, 0) + i \in DOMAIN mem
                        /\ mem[ItemAt(base, f, 0) + i] = 0
      BY DEF Fresh
    <3>1. /\ f.offset + i \in Descriptor[m].zeroed /\ f.sub \in Messages
          /\ f.offset \in Nat /\ f.data_size \in Nat
      BY <1>1, <1>2 DEF FieldParts
    <3>2. i \in Nat
      BY <3>1, Sized
    <3>3. ItemAt(base, f, 0) + i = base + (f.offset + i)
      BY <3>1, <3>2 DEF ItemAt
    <3> QED BY <3>1, <3>3 DEF Fresh
  <2> QED BY <1>2, <2>1, <2>2 DEF ItemReadable
<1>3. CASE f.rule # "REQUIRED"
  <2> DEFINE a == base + SizePlace(f)
  <2>1. /\ SizePlace(f) \in Descriptor[m].zeroed /\ SizePlace(f) + 1 \in Descriptor[m].zeroed
        /\ SizePlace(f) \in Nat /\ f.tag # 0 /\ f.array_size \in Nat
        /\ f.rule \in {"REPEATED", "ONEOF"}
    BY <1>1, <1>3 DEF FieldParts
  <2>2. a \in Nat /\ a + 0 = a /\ a + 1 = base + (SizePlace(f) + 1)
    BY <2>1
  <2>3. a \in DOMAIN mem /\ mem[a] = 0 /\ a + 1 \in DOMAIN mem /\ mem[a + 1] = 0
    BY <2>1, <2>2 DEF Fresh
  <2> HIDE DEF a
  <2>4. Read16(mem, a) = 0
    BY <2>3 DEF Read16
  <2>5. There(mem, a, 2)
    <3>1. \A i \in 0..2 - 1 : i = 0 \/ i = 1
      OBVIOUS
    <3> QED BY <2>2, <2>3, <3>1 DEF There
  <2>6. CountReadable(mem, base, f)
    BY <2>1, <2>4, <2>5 DEF CountReadable, a
  <2>7. Items(mem, base, f) = {}
    BY <2>1, <2>4 DEF Items, a
  <2> QED BY <2>6, <2>7
<1> QED BY <1>2, <1>3

\* A message that can be read can be read again.
LEMMA ReadableFrame ==
    ASSUME NEW mem, NEW m \in Messages, NEW base \in Nat, Readable(mem)[m][base],
           NEW frame, frame.msg = m, frame.base = base
    PROVE  FrameReadable(mem, frame, {})
<1>1. StructReadable(mem, m, base, Readable(mem))
  BY ReadableStruct
<1> QED BY <1>1, FrameItems DEF StructReadable, ItemReadable

\* A message whose required fields were all seen can be read.
LEMMA FrameDone ==
    ASSUME NEW mem, NEW frame, frame.msg \in Messages, frame.base \in Nat,
           FrameReadable(mem, frame, {}), Descriptor[frame.msg].required \subseteq frame.seen
    PROVE  Readable(mem)[frame.msg][frame.base]
<1>1. \A f \in Descriptor[frame.msg].fields : f.rule = "REQUIRED" => f.tag \in frame.seen
  BY DescriptorAssumption
<1>2. StructReadable(mem, frame.msg, frame.base, Readable(mem))
  BY <1>1, FrameItems, Zenon DEF StructReadable, ItemReadable
<1> QED BY <1>2, ReadableStruct

-----------------------------------------------------------------------------
(***************************************************************************)
(* Decoding a value leaves all that was decoded before.                    *)
(***************************************************************************)
\* The item of a field that a value is decoded into.
NewItem(f) == IF f.rule = "REPEATED" THEN Count(f) ELSE 0

LEMMA NewItemFacts ==
    ASSUME DecoderInv, NEW f \in Descriptor[Top.msg].fields, ~Full(f)
    PROVE  /\ NewItem(f) \in Nat /\ NewItem(f) < f.array_size
           /\ Address(f) = ItemAt(Top.base, f, NewItem(f))
<1>1. FieldParts(Top.msg, f)
  BY FieldFacts
<1>2. f.array_size \in Nat /\ f.array_size # 0 /\ f.data_size \in Nat /\ f.offset \in Nat
  BY <1>1 DEF FieldParts
<1>3. Top.base \in Nat
  BY TopFacts DEF Frames
<1>4. CASE f.rule = "REPEATED"
  BY <1>2, <1>4, CountType DEF NewItem, Full, Address, ItemAt
<1>5. CASE f.rule # "REPEATED"
  <2>1. f.data_size * 0 = 0
    BY <1>2
  <2> QED BY <1>2, <1>3, <1>5, <2>1 DEF NewItem, Address, ItemAt
<1> QED BY <1>4, <1>5

\* What is counted is one more item, or another member of the union.
LEMMA CountedFacts ==
    ASSUME DecoderInv, NEW f \in Descriptor[Top.msg].fields, ~Full(f)
    PROVE  /\ Memory(Counted(f), Size(1)) /\ DOMAIN dest \subseteq DOMAIN Counted(f)
           /\ f.rule = "REQUIRED" => Counted(f) = dest
           /\ f.rule # "REQUIRED" =>
                /\ There(Counted(f), SizeAt(f), 2)
                /\ SameOutside(dest, Counted(f), SizeAt(f), 2)
                /\ Read16(Counted(f), SizeAt(f))
                     = IF f.rule = "REPEATED" THEN Count(f) + 1 ELSE f.tag
<1>1. Memory(Counted(f), Size(1)) /\ DOMAIN dest \subseteq DOMAIN Counted(f)
  BY CountedGrows DEF Grown
<1>2. Memory(dest, Size(1)) /\ Size(1) \in Nat
  BY TopFacts
<1>3. FieldParts(Top.msg, f)
  BY FieldFacts
<1>4. /\ f.rule \in {"REQUIRED", "REPEATED", "ONEOF"} /\ f.tag \in Nat /\ f.tag <= CountLimit
      /\ f.array_size \in Nat /\ f.array_size <= CountLimit /\ CountLimit \in Nat
  BY <1>3 DEF FieldParts, CountLimit
<1>5. CASE f.rule = "REQUIRED"
  BY <1>1, <1>5 DEF Counted
<1>6. ASSUME f.rule # "REQUIRED", NEW n \in Nat, n <= CountLimit,
             Counted(f) = Written(dest, SizeAt(f), Number16(n))
      PROVE  /\ There(Counted(f), SizeAt(f), 2)
             /\ SameOutside(dest, Counted(f), SizeAt(f), 2)
             /\ Read16(Counted(f), SizeAt(f)) = n
  <2>1. SizeAt(f) \in Nat
    BY <1>6, SizeAtFacts
  <2> QED BY <1>2, <1>6, <2>1, NumberRead
<1>7. CASE f.rule = "REPEATED"
  <2>1. Count(f) \in Nat
    BY <1>7, CountType
  <2>2. Count(f) + 1 \in Nat /\ Count(f) + 1 <= CountLimit
    BY <1>4, <1>7, <2>1 DEF Full
  <2>3. Counted(f) = Written(dest, SizeAt(f), Number16(Count(f) + 1))
    BY <1>7 DEF Counted
  <2> QED BY <1>1, <1>6, <1>7, <2>2, <2>3
<1>8. CASE f.rule = "ONEOF"
  <2>1. Counted(f) = Written(dest, SizeAt(f), Number16(f.tag))
    BY <1>8 DEF Counted
  <2> QED BY <1>1, <1>4, <1>6, <1>8, <2>1
<1> QED BY <1>4, <1>5, <1>7, <1>8

LEMMA SpanParts ==
    ASSUME NEW m \in Messages, NEW f \in Descriptor[m].fields, NEW x \in Int
    PROVE  x \in Span(f) <=>
             \/ f.offset <= x /\ x < f.offset + f.data_size * f.array_size
             \/ f.rule # "REQUIRED" /\ SizePlace(f) <= x /\ x < SizePlace(f) + 2
<1> DEFINE all == f.data_size * f.array_size
           counts == {SizePlace(f) + i : i \in IF f.rule = "REQUIRED" THEN {} ELSE CountBytes}
<1>1. f.offset \in Nat /\ f.data_size \in Nat /\ f.array_size \in Nat /\ SizePlace(f) \in Nat
  BY Fielded DEF FieldParts
<1>2. all \in Nat
  BY <1>1
<1>3. x \in counts <=> f.rule # "REQUIRED" /\ SizePlace(f) <= x /\ x < SizePlace(f) + 2
  <2>1. CASE f.rule = "REQUIRED"
    BY <2>1
  <2>2. CASE f.rule # "REQUIRED"
    <3>1. x \in counts <=> x = SizePlace(f) + 0 \/ x = SizePlace(f) + 1
      <4>1. \A i \in 0..1 : i = 0 \/ i = 1
        OBVIOUS
      <4>2. 0 \in 0..1 /\ 1 \in 0..1
        OBVIOUS
      <4> QED BY <2>2, <4>1, <4>2, Zenon DEF CountBytes
    <3> HIDE DEF counts
    <3> QED BY <1>1, <2>2, <3>1
  <2> QED BY <2>1, <2>2
<1>4. x \in Span(f) <=> x \in f.offset..f.offset + all - 1 \/ x \in counts
  BY Zenon DEF Span
<1> HIDE DEF all, counts
<1>5. x \in f.offset..f.offset + all - 1 <=> f.offset <= x /\ x < f.offset + all
  BY <1>1, <1>2
<1> QED BY <1>3, <1>4, <1>5 DEF all

\* A value is decoded into the field's own place in the struct.
LEMMA OutsideKept ==
    ASSUME DecoderInv, NEW f \in Descriptor[Top.msg].fields, ~Full(f),
           NEW new, SameOutside(Counted(f), new, Address(f), f.data_size),
           NEW x \in DOMAIN dest, x - Top.base \notin Span(f)
    PROVE  x \in DOMAIN new /\ new[x] = dest[x]
<1>1. /\ Top.msg \in Messages /\ Top.base \in Nat /\ x \in Nat
  BY TopFacts DEF Frames, Memory
<1>2. /\ ~(f.offset <= x - Top.base /\ x - Top.base < f.offset + f.data_size * f.array_size)
      /\ f.rule # "REQUIRED" => ~(SizePlace(f) <= x - Top.base /\ x - Top.base < SizePlace(f) + 2)
  BY <1>1, SpanParts
<1>3. FieldParts(Top.msg, f)
  BY FieldFacts
<1>4. /\ f.offset \in Nat /\ f.data_size \in Nat /\ f.array_size \in Nat /\ SizePlace(f) \in Nat
      /\ SizeAt(f) = Top.base + SizePlace(f)
  BY <1>3 DEF FieldParts, SizeAt
<1>5. f.data_size * f.array_size \in Nat
  BY <1>4
<1>6. x \in DOMAIN Counted(f) /\ Counted(f)[x] = dest[x]
  <2>1. f.rule # "REQUIRED" => ~(SizeAt(f) <= x /\ x < SizeAt(f) + 2)
    BY <1>1, <1>2, <1>4
  <2> QED BY <2>1, CountedFacts DEF SameOutside
<1>7. ~(Address(f) <= x /\ x < Address(f) + f.data_size)
  <2> DEFINE a == Address(f)
             all == f.data_size * f.array_size
  <2>1. /\ a \in Nat /\ Top.base + f.offset <= a /\ a + f.data_size <= Top.base + f.offset + all
    BY <1>1, NewItemFacts, ItemPlaces
  <2>2. all \in Nat /\ ~(f.offset <= x - Top.base /\ x - Top.base < f.offset + all)
    BY <1>2, <1>5
  <2> HIDE DEF a, all
  <2>3. ~(a <= x /\ x < a + f.data_size)
    BY <1>1, <1>4, <2>1, <2>2
  <2> QED BY <2>3 DEF a
<1> QED BY <1>6, <1>7 DEF SameOutside

LEMMA OthersKept ==
    ASSUME DecoderInv, NEW f \in Descriptor[Top.msg].fields, ~Full(f),
           NEW new, SameOutside(Counted(f), new, Address(f), f.data_size),
           NEW g \in Descriptor[Top.msg].fields, Span(f) \cap Span(g) = {}
    PROVE  /\ g.rule # "REQUIRED" => Same(dest, new, Top.base + SizePlace(g), 2)
           /\ \A i \in Nat : i < g.array_size =>
                 Same(dest, new, ItemAt(Top.base, g, i), g.data_size)
<1>1. Top.msg \in Messages /\ Top.base \in Nat /\ \A x \in DOMAIN dest : x \in Nat
  BY TopFacts DEF Frames, Memory
<1>2. FieldParts(Top.msg, g)
  BY FieldFacts
<1>3. /\ g.offset \in Nat /\ g.data_size \in Nat /\ g.array_size \in Nat /\ SizePlace(g) \in Nat
  BY <1>2 DEF FieldParts
<1>4. ASSUME NEW x \in DOMAIN dest, x - Top.base \in Span(g)
      PROVE  x \in DOMAIN new /\ new[x] = dest[x]
  BY <1>4, OutsideKept
<1>5. ASSUME g.rule # "REQUIRED"
      PROVE  Same(dest, new, Top.base + SizePlace(g), 2)
  <2> SUFFICES ASSUME NEW x \in DOMAIN dest,
                      Top.base + SizePlace(g) <= x, x < Top.base + SizePlace(g) + 2
               PROVE  x \in DOMAIN new /\ new[x] = dest[x]
    BY DEF Same
  <2>1. x - Top.base \in Int /\ SizePlace(g) <= x - Top.base /\ x - Top.base < SizePlace(g) + 2
    BY <1>1, <1>3
  <2>2. x - Top.base \in Span(g)
    BY <1>1, <1>5, <2>1, SpanParts
  <2> QED BY <1>4, <2>2
<1>6. ASSUME NEW i \in Nat, i < g.array_size
      PROVE  Same(dest, new, ItemAt(Top.base, g, i), g.data_size)
  <2> DEFINE a == ItemAt(Top.base, g, i)
             all == g.data_size * g.array_size
  <2>1. /\ a \in Nat /\ Top.base + g.offset <= a /\ a + g.data_size <= Top.base + g.offset + all
    BY <1>1, <1>6, ItemPlaces
  <2>2. all \in Nat
    BY <1>3
  <2> HIDE DEF a
  <2> SUFFICES ASSUME NEW x \in DOMAIN dest, a <= x, x < a + g.data_size
               PROVE  x \in DOMAIN new /\ new[x] = dest[x]
    BY DEF Same, a
  <2>3. /\ x - Top.base \in Int /\ g.offset <= x - Top.base /\ x - Top.base < g.offset + all
    <3> HIDE DEF all
    <3> QED BY <1>1, <1>3, <2>1, <2>2
  <2>4. x - Top.base \in Span(g)
    BY <1>1, <2>3, SpanParts
  <2> QED BY <1>4, <2>4
<1> QED BY <1>5, <1>6

\* The items an array had are not where the new one goes.
LEMMA ItemsApart ==
    ASSUME NEW d \in Nat, NEW i \in Nat, NEW j \in Nat, i < j
    PROVE  d * i + d <= d * j
<1>1. d * i + d = d * (i + 1)
  OBVIOUS
<1>2. d * (i + 1) <= d * j
  OBVIOUS
<1> QED BY <1>1, <1>2

LEMMA EarlierKept ==
    ASSUME DecoderInv, NEW f \in Descriptor[Top.msg].fields, ~Full(f), f.rule = "REPEATED",
           NEW new, SameOutside(Counted(f), new, Address(f), f.data_size),
           NEW i \in Nat, i < Count(f)
    PROVE  Same(dest, new, ItemAt(Top.base, f, i), f.data_size)
<1> DEFINE a == ItemAt(Top.base, f, i)
<1>1. Top.msg \in Messages /\ Top.base \in Nat /\ \A x \in DOMAIN dest : x \in Nat
  BY TopFacts DEF Frames, Memory
<1>2. FieldParts(Top.msg, f)
  BY FieldFacts
<1>3. /\ f.offset \in Nat /\ f.data_size \in Nat /\ SizePlace(f) \in Nat
      /\ SizePlace(f) + 2 <= f.offset /\ SizeAt(f) = Top.base + SizePlace(f)
  BY <1>2 DEF FieldParts, SizeAt
<1>4. Count(f) \in Nat
  BY CountType
<1> DEFINE before == f.data_size * i
           there == f.data_size * Count(f)
<1>5. before \in Nat /\ there \in Nat /\ before + f.data_size <= there
  BY <1>3, <1>4, ItemsApart
<1>6. a = Top.base + f.offset + before /\ Address(f) = Top.base + f.offset + there
  BY DEF ItemAt, Address
<1> HIDE DEF before, there, a
<1>7. a \in Nat /\ a + f.data_size <= Address(f) /\ SizeAt(f) + 2 <= a /\ Address(f) \in Nat
  BY <1>1, <1>3, <1>5, <1>6
<1> SUFFICES ASSUME NEW x \in DOMAIN dest, a <= x, x < a + f.data_size
             PROVE  x \in DOMAIN new /\ new[x] = dest[x]
  BY DEF Same, a
<1>8. x \in Nat /\ ~(SizeAt(f) <= x /\ x < SizeAt(f) + 2)
      /\ ~(Address(f) <= x /\ x < Address(f) + f.data_size)
  BY <1>1, <1>3, <1>7
<1>9. x \in DOMAIN Counted(f) /\ Counted(f)[x] = dest[x]
  BY <1>8, CountedFacts DEF SameOutside
<1> QED BY <1>8, <1>9 DEF SameOutside

LEMMA NewCount ==
    ASSUME DecoderInv, NEW f \in Descriptor[Top.msg].fields, ~Full(f), f.rule # "REQUIRED",
           NEW new, SameOutside(Counted(f), new, Address(f), f.data_size)
    PROVE  /\ There(new, Top.base + SizePlace(f), 2)
           /\ Read16(new, Top.base + SizePlace(f))
                = IF f.rule = "REPEATED" THEN Count(f) + 1 ELSE f.tag
<1> DEFINE a == Top.base + SizePlace(f)
           n == IF f.rule = "REPEATED" THEN Count(f) + 1 ELSE f.tag
<1>1. Top.msg \in Messages /\ Top.base \in Nat
  BY TopFacts DEF Frames
<1>2. FieldParts(Top.msg, f)
  BY FieldFacts
<1>3. SizePlace(f) \in Nat /\ SizePlace(f) + 2 <= f.offset /\ f.offset \in Nat /\ f.data_size \in Nat
  BY <1>2 DEF FieldParts
<1>4. Address(f) \in Nat /\ Top.base + f.offset <= Address(f)
  BY <1>1, NewItemFacts, ItemPlaces
<1>5. a \in Nat /\ a + 2 <= Address(f) /\ SizeAt(f) = a
  BY <1>1, <1>3, <1>4 DEF SizeAt
<1>6. There(Counted(f), a, 2) /\ Read16(Counted(f), a) = n /\ Memory(Counted(f), Size(1))
  BY <1>5, CountedFacts
<1> HIDE DEF a, n
<1>7. Same(Counted(f), new, a, 2)
  <2> SUFFICES ASSUME NEW x \in DOMAIN Counted(f), a <= x, x < a + 2
               PROVE  x \in DOMAIN new /\ new[x] = Counted(f)[x]
    BY DEF Same
  <2>1. x \in Nat
    BY <1>6 DEF Memory
  <2>2. ~(Address(f) <= x /\ x < Address(f) + f.data_size)
    BY <1>4, <1>5, <2>1
  <2> QED BY <2>2 DEF SameOutside
<1>8. There(new, a, 2) /\ \A i \in 0..2 - 1 : new[a + i] = Counted(f)[a + i]
  <2> DEFINE c == Counted(f)
             k == 2
  <2>1. a \in Nat /\ There(c, a, k) /\ Same(c, new, a, k)
    BY <1>5, <1>6, <1>7
  <2>2. k \in Nat /\ k <= k
    OBVIOUS
  <2> HIDE DEF c, k
  <2>3. There(new, a, k) /\ \A i \in 0..k - 1 : new[a + i] = c[a + i]
    BY <2>1, <2>2, ThereKept, Zenon
  <2> QED BY <2>3 DEF c, k
<1>9. new[a + 0] = Counted(f)[a + 0] /\ new[a + 1] = Counted(f)[a + 1] /\ a + 0 = a
  BY <1>5, <1>8
<1>10. Read16(new, a) = n
  BY <1>6, <1>9 DEF Read16
<1> QED BY <1>8, <1>10 DEF a, n

\* Counting a value and decoding it leaves all but that value.
LEMMA FieldWritten ==
    ASSUME DecoderInv, NEW f \in Descriptor[Top.msg].fields, ~Full(f),
           FrameReadable(dest, Top, {}),
           NEW new, SameOutside(Counted(f), new, Address(f), f.data_size),
           NEW frame, frame.msg = Top.msg, frame.base = Top.base,
           frame.seen = Top.seen \cup {f.tag}
    PROVE  /\ FrameReadable(new, frame, {<<f, NewItem(f)>>})
           /\ NewItem(f) \in Items(new, Top.base, f)
<1>1. /\ Top.msg \in Messages /\ Top.base \in Nat /\ Size(1) \in Nat /\ Memory(dest, Size(1))
  BY TopFacts DEF Frames
<1>2. ASSUME NEW g \in Descriptor[Top.msg].fields
      PROVE  CountReadable(dest, Top.base, g)
             /\ \A i \in Items(dest, Top.base, g) : ItemReadable(dest, Top, g, i)
  BY FrameItems
<1>3. ASSUME NEW g \in Descriptor[Top.msg].fields, NEW i, ItemReadable(new, Top, g, i),
             g.tag # f.tag \/ (f.rule # "REQUIRED" /\ g = f)
      PROVE  ItemReadable(new, frame, g, i)
  BY <1>3 DEF ItemReadable
<1>4. ASSUME NEW g \in Descriptor[Top.msg].fields, g # f
      PROVE  /\ CountReadable(new, Top.base, g)
             /\ \A i \in Items(new, Top.base, g) : ItemReadable(new, frame, g, i)
  <2>1. g.tag # f.tag
    BY <1>1, <1>4, DescriptorAssumption DEF MembersAssumption
  <2>2. CASE Span(f) \cap Span(g) = {}
    <3>1. /\ g.rule # "REQUIRED" => Same(dest, new, Top.base + SizePlace(g), 2)
          /\ \A i \in Nat : i < g.array_size =>
                Same(dest, new, ItemAt(Top.base, g, i), g.data_size)
      BY <2>2, OthersKept
    <3>2. CountReadable(new, Top.base, g) /\ Items(new, Top.base, g) = Items(dest, Top.base, g)
      BY <1>1, <1>2, <3>1, CountKept
    <3>3. ASSUME NEW i \in Items(dest, Top.base, g) PROVE ItemReadable(new, frame, g, i)
      <4>1. i \in Nat /\ i < g.array_size
        BY <1>1, <1>2, ItemsInside
      <4>2. ItemReadable(dest, Top, g, i)
            /\ Same(dest, new, ItemAt(Top.base, g, i), g.data_size)
        BY <1>2, <3>1, <4>1
      <4>3. ItemReadable(new, Top, g, i)
        BY <1>1, <4>1, <4>2, ItemKept, Zenon
      <4> QED BY <1>3, <2>1, <4>3
    <3> QED BY <3>2, <3>3
  <2>3. CASE f.rule = "ONEOF" /\ g.rule = "ONEOF" /\ SizePlace(f) = SizePlace(g)
    <3>1. There(new, Top.base + SizePlace(g), 2) /\ Read16(new, Top.base + SizePlace(g)) = f.tag
      BY <2>3, NewCount
    <3> QED BY <2>1, <2>3, <3>1 DEF CountReadable, Items
  <2> QED BY <1>1, <1>4, <2>2, <2>3, DescriptorAssumption DEF MembersAssumption
<1>5. /\ CountReadable(new, Top.base, f)
      /\ \A i \in Items(new, Top.base, f) : i = NewItem(f) \/ ItemReadable(new, frame, f, i)
      /\ NewItem(f) \in Items(new, Top.base, f)
  <2>1. FieldParts(Top.msg, f)
    BY FieldFacts
  <2>2. f.rule \in {"REQUIRED", "REPEATED", "ONEOF"} /\ f.array_size \in Nat
    BY <2>1 DEF FieldParts
  <2>3. CASE f.rule = "REQUIRED"
    BY <2>3 DEF CountReadable, Items, NewItem
  <2>4. CASE f.rule = "ONEOF"
    BY <2>4, NewCount DEF CountReadable, Items, NewItem
  <2>5. CASE f.rule = "REPEATED"
    <3>1. There(new, Top.base + SizePlace(f), 2)
          /\ Read16(new, Top.base + SizePlace(f)) = Count(f) + 1
      BY <2>5, NewCount
    <3>2. Count(f) \in Nat /\ Count(f) < f.array_size
      BY <2>2, <2>5, CountType DEF Full
    <3>3. CountReadable(new, Top.base, f)
      BY <2>2, <2>5, <3>1, <3>2 DEF CountReadable
    <3>4. Items(new, Top.base, f) = 0..Count(f)
      BY <2>5, <3>1, <3>2 DEF Items
    <3>5. Items(dest, Top.base, f) = 0..Count(f) - 1
      BY <2>5 DEF Items, Count, SizeAt
    <3>6. ASSUME NEW i \in 0..Count(f) - 1 PROVE ItemReadable(new, frame, f, i)
      <4>1. i \in Nat /\ i < Count(f) /\ i < f.array_size
        BY <2>2, <3>2
      <4>2. Same(dest, new, ItemAt(Top.base, f, i), f.data_size)
        BY <2>5, <4>1, EarlierKept
      <4>3. ItemReadable(dest, Top, f, i)
        BY <1>2, <3>5
      <4>4. ItemReadable(new, Top, f, i)
        BY <1>1, <4>1, <4>2, <4>3, ItemKept
      <4> QED BY <1>3, <2>5, <4>4
    <3>7. \A i \in 0..Count(f) : i = Count(f) \/ i \in 0..Count(f) - 1
      BY <3>2
    <3>8. Count(f) \in 0..Count(f) /\ NewItem(f) = Count(f)
      BY <2>5, <3>2 DEF NewItem
    <3> QED BY <3>3, <3>4, <3>6, <3>7, <3>8
  <2> QED BY <2>2, <2>3, <2>4, <2>5
<1>6. FrameReadable(new, frame, {<<f, NewItem(f)>>})
  <2>1. \A i : <<f, NewItem(f)>> \in {<<f, NewItem(f)>>}
    OBVIOUS
  <2> QED BY <1>4, <1>5, <2>1, FrameItems, Zenon
<1> QED BY <1>5, <1>6

LEMMA FieldInside ==
    ASSUME DecoderInv, NEW f \in Descriptor[Top.msg].fields, ~Full(f),
           NEW new, SameOutside(Counted(f), new, Address(f), f.data_size)
    PROVE  SameOutside(dest, new, Top.base, Descriptor[Top.msg].size)
<1> DEFINE size == Descriptor[Top.msg].size
           all == f.data_size * f.array_size
<1>1. Top.msg \in Messages /\ Top.base \in Nat /\ \A x \in DOMAIN dest : x \in Nat
  BY TopFacts DEF Frames, Memory
<1>2. FieldParts(Top.msg, f) /\ size \in Nat
  BY <1>1, FieldFacts, Sized
<1>3. /\ f.offset \in Nat /\ f.data_size \in Nat /\ f.array_size \in Nat /\ SizePlace(f) \in Nat
      /\ f.offset + all <= size
      /\ f.rule # "REQUIRED" => SizePlace(f) + 2 <= f.offset
  BY <1>2 DEF FieldParts
<1>4. all \in Nat
  BY <1>3
<1> SUFFICES ASSUME NEW x \in DOMAIN dest, ~(Top.base <= x /\ x < Top.base + size)
             PROVE  x \in DOMAIN new /\ new[x] = dest[x]
  BY DEF SameOutside
<1>5. x - Top.base \in Int
      /\ (x - Top.base \in Span(f) <=>
             \/ f.offset <= x - Top.base /\ x - Top.base < f.offset + all
             \/ f.rule # "REQUIRED" /\ SizePlace(f) <= x - Top.base
                  /\ x - Top.base < SizePlace(f) + 2)
  BY <1>1, SpanParts
<1> HIDE DEF size, all
<1>6. x - Top.base \notin Span(f)
  BY <1>1, <1>2, <1>3, <1>4, <1>5
<1> QED BY <1>6, OutsideKept

-----------------------------------------------------------------------------
\* What is in an item of a message is around it.
LEMMA AroundKept ==
    ASSUME NEW mem, NEW new, NEW N \in Nat, Memory(mem, N),
           NEW frame, frame.msg \in Messages, frame.base \in Nat,
           NEW f \in Descriptor[frame.msg].fields, f.type = "MESSAGE",
           NEW i \in Items(mem, frame.base, f), FrameReadable(mem, frame, {<<f, i>>}),
           SameOutside(mem, new, ItemAt(frame.base, f, i), f.data_size)
    PROVE  FrameReadable(new, frame, {<<f, i>>}) /\ i \in Items(new, frame.base, f)
<1> DEFINE m == frame.msg
           base == frame.base
           a == ItemAt(base, f, i)
           all == f.data_size * f.array_size
<1>1. \A x \in DOMAIN mem : x \in Nat
  BY DEF Memory
<1>2. \A g \in Descriptor[m].fields : CountReadable(mem, base, g)
  BY FrameItems
<1>3. i \in Nat /\ i < f.array_size
  BY <1>2, ItemsInside
<1>4. FieldParts(m, f)
  BY Fielded
<1>5. /\ f.offset \in Nat /\ f.data_size \in Nat /\ f.array_size \in Nat /\ f.rule # "ONEOF"
      /\ SizePlace(f) \in Nat
      /\ f.rule # "REQUIRED" => SizePlace(f) + 2 <= f.offset
  BY <1>4 DEF FieldParts
<1>6. /\ a \in Nat /\ base + f.offset <= a /\ a + f.data_size <= base + f.offset + all
  BY <1>3, ItemPlaces
<1>7. all \in Nat
  BY <1>5
<1>8. \A j \in Nat : j # i => ItemAt(base, f, j) + f.data_size <= a \/ a + f.data_size <= ItemAt(base, f, j)
  <2> SUFFICES ASSUME NEW j \in Nat, j # i
               PROVE  ItemAt(base, f, j) + f.data_size <= a \/ a + f.data_size <= ItemAt(base, f, j)
    OBVIOUS
  <2> DEFINE u == f.data_size * i
             v == f.data_size * j
  <2>1. u \in Nat /\ v \in Nat /\ (v + f.data_size <= u \/ u + f.data_size <= v)
    <3>1. i < j \/ j < i
      BY <1>3
    <3> QED BY <1>3, <1>5, <3>1, ItemsApart
  <2>2. a = base + f.offset + u /\ ItemAt(base, f, j) = base + f.offset + v
    BY DEF ItemAt
  <2> HIDE DEF u, v, a
  <2> QED BY <1>5, <2>1, <2>2
<1> HIDE DEF a
<1>9. ASSUME NEW b \in Nat, NEW n \in Nat, b + n <= a \/ a + f.data_size <= b
      PROVE  Same(mem, new, b, n)
  <2> SUFFICES ASSUME NEW x \in DOMAIN mem, b <= x, x < b + n
               PROVE  x \in DOMAIN new /\ new[x] = mem[x]
    BY DEF Same
  <2>1. ~(a <= x /\ x < a + f.data_size)
    BY <1>1, <1>5, <1>6, <1>9
  <2> QED BY <2>1 DEF SameOutside, a
<1>10. ASSUME NEW g \in Descriptor[m].fields, g # f, NEW x \in DOMAIN mem, x - base \in Span(g)
       PROVE  x \in DOMAIN new /\ new[x] = mem[x]
  <2>1. x - base \notin Span(f)
    BY <1>5, <1>10, DescriptorAssumption DEF MembersAssumption
  <2>2. x - base \in Int /\ ~(f.offset <= x - base /\ x - base < f.offset + all)
    BY <1>1, <2>1, SpanParts
  <2> HIDE DEF all
  <2>3. ~(a <= x /\ x < a + f.data_size)
    BY <1>1, <1>5, <1>6, <1>7, <2>2
  <2> QED BY <2>3 DEF SameOutside, a
<1>11. ASSUME NEW g \in Descriptor[m].fields
       PROVE  /\ g.rule # "REQUIRED" => Same(mem, new, base + SizePlace(g), 2)
              /\ \A j \in Items(mem, base, g) :
                    <<g, j>> \notin {<<f, i>>} => Same(mem, new, ItemAt(base, g, j), g.data_size)
  <2>1. FieldParts(m, g)
    BY Fielded
  <2>2. /\ g.offset \in Nat /\ g.data_size \in Nat /\ g.array_size \in Nat /\ SizePlace(g) \in Nat
    BY <2>1 DEF FieldParts
  <2>3. \A j \in Items(mem, base, g) : j \in Nat /\ j < g.array_size
    BY <1>2, ItemsInside
  <2>4. CASE g = f
    <3>1. g.rule # "REQUIRED" => base + SizePlace(g) \in Nat /\ base + SizePlace(g) + 2 <= a
      BY <1>5, <1>6, <2>4
    <3>2. g.rule # "REQUIRED" => Same(mem, new, base + SizePlace(g), 2)
      BY <1>9, <3>1
    <3>3. ASSUME NEW j \in Items(mem, base, g), j # i
          PROVE  Same(mem, new, ItemAt(base, g, j), g.data_size)
      <4>1. j \in Nat /\ ItemAt(base, g, j) \in Nat
        BY <2>3, ItemPlaces
      <4> QED BY <1>5, <1>8, <1>9, <2>4, <3>3, <4>1
    <3> QED BY <2>4, <3>2, <3>3
  <2>5. CASE g # f
    <3>1. ASSUME g.rule # "REQUIRED" PROVE Same(mem, new, base + SizePlace(g), 2)
      <4> SUFFICES ASSUME NEW x \in DOMAIN mem, base + SizePlace(g) <= x, x < base + SizePlace(g) + 2
                   PROVE  x \in DOMAIN new /\ new[x] = mem[x]
        BY DEF Same
      <4>1. x - base \in Int /\ SizePlace(g) <= x - base /\ x - base < SizePlace(g) + 2
        BY <1>1, <2>2
      <4>2. x - base \in Span(g)
        BY <3>1, <4>1, SpanParts
      <4> QED BY <1>10, <2>5, <4>2
    <3>2. ASSUME NEW j \in Items(mem, base, g)
          PROVE  Same(mem, new, ItemAt(base, g, j), g.data_size)
      <4> DEFINE b == ItemAt(base, g, j)
                 whole == g.data_size * g.array_size
      <4>1. b \in Nat /\ base + g.offset <= b /\ b + g.data_size <= base + g.offset + whole
        BY <2>3, ItemPlaces
      <4>2. whole \in Nat
        BY <2>2
      <4> HIDE DEF b
      <4> SUFFICES ASSUME NEW x \in DOMAIN mem, b <= x, x < b + g.data_size
                   PROVE  x \in DOMAIN new /\ new[x] = mem[x]
        BY DEF Same, b
      <4>3. x - base \in Int /\ g.offset <= x - base /\ x - base < g.offset + whole
        <5> HIDE DEF whole
        <5> QED BY <1>1, <2>2, <4>1, <4>2
      <4>4. x - base \in Span(g)
        BY <4>3, SpanParts
      <4> QED BY <1>10, <2>5, <4>4
    <3> QED BY <3>1, <3>2
  <2> QED BY <2>4, <2>5
<1>12. /\ FrameReadable(new, frame, {<<f, i>>})
       /\ \A g \in Descriptor[m].fields : Items(new, base, g) = Items(mem, base, g)
  <2>1. PartsSame(mem, new, frame, {<<f, i>>})
    BY <1>11, Zenon DEF PartsSame
  <2>2. /\ FrameReadable(new, frame, {<<f, i>>})
        /\ \A g \in Descriptor[frame.msg].fields :
              Items(new, frame.base, g) = Items(mem, frame.base, g)
    BY <2>1, FrameKept
  <2> QED BY <2>2
<1> QED BY <1>12

-----------------------------------------------------------------------------
(***************************************************************************)
(* The ways the streams change keep what can be read.                      *)
(***************************************************************************)
LEMMA TakenFrames ==
    ASSUME DecoderInv, NEW n \in 0..Top.left, NEW tag \in Nat
    PROVE  /\ Taken(n, tag) \in Seq(Frames) /\ Len(Taken(n, tag)) = Len(stack)
           /\ \A k \in 1..Len(stack) - 1 : Taken(n, tag)[k] = stack[k]
           /\ Taken(n, tag)[Len(stack)].msg = Top.msg
           /\ Taken(n, tag)[Len(stack)].base = Top.base
           /\ Taken(n, tag)[Len(stack)].seen = Top.seen \cup {tag}
<1> DEFINE top == [Top EXCEPT !.left = @ - n, !.seen = @ \cup {tag}]
<1>1. stack \in Seq(Frames) /\ Len(stack) \in Nat \ {0} /\ Len(stack) \in 1..Len(stack)
  BY TopFacts DEF DecoderInv, TypeOK, Frames
<1>2. Taken(n, tag) = [stack EXCEPT ![Len(stack)] = top]
  BY DEF Taken
<1>3. Top \in Frames
  BY TopFacts
<1>4. top.msg = Top.msg /\ top.base = Top.base /\ top.seen = Top.seen \cup {tag}
  BY <1>3 DEF Frames
<1> HIDE DEF top
<1>5. Taken(n, tag)[Len(stack)] = top
  BY <1>1, <1>2
<1>6. \A k \in 1..Len(stack) - 1 : Taken(n, tag)[k] = stack[k]
  BY <1>1, <1>2
<1> QED BY <1>4, <1>5, <1>6, TakenStack

LEMMA InnerFacts ==
    ASSUME DecoderInv, StructsNest, NEW k \in 1..Len(stack) - 1
    PROVE  /\ k \in 1..Len(stack) /\ k + 1 \in 1..Len(stack)
           /\ stack[k].msg \in Messages /\ stack[k].base \in Nat
           /\ stack[k + 1].msg \in Messages /\ stack[k + 1].base \in Nat
           /\ stack[k + 1].base <= Top.base
           /\ Top.base + Descriptor[Top.msg].size
                <= stack[k + 1].base + Descriptor[stack[k + 1].msg].size
<1>1. Len(stack) \in Nat \ {0} /\ \A j \in 1..Len(stack) : stack[j] \in Frames
  BY TopFacts
<1>2. k \in 1..Len(stack) /\ k + 1 \in 1..Len(stack) /\ Len(stack) \in (k + 1)..Len(stack)
  BY <1>1
<1>3. stack[k] \in Frames /\ stack[k + 1] \in Frames
  BY <1>1, <1>2
<1> QED BY <1>2, <1>3 DEF StructsNest, Size, Top, Frames

\* What a step writes into a message is none of the messages around it.
LEMMA BelowKept ==
    ASSUME DecoderInv, StructsNest, NEW k \in 1..Len(stack) - 1, AroundReadable(k),
           NEW new, SameOutside(dest, new, Top.base, Descriptor[Top.msg].size)
    PROVE  \E f \in Descriptor[stack[k].msg].fields :
              \E i \in Items(new, stack[k].base, f) :
                  /\ f.type = "MESSAGE" /\ f.sub = stack[k + 1].msg
                  /\ stack[k + 1].base = ItemAt(stack[k].base, f, i)
                  /\ FrameReadable(new, stack[k], {<<f, i>>})
<1>1. PICK f \in Descriptor[stack[k].msg].fields : \E i \in Items(dest, stack[k].base, f) :
          /\ f.type = "MESSAGE" /\ f.sub = stack[k + 1].msg
          /\ stack[k + 1].base = ItemAt(stack[k].base, f, i)
          /\ FrameReadable(dest, stack[k], {<<f, i>>})
  BY DEF AroundReadable
<1>2. PICK i \in Items(dest, stack[k].base, f) :
          /\ f.type = "MESSAGE" /\ f.sub = stack[k + 1].msg
          /\ stack[k + 1].base = ItemAt(stack[k].base, f, i)
          /\ FrameReadable(dest, stack[k], {<<f, i>>})
  BY <1>1
<1>3. /\ stack[k].msg \in Messages /\ stack[k].base \in Nat
      /\ stack[k + 1].msg \in Messages /\ stack[k + 1].base \in Nat
      /\ stack[k + 1].base <= Top.base
      /\ Top.base + Descriptor[Top.msg].size
           <= stack[k + 1].base + Descriptor[stack[k + 1].msg].size
  BY InnerFacts
<1>4. FieldParts(stack[k].msg, f)
  BY <1>3, Fielded
<1>5. f.data_size = Descriptor[stack[k + 1].msg].size /\ f.data_size \in Nat
  BY <1>2, <1>4 DEF FieldParts
<1>6. /\ Memory(dest, Size(1)) /\ Size(1) \in Nat /\ \A x \in DOMAIN dest : x \in Nat
      /\ Top.base \in Nat /\ Top.msg \in Messages
  BY TopFacts DEF Memory, Frames
<1>7. Descriptor[Top.msg].size \in Nat
  BY <1>6, Sized
<1>8. SameOutside(dest, new, ItemAt(stack[k].base, f, i), f.data_size)
  <2> SUFFICES ASSUME NEW x \in DOMAIN dest,
                      ~(stack[k + 1].base <= x /\ x < stack[k + 1].base + f.data_size)
               PROVE  x \in DOMAIN new /\ new[x] = dest[x]
    BY <1>2 DEF SameOutside
  <2>1. ~(Top.base <= x /\ x < Top.base + Descriptor[Top.msg].size)
    BY <1>3, <1>5, <1>6, <1>7
  <2> QED BY <2>1 DEF SameOutside
<1>9. FrameReadable(new, stack[k], {<<f, i>>}) /\ i \in Items(new, stack[k].base, f)
  BY <1>2, <1>3, <1>6, <1>8, AroundKept
<1> QED BY <1>2, <1>9

\* The message that is read goes on.
LEMMA AdvanceReadable ==
    ASSUME DecoderInv, ReadableInv, status = "decoding",
           NEW n \in 0..Top.left, NEW tag \in Nat, Advance(n, tag),
           SameOutside(dest, dest', Top.base, Descriptor[Top.msg].size),
           \A frame : frame.msg = Top.msg /\ frame.base = Top.base
                      /\ frame.seen = Top.seen \cup {tag} => FrameReadable(dest', frame, {})
    PROVE  ReadableInv'
<1>1. stack' = Taken(n, tag) /\ status' = status
  BY DEF Advance
<1>2. /\ Len(stack') = Len(stack)
      /\ \A k \in 1..Len(stack) - 1 : stack'[k] = stack[k]
      /\ stack'[Len(stack)].msg = Top.msg /\ stack'[Len(stack)].base = Top.base
      /\ stack'[Len(stack)].seen = Top.seen \cup {tag}
  BY <1>1, TakenFrames
<1>3. Len(stack) \in Nat \ {0}
  BY TopFacts
<1>4. \A k \in 1..Len(stack) : stack'[k].msg = stack[k].msg /\ stack'[k].base = stack[k].base
  <2>1. \A k \in 1..Len(stack) : k \in 1..Len(stack) - 1 \/ k = Len(stack)
    BY <1>3
  <2> QED BY <1>2, <2>1 DEF Top
<1>5. stack'[1].base = 0
  <2>1. 1 \in 1..Len(stack)
    BY <1>3
  <2> QED BY <1>4, <2>1 DEF ReadableInv
<1>6. StructsNest'
  <2> SUFFICES ASSUME NEW j \in 1..Len(stack), NEW k \in j..Len(stack)
               PROVE  /\ stack'[j].base <= stack'[k].base
                      /\ stack'[k].base + Descriptor[stack'[k].msg].size
                           <= stack'[j].base + Descriptor[stack'[j].msg].size
    BY <1>2 DEF StructsNest, Size
  <2>1. k \in 1..Len(stack)
    BY <1>3
  <2>2. /\ stack[j].base <= stack[k].base
        /\ stack[k].base + Descriptor[stack[k].msg].size
             <= stack[j].base + Descriptor[stack[j].msg].size
    BY DEF ReadableInv, StructsNest, Size
  <2> QED BY <1>4, <2>1, <2>2
<1>7. FrameReadable(dest', Top', {})
  BY <1>2 DEF Top
<1>8. ASSUME NEW k \in 1..Len(stack') - 1 PROVE AroundReadable(k)'
  <2>1. k \in 1..Len(stack) - 1 /\ k + 1 \in 1..Len(stack)
    BY <1>2, <1>3
  <2>2. AroundReadable(k) /\ StructsNest
    BY <2>1 DEF ReadableInv
  <2>3. \E f \in Descriptor[stack[k].msg].fields :
           \E i \in Items(dest', stack[k].base, f) :
               /\ f.type = "MESSAGE" /\ f.sub = stack[k + 1].msg
               /\ stack[k + 1].base = ItemAt(stack[k].base, f, i)
               /\ FrameReadable(dest', stack[k], {<<f, i>>})
    BY <2>1, <2>2, BelowKept
  <2>4. stack'[k] = stack[k] /\ stack'[k + 1].msg = stack[k + 1].msg
        /\ stack'[k + 1].base = stack[k + 1].base
    BY <1>2, <1>4, <2>1
  <2> QED BY <2>3, <2>4 DEF AroundReadable
<1>9. OkIsReadable'
  BY <1>1 DEF OkIsReadable
<1> QED BY <1>5, <1>6, <1>7, <1>8, <1>9 DEF ReadableInv

LEMMA FailReadable ==
    ASSUME ReadableInv, UNCHANGED stack, status' \in Errors
    PROVE  ReadableInv'
<1>1. status' # "decoding" /\ status' # "ok"
  BY DEF Errors
<1>2. StructsNest'
  BY DEF ReadableInv, StructsNest, Size
<1> QED BY <1>1, <1>2 DEF ReadableInv, OkIsReadable

\* A value that was decoded can be read.
LEMMA ValueStep ==
    ASSUME DecoderInv, ReadableInv, status = "decoding",
           NEW f \in Descriptor[Top.msg].fields, ~Full(f),
           NEW n \in 0..Top.left, Advance(n, f.tag),
           SameOutside(Counted(f), dest', Address(f), f.data_size),
           ValueReadable(dest', f, Address(f), Readable(dest'))
    PROVE  ReadableInv'
<1>1. f.tag \in Nat
  <2>1. FieldParts(Top.msg, f)
    BY FieldFacts
  <2> QED BY <2>1 DEF FieldParts
<1>2. SameOutside(dest, dest', Top.base, Descriptor[Top.msg].size)
  BY FieldInside
<1>3. FrameReadable(dest, Top, {})
  BY DEF ReadableInv
<1>4. ASSUME NEW frame, frame.msg = Top.msg, frame.base = Top.base,
             frame.seen = Top.seen \cup {f.tag}
      PROVE  FrameReadable(dest', frame, {})
  <2>1. FrameReadable(dest', frame, {<<f, NewItem(f)>>})
    BY <1>3, <1>4, FieldWritten
  <2>2. ValueReadable(dest', f, ItemAt(frame.base, f, NewItem(f)), Readable(dest'))
    BY <1>4, NewItemFacts
  <2> QED BY <2>1, <2>2, FrameFilled
<1> QED BY <1>1, <1>2, <1>4, AdvanceReadable

\* The bytes b are written into n bytes at a.
LEMMA WrittenInside ==
    ASSUME NEW mem, NEW N \in Nat, Memory(mem, N), NEW a \in Nat, NEW at \in Nat, NEW n \in Nat,
           NEW b, \A i \in DOMAIN b : i \in Nat /\ at + i < n
    PROVE  SameOutside(mem, Written(mem, a + at, b), a, n)
<1> SUFFICES ASSUME NEW x \in DOMAIN mem, ~(a <= x /\ x < a + n)
             PROVE  /\ x \in DOMAIN Written(mem, a + at, b)
                    /\ Written(mem, a + at, b)[x] = mem[x]
  BY DEF SameOutside
<1>1. x \in Nat
  BY DEF Memory
<1>2. \A i \in DOMAIN b : x # (a + at) + i
  BY <1>1
<1>3. a + at \in Nat /\ \A i \in DOMAIN b : i \in Nat
  OBVIOUS
<1> QED BY <1>2, <1>3, WrittenAt

LEMMA SameTwice ==
    ASSUME NEW p, NEW q, NEW r, NEW a, NEW n, SameOutside(p, q, a, n), SameOutside(q, r, a, n)
    PROVE  SameOutside(p, r, a, n)
BY DEF SameOutside

-----------------------------------------------------------------------------
(***************************************************************************)
(* Each action takes one of these ways.                                    *)
(***************************************************************************)
LEMMA VarintReadable ==
    ASSUME DecoderInv, ReadableInv, NEW t \in Tags, NEW f \in Descriptor[Top.msg].fields,
           DecodeVarint(t, f)
    PROVE  ReadableInv'
<1>1. status = "decoding" /\ ~Full(f) /\ f.type = "VARINT"
  BY DEF DecodeVarint, KnownField, InField, Acceptable
<1>2. CASE Fail("no varint", Counted(f))
  BY <1>2, FailReadable DEF Fail, Errors
<1>3. ASSUME NEW n \in VarintLengths(pos + t, Top.left - t),
             dest' = Written(Counted(f), Address(f),
                             [i \in 0..f.data_size - 1 |-> VarintByte(pos + t, n, i)]),
             Advance(t + n, f.tag)
      PROVE  ReadableInv'
  <2> DEFINE b == [i \in 0..f.data_size - 1 |-> VarintByte(pos + t, n, i)]
             mem == Counted(f)
  <2>1. t + n \in 0..Top.left
    <3>1. n \in 1..Top.left - t
      BY DEF VarintLengths
    <3> QED BY <3>1, TagFacts
  <2>2. /\ Memory(mem, Size(1)) /\ Size(1) \in Nat /\ Address(f) \in Nat /\ f.data_size \in Nat
        /\ Address(f) + 0 = Address(f)
    BY <1>1, CountedFacts, TopFacts, AddressFits
  <2>3. dest' = Written(mem, Address(f) + 0, b)
    BY <1>3, <2>2
  <2>4. DOMAIN b = 0..f.data_size - 1
    OBVIOUS
  <2> HIDE DEF b, mem
  <2>5. \A i \in DOMAIN b : i \in Nat /\ 0 + i < f.data_size
    BY <2>2, <2>4
  <2>6. SameOutside(mem, dest', Address(f), f.data_size)
    BY <2>2, <2>3, <2>5, WrittenInside
  <2>7. \A i \in DOMAIN b : Address(f) + i \in DOMAIN dest'
    BY <2>2, <2>3, <2>5, WrittenAt
  <2>8. There(dest', Address(f), f.data_size)
    BY <2>4, <2>7 DEF There
  <2>9. ValueReadable(dest', f, Address(f), Readable(dest'))
    BY <1>1, <2>8 DEF ValueReadable
  <2> QED BY <1>1, <1>3, <2>1, <2>6, <2>9, ValueStep DEF mem
<1> QED BY <1>2, <1>3 DEF DecodeVarint

LEMMA Fixed32Readable ==
    ASSUME DecoderInv, ReadableInv, NEW t \in Tags, NEW f \in Descriptor[Top.msg].fields,
           DecodeFixed32(t, f)
    PROVE  ReadableInv'
<1>1. status = "decoding" /\ ~Full(f) /\ f.type = "FIXED32"
  BY DEF DecodeFixed32, KnownField, InField, Acceptable
<1>2. CASE Fail("end-of-stream", Counted(f))
  BY <1>2, FailReadable DEF Fail, Errors
<1>3. CASE /\ Top.left - t >= 4
           /\ dest' = Written(Counted(f), Address(f), [i \in 0..3 |-> buf[pos + t + i + 1]])
           /\ Advance(t + 4, f.tag)
  <2> DEFINE b == [i \in 0..3 |-> buf[pos + t + i + 1]]
             mem == Counted(f)
  <2>1. t + 4 \in 0..Top.left
    BY <1>3, TagFacts
  <2>2. /\ Memory(mem, Size(1)) /\ Size(1) \in Nat /\ Address(f) \in Nat
        /\ Address(f) + 0 = Address(f)
    BY <1>1, CountedFacts, TopFacts, AddressFits
  <2>3. f.data_size = 4
    <3>1. FieldParts(Top.msg, f)
      BY FieldFacts
    <3> QED BY <1>1, <3>1 DEF FieldParts
  <2>4. dest' = Written(mem, Address(f) + 0, b) /\ DOMAIN b = 0..4 - 1
    BY <1>3, <2>2
  <2> HIDE DEF b, mem
  <2>5. \A i \in DOMAIN b : i \in Nat /\ 0 + i < f.data_size
    BY <2>3, <2>4
  <2>6. SameOutside(mem, dest', Address(f), f.data_size)
    BY <2>2, <2>3, <2>4, <2>5, WrittenInside
  <2>7. \A i \in DOMAIN b : Address(f) + i \in DOMAIN dest'
    BY <2>2, <2>4, <2>5, WrittenAt
  <2>8. There(dest', Address(f), f.data_size)
    BY <2>3, <2>4, <2>7 DEF There
  <2>9. ValueReadable(dest', f, Address(f), Readable(dest'))
    BY <1>1, <2>8 DEF ValueReadable
  <2> QED BY <1>1, <1>3, <2>1, <2>6, <2>9, ValueStep DEF mem
<1> QED BY <1>2, <1>3 DEF DecodeFixed32

LEMMA StringReadable ==
    ASSUME DecoderInv, ReadableInv, NEW t \in Tags, NEW f \in Descriptor[Top.msg].fields,
           DecodeString(t, f)
    PROVE  ReadableInv'
<1>1. status = "decoding" /\ ~Full(f) /\ f.type = "STRING"
  BY DEF DecodeString, KnownField, InField, Acceptable
<1>2. CASE status' \in Errors /\ UNCHANGED stack
  BY <1>2, FailReadable
<1>3. ASSUME NEW n \in PrefixLengths(pos + t, Top.left - t), NEW size, size = Value32(pos + t, n),
             size + 1 <= f.data_size, size <= Top.left - t - n,
             dest' = Written(Written(Counted(f), Address(f) + size, [i \in {0} |-> 0]), Address(f),
                             [i \in 0..size - 1 |-> buf[pos + t + n + i + 1]]),
             Advance(t + n + size, f.tag)
      PROVE  ReadableInv'
  <2> DEFINE nul == [i \in {0} |-> 0]
             b == [i \in 0..size - 1 |-> buf[pos + t + n + i + 1]]
             mem == Counted(f)
             a == Address(f)
             terminated == Written(mem, a + size, nul)
  <2>1. size \in Nat /\ t + n + size \in 0..Top.left
    BY <1>3, PrefixFacts
  <2>2. /\ Memory(mem, Size(1)) /\ Size(1) \in Nat /\ a \in Nat /\ f.data_size \in Nat
        /\ Grown(mem) /\ a + 0 = a
    BY <1>1, CountedFacts, CountedGrows, TopFacts, AddressFits
  <2>3. \A i \in DOMAIN nul : i \in Nat /\ size + i < f.data_size /\ nul[i] \in Byte
    BY <1>3, <2>1, <2>2 DEF Byte
  <2>4. 0 \in DOMAIN nul /\ nul[0] = 0 /\ DOMAIN b = 0..size - 1
    OBVIOUS
  <2>5. dest' = Written(terminated, a + 0, b)
    BY <1>3, <2>2
  <2> HIDE DEF nul, b, mem
  <2>6. Memory(terminated, Size(1))
    BY <1>1, <2>1, <2>2, <2>3, ValueGrows DEF Grown
  <2> HIDE DEF a
  <2>7. SameOutside(mem, terminated, a, f.data_size)
    BY <2>1, <2>2, <2>3, WrittenInside
  <2>8. a + size \in DOMAIN terminated /\ terminated[a + size] = 0
    <3>1. a + size \in Nat /\ \A i \in DOMAIN nul : i \in Nat
      BY <2>1, <2>2, <2>3
    <3>2. a + size + 0 \in DOMAIN terminated /\ terminated[a + size + 0] = nul[0]
      BY <2>2, <2>4, <3>1, WrittenAt
    <3>3. a + size + 0 = a + size
      BY <3>1
    <3> QED BY <2>4, <3>2, <3>3
  <2> HIDE DEF terminated
  <2>9. \A i \in DOMAIN b : i \in Nat /\ 0 + i < f.data_size
    BY <1>3, <2>1, <2>2, <2>4
  <2>10. SameOutside(terminated, dest', a, f.data_size)
    BY <2>2, <2>5, <2>6, <2>9, WrittenInside
  <2>11. SameOutside(mem, dest', a, f.data_size)
    BY <2>7, <2>10, SameTwice
  <2>12. /\ \A i \in 0..size - 1 : a + i \in DOMAIN dest'
         /\ a + size \in DOMAIN dest' /\ dest'[a + size] = 0
    <3>1. /\ \A i \in DOMAIN b : a + i \in DOMAIN dest'
          /\ \A x \in DOMAIN terminated :
                x \in DOMAIN dest' /\ ((\A i \in DOMAIN b : x # a + i) => dest'[x] = terminated[x])
      BY <2>2, <2>5, <2>6, <2>9, WrittenAt
    <3>2. \A i \in DOMAIN b : a + size # a + i
      BY <2>1, <2>2, <2>4
    <3> QED BY <2>4, <2>8, <3>1, <3>2
  <2>13. There(dest', a, size + 1) /\ dest'[a + (size + 1) - 1] = 0
    <3>1. \A i \in 0..(size + 1) - 1 : i \in 0..size - 1 \/ i = size
      BY <2>1
    <3>2. a + (size + 1) - 1 = a + size
      BY <2>1, <2>2
    <3> QED BY <2>12, <3>1, <3>2 DEF There
  <2>14. ValueReadable(dest', f, a, Readable(dest'))
    <3>1. size + 1 \in 1..f.data_size
      BY <1>3, <2>1, <2>2
    <3> QED BY <1>1, <2>13, <3>1 DEF ValueReadable
  <2> QED BY <1>1, <1>3, <2>1, <2>11, <2>14, ValueStep DEF mem, a
<1> QED BY <1>2, <1>3 DEF DecodeString, Fail, Errors

\* An embedded message is begun: it has its defaults, or was read before.
LEMMA EnteredFacts ==
    ASSUME DecoderInv, ReadableInv, status = "decoding",
           NEW f \in Descriptor[Top.msg].fields, ~Full(f), f.type = "MESSAGE"
    PROVE  /\ SameOutside(Counted(f), Entered(f), Address(f), f.data_size)
           /\ \A frame : frame.msg = f.sub /\ frame.base = Address(f) /\ frame.seen = {}
                           => FrameReadable(Entered(f), frame, {})
<1> DEFINE a == Address(f)
           mem == Counted(f)
<1>1. FieldParts(Top.msg, f)
  BY FieldFacts
<1>2. /\ f.sub \in Messages /\ f.data_size \in Nat /\ Descriptor[f.sub].size = f.data_size
      /\ f.rule \in {"REQUIRED", "REPEATED"}
  BY <1>1 DEF FieldParts
<1>3. /\ Memory(mem, Size(1)) /\ Size(1) \in Nat /\ a \in Nat /\ a + 0 = a /\ Grown(mem)
      /\ f.rule = "REQUIRED" => mem = dest
  BY CountedFacts, CountedGrows, TopFacts, AddressFits
<1>4. CASE f.rule = "REPEATED"
  <2> DEFINE z == Zeros(f.sub)
  <2>1. DOMAIN z = Descriptor[f.sub].zeroed /\ \A i \in DOMAIN z : z[i] = 0
    BY DEF Zeros
  <2>2. \A i \in DOMAIN z : i \in Nat /\ 0 + i < f.data_size /\ z[i] \in Byte
    BY <1>2, <2>1, Sized DEF Byte
  <2>3. Entered(f) = Written(mem, a + 0, z)
    BY <1>3, <1>4 DEF Entered
  <2> HIDE DEF z
  <2>4. Memory(Entered(f), Size(1))
    BY <1>3, <2>2, <2>3, ValueGrows DEF Grown
  <2> HIDE DEF a, mem
  <2>5. SameOutside(mem, Entered(f), a, f.data_size)
    BY <1>2, <1>3, <2>2, <2>3, WrittenInside
  <2>6. Fresh(Entered(f), f.sub, a)
    <3>1. Entered(f) = Written(mem, a, z) /\ a \in Nat
      BY <1>3, <2>3
    <3>2. \A i \in DOMAIN z : i \in Nat
      BY <2>2
    <3>3. \A i \in DOMAIN z : a + i \in DOMAIN Entered(f) /\ Entered(f)[a + i] = z[i]
      BY <1>3, <3>1, <3>2, WrittenAt
    <3> QED BY <2>1, <3>3 DEF Fresh
  <2>7. \A frame : frame.msg = f.sub /\ frame.base = a /\ frame.seen = {}
                     => FrameReadable(Entered(f), frame, {})
    BY <1>2, <1>3, <2>4, <2>6, FreshFrame
  <2> QED BY <2>5, <2>7 DEF a, mem
<1>5. CASE f.rule = "REQUIRED"
  <2>1. Entered(f) = dest /\ mem = dest
    BY <1>3, <1>5 DEF Entered
  <2>2. SameOutside(mem, Entered(f), a, f.data_size)
    BY <2>1 DEF SameOutside
  <2>3. NewItem(f) = 0 /\ a = ItemAt(Top.base, f, 0) /\ 0 \in Items(dest, Top.base, f)
    BY <1>5, NewItemFacts DEF NewItem, Items
  <2>4. ItemReadable(dest, Top, f, 0)
    BY <2>3, FrameItems DEF ReadableInv
  <2>5. Readable(dest)[f.sub][a] \/ Fresh(dest, f.sub, a)
    BY <2>3, <2>4 DEF ItemReadable, ValueReadable
  <2> HIDE DEF a
  <2>6. \A frame : frame.msg = f.sub /\ frame.base = a /\ frame.seen = {}
                     => FrameReadable(dest, frame, {})
    BY <1>2, <1>3, <2>1, <2>5, FreshFrame, ReadableFrame
  <2> QED BY <2>1, <2>2, <2>6 DEF a
<1> QED BY <1>2, <1>4, <1>5

LEMMA SkipReadable == ASSUME DecoderInv, ReadableInv, SkipField PROVE ReadableInv'
<1>1. status = "decoding" /\ FrameReadable(dest, Top, {})
  BY DEF SkipField, InField, ReadableInv
<1>2. PICK t \in Tags :
        \/ Fail("cannot skip", dest)
        \/ \E n \in Skipped(WireType(pos, t), pos + t, Top.left - t) :
              Advance(t + n, 0) /\ UNCHANGED dest
  BY DEF SkipField
<1>3. CASE Fail("cannot skip", dest)
  BY <1>3, FailReadable DEF Fail, Errors
<1>4. ASSUME NEW n \in Skipped(WireType(pos, t), pos + t, Top.left - t),
             Advance(t + n, 0), UNCHANGED dest
      PROVE  ReadableInv'
  <2>1. n \in 0..Top.left - t
    BY DEF Skipped, VarintLengths
  <2>2. t + n \in 0..Top.left
    BY <2>1, TagFacts
  <2>3. SameOutside(dest, dest', Top.base, Descriptor[Top.msg].size)
    BY <1>4 DEF SameOutside
  <2>4. ASSUME NEW frame, frame.msg = Top.msg, frame.base = Top.base,
               frame.seen = Top.seen \cup {0}
        PROVE  FrameReadable(dest', frame, {})
    <3>1. ASSUME NEW f \in Descriptor[Top.msg].fields PROVE f.tag # 0
      BY FieldFacts DEF FieldParts
    <3>2. ASSUME NEW f \in Descriptor[Top.msg].fields, NEW i, ItemReadable(dest, Top, f, i)
          PROVE  ItemReadable(dest', frame, f, i)
      BY <1>4, <2>4, <3>1, <3>2 DEF ItemReadable
    <3> QED BY <1>1, <1>4, <2>4, <3>2, FrameItems
  <2> QED BY <1>1, <1>4, <2>2, <2>3, <2>4, AdvanceReadable
<1> QED BY <1>2, <1>3, <1>4

LEMMA SubmessageReadable ==
    ASSUME DecoderInv, ReadableInv, NEW t \in Tags, NEW f \in Descriptor[Top.msg].fields,
           DecodeSubmessage(t, f)
    PROVE  ReadableInv'
<1>1. /\ status = "decoding" /\ ~Full(f) /\ f.type = "MESSAGE"
      /\ FrameReadable(dest, Top, {}) /\ StructsNest
  BY DEF DecodeSubmessage, KnownField, InField, Acceptable, ReadableInv
<1>2. CASE status' \in Errors /\ UNCHANGED stack
  BY <1>2, FailReadable
<1>3. ASSUME NEW n \in PrefixLengths(pos + t, Top.left - t), NEW size, size = Value32(pos + t, n),
             size <= Top.left - t - n,
             stack' = Append(Taken(t + n + size, f.tag),
                             Frame(f.sub, Address(f), size, pos + t + n + size)),
             dest' = Entered(f), UNCHANGED status
      PROVE  ReadableInv'
  <2> DEFINE s == Taken(t + n + size, f.tag)
             e == Frame(f.sub, Address(f), size, pos + t + n + size)
             last == Len(stack)
  <2>1. FieldParts(Top.msg, f)
    BY FieldFacts
  <2>2. /\ f.tag \in Nat /\ f.sub \in Messages /\ f.data_size \in Nat
        /\ Descriptor[f.sub].size = f.data_size
    BY <1>1, <2>1 DEF FieldParts
  <2>3. size \in Nat /\ pos \in Nat /\ t + n + size \in 0..Top.left /\ pos + t + n + size \in Nat
    BY <1>3, PrefixFacts
  <2>4. /\ Top.msg \in Messages /\ Top.base \in Nat /\ Descriptor[Top.msg].size \in Nat
        /\ last \in Nat \ {0} /\ Address(f) \in Nat
    BY <1>1, TopFacts, Sized, AddressFits DEF Frames
  <2>5. /\ s \in Seq(Frames) /\ Len(s) = last
        /\ \A k \in 1..last - 1 : s[k] = stack[k]
        /\ s[last].msg = Top.msg /\ s[last].base = Top.base
        /\ s[last].seen = Top.seen \cup {f.tag}
    BY <2>2, <2>3, TakenFrames
  <2>6. /\ e \in Frames /\ e.msg = f.sub /\ e.base = Address(f) /\ e.seen = {}
    BY <2>2, <2>3, <2>4 DEF Frame, Frames
  <2> HIDE DEF s, e
  <2>7. /\ Len(stack') = last + 1 /\ stack'[last + 1] = e
        /\ \A k \in 1..last : stack'[k] = s[k]
    <3>1. stack' = Append(s, e)
      BY <1>3 DEF s, e
    <3> QED BY <2>5, <2>6, <3>1, Appended
  <2> HIDE DEF last
  <2>8. /\ last \in 1..last /\ 1 \in 1..last /\ last + 1 \notin 1..last
        /\ \A k \in 1..last : k \in 1..last - 1 \/ k = last
    BY <2>4
  <2>9. \A k \in 1..last : stack'[k].msg = stack[k].msg /\ stack'[k].base = stack[k].base
    BY <2>5, <2>7, <2>8 DEF Top, last
  <2>10. /\ SameOutside(Counted(f), dest', Address(f), f.data_size)
         /\ FrameReadable(dest', e, {})
    BY <1>1, <1>3, <2>6, EnteredFacts
  <2>11. SameOutside(dest, dest', Top.base, Descriptor[Top.msg].size)
    BY <1>1, <2>10, FieldInside
  <2>12. /\ FrameReadable(dest', s[last], {<<f, NewItem(f)>>})
         /\ NewItem(f) \in Items(dest', Top.base, f)
    BY <1>1, <2>5, <2>10, FieldWritten
  <2>13. stack'[1].base = 0
    BY <2>8, <2>9 DEF ReadableInv
  <2>14. Top.base <= Address(f) /\ Address(f) + f.data_size <= Top.base + Descriptor[Top.msg].size
    BY <1>1, <2>4, NewItemFacts, ItemPlaces
  <2>15. StructsNest'
    <3> SUFFICES ASSUME NEW j \in 1..last + 1, NEW k \in j..last + 1
                 PROVE  /\ stack'[j].base <= stack'[k].base
                        /\ stack'[k].base + Descriptor[stack'[k].msg].size
                             <= stack'[j].base + Descriptor[stack'[j].msg].size
      BY <2>7 DEF StructsNest, Size
    <3>1. \A i \in 1..last : /\ stack[i].base <= Top.base /\ stack[i].base \in Nat
                             /\ Top.base + Descriptor[Top.msg].size
                                  <= stack[i].base + Descriptor[stack[i].msg].size
                             /\ Descriptor[stack[i].msg].size \in Nat
      <4> SUFFICES ASSUME NEW i \in 1..last
                   PROVE  /\ stack[i].base <= Top.base /\ stack[i].base \in Nat
                          /\ Top.base + Descriptor[Top.msg].size
                               <= stack[i].base + Descriptor[stack[i].msg].size
                          /\ Descriptor[stack[i].msg].size \in Nat
        OBVIOUS
      <4>1. last \in i..last
        BY <2>4
      <4>2. stack[i] \in Frames
        BY TopFacts DEF last
      <4>3. stack[i].msg \in Messages /\ stack[i].base \in Nat
        BY <4>2 DEF Frames
      <4> QED BY <1>1, <4>1, <4>3, Sized DEF StructsNest, Size, Top, last
    <3>2. CASE k \in 1..last
      <4>1. j \in 1..last /\ k \in j..last
        BY <2>4, <3>2
      <4>2. /\ stack[j].base <= stack[k].base
            /\ stack[k].base + Descriptor[stack[k].msg].size
                 <= stack[j].base + Descriptor[stack[j].msg].size
        BY <1>1, <4>1 DEF StructsNest, Size, last
      <4> QED BY <2>9, <3>2, <4>1, <4>2
    <3>3. CASE k \notin 1..last
      <4>1. k = last + 1
        BY <2>4, <3>3
      <4>2. stack'[k].base = Address(f) /\ Descriptor[stack'[k].msg].size = f.data_size
        BY <2>2, <2>6, <2>7, <4>1
      <4>3. CASE j = last + 1
        BY <2>2, <2>4, <4>1, <4>2, <4>3
      <4>4. CASE j # last + 1
        <5>1. j \in 1..last
          BY <2>4, <4>4
        <5>2. stack'[j].base = stack[j].base /\ stack'[j].msg = stack[j].msg
          BY <2>9, <5>1
        <5>3. /\ stack[j].base <= Top.base /\ stack[j].base \in Nat
              /\ Top.base + Descriptor[Top.msg].size
                   <= stack[j].base + Descriptor[stack[j].msg].size
              /\ Descriptor[stack[j].msg].size \in Nat
          BY <3>1, <5>1
        <5> QED BY <2>2, <2>4, <2>14, <4>2, <5>2, <5>3
      <4> QED BY <4>3, <4>4
    <3> QED BY <3>2, <3>3
  <2>16. FrameReadable(dest', Top', {})
    BY <2>7, <2>10 DEF Top
  <2>17. ASSUME NEW k \in 1..Len(stack') - 1 PROVE AroundReadable(k)'
    <3>1. k \in 1..last - 1 \/ k = last
      BY <2>4, <2>7
    <3>2. CASE k \in 1..last - 1
      <4>1. k \in 1..last /\ k + 1 \in 1..last
        BY <2>4, <3>2
      <4>2. AroundReadable(k)
        BY <1>1, <3>2 DEF ReadableInv, last
      <4>3. \E g \in Descriptor[stack[k].msg].fields :
               \E i \in Items(dest', stack[k].base, g) :
                   /\ g.type = "MESSAGE" /\ g.sub = stack[k + 1].msg
                   /\ stack[k + 1].base = ItemAt(stack[k].base, g, i)
                   /\ FrameReadable(dest', stack[k], {<<g, i>>})
        BY <1>1, <2>11, <3>2, <4>2, BelowKept DEF last
      <4>4. stack'[k] = stack[k] /\ stack'[k + 1].msg = stack[k + 1].msg
            /\ stack'[k + 1].base = stack[k + 1].base
        BY <2>5, <2>7, <2>9, <3>2, <4>1
      <4> QED BY <4>3, <4>4 DEF AroundReadable
    <3>3. CASE k = last
      <4>1. stack'[k] = s[last] /\ stack'[k + 1] = e
        BY <2>7, <2>8, <3>3
      <4>2. /\ f \in Descriptor[stack'[k].msg].fields
            /\ NewItem(f) \in Items(dest', stack'[k].base, f)
            /\ f.sub = stack'[k + 1].msg
            /\ FrameReadable(dest', stack'[k], {<<f, NewItem(f)>>})
        BY <2>5, <2>6, <2>12, <4>1
      <4>3. stack'[k + 1].base = ItemAt(stack'[k].base, f, NewItem(f))
        BY <1>1, <2>5, <2>6, <4>1, NewItemFacts
      <4> QED BY <1>1, <4>2, <4>3 DEF AroundReadable
    <3> QED BY <3>1, <3>2, <3>3
  <2>18. OkIsReadable'
    BY <1>1, <1>3 DEF OkIsReadable
  <2> QED BY <2>13, <2>15, <2>16, <2>17, <2>18 DEF ReadableInv
<1> QED BY <1>2, <1>3 DEF DecodeSubmessage, Fail, Errors

\* A message that ends can be read, and so the one around it can but for what is to come.
LEMMA EndReadable == ASSUME DecoderInv, ReadableInv, EndMessage PROVE ReadableInv'
<1>1. /\ status = "decoding" /\ FrameReadable(dest, Top, {}) /\ StructsNest
      /\ Len(stack) \in Nat \ {0} /\ Top.msg \in Messages /\ Top.base \in Nat
  BY TopFacts DEF EndMessage, ReadableInv, Frames
<1>2. CASE Fail("missing required field", dest)
  BY <1>2, FailReadable DEF Fail, Errors
<1>3. ASSUME Descriptor[Top.msg].required \subseteq Top.seen
      PROVE  Readable(dest)[Top.msg][Top.base]
  BY <1>1, <1>3, FrameDone
<1>4. CASE /\ Descriptor[Top.msg].required \subseteq Top.seen
           /\ Len(stack) = 1 /\ status' = "ok" /\ UNCHANGED <<buf, pos, stack, dest>>
  <2>1. stack[1].base = 0 /\ Top = stack[1]
    BY <1>4 DEF ReadableInv, Top
  <2>2. Readable(dest)[stack[1].msg][0]
    BY <1>3, <1>4, <2>1
  <2>3. OkIsReadable'
    BY <1>4, <2>2 DEF OkIsReadable
  <2>4. StructsNest'
    BY <1>1, <1>4 DEF StructsNest, Size
  <2> QED BY <1>4, <2>1, <2>3, <2>4 DEF ReadableInv
<1>5. CASE /\ Descriptor[Top.msg].required \subseteq Top.seen
           /\ Len(stack) > 1
           /\ stack' = SubSeq(stack, 1, Len(stack) - 1)
           /\ UNCHANGED <<buf, pos, dest, status>>
  <2> DEFINE last == Len(stack) - 1
  <2>1. stack \in Seq(Frames)
    BY DEF DecoderInv, TypeOK, Frames
  <2>2. /\ last \in Nat \ {0} /\ last \in 1..Len(stack) - 1 /\ last + 1 = Len(stack)
        /\ 1 \in 1..last
    <3>1. Len(stack) \in Nat /\ Len(stack) > 1
      BY <1>1, <1>5, Zenon
    <3> QED BY <3>1
  <2>3. /\ Len(stack') = last
        /\ \A k \in 1..last : stack'[k] = stack[k] /\ k \in 1..Len(stack)
    BY <1>1, <1>5, <2>1, <2>2
  <2>4. stack'[1].base = 0
    BY <2>2, <2>3 DEF ReadableInv
  <2>5. StructsNest'
    <3> SUFFICES ASSUME NEW j \in 1..last, NEW k \in j..last
                 PROVE  /\ stack'[j].base <= stack'[k].base
                        /\ stack'[k].base + Descriptor[stack'[k].msg].size
                             <= stack'[j].base + Descriptor[stack'[j].msg].size
      BY <2>3 DEF StructsNest, Size
    <3>1. k \in 1..last /\ k \in j..Len(stack)
      BY <2>2
    <3>2. /\ stack[j].base <= stack[k].base
          /\ stack[k].base + Descriptor[stack[k].msg].size
               <= stack[j].base + Descriptor[stack[j].msg].size
      BY <1>1, <2>3, <3>1 DEF StructsNest, Size
    <3> QED BY <2>3, <3>1, <3>2
  <2>6. FrameReadable(dest', Top', {})
    <3>1. AroundReadable(last)
      BY <1>1, <2>2 DEF ReadableInv
    <3>2. PICK f \in Descriptor[stack[last].msg].fields :
             \E i \in Items(dest, stack[last].base, f) :
                 /\ f.type = "MESSAGE" /\ f.sub = stack[last + 1].msg
                 /\ stack[last + 1].base = ItemAt(stack[last].base, f, i)
                 /\ FrameReadable(dest, stack[last], {<<f, i>>})
      BY <3>1 DEF AroundReadable
    <3>3. PICK i \in Items(dest, stack[last].base, f) :
             /\ f.type = "MESSAGE" /\ f.sub = stack[last + 1].msg
             /\ stack[last + 1].base = ItemAt(stack[last].base, f, i)
             /\ FrameReadable(dest, stack[last], {<<f, i>>})
      BY <3>2
    <3>4. Readable(dest)[f.sub][ItemAt(stack[last].base, f, i)]
      BY <1>3, <1>5, <2>2, <3>3 DEF Top
    <3>5. ValueReadable(dest, f, ItemAt(stack[last].base, f, i), Readable(dest))
      BY <3>3, <3>4 DEF ValueReadable
    <3>6. FrameReadable(dest, stack[last], {})
      BY <3>3, <3>5, FrameFilled
    <3>7. Top' = stack[last]
      BY <2>2, <2>3 DEF Top
    <3> QED BY <1>5, <3>6, <3>7
  <2>7. ASSUME NEW k \in 1..Len(stack') - 1 PROVE AroundReadable(k)'
    <3>1. k \in 1..Len(stack) - 1 /\ k \in 1..last /\ k + 1 \in 1..last
      BY <1>1, <2>3
    <3>2. AroundReadable(k)
      BY <1>1, <3>1 DEF ReadableInv
    <3>3. stack'[k] = stack[k] /\ stack'[k + 1] = stack[k + 1] /\ dest' = dest
      BY <1>5, <2>3, <3>1
    <3> QED BY <3>2, <3>3 DEF AroundReadable
  <2>8. OkIsReadable'
    BY <1>1, <1>5 DEF OkIsReadable
  <2> QED BY <2>4, <2>5, <2>6, <2>7, <2>8 DEF ReadableInv
<1> QED BY <1>2, <1>4, <1>5 DEF EndMessage

LEMMA InitReadable == Init => ReadableInv
<1> SUFFICES ASSUME Init PROVE ReadableInv
  OBVIOUS
<1>1. PICK m \in Messages : stack = <<Frame(m, 0, Len(buf), Len(buf))>> /\ dest = Zeros(m)
  BY DEF Init, Opened
<1>2. /\ Len(stack) = 1 /\ stack[1].msg = m /\ stack[1].base = 0 /\ stack[1].seen = {}
      /\ Top = stack[1]
  BY <1>1 DEF Top, Frame
<1>3. StructsNest
  <2>1. Descriptor[m].size \in Nat
    BY Sized
  <2> QED BY <1>2, <2>1 DEF StructsNest, Size
<1>4. Memory(dest, Size(1)) /\ Size(1) \in Nat
  BY InitStep, TopFacts
<1>5. Fresh(dest, m, 0)
  <2>1. \A i \in Descriptor[m].zeroed : 0 + i = i
    BY Sized
  <2> QED BY <1>1, <2>1 DEF Fresh, Zeros
<1>6. FrameReadable(dest, Top, {})
  BY <1>2, <1>4, <1>5, FreshFrame
<1>7. status = "decoding"
  BY DEF Init
<1> QED BY <1>2, <1>3, <1>6, <1>7 DEF ReadableInv, OkIsReadable

LEMMA NextReadable == DecoderInv /\ ReadableInv /\ [Next]_decoder => ReadableInv'
<1> SUFFICES ASSUME DecoderInv, ReadableInv, [Next]_decoder PROVE ReadableInv'
  OBVIOUS
<1>1. CASE BadTag
  <2>1. (IF Tags = {} THEN "no tag" ELSE "zero tag") \in Errors
    BY DEF Errors
  <2> QED BY <1>1, <2>1, FailReadable DEF BadTag, Fail
<1>2. CASE SkipField
  BY <1>2, SkipReadable
<1>3. ASSUME NEW t \in Tags, NEW f \in Fields(t), DecodeField(t, f) PROVE ReadableInv'
  <2>1. f \in Descriptor[Top.msg].fields
    BY DEF Fields
  <2>2. CASE RefuseField(t, f)
    <3>1. (IF Full(f) THEN "array overflow" ELSE "wrong wire type") \in Errors
      BY DEF Errors
    <3> QED BY <2>2, <3>1, FailReadable DEF RefuseField, Fail
  <2> QED BY <1>3, <2>1, <2>2, VarintReadable, Fixed32Readable, StringReadable,
             SubmessageReadable DEF DecodeField
<1>4. CASE EndMessage
  BY <1>4, EndReadable
<1>5. CASE UNCHANGED decoder
  BY <1>5 DEF decoder, ReadableInv, StructsNest, AroundReadable, OkIsReadable, Size, Top
<1> QED BY <1>1, <1>2, <1>3, <1>4, <1>5 DEF Next

(***************************************************************************)
(* However messages nest in what was received, all that was decoded so far *)
(* can be read: of the message that is being read, all but required fields *)
(* that are still to come, and of each message around it all but these and *)
(* the message that is being read in it.                                   *)
(***************************************************************************)
THEOREM DecoderReadable == Spec => []ReadableInv
<1>1. Init => DecoderInv /\ ReadableInv
  BY InitStep, InitReadable
<1>2. (DecoderInv /\ ReadableInv) /\ [Next]_decoder => (DecoderInv /\ ReadableInv)'
  BY NextStep, NextReadable
<1> QED BY <1>1, <1>2, PTL DEF Spec

(***************************************************************************)
(* When pb_decode returns true, all of the struct can be read, whatever    *)
(* messages there are and whatever was received: no string is without an   *)
(* end, no count is over its array, and nothing is left of what was in     *)
(* memory before.                                                          *)
(***************************************************************************)
THEOREM DecoderOkIsReadable == Spec => []OkIsReadable
<1>1. ReadableInv => OkIsReadable
  BY DEF ReadableInv
<1> QED BY <1>1, DecoderReadable, PTL
=============================================================================
