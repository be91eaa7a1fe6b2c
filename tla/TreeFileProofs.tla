--------------------------- MODULE TreeFileProofs ---------------------------
(***************************************************************************)
(* The arithmetic of the layout; and the words of the file and the         *)
(* program's locals keep their types under any calls, for every pattern,   *)
(* slot size and bound.                                                    *)
(***************************************************************************)
EXTENDS TreeFile, SequenceTheorems, TLAPS

-----------------------------------------------------------------------------
(***************************************************************************)
(* The arithmetic of the file layout, for every pattern size and every     *)
(* minimal tuple size.                                                     *)
(***************************************************************************)

(***************************************************************************)
(* A slot has room for its header and for every field of the pattern.      *)
(***************************************************************************)
LEMMA SlotWordsFacts ==
    /\ SlotWords \in Nat /\ SlotWords > 2
    /\ RealTupleWords \in Nat /\ RealTupleWords >= PatternSize
    /\ SlotWords = RealTupleWords + 2
BY PatternAssumption, MinimalAssumption DEF SlotWords, RealTupleWords, HeaderWords

(***************************************************************************)
(* Division with remainder, for the natural numbers used here.             *)
(***************************************************************************)
LEMMA DivMod ==
    ASSUME NEW n \in Nat, NEW d \in Nat, d > 0
    PROVE  /\ n \div d \in Nat
           /\ n % d \in 0..d - 1
           /\ n = d * (n \div d) + (n % d)
BY SMT

(***************************************************************************)
(* CeilDiv rounds up: CeilDiv(n, d) units of d hold n, one less do not.    *)
(***************************************************************************)
LEMMA CeilDivFacts ==
    ASSUME NEW n \in Nat, NEW d \in Nat, d > 0
    PROVE  /\ CeilDiv(n, d) \in Nat
           /\ CeilDiv(n, d) * d >= n
           /\ CeilDiv(n, d) * d < n + d
<1> DEFINE q == n \div d
           r == n % d
<1>1. /\ q \in Nat
      /\ r \in 0..d - 1
      /\ n = d * q + r
  BY DivMod
<1>2. CASE r = 0
  <2>1. CeilDiv(n, d) = q
    BY <1>1, <1>2 DEF CeilDiv
  <2>2. q * d = n
    BY <1>1, <1>2
  <2> QED BY <1>1, <2>1, <2>2
<1>3. CASE r # 0
  <2>1. CeilDiv(n, d) = q + 1
    BY <1>3 DEF CeilDiv
  <2>2. (q + 1) * d = d * q + d
    BY <1>1
  <2> QED BY <1>1, <1>3, <2>1, <2>2
<1> QED BY <1>2, <1>3

(***************************************************************************)
(* The quotient and the remainder are the only numbers with the equation   *)
(* of DivMod.                                                              *)
(***************************************************************************)
LEMMA DivModUnique ==
    ASSUME NEW n \in Nat, NEW d \in Nat, d > 0,
           NEW q \in Nat, NEW r \in 0..d - 1, n = d * q + r
    PROVE  n \div d = q /\ n % d = r
<1> DEFINE p == n \div d
           s == n % d
<1>1. /\ p \in Nat
      /\ s \in 0..d - 1
      /\ n = d * p + s
  BY DivMod
<1>2. CASE p < q
  <2>1. PICK e \in Nat : q = p + 1 + e
    <3>1. q - p - 1 \in Nat /\ q = p + 1 + (q - p - 1)
      BY <1>1, <1>2
    <3> QED BY <3>1
  <2>2. d * q = d * p + d + d * e
    BY <1>1, <2>1
  <2>3. d * e >= 0
    BY <2>1
  <2> QED BY <1>1, <2>2, <2>3
<1>3. CASE q < p
  <2>1. PICK e \in Nat : p = q + 1 + e
    <3>1. p - q - 1 \in Nat /\ p = q + 1 + (p - q - 1)
      BY <1>1, <1>3
    <3> QED BY <3>1
  <2>2. d * p = d * q + d + d * e
    BY <1>1, <2>1
  <2>3. d * e >= 0
    BY <2>1
  <2> QED BY <1>1, <2>2, <2>3
<1>4. CASE p = q
  BY <1>1, <1>4
<1> QED BY <1>1, <1>2, <1>3, <1>4

(***************************************************************************)
(* The array the code reads has an entry for every id given out, ends at   *)
(* the end of a slot, and is never a whole slot longer than it has to be.  *)
(* (get_real_id_array_size)                                                *)
(***************************************************************************)
THEOREM RealIdArraySizeFits ==
    ASSUME NEW curId \in Nat
    PROVE  /\ RealIdArraySize(curId) \in Nat
           /\ RealIdArraySize(curId) >= curId
           /\ RealIdArraySize(curId) >= SlotWords
           /\ RealIdArraySize(curId) < Larger(curId, 1) + SlotWords
           /\ \E k \in Nat \ {0} : RealIdArraySize(curId) = k * SlotWords
<1> DEFINE n == IF curId = 0 THEN 1 ELSE curId
           k == CeilDiv(n, SlotWords)
<1>1. n \in Nat /\ n >= 1 /\ n >= curId /\ n = Larger(curId, 1)
  BY DEF Larger
<1> HIDE DEF n
<1>2. /\ k \in Nat
      /\ k * SlotWords >= n
      /\ k * SlotWords < n + SlotWords
  <2>1. SlotWords \in Nat /\ SlotWords > 0
    BY SlotWordsFacts
  <2> QED BY <1>1, <2>1, CeilDivFacts
<1>3. k >= 1
  <2>1. SUFFICES ASSUME k = 0 PROVE FALSE
    BY <1>2
  <2> QED BY <1>1, <1>2, <2>1, SlotWordsFacts
<1>4. k * SlotWords >= SlotWords
  <2>1. PICK e \in Nat : k = 1 + e
    <3>1. k - 1 \in Nat /\ k = 1 + (k - 1)
      BY <1>2, <1>3
    <3> QED BY <3>1
  <2>2. k * SlotWords = SlotWords + e * SlotWords /\ e * SlotWords >= 0
    BY <2>1, SlotWordsFacts
  <2> QED BY <2>1, <2>2, SlotWordsFacts
<1>5. RealIdArraySize(curId) = k * SlotWords
  <2>1. MinIdArraySize * SlotWords = SlotWords
    BY SlotWordsFacts DEF MinIdArraySize
  <2>2. k * SlotWords \in Nat
    BY <1>2, SlotWordsFacts
  <2>3. RealIdArraySize(curId) = Larger(k * SlotWords, SlotWords)
    BY <2>1 DEF RealIdArraySize, n
  <2> QED BY <1>4, <2>2, <2>3, SlotWordsFacts DEF Larger
<1>6. k * SlotWords \in Nat
  BY <1>2, SlotWordsFacts
<1> QED BY <1>1, <1>2, <1>3, <1>4, <1>5, <1>6

(***************************************************************************)
(* As long as the ids fit into one slot, the array is that slot.           *)
(***************************************************************************)
LEMMA OneSlotArray ==
    ASSUME NEW curId \in Nat, curId <= SlotWords
    PROVE  RealIdArraySize(curId) = SlotWords
<1>1. PICK k \in Nat \ {0} : RealIdArraySize(curId) = k * SlotWords
  BY RealIdArraySizeFits
<1>2. k * SlotWords < Larger(curId, 1) + SlotWords
  BY <1>1, RealIdArraySizeFits
<1>3. Larger(curId, 1) <= SlotWords
  BY SlotWordsFacts DEF Larger
<1>4. k * SlotWords < 2 * SlotWords
  <2>1. Larger(curId, 1) \in Nat
    BY DEF Larger
  <2> QED BY <1>1, <1>2, <1>3, <2>1, SlotWordsFacts
<1>5. k = 1
  <2>1. SUFFICES ASSUME k >= 2 PROVE FALSE
    BY <1>1
  <2>2. PICK e \in Nat : k = 2 + e
    <3>1. k - 2 \in Nat /\ k = 2 + (k - 2)
      BY <1>1, <2>1
    <3> QED BY <3>1
  <2>3. k * SlotWords = 2 * SlotWords + e * SlotWords /\ e * SlotWords >= 0
    BY <2>2, SlotWordsFacts
  <2> QED BY <1>4, <2>2, <2>3, SlotWordsFacts
<1> QED BY <1>1, <1>5, SlotWordsFacts

(***************************************************************************)
(* The array grows before the entry that is the last one of a slot is      *)
(* written, and before no other: append_to_id_array's test against the     *)
(* size of the array is a test against the size of a slot.                 *)
(***************************************************************************)
THEOREM GrowthAtSlotEnds ==
    ASSUME NEW curId \in Nat
    PROVE  GrowthDue(curId) <=> (curId + 1) % SlotWords = 0
<1> DEFINE W == SlotWords
           R == RealIdArraySize(curId)
<1> USE SlotWordsFacts
<1>0. W \in Nat /\ W > 2
  OBVIOUS
<1>1. PICK k \in Nat \ {0} : R = k * W
  BY RealIdArraySizeFits
<1>2. /\ R \in Nat /\ R >= curId /\ R >= W
      /\ R < Larger(curId, 1) + W
  BY RealIdArraySizeFits
<1> HIDE DEF W, R
<1>3. curId + 1 <= R + 1 /\ curId + 1 \in Nat
  BY <1>2
<1>4. ASSUME (curId + 1) % R = 0 PROVE (curId + 1) % W = 0
  <2>1. PICK m \in Nat : curId + 1 = R * m
    <3>1. /\ (curId + 1) \div R \in Nat
          /\ curId + 1 = R * ((curId + 1) \div R) + ((curId + 1) % R)
      BY <1>0, <1>2, <1>3, DivMod
    <3>2. R * ((curId + 1) \div R) \in Nat
      BY <1>2, <3>1
    <3>3. curId + 1 = R * ((curId + 1) \div R)
      BY <1>3, <1>4, <3>1, <3>2
    <3> QED BY <3>1, <3>3
  <2>2. m = 1
    <3>1. CASE m = 0
      BY <1>2, <1>3, <2>1, <3>1
    <3>2. CASE m >= 2
      <4>1. PICK e \in Nat : m = 2 + e
        <5>1. m - 2 \in Nat /\ m = 2 + (m - 2)
          BY <2>1, <3>2
        <5> QED BY <5>1
      <4>2. R * m = R + R + R * e /\ R * e >= 0
        BY <1>2, <4>1
      <4> QED BY <1>0, <1>2, <1>3, <2>1, <4>1, <4>2
    <3> QED BY <2>1, <3>1, <3>2
  <2>3. curId + 1 = W * k + 0
    BY <1>0, <1>1, <1>2, <2>1, <2>2
  <2>4. 0 \in 0..W - 1 /\ W > 0 /\ k \in Nat
    BY <1>0, <1>1
  <2> QED BY <1>0, <1>3, <2>3, <2>4, DivModUnique
<1>5. ASSUME (curId + 1) % W = 0 PROVE (curId + 1) % R = 0
  <2>1. PICK j \in Nat : curId + 1 = W * j
    <3>1. /\ (curId + 1) \div W \in Nat
          /\ curId + 1 = W * ((curId + 1) \div W) + ((curId + 1) % W)
      BY <1>0, <1>3, DivMod
    <3>2. W * ((curId + 1) \div W) \in Nat
      BY <1>0, <3>1
    <3>3. curId + 1 = W * ((curId + 1) \div W)
      BY <1>3, <1>5, <3>1, <3>2
    <3> QED BY <3>1, <3>3
  <2>2. Larger(curId, 1) < W * j
    BY <1>0, <1>3, <2>1 DEF Larger
  <2>3. W * k < W * j + W /\ W * j <= W * k + 1
    <3>1. W * k = R
      BY <1>0, <1>1
    <3>2. Larger(curId, 1) \in Nat
      BY DEF Larger
    <3> QED BY <1>0, <1>2, <1>3, <2>1, <2>2, <3>1, <3>2
  <2>4. j = k
    <3>1. CASE k >= j + 1
      <4>1. PICK e \in Nat : k = j + 1 + e
        <5>1. k - j - 1 \in Nat /\ k = j + 1 + (k - j - 1)
          BY <1>1, <2>1, <3>1
        <5> QED BY <5>1
      <4>2. W * k = W * j + W + W * e /\ W * e >= 0
        BY <1>0, <2>1, <4>1
      <4> QED BY <1>0, <2>1, <2>3, <4>1, <4>2
    <3>2. CASE j >= k + 1
      <4>1. PICK e \in Nat : j = k + 1 + e
        <5>1. j - k - 1 \in Nat /\ j = k + 1 + (j - k - 1)
          BY <1>1, <2>1, <3>2
        <5> QED BY <5>1
      <4>2. W * j = W * k + W + W * e /\ W * e >= 0
        BY <1>0, <1>1, <4>1
      <4> QED BY <1>0, <1>1, <2>3, <4>1, <4>2
    <3> QED BY <1>1, <2>1, <3>1, <3>2
  <2>5. curId + 1 = R * 1 + 0
    BY <1>0, <1>1, <1>2, <2>1, <2>4
  <2> QED BY <1>0, <1>2, <1>3, <2>5, DivModUnique
<1> QED BY <1>4, <1>5 DEF GrowthDue, R, W

(***************************************************************************)
(* While fewer ids have been given out than a slot has words, less one,    *)
(* the array does not grow.                                                *)
(***************************************************************************)
LEMMA NoGrowth ==
    ASSUME NEW curId \in Nat, curId + 1 < SlotWords
    PROVE  ~GrowthDue(curId)
<1>1. (curId + 1) % SlotWords = curId + 1
  <2>1. curId + 1 = SlotWords * 0 + (curId + 1)
    BY SlotWordsFacts
  <2> QED BY <2>1, SlotWordsFacts, DivModUnique
<1> QED BY <1>1, GrowthAtSlotEnds

(***************************************************************************)
(* Padding a key name to FILE_GRANULARITY bytes keeps it whole and adds    *)
(* fewer than FILE_GRANULARITY bytes. (get_real_string_size)               *)
(***************************************************************************)
THEOREM RealStringSizeFits ==
    ASSUME NEW len \in Nat
    PROVE  /\ RealStringSize(len) >= len
           /\ RealStringSize(len) < len + FileGranularity
BY CeilDivFacts DEF RealStringSize, FileGranularity

-----------------------------------------------------------------------------

USE SlotWordsFacts, PatternAssumption, OffsetAssumption

-----------------------------------------------------------------------------
(***************************************************************************)
(* Where words lie.                                                        *)
(***************************************************************************)
LEMMA FieldWordType ==
    ASSUME NEW n \in Fields
    PROVE  FieldWord(n) \in Words /\ FieldWord(n) >= 2
BY DEF Fields, FieldWord, HeaderWords, Words

LEMMA ZeroSlotType == ZeroSlot \in WordBlock
BY DEF ZeroSlot, WordBlock

LEMMA EntryPlace ==
    ASSUME NEW id \in Nat
    PROVE  EntryPos(id) \in Nat \ {0} /\ EntryWord(id) \in Words
<1>1. SlotWords \in Nat /\ SlotWords > 0
  OBVIOUS
<1>2. id \div SlotWords \in Nat /\ id % SlotWords \in 0..SlotWords - 1
  BY <1>1, DivMod
<1> QED BY <1>2 DEF EntryPos, EntryWord, Words

-----------------------------------------------------------------------------
(***************************************************************************)
(* A file is what its parts are.                                           *)
(***************************************************************************)
LEMMA FileParts ==
    ASSUME NEW f \in FileType
    PROVE  /\ f.sub \in [0..5 -> Nat]
           /\ f.blk \in Seq(WordBlock)
           /\ f.lost \in BOOLEAN
           /\ Len(f.blk) \in Nat
           /\ CurId(f) \in Nat
           /\ End(f) \in Nat
           /\ \A p \in 1..Len(f.blk) : f.blk[p] \in WordBlock
<1>1. f.sub \in [0..5 -> Nat] /\ f.blk \in Seq(WordBlock) /\ f.lost \in BOOLEAN
  BY DEF FileType
<1>2. Len(f.blk) \in Nat /\ \A p \in 1..Len(f.blk) : f.blk[p] \in WordBlock
  BY <1>1, LenProperties, ElementOfSeq
<1> QED BY <1>1, <1>2 DEF CurId, CUR_ID, End, Off

LEMMA SameParts ==
    ASSUME NEW f \in FileType, NEW s \in Seq(WordBlock)
    PROVE  [f EXCEPT !.blk = s] \in FileType
BY DEF FileType

LEMMA LostType ==
    ASSUME NEW f \in FileType
    PROVE  Lost(f) \in FileType
BY DEF FileType, Lost

LEMMA ReadTupleType ==
    ASSUME NEW f \in FileType, NEW o
    PROVE  ReadTuple(f, o) \in WordBlock
<1>1. HeaderView(f) \in WordBlock
  BY FileParts DEF HeaderView, WordBlock, Words
<1> QED BY <1>1, FileParts DEF ReadTuple, Inside

LEMMA WordType ==
    ASSUME NEW b \in WordBlock, NEW w \in Words
    PROVE  b[w] \in Nat
BY DEF WordBlock

LEMMA WriteWordType ==
    ASSUME NEW f \in FileType, NEW o, NEW w, NEW v \in Nat
    PROVE  WriteWord(f, o, w, v) \in FileType
<1>1. CASE Inside(f, o)
  <2> DEFINE b == [f.blk[Pos(o)] EXCEPT ![w] = v]
             s == [f.blk EXCEPT ![Pos(o)] = b]
  <2>1. Pos(o) \in 1..Len(f.blk)
    BY <1>1 DEF Inside
  <2>2. b \in WordBlock
    BY <2>1, FileParts DEF WordBlock
  <2>3. s \in Seq(WordBlock)
    BY <2>1, <2>2, FileParts, ExceptSeq
  <2>4. WriteWord(f, o, w, v) = [f EXCEPT !.blk = s]
    BY <1>1 DEF WriteWord
  <2> QED BY <2>3, <2>4, SameParts
<1>2. CASE ~Inside(f, o)
  BY <1>2, LostType DEF WriteWord
<1> QED BY <1>1, <1>2

LEMMA WriteTupleType ==
    ASSUME NEW f \in FileType, NEW o \in Nat, NEW b \in WordBlock
    PROVE  WriteTuple(f, o, b) \in FileType
<1>1. CASE Inside(f, o)
  <2>1. [f.blk EXCEPT ![Pos(o)] = b] \in Seq(WordBlock)
    BY <1>1, FileParts, ExceptSeq DEF Inside
  <2> QED BY <1>1, <2>1, SameParts DEF WriteTuple
<1>2. CASE ~Inside(f, o) /\ Pos(o) > 0
  <2> DEFINE s == [p \in 1..Pos(o) |-> IF p = Pos(o) THEN b
                                       ELSE IF p <= Len(f.blk) THEN f.blk[p]
                                       ELSE ZeroSlot]
  <2>1. Pos(o) \in Nat
    BY <1>2 DEF Pos
  <2>2. s \in [1..Pos(o) -> WordBlock]
    BY <2>1, FileParts, ZeroSlotType
  <2>3. s \in Seq(WordBlock)
    BY <2>1, <2>2, SeqDef
  <2> QED BY <1>2, <2>3, SameParts DEF WriteTuple
<1>3. CASE ~Inside(f, o) /\ ~(Pos(o) > 0)
  BY <1>3, LostType DEF WriteTuple
<1> QED BY <1>1, <1>2, <1>3

LEMMA WriteIdValueType ==
    ASSUME NEW f \in FileType, NEW id \in Nat, NEW o \in Nat
    PROVE  WriteIdValue(f, id, o) \in FileType
<1>1. CASE HasEntry(f, id)
  <2> DEFINE p == EntryPos(id)
             b == [f.blk[p] EXCEPT ![EntryWord(id)] = o]
             s == [f.blk EXCEPT ![p] = b]
  <2>1. p \in 1..Len(f.blk)
    <3>1. p \in Nat \ {0} /\ p <= Len(f.blk)
      BY <1>1, EntryPlace DEF HasEntry
    <3> QED BY <3>1, FileParts
  <2>2. b \in WordBlock
    <3>1. f.blk[p] \in WordBlock
      BY <2>1, FileParts
    <3> HIDE DEF p
    <3> QED BY <3>1 DEF WordBlock
  <2>3. s \in Seq(WordBlock)
    BY <2>1, <2>2, FileParts, ExceptSeq
  <2>4. WriteIdValue(f, id, o) = [f EXCEPT !.blk = s]
    BY <1>1 DEF WriteIdValue
  <2> QED BY <2>3, <2>4, SameParts
<1>2. CASE ~HasEntry(f, id)
  BY <1>2, LostType DEF WriteIdValue
<1> QED BY <1>1, <1>2

LEMMA EntryType ==
    ASSUME NEW f \in FileType, NEW id \in Nat, HasEntry(f, id)
    PROVE  Entry(f, id) \in Nat
<1>1. EntryPos(id) \in 1..Len(f.blk)
  BY EntryPlace, FileParts DEF HasEntry
<1> QED BY <1>1, EntryPlace, FileParts, WordType DEF Entry

LEMMA InsertNewTupleType ==
    ASSUME NEW f \in FileType, NEW b \in WordBlock
    PROVE  InsertNewTuple(f, b) \in FileType
<1>1. Append(f.blk, b) \in Seq(WordBlock)
  BY FileParts, AppendProperties
<1> QED BY <1>1, SameParts DEF InsertNewTuple

LEMMA DropLastType ==
    ASSUME NEW f \in FileType
    PROVE  DropLast(f) \in FileType
<1>1. Len(f.blk) - 1 \in Int /\ 1 \in Int
  BY FileParts
<1>2. \A i \in 1..Len(f.blk) - 1 : f.blk[i] \in WordBlock
  BY FileParts
<1>3. SubSeq(f.blk, 1, Len(f.blk) - 1) \in Seq(WordBlock)
  BY <1>1, <1>2, SubSeqProperties
<1> QED BY <1>3, SameParts DEF DropLast

-----------------------------------------------------------------------------
(***************************************************************************)
(* Moving slots.                                                           *)
(***************************************************************************)
LEMMA RelinkStringsType ==
    ASSUME NEW f \in FileType, NEW b, NEW to \in Nat
    PROVE  RelinkStrings(f, b, to) \in FileType
<1> DEFINE links == {b[FieldWord(n)] : n \in StringFields}
           gone  == f.lost \/ \E o \in links : ~Inside(f, o)
           s == [p \in 1..Len(f.blk) |->
                   IF Off(p) \in links THEN [f.blk[p] EXCEPT ![0] = to]
                                       ELSE f.blk[p]]
<1>1. ASSUME NEW p \in 1..Len(f.blk) PROVE [f.blk[p] EXCEPT ![0] = to] \in WordBlock
  <2>1. f.blk[p] \in WordBlock
    BY FileParts
  <2> QED BY <2>1 DEF WordBlock
<1>2. s \in [1..Len(f.blk) -> WordBlock]
  <2>1. \A p \in 1..Len(f.blk) : f.blk[p] \in WordBlock
    BY FileParts
  <2> HIDE DEF links
  <2> QED BY <1>1, <2>1
<1>3. s \in Seq(WordBlock)
  <2> HIDE DEF s
  <2> QED BY <1>2, FileParts, SeqDef
<1>4. RelinkStrings(f, b, to) = [f EXCEPT !.blk = s, !.lost = gone]
  BY DEF RelinkStrings
<1>5. gone \in BOOLEAN
  BY FileParts
<1> HIDE DEF s, gone, links
<1> QED BY <1>3, <1>4, <1>5 DEF FileType

LEMMA RelinkHolderType ==
    ASSUME NEW f \in FileType, NEW holder, NEW from, NEW to \in Nat
    PROVE  RelinkHolder(f, holder, from, to) \in FileType
<1>1. CASE ~Inside(f, holder)
  <2>1. (f.lost \/ holder > FirstOffset) \in BOOLEAN
    OBVIOUS
  <2> QED BY <1>1, <2>1 DEF RelinkHolder, FileType
<1>2. CASE Inside(f, holder)
  BY <1>2, WriteWordType DEF RelinkHolder
<1> QED BY <1>1, <1>2

LEMMA SwapTupleToType ==
    ASSUME NEW f \in FileType, NEW from \in Nat, NEW to \in Nat
    PROVE  SwapTupleTo(f, from, to) \in FileType
<1> DEFINE b == ReadTuple(f, from)
           g == WriteTuple(f, to, b)
<1>1. b \in WordBlock
  BY ReadTupleType
<1>2. g \in FileType
  BY <1>1, WriteTupleType
<1>3. b[1] \in Nat
  BY <1>1, WordType DEF Words
<1>4. WriteIdValue(RelinkStrings(g, b, to), b[1], to) \in FileType
  BY <1>2, <1>3, RelinkStringsType, WriteIdValueType
<1>5. RelinkHolder(g, b[0], from, to) \in FileType
  BY <1>2, RelinkHolderType
<1> HIDE DEF b, g
<1>6. \/ SwapTupleTo(f, from, to) = f
      \/ SwapTupleTo(f, from, to) = WriteIdValue(RelinkStrings(g, b, to), b[1], to)
      \/ SwapTupleTo(f, from, to) = RelinkHolder(g, b[0], from, to)
      \/ SwapTupleTo(f, from, to) = Lost(g)
  BY DEF SwapTupleTo, b, g
<1>7. Lost(g) \in FileType
  BY <1>2 DEF Lost, FileType
<1> QED BY <1>4, <1>5, <1>6, <1>7

\* The file has a slot whenever one is given up: Off(Len(f.blk)) is FirstOffset - 1
\* for an empty file, still a number.
LEMMA SwapWithLastType ==
    ASSUME NEW f \in FileType, NEW o \in Nat
    PROVE  SwapWithLast(f, o) \in FileType
<1>1. Off(Len(f.blk)) \in Nat
  BY FileParts DEF Off
<1> QED BY <1>1, SwapTupleToType, DropLastType DEF SwapWithLast

LEMMA SetCurIdType ==
    ASSUME NEW f \in FileType, NEW c \in Nat
    PROVE  [f EXCEPT !.sub[CUR_ID] = c] \in FileType
<1>1. [f.sub EXCEPT ![CUR_ID] = c] \in [0..5 -> Nat]
  BY FileParts
<1> QED BY <1>1 DEF FileType

LEMMA RemoveFromIdArrayType ==
    ASSUME NEW f \in FileType, NEW id \in Nat
    PROVE  RemoveFromIdArray(f, id) \in FileType
<1> DEFINE g == IF CurId(f) - 1 = id THEN [f EXCEPT !.sub[CUR_ID] = @ - 1] ELSE f
<1>1. CASE CurId(f) - 1 = id
  <2>1. g = [f EXCEPT !.sub[CUR_ID] = id]
    BY <1>1 DEF CurId
  <2> QED BY <2>1, SetCurIdType, WriteIdValueType DEF RemoveFromIdArray, NullValue
<1>2. CASE CurId(f) - 1 # id
  BY <1>2, WriteIdValueType DEF RemoveFromIdArray, NullValue
<1> QED BY <1>1, <1>2

LEMMA GrowIdArrayType ==
    ASSUME NEW f \in FileType
    PROVE  GrowIdArray(f) \in FileType
<1> DEFINE R == RealIdArraySize(CurId(f))
<1>1. R \in Nat
  BY FileParts, RealIdArraySizeFits
<1>2. R \div SlotWords \in Nat
  <2>1. SlotWords \in Nat /\ SlotWords > 0
    OBVIOUS
  <2> HIDE DEF R
  <2> QED BY <1>1, <2>1, DivMod
<1>3. Off(R \div SlotWords + 1) \in Nat
  <2> HIDE DEF R
  <2> QED BY <1>2 DEF Off
<1> QED BY <1>3, FileParts, ZeroSlotType, InsertNewTupleType, SwapTupleToType
        DEF GrowIdArray

LEMMA AppendToIdArrayType ==
    ASSUME NEW f \in FileType, NEW o \in Nat
    PROVE  AppendToIdArray(f, o) \in FileType
<1> DEFINE g == IF GrowthDue(CurId(f)) THEN GrowIdArray(f) ELSE f
           h == WriteIdValue(g, CurId(f), o)
<1>1. g \in FileType
  BY GrowIdArrayType
<1>2. h \in FileType
  BY <1>1, FileParts, WriteIdValueType
<1>3. h.sub[CUR_ID] + 1 \in Nat
  <2> HIDE DEF h
  <2> QED BY <1>2, FileParts DEF CurId
<1>4. AppendToIdArray(f, o) = [h EXCEPT !.sub[CUR_ID] = h.sub[CUR_ID] + 1]
  BY DEF AppendToIdArray
<1> HIDE DEF h, g
<1> QED BY <1>2, <1>3, <1>4, SetCurIdType

-----------------------------------------------------------------------------
(***************************************************************************)
(* Strings and tuples.                                                     *)
(***************************************************************************)
LEMMA StringSlotType ==
    ASSUME NEW prev \in Nat, NEW next \in Nat, NEW text \in Nat
    PROVE  StringSlot(prev, next, text) \in WordBlock
BY DEF StringSlot, WordBlock

LEMMA InsertStringType ==
    ASSUME NEW f \in FileType, NEW s \in Seq(Nat), NEW holder \in Nat, NEW pos \in Nat
    PROVE  InsertString(f, s, holder, pos) \in FileType
<1> DEFINE prev(k) == IF k = 1 THEN holder ELSE pos + (k - 2)
           next(k) == IF k = Len(s) THEN NullValue ELSE pos + k
           t == [k \in 1..Len(s) |-> StringSlot(prev(k), next(k), s[k])]
<1>1. Len(s) \in Nat /\ \A k \in 1..Len(s) : s[k] \in Nat
  BY LenProperties, ElementOfSeq
<1>2. \A k \in 1..Len(s) : prev(k) \in Nat /\ next(k) \in Nat
  BY <1>1 DEF NullValue
<1> HIDE DEF prev, next
<1>3. \A k \in 1..Len(s) : StringSlot(prev(k), next(k), s[k]) \in WordBlock
  BY <1>1, <1>2, StringSlotType
<1>4. t \in [1..Len(s) -> WordBlock]
  BY <1>3
<1>5. t \in Seq(WordBlock)
  BY <1>1, <1>4, SeqDef
<1>6. f.blk \o t \in Seq(WordBlock)
  BY <1>5, FileParts, ConcatProperties
<1>7. InsertString(f, s, holder, pos) = [f EXCEPT !.blk = f.blk \o t]
  BY DEF InsertString, prev, next
<1> HIDE DEF t
<1> QED BY <1>6, <1>7, SameParts

LEMMA ChangeStringType ==
    ASSUME NEW f \in FileType, NEW o \in Nat, NEW s \in Seq(Nat), s # <<>>
    PROVE  ChangeString(f, o, s) \in FileType
<1> DEFINE old == ReadTuple(f, o)
           one == WriteTuple(f, o, StringSlot(old[0], old[1], s[1]))
           two == InsertString(one, Tail(s), o, o + 1)
<1>1. old[0] \in Nat /\ old[1] \in Nat
  BY ReadTupleType, WordType DEF Words
<1>2. s[1] \in Nat /\ Tail(s) \in Seq(Nat)
  BY EmptySeq, ElementOfSeq, HeadTailProperties
<1>3. one \in FileType
  BY <1>1, <1>2, StringSlotType, WriteTupleType
<1> HIDE DEF one
<1>4. two \in FileType
  <2>1. o + 1 \in Nat
    OBVIOUS
  <2> QED BY <1>2, <1>3, <2>1, InsertStringType
<1> HIDE DEF two
<1>5. WriteWord(two, o, 1, End(one)) \in FileType
  BY <1>3, <1>4, FileParts, WriteWordType
<1>6. ChangeString(f, o, s) \in {Lost(f), one, WriteWord(two, o, 1, End(one))}
  BY DEF ChangeString, one, two
<1> QED BY <1>3, <1>5, <1>6, LostType

LEMMA NewSlotType ==
    ASSUME NEW f \in FileType, NEW parent \in Nat
    PROVE  NewSlot(f, parent) \in WordBlock
BY FileParts DEF NewSlot, WordBlock

LEMMA ReserveTupleType ==
    ASSUME NEW f \in FileType, NEW parent \in Nat
    PROVE  ReserveTuple(f, parent) \in FileType
BY FileParts, NewSlotType, InsertNewTupleType, AppendToIdArrayType DEF ReserveTuple
LEMMA ValueType ==
    ASSUME NEW n \in Fields, NEW value \in Values(n)
    PROVE  /\ n \in StringFields => value \in Seq(Nat) /\ value # <<>>
           /\ n \notin StringFields => value[1] \in Nat
BY StringsAssumption, IntsAssumption DEF Values, StringFields

LEMMA UpdateTupleType ==
    ASSUME NEW f \in FileType, NEW n \in Fields, NEW value \in Values(n), NEW id \in Nat
    PROVE  UpdateTuple(f, n, value, id) \in FileType
<1> DEFINE o == Entry(f, id)
           x == ReadTuple(f, o)[FieldWord(n)]
<1>1. CASE Types[n] = "STRING"
  <2>1. x \in Nat
    BY ReadTupleType, WordType, FieldWordType
  <2>2. value \in Seq(Nat) /\ value # <<>>
    BY <1>1, ValueType DEF StringFields
  <2>3. ChangeString(f, x, value) \in FileType
    BY <2>1, <2>2, ChangeStringType
  <2>4. UpdateTuple(f, n, value, id) \in {Lost(f), ChangeString(f, x, value)}
    BY <1>1 DEF UpdateTuple
  <2> QED BY <2>3, <2>4, LostType
<1>2. CASE Types[n] # "STRING"
  <2> DEFINE w == WriteWord(f, o, FieldWord(n), value[1])
             h == [f EXCEPT !.sub[FieldWord(n)] = value[1]]
  <2>1. value[1] \in Nat
    BY <1>2, ValueType DEF StringFields
  <2>2. w \in FileType
    BY <2>1, WriteWordType
  <2>3. h \in FileType
    <3>1. [f.sub EXCEPT ![FieldWord(n)] = value[1]] \in [0..5 -> Nat]
      BY <2>1, FileParts
    <3> QED BY <3>1 DEF FileType
  <2>4. UpdateTuple(f, n, value, id) \in {Lost(f), w, h}
    BY <1>2 DEF UpdateTuple
  <2> QED BY <2>2, <2>3, <2>4, LostType
<1> QED BY <1>1, <1>2

-----------------------------------------------------------------------------
(***************************************************************************)
(* The removal's activations.                                              *)
(***************************************************************************)
LEMMA NoLinksType == NoLinks \in [Fields -> Nat]
BY DEF NoLinks, NullValue

LEMMA LinksOfType ==
    ASSUME file \in FileType, NEW o
    PROVE  LinksOf(o) \in [Fields -> Nat]
<1>1. \A n \in Fields : ReadTuple(file, o)[FieldWord(n)] \in Nat
  BY ReadTupleType, WordType, FieldWordType
<1> QED BY <1>1 DEF LinksOf, NullValue

LEMMA TopType ==
    ASSUME stack \in Seq(FrameType), stack # <<>>
    PROVE  /\ Len(stack) \in Nat \ {0}
           /\ Top \in FrameType
           /\ \A t \in FrameType : [stack EXCEPT ![Len(stack)] = t] \in Seq(FrameType)
           /\ \A t \in FrameType : [stack EXCEPT ![Len(stack)] = t] # <<>>
<1>1. Len(stack) \in Nat \ {0}
  BY EmptySeq
<1>2. Len(stack) \in 1..Len(stack)
  BY <1>1
<1>3. Top \in FrameType
  BY <1>2, ElementOfSeq DEF Top
<1>4. ASSUME NEW t \in FrameType
      PROVE  /\ [stack EXCEPT ![Len(stack)] = t] \in Seq(FrameType)
             /\ [stack EXCEPT ![Len(stack)] = t] # <<>>
  <2>1. /\ [stack EXCEPT ![Len(stack)] = t] \in Seq(FrameType)
        /\ Len([stack EXCEPT ![Len(stack)] = t]) = Len(stack)
    BY <1>2, ExceptSeq
  <2> QED BY <1>1, <2>1, EmptySeq
<1> QED BY <1>1, <1>3, <1>4

\* What Enter does to the file and the stack.
LEMMA EnterType ==
    ASSUME file \in FileType, NEW id \in Nat, NEW callers \in Seq(FrameType),
           Enter(id, callers)
    PROVE  /\ file' \in FileType
           /\ stack' \in Seq(FrameType)
           /\ stack' = <<>> => callers = <<>>
<1> DEFINE offset == Entry(file, id)
           g == RemoveFromIdArray(file, id)
           t == Frame(id, offset, ChildsById(g, id))
<1>1. g \in FileType
  BY RemoveFromIdArrayType
<1>2. CASE stack' = callers
  <2>1. file' \in {Lost(file), g, Lost(g)}
    BY <1>2 DEF Enter
  <2> QED BY <1>1, <1>2, <2>1, LostType
<1>3. CASE stack' # callers
  <2>1. /\ HasEntry(file, id)
        /\ file' = g
        /\ stack' = Append(callers, t)
    BY <1>3 DEF Enter
  <2>2. offset \in Nat
    BY <2>1, EntryType
  <2>3. ChildsById(g, id) \subseteq Nat
    BY <1>1, FileParts DEF ChildsById, Ids
  <2>4. t \in FrameType
    BY <2>2, <2>3, NoLinksType DEF Frame, FrameType
  <2>5. Append(callers, t) \in Seq(FrameType) /\ Append(callers, t) # <<>>
    BY <2>4, AppendProperties, EmptySeq
  <2> QED BY <1>1, <2>1, <2>5
<1> QED BY <1>2, <1>3

-----------------------------------------------------------------------------
LEMMA InitType == Init => TypeOK
<1> SUFFICES ASSUME Init PROVE TypeOK
  OBVIOUS
<1>1. EmptySubheader \in [0..5 -> Nat]
  BY SignatureAssumption DEF EmptySubheader, NullValue
<1>2. RealIdArraySize(0) \div SlotWords \in Nat
  <2>1. SlotWords \in Nat /\ SlotWords > 0 /\ RealIdArraySize(0) \in Nat
    BY RealIdArraySizeFits
  <2> QED BY <2>1, DivMod
<1>3. EmptyFile.blk \in Seq(WordBlock)
  <2>1. EmptyFile.blk \in [1..RealIdArraySize(0) \div SlotWords -> WordBlock]
    BY ZeroSlotType DEF EmptyFile
  <2> QED BY <1>2, <2>1, SeqDef
<1>4. EmptyFile \in FileType
  BY <1>1, <1>3 DEF EmptyFile, FileType
<1>5. NoTuple \in NewType
  BY DEF NoTuple, NewType, NullValue
<1>6. <<>> \in Seq(FrameType)
  BY EmptySeq
<1> QED BY <1>4, <1>5, <1>6 DEF Init, TypeOK

LEMMA AddTupleType ==
    ASSUME TypeOK, NEW fields \in FieldValues, NEW parent \in Parents,
           AddTuple(fields, parent)
    PROVE  TypeOK'
<1>1. parent \in Nat /\ FirstOffset \in Nat
  BY ParentsAssumption
<1>2. file' \in FileType
  BY <1>1, ReserveTupleType DEF AddTuple, TypeOK
<1>3. new' \in NewType /\ new'.slot \in WordBlock /\ new'.fields \in FieldValues
  <2>1. NewSlot(file, parent) \in WordBlock /\ End(file) \in Nat
    BY <1>1, NewSlotType, FileParts DEF TypeOK
  <2> QED BY <1>1, <2>1 DEF AddTuple, NewType
<1> QED BY <1>2, <1>3 DEF AddTuple, TypeOK

\* A value of the tuple being added is a value of its field.
LEMMA NewValueType ==
    ASSUME TypeOK, op = "add", new.n \in Fields
    PROVE  /\ new.at \in Nat /\ new.pos \in Nat
           /\ new.n \in Nat
           /\ new.slot \in WordBlock
           /\ new.fields[new.n] \in Values(new.n)
BY DEF TypeOK, NewType, FieldValues

LEMMA SlotFieldType ==
    ASSUME NEW b \in WordBlock, NEW n \in Fields, NEW v \in Nat
    PROVE  [b EXCEPT ![FieldWord(n)] = v] \in WordBlock
BY DEF WordBlock

LEMMA AddStringType == ASSUME TypeOK, AddString PROVE TypeOK'
<1> DEFINE slot == [new.slot EXCEPT ![FieldWord(new.n)] = End(file)]
<1>1. op = "add" /\ new.n \in StringFields /\ new.n \in Fields /\ file \in FileType
  BY DEF AddString, AddStep, StringFields, TypeOK
<1>2. new.fields[new.n] \in Seq(Nat)
  BY <1>1, NewValueType, ValueType
<1>3. file' \in FileType
  BY <1>1, <1>2, NewValueType, InsertStringType DEF AddString
<1>4. slot \in WordBlock
  BY <1>1, NewValueType, FileParts, SlotFieldType
<1>5. End(file') \in Nat
  BY <1>3, FileParts
<1>6. new' = [new EXCEPT !.slot = slot, !.n = new.n + 1, !.pos = End(file')]
  BY DEF AddString
<1>7. new.n + 1 \in Nat
  BY <1>1, NewValueType
<1> HIDE DEF slot
<1>8. new \in NewType /\ new.fields \in FieldValues
  BY <1>1 DEF TypeOK
<1>9. new' \in NewType /\ new'.slot \in WordBlock /\ new'.fields \in FieldValues
  BY <1>4, <1>5, <1>6, <1>7, <1>8 DEF NewType
<1> QED BY <1>1, <1>3, <1>9 DEF AddString, TypeOK

LEMMA AddIntegerType == ASSUME TypeOK, AddInteger PROVE TypeOK'
<1> DEFINE slot == [new.slot EXCEPT ![FieldWord(new.n)] = new.fields[new.n][1]]
<1>1. op = "add" /\ new.n \in Fields /\ new.n \notin StringFields
  BY DEF AddInteger, AddStep
<1>2. slot \in WordBlock
  BY <1>1, NewValueType, ValueType, SlotFieldType
<1>3. new' = [new EXCEPT !.slot = slot, !.n = new.n + 1]
  BY DEF AddInteger
<1>4. new.n + 1 \in Nat
  BY <1>1, NewValueType
<1> HIDE DEF slot
<1>5. new \in NewType /\ new.fields \in FieldValues
  BY <1>1 DEF TypeOK
<1>6. new' \in NewType /\ new'.slot \in WordBlock /\ new'.fields \in FieldValues
  BY <1>2, <1>3, <1>4, <1>5 DEF NewType
<1> QED BY <1>1, <1>6 DEF AddInteger, TypeOK

LEMMA AddWriteType == ASSUME TypeOK, AddWrite PROVE TypeOK'
<1>1. file' \in FileType
  BY WriteTupleType DEF AddWrite, AddStep, TypeOK, NewType
<1>2. NoTuple \in NewType
  BY DEF NoTuple, NewType, NullValue
<1> QED BY <1>1, <1>2 DEF AddWrite, TypeOK

LEMMA UpdateType ==
    ASSUME TypeOK, NEW n \in Fields, NEW value \in Values(n), NEW id \in AllIds,
           Update(n, value, id)
    PROVE  TypeOK'
<1>1. id \in Nat
  BY MaxIdsAssumption DEF AllIds
<1> QED BY <1>1, UpdateTupleType DEF Update, TypeOK, Idle

LEMMA RemoveTupleType ==
    ASSUME TypeOK, NEW id \in AllIds, RemoveTuple(id)
    PROVE  TypeOK'
<1>1. id \in Nat /\ file \in FileType
  BY MaxIdsAssumption DEF AllIds, TypeOK
<1>2. <<>> \in Seq(FrameType)
  BY EmptySeq
<1>3. Enter(id, <<>>)
  BY DEF RemoveTuple
<1>4. file' \in FileType /\ stack' \in Seq(FrameType)
  BY <1>1, <1>2, <1>3, EnterType
<1> QED BY <1>4 DEF RemoveTuple, TypeOK, Idle

\* While tuples are removed there is an activation.
LEMMA RemoveStepType ==
    ASSUME TypeOK, RemoveStep
    PROVE  /\ file \in FileType
           /\ op = "remove"
           /\ stack \in Seq(FrameType)
           /\ stack # <<>>
BY DEF TypeOK, RemoveStep

LEMMA RemoveChildType == ASSUME TypeOK, RemoveChild PROVE TypeOK'
<1>1. RemoveStep
  BY DEF RemoveChild
<1>2. PICK c \in Top.childs : Enter(c, [stack EXCEPT ![Len(stack)].childs = @ \ {c}])
  BY DEF RemoveChild
<1> DEFINE t == [Top EXCEPT !.childs = Top.childs \ {c}]
           callers == [stack EXCEPT ![Len(stack)] = t]
<1>3. Top \in FrameType
  BY <1>1, RemoveStepType, TopType
<1>4. c \in Nat /\ t \in FrameType
  BY <1>2, <1>3 DEF FrameType
<1>5. callers \in Seq(FrameType) /\ callers # <<>>
  <2> HIDE DEF t
  <2> QED BY <1>1, <1>4, RemoveStepType, TopType
<1>6. Enter(c, callers)
  BY <1>2 DEF Top
<1> HIDE DEF callers
<1>7. /\ file' \in FileType
      /\ stack' \in Seq(FrameType)
      /\ stack' # <<>>
  BY <1>1, <1>4, <1>5, <1>6, RemoveStepType, EnterType
<1> QED BY <1>1, <1>7, RemoveStepType DEF RemoveChild, TypeOK

LEMMA RemoveReadType == ASSUME TypeOK, RemoveRead PROVE TypeOK'
<1>1. RemoveStep
  BY DEF RemoveRead
<1>2. /\ file \in FileType /\ op = "remove"
      /\ stack \in Seq(FrameType) /\ stack # <<>>
      /\ Top \in FrameType
  BY <1>1, RemoveStepType, TopType
<1>3. CASE UNCHANGED file
  <2> DEFINE t == [Top EXCEPT !.loaded = TRUE, !.links = LinksOf(Top.offset)]
  <2>1. LinksOf(Top.offset) \in [Fields -> Nat]
    BY <1>2, LinksOfType
  <2>2. t \in FrameType
    BY <1>2, <2>1 DEF FrameType
  <2>3. \/ UNCHANGED stack
        \/ stack' = [stack EXCEPT ![Len(stack)] = t]
    <3>1. UNCHANGED stack \/ stack' = [stack EXCEPT ![Len(stack)].loaded = TRUE,
                                        ![Len(stack)].links = LinksOf(Top.offset)]
      BY DEF RemoveRead
    <3>2. Len(stack) \in DOMAIN stack
      BY <1>2, LenProperties, TopType
    <3> QED BY <3>1, <3>2 DEF Top
  <2> HIDE DEF t
  <2>4. stack' \in Seq(FrameType) /\ stack' # <<>>
    BY <1>2, <2>2, <2>3, TopType
  <2> QED BY <1>2, <1>3, <2>4 DEF RemoveRead, TypeOK
<1>4. CASE file' = Lost(file) /\ UNCHANGED stack
  BY <1>2, <1>4, LostType DEF RemoveRead, TypeOK
<1> QED BY <1>3, <1>4 DEF RemoveRead

LEMMA RemovePieceType == ASSUME TypeOK, RemovePiece PROVE TypeOK'
<1>1. RemoveStep
  BY DEF RemovePiece
<1>2. /\ file \in FileType /\ op = "remove"
      /\ stack \in Seq(FrameType) /\ stack # <<>>
      /\ Top \in FrameType
  BY <1>1, RemoveStepType, TopType
<1>3. PICK n \in Fields :
        LET o == Top.links[n]
        IN  IF Inside(file, o)
            THEN /\ stack' = [stack EXCEPT ![Len(stack)].links[n] = ReadTuple(file, o)[1]]
                 /\ file' = SwapWithLast(file, o)
            ELSE file' = Lost(file) /\ UNCHANGED stack
  BY DEF RemovePiece
<1> DEFINE o == Top.links[n]
           v == ReadTuple(file, o)[1]
           t == [Top EXCEPT !.links[n] = v]
<1>4. o \in Nat
  BY <1>2 DEF FrameType
<1>5. CASE Inside(file, o)
  <2>1. file' \in FileType
    BY <1>2, <1>3, <1>4, <1>5, SwapWithLastType
  <2>2. v \in Nat
    BY <1>2, ReadTupleType, WordType DEF Words
  <2>3. t \in FrameType
    <3> HIDE DEF v
    <3> QED BY <1>2, <2>2 DEF FrameType
  <2>4. stack' = [stack EXCEPT ![Len(stack)] = t]
    <3>1. stack' = [stack EXCEPT ![Len(stack)].links[n] = v]
      BY <1>3, <1>5
    <3> QED BY <3>1 DEF Top
  <2> HIDE DEF t
  <2>5. stack' \in Seq(FrameType) /\ stack' # <<>>
    BY <1>2, <2>3, <2>4, TopType
  <2> QED BY <1>2, <2>1, <2>5 DEF RemovePiece, TypeOK
<1>6. CASE ~Inside(file, o)
  BY <1>2, <1>3, <1>6, LostType DEF RemovePiece, TypeOK
<1> QED BY <1>5, <1>6

LEMMA RemoveSlotType == ASSUME TypeOK, RemoveSlot PROVE TypeOK'
<1>1. RemoveStep
  BY DEF RemoveSlot
<1>2. /\ file \in FileType /\ op = "remove"
      /\ stack \in Seq(FrameType) /\ stack # <<>>
      /\ Top.offset \in Nat
      /\ Len(stack) \in Nat \ {0}
  BY <1>1, RemoveStepType, TopType DEF FrameType
<1>3. file' \in FileType
  BY <1>2, SwapWithLastType DEF RemoveSlot
<1>4. /\ stack' \in Seq(FrameType)
      /\ Len(stack') = Len(stack) - 1
  <2>1. \A i \in 1..Len(stack) - 1 : stack[i] \in FrameType
    BY <1>2, ElementOfSeq
  <2> DEFINE m == Len(stack) - 1
             s == SubSeq(stack, 1, m)
  <2>2. m \in Nat
    BY <1>2
  <2> HIDE DEF m
  <2>3. s \in Seq(FrameType) /\ Len(s) = IF 1 <= m THEN m - 1 + 1 ELSE 0
    <3>1. \A i \in 1..m : stack[i] \in FrameType
      BY <2>1 DEF m
    <3>2. 1 \in Int /\ m \in Int
      BY <2>2
    <3> QED BY <3>1, <3>2, SubSeqProperties
  <2>4. stack' = s
    BY DEF RemoveSlot, m
  <2> HIDE DEF s
  <2>5. Len(s) = m
    BY <2>2, <2>3
  <2> QED BY <2>3, <2>4, <2>5 DEF m
<1>5. op' = "remove" => stack' # <<>>
  <2>1. Len(stack) = 1 => op' = "none"
    BY DEF RemoveSlot
  <2>2. Len(stack) # 1 => Len(stack') # 0
    BY <1>2, <1>4
  <2> QED BY <2>1, <2>2
<1>6. op' \in {"none", "remove"}
  BY DEF RemoveSlot
<1> QED BY <1>2, <1>3, <1>4, <1>5, <1>6 DEF RemoveSlot, TypeOK

(***************************************************************************)
(* Whatever calls are made, the words of the file and the program's locals *)
(* keep their types: no offset, id or link is ever negative, however often *)
(* ids are given back.                                                     *)
(***************************************************************************)
LEMMA StepType == TypeOK /\ [Next]_vars => TypeOK'
<1> SUFFICES ASSUME TypeOK, [Next]_vars PROVE TypeOK'
  OBVIOUS
<1>1. CASE \E v \in FieldValues, p \in Parents : AddTuple(v, p)
  BY <1>1, AddTupleType
<1>2. CASE \E n \in Fields : \E v \in Values(n), id \in AllIds : Update(n, v, id)
  BY <1>2, UpdateType
<1>3. CASE \E id \in AllIds : RemoveTuple(id)
  BY <1>3, RemoveTupleType
<1>4. CASE Inner
  BY <1>4, AddStringType, AddIntegerType, AddWriteType, RemoveChildType,
     RemoveReadType, RemovePieceType, RemoveSlotType DEF Inner
<1>5. CASE UNCHANGED vars
  BY <1>5 DEF vars, TypeOK
<1> QED BY <1>1, <1>2, <1>3, <1>4, <1>5 DEF Next

THEOREM TypeCorrect == Spec => []TypeOK
BY InitType, StepType, PTL DEF Spec
=============================================================================
