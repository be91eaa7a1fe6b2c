----------------------------- MODULE ShallowProofs ----------------------------
(***************************************************************************)
(* What ShallowInv says of the file, operation by operation: moving a slot *)
(* and cutting the last one off, writing a tuple, giving an id out, having *)
(* the id array grow, and giving an id back.  Then that each step keeps    *)
(* it: ShallowInv is an invariant of ShallowSpec for every number of       *)
(* integer fields, every slot size and any number of ids and slots, and    *)
(* CallTraced is one too, with which the file implements TreeStore.        *)
(***************************************************************************)
EXTENDS ShallowInvariant, TreeFileProofs

USE SlotWordsFacts, PatternAssumption, OffsetAssumption

-----------------------------------------------------------------------------
(***************************************************************************)
(* Where the entries of the array lie.                                     *)
(***************************************************************************)
LEMMA DivMonotone ==
    ASSUME NEW a \in Nat, NEW b \in Nat, a <= b, NEW d \in Nat, d > 0
    PROVE  a \div d <= b \div d
<1> DEFINE p == a \div d
           q == b \div d
<1>1. /\ p \in Nat /\ q \in Nat
      /\ a = d * p + (a % d) /\ b = d * q + (b % d)
      /\ a % d \in 0..d - 1 /\ b % d \in 0..d - 1
  BY DivMod
<1>2. SUFFICES ASSUME q < p PROVE FALSE
  BY <1>1
<1>3. PICK e \in Nat : p = q + 1 + e
  <2>1. p - q - 1 \in Nat /\ p = q + 1 + (p - q - 1)
    BY <1>1, <1>2
  <2> QED BY <2>1
<1>4. d * p = d * q + d + d * e /\ d * e >= 0
  BY <1>1, <1>3
<1> QED BY <1>1, <1>4

LEMMA EntryOrder ==
    ASSUME NEW i \in Nat, NEW j \in Nat, i <= j
    PROVE  EntryPos(i) <= EntryPos(j)
<1>1. SlotWords \in Nat /\ SlotWords > 0
  OBVIOUS
<1>2. /\ i \div SlotWords \in Nat /\ j \div SlotWords \in Nat
      /\ i \div SlotWords <= j \div SlotWords
  BY <1>1, DivMod, DivMonotone
<1> QED BY <1>2 DEF EntryPos

LEMMA EntryInjective ==
    ASSUME NEW i \in Nat, NEW j \in Nat,
           EntryPos(i) = EntryPos(j), EntryWord(i) = EntryWord(j)
    PROVE  i = j
<1>1. SlotWords \in Nat /\ SlotWords > 0
  OBVIOUS
<1>2. /\ i \div SlotWords \in Nat /\ j \div SlotWords \in Nat
      /\ i = SlotWords * (i \div SlotWords) + (i % SlotWords)
      /\ j = SlotWords * (j \div SlotWords) + (j % SlotWords)
  BY <1>1, DivMod
<1>3. i \div SlotWords = j \div SlotWords /\ i % SlotWords = j % SlotWords
  BY <1>2 DEF EntryPos, EntryWord
<1> QED BY <1>2, <1>3

(***************************************************************************)
(* The array's last slot moves on by one exactly when it grows, and what   *)
(* the code takes for its end is the end of that slot.                     *)
(***************************************************************************)
LEMMA NextPlace ==
    ASSUME NEW c \in Nat
    PROVE  /\ GrowthDue(c) => /\ EntryPos(c + 1) = EntryPos(c) + 1
                              /\ RealIdArraySize(c) \div SlotWords = EntryPos(c)
                              /\ c > 1
           /\ ~GrowthDue(c) => EntryPos(c + 1) = EntryPos(c)
<1> DEFINE W == SlotWords
           q == c \div W
           r == c % W
           R == RealIdArraySize(c)
<1>1. W \in Nat /\ W > 2 /\ W > 0
  OBVIOUS
<1>2. q \in Nat /\ r \in 0..W - 1 /\ c = W * q + r
  BY <1>1, DivMod
<1>3. /\ R \in Nat /\ R >= c /\ R < Larger(c, 1) + W
      /\ \E k \in Nat \ {0} : R = k * W
  BY RealIdArraySizeFits
<1>4. GrowthDue(c) <=> (c + 1) % W = 0
  BY GrowthAtSlotEnds
<1>5. EntryPos(c) = q + 1 /\ EntryPos(c + 1) = ((c + 1) \div W) + 1
  BY DEF EntryPos
<1> HIDE DEF W, q, r, R
<1>6. CASE r + 1 < W
  <2>1. c + 1 = W * q + (r + 1) /\ r + 1 \in 0..W - 1 /\ c + 1 \in Nat
    BY <1>1, <1>2, <1>6
  <2>2. (c + 1) \div W = q /\ (c + 1) % W = r + 1
    BY <1>1, <1>2, <2>1, DivModUnique
  <2> QED BY <1>2, <1>4, <1>5, <2>2
<1>7. CASE r + 1 = W
  <2>1. /\ c + 1 = W * (q + 1) + 0 /\ 0 \in 0..W - 1
        /\ c + 1 \in Nat /\ q + 1 \in Nat
    BY <1>1, <1>2, <1>7
  <2>2. (c + 1) \div W = q + 1 /\ (c + 1) % W = 0
    BY <1>1, <2>1, DivModUnique
  <2>3. W * q >= 0
    BY <1>1, <1>2
  <2>4. c > 1
    BY <1>1, <1>2, <1>7, <2>3
  <2>5. PICK k \in Nat \ {0} : R = k * W
    BY <1>3
  <2>6. W * k >= W * q + W - 1 /\ W * k < W * q + W + W - 1
    <3>1. Larger(c, 1) = c
      BY <2>4 DEF Larger
    <3>2. W * k = R
      BY <1>1, <2>5
    <3> QED BY <1>1, <1>2, <1>3, <1>7, <3>1, <3>2
  <2>7. k = q + 1
    <3>1. CASE k >= q + 2
      <4>1. PICK e \in Nat : k = q + 2 + e
        <5>1. k - q - 2 \in Nat /\ k = q + 2 + (k - q - 2)
          BY <1>2, <2>5, <3>1
        <5> QED BY <5>1
      <4>2. W * k = W * q + W + W + W * e /\ W * e >= 0
        BY <1>1, <1>2, <4>1
      <4>3. W * q \in Int /\ W * e \in Int
        BY <1>1, <1>2, <4>1
      <4> QED BY <1>1, <2>6, <4>2, <4>3
    <3>2. CASE k <= q
      <4>1. PICK e \in Nat : q = k + e
        <5>1. q - k \in Nat /\ q = k + (q - k)
          BY <1>2, <2>5, <3>2
        <5> QED BY <5>1
      <4>2. W * q = W * k + W * e /\ W * e >= 0
        BY <1>1, <2>5, <4>1
      <4>3. W * k \in Int /\ W * e \in Int
        BY <1>1, <2>5, <4>1
      <4> QED BY <1>1, <2>6, <4>2, <4>3
    <3> QED BY <1>2, <2>5, <3>1, <3>2
  <2>8. R \div W = k
    <3>1. R = W * k + 0 /\ 0 \in 0..W - 1
      BY <1>1, <2>5
    <3> QED BY <1>1, <1>3, <2>5, <3>1, DivModUnique
  <2> QED BY <1>2, <1>4, <1>5, <2>2, <2>4, <2>7, <2>8 DEF R, W
<1> QED BY <1>1, <1>2, <1>6, <1>7

-----------------------------------------------------------------------------
(***************************************************************************)
(* What a sound file is made of.                                           *)
(***************************************************************************)
LEMMA OffPos ==
    ASSUME NEW p \in Nat
    PROVE  /\ Pos(Off(p)) = p
           /\ p > 0 => Off(p) \in Nat /\ Off(p) >= FirstOffset
BY DEF Pos, Off

LEMMA PosInjective ==
    ASSUME NEW o \in Nat, NEW p \in Nat
    PROVE  o = Off(p) <=> Pos(o) = p
BY DEF Pos, Off

\* An id that was given out has an entry, and it is in the array.
LEMMA SoundEntries ==
    ASSUME NEW f \in FileType, LastArraySlot(f) <= Len(f.blk),
           NEW id \in Nat, id <= CurId(f)
    PROVE  /\ HasEntry(f, id)
           /\ EntryPos(id) \in 1..Len(f.blk)
           /\ EntryPos(id) <= LastArraySlot(f)
           /\ EntryWord(id) \in Words
           /\ Entry(f, id) = f.blk[EntryPos(id)][EntryWord(id)]
           /\ Entry(f, id) \in Nat
<1>1. EntryPos(id) <= LastArraySlot(f)
  BY FileParts, EntryOrder DEF LastArraySlot
<1>2. LastArraySlot(f) \in Nat
  BY FileParts, EntryPlace DEF LastArraySlot
<1>3. EntryPos(id) \in 1..Len(f.blk) /\ EntryWord(id) \in Words
  <2>1. EntryPos(id) \in Nat \ {0} /\ EntryWord(id) \in Words
    BY EntryPlace
  <2>2. Len(f.blk) \in Nat
    BY FileParts
  <2> QED BY <1>1, <1>2, <2>1, <2>2
<1>4. HasEntry(f, id)
  BY <1>3 DEF HasEntry
<1> QED BY <1>1, <1>3, <1>4, EntryType DEF Entry

LEMMA TuplePlaces ==
    ASSUME NEW f \in FileType, LastArraySlot(f) <= Len(f.blk)
    PROVE  /\ LastArraySlot(f) \in Nat \ {0}
           /\ \A p \in TuplePositions(f) :
                /\ p \in Nat /\ p > LastArraySlot(f) /\ p \in 1..Len(f.blk)
                /\ f.blk[p] \in WordBlock
                /\ Inside(f, Off(p))
                /\ ReadTuple(f, Off(p)) = f.blk[p]
<1>1. LastArraySlot(f) \in Nat \ {0} /\ Len(f.blk) \in Nat
  BY FileParts, EntryPlace DEF LastArraySlot
<1>2. ASSUME NEW p \in TuplePositions(f)
      PROVE  /\ p \in Nat /\ p > LastArraySlot(f) /\ p \in 1..Len(f.blk)
             /\ f.blk[p] \in WordBlock
             /\ Inside(f, Off(p))
             /\ ReadTuple(f, Off(p)) = f.blk[p]
  <2>1. p \in Nat /\ p > LastArraySlot(f) /\ p \in 1..Len(f.blk)
    BY <1>1 DEF TuplePositions
  <2> QED BY <2>1, OffPos, FileParts DEF Inside, ReadTuple
<1> QED BY <1>1, <1>2

\* Behind the array all words are small.
LEMMA TuplesSmall ==
    ASSUME NEW f \in FileType, LastArraySlot(f) <= Len(f.blk),
           OffsetsAreEntries(f),
           NEW p \in TuplePositions(f)
    PROVE  SmallWords(f.blk[p])
<1> SUFFICES ASSUME NEW w \in Words, ~(f.blk[p][w] < FirstOffset) PROVE FALSE
  BY DEF SmallWords
<1>1. p \in 1..Len(f.blk) /\ p > LastArraySlot(f) /\ f.blk[p] \in WordBlock
  BY TuplePlaces
<1>2. f.blk[p][w] \in Nat
  BY <1>1, WordType
<1>3. PICK id \in Ids(f) : p = EntryPos(id) /\ w = EntryWord(id)
  BY <1>1, <1>2 DEF OffsetsAreEntries
<1>4. id \in Nat /\ id <= CurId(f)
  BY FileParts DEF Ids
<1>5. EntryPos(id) <= LastArraySlot(f)
  BY <1>4, SoundEntries
<1>6. LastArraySlot(f) \in Nat
  BY TuplePlaces
<1> QED BY <1>1, <1>3, <1>5, <1>6

\* Who is live, and where.
LEMMA LiveFacts ==
    ASSUME NEW f \in FileType, LastArraySlot(f) <= Len(f.blk)
    PROVE  /\ \A id : id \in Live(f) <=> id \in Ids(f) /\ Entry(f, id) # 0
           /\ \A id \in Ids(f) : id \in Nat /\ id < CurId(f) /\ id <= CurId(f)
           /\ \A id \in Live(f) : Entry(f, id) \in Nat
<1>1. \A id \in Ids(f) : id \in Nat /\ id < CurId(f) /\ id <= CurId(f)
  BY FileParts DEF Ids
<1>2. \A id \in Ids(f) : HasEntry(f, id) /\ Entry(f, id) \in Nat
  BY <1>1, SoundEntries
<1> QED BY <1>1, <1>2 DEF Live, NullValue

(***************************************************************************)
(* A word as large as an offset, found where the entry of some number      *)
(* would be, is the entry of a live id.                                    *)
(***************************************************************************)
LEMMA LargeIsLive ==
    ASSUME NEW f \in FileType, LastArraySlot(f) <= Len(f.blk),
           OffsetsAreEntries(f),
           NEW id \in Nat, HasEntry(f, id), Entry(f, id) >= FirstOffset
    PROVE  id \in Live(f)
<1>1. EntryPos(id) \in 1..Len(f.blk) /\ EntryWord(id) \in Words
  BY EntryPlace, FileParts DEF HasEntry
<1>2. f.blk[EntryPos(id)][EntryWord(id)] >= FirstOffset
  BY DEF Entry
<1>3. PICK i \in Ids(f) : EntryPos(id) = EntryPos(i) /\ EntryWord(id) = EntryWord(i)
  BY <1>1, <1>2 DEF OffsetsAreEntries
<1>4. i \in Nat
  BY <1>3, LiveFacts
<1>5. id \in Ids(f)
  BY <1>3, <1>4, EntryInjective
<1>6. Entry(f, id) # 0
  <2>1. Entry(f, id) \in Nat
    BY EntryType
  <2> QED BY <2>1
<1> QED BY <1>5, <1>6, LiveFacts

\* Who is live in both files leads to the same words in both.
SameTuples(f, h) ==
    \A id \in Live(f) \cap Live(h) :
        h.blk[Pos(Entry(h, id))] = f.blk[Pos(Entry(f, id))]

-----------------------------------------------------------------------------
(***************************************************************************)
(* The ids that slots name in their second word.                           *)
(***************************************************************************)

\* No second word is new in h, but for 0 and offsets.
NoNewNames(f, h) ==
    \A x \in 1..Len(h.blk) :
        \/ h.blk[x][1] = 0
        \/ h.blk[x][1] >= FirstOffset
        \/ \E z \in 1..Len(f.blk) : h.blk[x][1] = f.blk[z][1]

LEMMA NamesKept ==
    ASSUME NEW f \in FileType, NEW h \in FileType, NoNewNames(f, h),
           NEW m \in Nat, m > 0, NamesWithin(f, m)
    PROVE  NamesWithin(h, m)
<1> SUFFICES ASSUME NEW x \in 1..Len(h.blk), h.blk[x][1] < FirstOffset
             PROVE  EntryPos(h.blk[x][1]) <= m
  BY DEF NamesWithin
<1>1. h.blk[x][1] \in Nat
  BY FileParts, WordType DEF Words
<1>2. CASE h.blk[x][1] = 0
  <2>1. EntryPos(0) = 1
    <3>1. SlotWords \in Nat /\ SlotWords > 0 /\ 0 = SlotWords * 0 + 0 /\ 0 \in 0..SlotWords - 1
      OBVIOUS
    <3>2. 0 \div SlotWords = 0
      BY <3>1, DivModUnique
    <3> QED BY <3>2 DEF EntryPos
  <2> QED BY <1>2, <2>1
<1>3. CASE \E z \in 1..Len(f.blk) : h.blk[x][1] = f.blk[z][1]
  BY <1>3 DEF NamesWithin
<1> QED BY <1>1, <1>2, <1>3 DEF NoNewNames

\* The entry that a slot behind the array names can be read.
LEMMA NamesReadable ==
    ASSUME NEW f \in FileType, Sound(f), NEW T, NamesCovered(f, T),
           NEW p \in TuplePositions(f)
    PROVE  HasEntry(f, f.blk[p][1])
<1>1. LastArraySlot(f) <= Len(f.blk) /\ OffsetsAreEntries(f) /\ Len(f.blk) \in Nat
  BY FileParts DEF Sound
<1>2. p \in 1..Len(f.blk) /\ f.blk[p] \in WordBlock /\ SmallWords(f.blk[p])
      /\ LastArraySlot(f) \in Nat
  BY <1>1, TuplePlaces, TuplesSmall
<1>3. 1 \in Words
  BY DEF Words
<1>4. f.blk[p][1] \in Nat /\ f.blk[p][1] < FirstOffset
  BY <1>2, <1>3, WordType DEF SmallWords
<1>5. PICK m \in LastArraySlot(f)..Len(f.blk) : NamesWithin(f, m)
  BY DEF NamesCovered
<1>6. m \in Int /\ m <= Len(f.blk) /\ EntryPos(f.blk[p][1]) <= m
  BY <1>1, <1>2, <1>4, <1>5 DEF NamesWithin
<1>7. EntryPos(f.blk[p][1]) \in Nat
  BY <1>4, EntryPlace
<1> QED BY <1>1, <1>4, <1>6, <1>7 DEF HasEntry

-----------------------------------------------------------------------------
(***************************************************************************)
(* Moving one slot behind the array over another that no live id leads to. *)
(***************************************************************************)
LEMMA NoStrings ==
    ASSUME OnlyIntegers, NEW f \in FileType, NEW b, NEW to, ~f.lost
    PROVE  RelinkStrings(f, b, to) = f
<1> DEFINE links == {b[FieldWord(n)] : n \in StringFields}
           s == [p \in 1..Len(f.blk) |->
                   IF Off(p) \in links THEN [f.blk[p] EXCEPT ![0] = to]
                                       ELSE f.blk[p]]
           gone == f.lost \/ \E o \in links : ~Inside(f, o)
<1>1. links = {}
  BY DEF OnlyIntegers
<1>2. s = f.blk
  <2>1. f.blk \in [1..Len(f.blk) -> WordBlock]
    BY FileParts, LenProperties
  <2>2. s = [p \in 1..Len(f.blk) |-> f.blk[p]]
    BY <1>1
  <2> QED BY <2>1, <2>2
<1>3. gone = f.lost
  BY <1>1, FileParts
<1>4. RelinkStrings(f, b, to) = [f EXCEPT !.blk = s, !.lost = gone]
  BY DEF RelinkStrings
<1> HIDE DEF s, gone, links
<1> QED BY <1>2, <1>3, <1>4 DEF FileType

LEMMA SmallHolder ==
    ASSUME NEW f \in FileType, ~f.lost, NEW holder \in Nat, holder < FirstOffset,
           NEW from, NEW to
    PROVE  RelinkHolder(f, holder, from, to) = f
<1>1. ~Inside(f, holder)
  BY FileParts DEF Inside, Pos
<1>2. (f.lost \/ holder > FirstOffset) = f.lost
  BY FileParts
<1>3. RelinkHolder(f, holder, from, to) = [f EXCEPT !.lost = f.lost \/ holder > FirstOffset]
  BY <1>1 DEF RelinkHolder
<1> QED BY <1>2, <1>3 DEF FileType

\* One slot is overwritten behind the array.
LEMMA Overwrite ==
    ASSUME NEW f \in FileType, Sound(f), NEW q \in TuplePositions(f),
           NEW b \in WordBlock, SmallWords(b)
    PROVE  LET g == WriteTuple(f, Off(q), b)
           IN  /\ g \in FileType
               /\ g.sub = f.sub /\ CurId(g) = CurId(f) /\ ~g.lost
               /\ Len(g.blk) = Len(f.blk)
               /\ \A x \in 1..Len(f.blk) : g.blk[x] = IF x = q THEN b ELSE f.blk[x]
               /\ \A id \in Nat : id <= CurId(f) => Entry(g, id) = Entry(f, id)
               /\ Live(g) = Live(f)
               /\ OffsetsAreEntries(g)
<1> DEFINE g == WriteTuple(f, Off(q), b)
<1>0. LastArraySlot(f) <= Len(f.blk) /\ OffsetsAreEntries(f) /\ ~f.lost
  BY DEF Sound
<1>1. q \in 1..Len(f.blk) /\ q > LastArraySlot(f) /\ Inside(f, Off(q)) /\ Pos(Off(q)) = q
  BY <1>0, TuplePlaces, OffPos
<1>2. g = [f EXCEPT !.blk = [f.blk EXCEPT ![q] = b]]
  BY <1>1 DEF WriteTuple
<1>3. /\ [f.blk EXCEPT ![q] = b] \in Seq(WordBlock)
      /\ Len([f.blk EXCEPT ![q] = b]) = Len(f.blk)
      /\ \A x \in 1..Len(f.blk) : [f.blk EXCEPT ![q] = b][x] = IF x = q THEN b ELSE f.blk[x]
  BY <1>1, FileParts, ExceptSeq
<1>4. /\ g \in FileType
      /\ g.sub = f.sub /\ ~g.lost
      /\ g.blk = [f.blk EXCEPT ![q] = b]
  BY <1>0, <1>2, <1>3 DEF FileType
<1> HIDE DEF g
<1>5. /\ CurId(g) = CurId(f)
      /\ Len(g.blk) = Len(f.blk)
      /\ \A x \in 1..Len(f.blk) : g.blk[x] = IF x = q THEN b ELSE f.blk[x]
      /\ LastArraySlot(g) = LastArraySlot(f) /\ Ids(g) = Ids(f)
  BY <1>3, <1>4 DEF CurId, LastArraySlot, Ids
<1>6. ASSUME NEW id \in Nat, id <= CurId(f)
      PROVE  Entry(g, id) = Entry(f, id)
  <2>1. EntryPos(id) \in 1..Len(f.blk) /\ EntryPos(id) <= LastArraySlot(f)
    BY <1>0, <1>6, SoundEntries
  <2>2. EntryPos(id) # q
    BY <1>0, <1>1, <2>1, TuplePlaces
  <2> QED BY <1>5, <2>1, <2>2 DEF Entry
<1>7. Live(g) = Live(f)
  <2>1. \A id : id \in Live(g) <=> id \in Ids(g) /\ Entry(g, id) # 0
    BY <1>0, <1>4, <1>5, LiveFacts
  <2>2. \A id : id \in Live(f) <=> id \in Ids(f) /\ Entry(f, id) # 0
    BY <1>0, LiveFacts
  <2>3. \A id \in Ids(f) : id \in Nat /\ id <= CurId(f)
    BY <1>0, LiveFacts
  <2> QED BY <1>5, <1>6, <2>1, <2>2, <2>3
<1>8. OffsetsAreEntries(g)
  <2> SUFFICES ASSUME NEW x \in 1..Len(g.blk), NEW w \in Words,
                      g.blk[x][w] >= FirstOffset
               PROVE  \E id \in Ids(g) : x = EntryPos(id) /\ w = EntryWord(id)
    BY DEF OffsetsAreEntries
  <2>1. CASE x = q
    <3>1. b[w] < FirstOffset /\ b[w] \in Nat
      BY WordType DEF SmallWords
    <3> QED BY <1>1, <1>5, <2>1, <3>1
  <2>2. CASE x # q
    BY <1>0, <1>5, <2>2 DEF OffsetsAreEntries
  <2> QED BY <2>1, <2>2
<1> QED BY <1>4, <1>5, <1>6, <1>7, <1>8 DEF g

\* What swap_tuple_to makes of f, when it is called with the slots p and q.
Moved(f, h, p, q) ==
    /\ h \in FileType
    /\ h.sub = f.sub /\ CurId(h) = CurId(f) /\ ~h.lost
    /\ Len(h.blk) = Len(f.blk)
    /\ \A x \in TuplePositions(f) : h.blk[x] = IF x = q THEN f.blk[p] ELSE f.blk[x]
    /\ Live(h) = Live(f)
    /\ \A id \in Live(f) : Entry(h, id) = IF Entry(f, id) = Off(p) THEN Off(q)
                                                                  ELSE Entry(f, id)
    /\ OffsetsAreEntries(h)
    /\ NoNewNames(f, h)

\* An entry of the array is written.
LEMMA WriteEntry ==
    ASSUME NEW f \in FileType, LastArraySlot(f) <= Len(f.blk), ~f.lost,
           NEW id \in Nat, id <= CurId(f), NEW o \in Nat
    PROVE  LET h == WriteIdValue(f, id, o)
           IN  /\ h \in FileType
               /\ h.sub = f.sub /\ CurId(h) = CurId(f) /\ ~h.lost
               /\ Len(h.blk) = Len(f.blk)
               /\ \A x \in 1..Len(f.blk) : \A w \in Words :
                    h.blk[x][w] = IF x = EntryPos(id) /\ w = EntryWord(id)
                                  THEN o ELSE f.blk[x][w]
               /\ \A x \in TuplePositions(f) : h.blk[x] = f.blk[x]
               /\ \A i \in Nat : i <= CurId(f) =>
                    Entry(h, i) = IF i = id THEN o ELSE Entry(f, i)
<1> DEFINE h == WriteIdValue(f, id, o)
           p == EntryPos(id)
           b == [f.blk[p] EXCEPT ![EntryWord(id)] = o]
           s == [f.blk EXCEPT ![p] = b]
<1>1. HasEntry(f, id) /\ p \in 1..Len(f.blk) /\ p <= LastArraySlot(f) /\ EntryWord(id) \in Words
  BY SoundEntries
<1>2. f.blk[p] \in WordBlock /\ f.blk \in Seq(WordBlock)
  BY <1>1, FileParts
<1>3. b \in WordBlock /\ \A w \in Words : b[w] = IF w = EntryWord(id) THEN o ELSE f.blk[p][w]
  BY <1>1, <1>2 DEF WordBlock
<1> HIDE DEF b
<1>4. /\ s \in Seq(WordBlock) /\ Len(s) = Len(f.blk)
      /\ \A x \in 1..Len(f.blk) : s[x] = IF x = p THEN b ELSE f.blk[x]
  BY <1>1, <1>2, <1>3, ExceptSeq
<1>5. h = [f EXCEPT !.blk = s]
  BY <1>1 DEF WriteIdValue, b
<1> HIDE DEF s
<1>6. h \in FileType /\ h.sub = f.sub /\ ~h.lost /\ h.blk = s
  BY <1>4, <1>5 DEF FileType
<1> HIDE DEF h, p
<1>7. \A x \in 1..Len(f.blk) : \A w \in Words :
        h.blk[x][w] = IF x = p /\ w = EntryWord(id) THEN o ELSE f.blk[x][w]
  BY <1>3, <1>4, <1>6
<1>8. \A x \in TuplePositions(f) : h.blk[x] = f.blk[x]
  <2>1. \A x \in TuplePositions(f) : x \in 1..Len(f.blk) /\ x > LastArraySlot(f) /\ x \in Nat
    BY TuplePlaces
  <2>2. LastArraySlot(f) \in Nat
    BY TuplePlaces
  <2> QED BY <1>1, <1>4, <1>6, <2>1, <2>2
<1>9. ASSUME NEW i \in Nat, i <= CurId(f)
      PROVE  Entry(h, i) = IF i = id THEN o ELSE Entry(f, i)
  <2>1. EntryPos(i) \in 1..Len(f.blk) /\ EntryWord(i) \in Words
    BY <1>9, SoundEntries
  <2>2. EntryPos(i) = EntryPos(id) /\ EntryWord(i) = EntryWord(id) => i = id
    BY EntryInjective
  <2> QED BY <1>7, <2>1, <2>2 DEF Entry, p
<1>10. CurId(h) = CurId(f)
  BY <1>6 DEF CurId
<1> QED BY <1>4, <1>6, <1>7, <1>8, <1>9, <1>10 DEF h, p

LEMMA MoveTuple ==
    ASSUME OnlyIntegers, NEW f \in FileType, Sound(f),
           NEW p \in TuplePositions(f), NEW q \in TuplePositions(f), p # q,
           \A id \in Live(f) : Entry(f, id) # Off(q),
           HasEntry(f, f.blk[p][1])
    PROVE  Moved(f, SwapTupleTo(f, Off(p), Off(q)), p, q)
<1> DEFINE b == f.blk[p]
           g == WriteTuple(f, Off(q), b)
           h == SwapTupleTo(f, Off(p), Off(q))
<1>0. LastArraySlot(f) <= Len(f.blk) /\ OffsetsAreEntries(f) /\ EntriesLead(f) /\ ~f.lost
  BY DEF Sound
<1>1. /\ b \in WordBlock /\ SmallWords(b)
      /\ ReadTuple(f, Off(p)) = b
      /\ p \in Nat /\ q \in Nat /\ p > 0 /\ q > 0
  BY <1>0, TuplePlaces, TuplesSmall
<1>2. /\ Off(p) \in Nat /\ Off(p) >= FirstOffset
      /\ Off(q) \in Nat /\ Off(q) >= FirstOffset
      /\ Off(p) # Off(q) /\ Pos(Off(p)) = p
  BY <1>1, OffPos DEF Off
<1>3. /\ b[0] \in Nat /\ b[0] < FirstOffset /\ b[1] \in Nat
  BY <1>1, WordType DEF SmallWords, Words
<1>4. /\ g \in FileType
      /\ g.sub = f.sub /\ CurId(g) = CurId(f) /\ ~g.lost
      /\ Len(g.blk) = Len(f.blk)
      /\ \A x \in 1..Len(f.blk) : g.blk[x] = IF x = q THEN b ELSE f.blk[x]
      /\ \A id \in Nat : id <= CurId(f) => Entry(g, id) = Entry(f, id)
      /\ Live(g) = Live(f)
      /\ OffsetsAreEntries(g)
  BY <1>1, Overwrite
<1>5. /\ h = IF ValidOffsetId(g, b[1], Off(p))
             THEN WriteIdValue(RelinkStrings(g, b, Off(q)), b[1], Off(q))
             ELSE RelinkHolder(g, b[0], Off(p), Off(q))
      /\ HasEntry(g, b[1])
  <2>1. HasEntry(g, b[1])
    BY <1>4 DEF HasEntry
  <2> QED BY <1>1, <1>2, <2>1 DEF SwapTupleTo
<1> HIDE DEF g, h
<1>6. /\ LastArraySlot(g) = LastArraySlot(f) /\ Ids(g) = Ids(f)
      /\ LastArraySlot(g) <= Len(g.blk)
      /\ TuplePositions(g) = TuplePositions(f)
  BY <1>0, <1>4 DEF LastArraySlot, Ids, TuplePositions
<1>7. \A id \in Live(f) : /\ id \in Nat /\ id <= CurId(f)
                          /\ Entry(f, id) \in Nat
                          /\ Entry(f, id) = Off(p) => id = b[1]
  <2> SUFFICES ASSUME NEW id \in Live(f)
               PROVE  /\ id \in Nat /\ id <= CurId(f)
                      /\ Entry(f, id) \in Nat
                      /\ Entry(f, id) = Off(p) => id = b[1]
    OBVIOUS
  <2>1. id \in Nat /\ id <= CurId(f) /\ Entry(f, id) \in Nat
    BY <1>0, LiveFacts
  <2>2. f.blk[Pos(Entry(f, id))][1] = id
    BY <1>0 DEF EntriesLead
  <2> QED BY <1>2, <2>1, <2>2
<1>8. \A x \in TuplePositions(f) : x \in 1..Len(f.blk)
  BY <1>0, TuplePlaces
<1>11. NoNewNames(f, g)
  BY <1>4, <1>8 DEF NoNewNames
<1>9. CASE ValidOffsetId(g, b[1], Off(p))
  <2>1. h = WriteIdValue(g, b[1], Off(q))
    BY <1>4, <1>5, <1>9, NoStrings
  <2>2. b[1] \in Live(f) /\ b[1] <= CurId(f)
    <3>1. HasEntry(g, b[1]) /\ Entry(g, b[1]) >= FirstOffset
      BY <1>2, <1>5, <1>9 DEF ValidOffsetId
    <3> QED BY <1>3, <1>4, <1>6, <1>7, <3>1, LargeIsLive
  <2>3. Entry(f, b[1]) = Off(p)
    BY <1>3, <1>4, <1>9, <2>2 DEF ValidOffsetId
  <2>4. /\ h \in FileType
        /\ h.sub = g.sub /\ CurId(h) = CurId(g) /\ ~h.lost
        /\ Len(h.blk) = Len(g.blk)
        /\ \A x \in 1..Len(g.blk) : \A w \in Words :
             h.blk[x][w] = IF x = EntryPos(b[1]) /\ w = EntryWord(b[1])
                           THEN Off(q) ELSE g.blk[x][w]
        /\ \A x \in TuplePositions(g) : h.blk[x] = g.blk[x]
        /\ \A i \in Nat : i <= CurId(g) =>
             Entry(h, i) = IF i = b[1] THEN Off(q) ELSE Entry(g, i)
    <3> HIDE DEF b
    <3>1. b[1] \in Nat /\ b[1] <= CurId(g) /\ Off(q) \in Nat
      BY <1>2, <1>3, <1>4, <2>2
    <3>2. g \in FileType /\ LastArraySlot(g) <= Len(g.blk) /\ ~g.lost
      BY <1>4, <1>6
    <3> QED BY <2>1, <3>1, <3>2, WriteEntry
  <2>5. \A x \in TuplePositions(f) : h.blk[x] = IF x = q THEN f.blk[p] ELSE f.blk[x]
    BY <1>4, <1>6, <1>8, <2>4
  <2>6. \A id \in Nat : id <= CurId(f) =>
          Entry(h, id) = IF id = b[1] THEN Off(q) ELSE Entry(f, id)
    BY <1>4, <2>4
  <2>7. Live(h) = Live(f)
    <3>1. Ids(h) = Ids(f) /\ LastArraySlot(h) <= Len(h.blk)
      BY <1>4, <1>6, <2>4 DEF Ids, LastArraySlot
    <3>2. \A id : id \in Live(h) <=> id \in Ids(f) /\ Entry(h, id) # 0
      BY <2>4, <3>1, LiveFacts
    <3>3. \A id : id \in Live(f) <=> id \in Ids(f) /\ Entry(f, id) # 0
      BY <1>0, LiveFacts
    <3>4. \A id \in Ids(f) : id \in Nat /\ id <= CurId(f)
      BY <1>0, LiveFacts
    <3>5. Off(q) # 0
      BY <1>2
    <3> QED BY <2>2, <2>6, <3>2, <3>3, <3>4, <3>5
  <2>8. \A id \in Live(f) : Entry(h, id) = IF Entry(f, id) = Off(p) THEN Off(q)
                                                                    ELSE Entry(f, id)
    BY <1>7, <2>3, <2>6
  <2>9. OffsetsAreEntries(h)
    <3> SUFFICES ASSUME NEW x \in 1..Len(h.blk), NEW w \in Words,
                        h.blk[x][w] >= FirstOffset
                 PROVE  \E id \in Ids(h) : x = EntryPos(id) /\ w = EntryWord(id)
      BY DEF OffsetsAreEntries
    <3>1. Ids(h) = Ids(f) /\ Ids(h) = Ids(g)
      BY <1>4, <2>4 DEF Ids
    <3>2. CASE x = EntryPos(b[1]) /\ w = EntryWord(b[1])
      <4>1. b[1] \in Ids(h)
        BY <2>2, <3>1 DEF Live
      <4> QED BY <3>2, <4>1
    <3>3. CASE ~(x = EntryPos(b[1]) /\ w = EntryWord(b[1]))
      <4>1. g.blk[x][w] >= FirstOffset /\ x \in 1..Len(g.blk)
        BY <2>4, <3>3
      <4> QED BY <1>4, <3>1, <4>1 DEF OffsetsAreEntries
    <3> QED BY <3>2, <3>3
  <2>10. NoNewNames(f, h)
    <3> SUFFICES ASSUME NEW x \in 1..Len(h.blk)
                 PROVE  \/ h.blk[x][1] = 0
                        \/ h.blk[x][1] >= FirstOffset
                        \/ \E z \in 1..Len(f.blk) : h.blk[x][1] = f.blk[z][1]
      BY DEF NoNewNames
    <3>1. x \in 1..Len(g.blk) /\ 1 \in Words
      BY <2>4 DEF Words
    <3>2. h.blk[x][1] = Off(q) \/ h.blk[x][1] = g.blk[x][1]
      BY <2>4, <3>1
    <3> QED BY <1>2, <1>11, <3>1, <3>2 DEF NoNewNames
  <2> QED BY <1>4, <2>4, <2>5, <2>7, <2>8, <2>9, <2>10 DEF Moved, h
<1>10. CASE ~ValidOffsetId(g, b[1], Off(p))
  <2>1. h = g
    BY <1>3, <1>4, <1>5, <1>10, SmallHolder
  <2>2. \A id \in Live(f) : Entry(f, id) # Off(p)
    <3> SUFFICES ASSUME NEW id \in Live(f), Entry(f, id) = Off(p) PROVE FALSE
      OBVIOUS
    <3>1. id = b[1] /\ id \in Nat /\ id <= CurId(f)
      BY <1>7
    <3>2. HasEntry(g, id) /\ Entry(g, id) = Off(p)
      BY <1>4, <1>6, <3>1, SoundEntries
    <3> QED BY <1>10, <3>1, <3>2 DEF ValidOffsetId
  <2>3. \A id \in Live(f) : Entry(h, id) = Entry(f, id)
    BY <1>4, <1>7, <2>1
  <2>4. \A x \in TuplePositions(f) : h.blk[x] = IF x = q THEN f.blk[p] ELSE f.blk[x]
    BY <1>4, <1>8, <2>1
  <2> QED BY <1>4, <1>11, <2>1, <2>2, <2>3, <2>4 DEF Moved, h
<1> QED BY <1>9, <1>10

-----------------------------------------------------------------------------
(***************************************************************************)
(* Giving up a slot that no live id leads to.                              *)
(***************************************************************************)
LEMMA DropFacts ==
    ASSUME NEW h \in FileType, Len(h.blk) > 0
    PROVE  LET k == DropLast(h)
           IN  /\ k \in FileType
               /\ k.sub = h.sub /\ k.lost = h.lost
               /\ Len(k.blk) = Len(h.blk) - 1
               /\ \A x \in 1..Len(h.blk) - 1 : k.blk[x] = h.blk[x]
<1> DEFINE m == Len(h.blk) - 1
           s == SubSeq(h.blk, 1, m)
           k == DropLast(h)
<1>1. m \in Nat /\ Len(h.blk) \in Nat
  BY FileParts
<1>2. k = [h EXCEPT !.blk = s]
  BY DEF DropLast
<1> HIDE DEF m
<1>3. /\ s \in Seq(WordBlock)
      /\ Len(s) = IF 1 <= m THEN m - 1 + 1 ELSE 0
      /\ \A i \in 1..m - 1 + 1 : s[i] = h.blk[1 + i - 1]
  <2>1. 1 \in Int /\ m \in Int
    BY <1>1
  <2>2. \A i \in 1..m : h.blk[i] \in WordBlock
    BY <1>1, FileParts DEF m
  <2> QED BY <2>1, <2>2, SubSeqProperties
<1> HIDE DEF s
<1>4. Len(s) = m
  BY <1>1, <1>3
<1>5. \A x \in 1..m : s[x] = h.blk[x]
  <2>1. \A x \in 1..m : x \in 1..m - 1 + 1 /\ 1 + x - 1 = x
    BY <1>1
  <2> QED BY <1>3, <2>1
<1>6. k \in FileType
  BY <1>2, <1>3, SameParts
<1>7. k.sub = h.sub /\ k.lost = h.lost /\ k.blk = s
  BY <1>2 DEF FileType
<1> QED BY <1>4, <1>5, <1>6, <1>7 DEF m

LEMMA FillAndCut ==
    ASSUME OnlyIntegers, NEW f \in FileType, Sound(f),
           NEW q \in TuplePositions(f),
           \A id \in Live(f) : Entry(f, id) # Off(q),
           HasEntry(f, f.blk[Len(f.blk)][1])
    PROVE  LET k == SwapWithLast(f, Off(q))
           IN  /\ k \in FileType
               /\ Sound(k)
               /\ CurId(k) = CurId(f)
               /\ Len(k.blk) = Len(f.blk) - 1
               /\ Live(k) = Live(f)
               /\ \A id \in Live(f) :
                    Entry(k, id) = IF Entry(f, id) = Off(Len(f.blk)) THEN Off(q)
                                                                     ELSE Entry(f, id)
               /\ SameTuples(f, k)
               /\ NoNewNames(f, k)
               /\ \A x \in TuplePositions(f) : x # q /\ x # Len(f.blk) =>
                    x \in TuplePositions(k) /\ k.blk[x] = f.blk[x]
<1> DEFINE L == Len(f.blk)
           h == SwapTupleTo(f, Off(L), Off(q))
           k == SwapWithLast(f, Off(q))
<1>0. LastArraySlot(f) <= Len(f.blk) /\ OffsetsAreEntries(f) /\ EntriesLead(f) /\ ~f.lost
      /\ CurId(f) <= MaxIds
  BY DEF Sound
<1>1. /\ q \in Nat /\ q > LastArraySlot(f) /\ q <= L /\ L \in Nat
      /\ LastArraySlot(f) \in Nat \ {0}
  BY <1>0, TuplePlaces, FileParts
<1>2. L \in TuplePositions(f) /\ L > LastArraySlot(f)
  BY <1>1 DEF TuplePositions
<1>3. k = DropLast(h)
  BY DEF SwapWithLast
<1> HIDE DEF L, h, k
<1>4. Moved(f, h, L, q)
  <2>1. CASE L = q
    <3>1. h = f
      BY <2>1 DEF SwapTupleTo, h
    <3>2. \A id \in Live(f) : Entry(f, id) # Off(L)
      BY <2>1
    <3>3. \A x \in TuplePositions(f) : f.blk[x] = IF x = q THEN f.blk[L] ELSE f.blk[x]
      BY <2>1
    <3>4. NoNewNames(f, f)
      BY DEF NoNewNames
    <3> QED BY <1>0, <3>1, <3>2, <3>3, <3>4 DEF Moved
  <2>2. CASE L # q
    <3>1. HasEntry(f, f.blk[L][1])
      BY DEF L
    <3> QED BY <1>0, <1>2, <2>2, <3>1, MoveTuple DEF h
  <2> QED BY <2>1, <2>2
<1>5. /\ h \in FileType
      /\ h.sub = f.sub /\ CurId(h) = CurId(f) /\ ~h.lost
      /\ Len(h.blk) = L
      /\ \A x \in TuplePositions(f) : h.blk[x] = IF x = q THEN f.blk[L] ELSE f.blk[x]
      /\ Live(h) = Live(f)
      /\ \A id \in Live(f) : Entry(h, id) = IF Entry(f, id) = Off(L) THEN Off(q)
                                                                    ELSE Entry(f, id)
      /\ OffsetsAreEntries(h)
      /\ NoNewNames(f, h)
  BY <1>4 DEF Moved, L
<1>6. /\ k \in FileType
      /\ k.sub = f.sub /\ ~k.lost
      /\ Len(k.blk) = L - 1
      /\ \A x \in 1..L - 1 : k.blk[x] = h.blk[x]
  <2>1. Len(h.blk) > 0
    BY <1>1, <1>2, <1>5
  <2>2. LET d == DropLast(h)
        IN  /\ d \in FileType
            /\ d.sub = h.sub /\ d.lost = h.lost
            /\ Len(d.blk) = Len(h.blk) - 1
            /\ \A x \in 1..Len(h.blk) - 1 : d.blk[x] = h.blk[x]
    BY <1>5, <2>1, DropFacts
  <2> QED BY <1>3, <1>5, <2>2
<1>7. /\ CurId(k) = CurId(f) /\ Ids(k) = Ids(f) /\ Ids(h) = Ids(f)
      /\ LastArraySlot(k) = LastArraySlot(f) /\ LastArraySlot(h) = LastArraySlot(f)
      /\ LastArraySlot(k) <= Len(k.blk) /\ LastArraySlot(h) <= Len(h.blk)
  BY <1>1, <1>2, <1>5, <1>6 DEF CurId, Ids, LastArraySlot
<1>8. \A id \in Nat : id <= CurId(f) => Entry(k, id) = Entry(h, id)
  <2> SUFFICES ASSUME NEW id \in Nat, id <= CurId(f) PROVE Entry(k, id) = Entry(h, id)
    OBVIOUS
  <2>1. EntryPos(id) \in 1..Len(k.blk)
    BY <1>6, <1>7, SoundEntries
  <2> QED BY <1>6, <2>1 DEF Entry
<1>9. \A id \in Ids(f) : id \in Nat /\ id <= CurId(f)
  BY <1>0, LiveFacts
<1>10. Live(k) = Live(f)
  <2>1. \A id : id \in Live(k) <=> id \in Ids(k) /\ Entry(k, id) # 0
    BY <1>6, <1>7, LiveFacts
  <2>2. \A id : id \in Live(h) <=> id \in Ids(h) /\ Entry(h, id) # 0
    BY <1>5, <1>7, LiveFacts
  <2> QED BY <1>5, <1>7, <1>8, <1>9, <2>1, <2>2
<1>11. \A id \in Live(f) : id \in Ids(f) /\ Entry(f, id) \in Nat
  BY <1>0, LiveFacts
<1>12. \A id \in Live(f) : Entry(k, id) = IF Entry(f, id) = Off(L) THEN Off(q)
                                                                  ELSE Entry(f, id)
  BY <1>5, <1>8, <1>9, <1>11
<1>13. OffsetsAreEntries(k)
  <2> SUFFICES ASSUME NEW x \in 1..Len(k.blk), NEW w \in Words,
                      k.blk[x][w] >= FirstOffset
               PROVE  \E id \in Ids(k) : x = EntryPos(id) /\ w = EntryWord(id)
    BY DEF OffsetsAreEntries
  <2>1. x \in 1..Len(h.blk) /\ h.blk[x][w] >= FirstOffset
    BY <1>1, <1>5, <1>6
  <2> QED BY <1>5, <1>7, <2>1 DEF OffsetsAreEntries
<1>14. \A x \in TuplePositions(f) : x # q /\ x # L =>
         x \in TuplePositions(k) /\ k.blk[x] = f.blk[x]
  <2> SUFFICES ASSUME NEW x \in TuplePositions(f), x # q, x # L
               PROVE  x \in TuplePositions(k) /\ k.blk[x] = f.blk[x]
    OBVIOUS
  <2>1. x > LastArraySlot(f) /\ x \in 1..Len(f.blk)
    BY <1>0, TuplePlaces
  <2>2. x \in 1..L - 1 /\ x \in LastArraySlot(f) + 1..L - 1
    BY <1>1, <2>1 DEF L
  <2>3. x \in TuplePositions(k)
    BY <1>6, <1>7, <2>2 DEF TuplePositions
  <2> QED BY <1>5, <1>6, <2>2, <2>3
<1>15. \A id \in Live(f) : /\ Pos(Entry(k, id)) \in TuplePositions(k)
                           /\ k.blk[Pos(Entry(k, id))] = f.blk[Pos(Entry(f, id))]
                           /\ f.blk[Pos(Entry(f, id))][1] = id
  <2> SUFFICES ASSUME NEW id \in Live(f)
               PROVE  /\ Pos(Entry(k, id)) \in TuplePositions(k)
                      /\ k.blk[Pos(Entry(k, id))] = f.blk[Pos(Entry(f, id))]
                      /\ f.blk[Pos(Entry(f, id))][1] = id
    OBVIOUS
  <2> DEFINE x == Pos(Entry(f, id))
  <2>1. x \in TuplePositions(f) /\ f.blk[x][1] = id
    BY <1>0 DEF EntriesLead
  <2>2. Entry(f, id) = Off(x) /\ x \in Nat
    <3>1. x \in Nat
      BY <1>0, <2>1, TuplePlaces
    <3> QED BY <1>11, <3>1, PosInjective
  <2>3. x # q
    BY <2>2
  <2>4. CASE x = L
    <3>1. Entry(k, id) = Off(q) /\ Pos(Entry(k, id)) = q
      BY <1>1, <1>12, <2>2, <2>4, OffPos
    <3>2. q \in 1..L - 1
      BY <1>1, <2>3, <2>4
    <3>3. k.blk[q] = f.blk[L]
      BY <1>5, <1>6, <3>2
    <3>4. q \in TuplePositions(k)
      BY <1>1, <1>6, <1>7, <3>2 DEF TuplePositions
    <3> HIDE DEF x
    <3>5. k.blk[q] = f.blk[x]
      BY <2>4, <3>3
    <3> QED BY <2>1, <3>1, <3>4, <3>5 DEF x
  <2>5. CASE x # L
    <3>1. Entry(k, id) = Entry(f, id)
      <4>1. Off(x) # Off(L)
        BY <1>1, <2>2, <2>5 DEF Off
      <4> QED BY <1>12, <2>2, <4>1
    <3>2. x \in TuplePositions(k) /\ k.blk[x] = f.blk[x]
      BY <1>14, <2>1, <2>3, <2>5
    <3> QED BY <2>1, <3>1, <3>2
  <2> QED BY <2>4, <2>5
<1>16. Sound(k)
  <2>1. k.sub[SIGNATURE] = Signature
    BY <1>6 DEF Sound
  <2>2. EntriesLead(k)
    BY <1>10, <1>15 DEF EntriesLead
  <2> QED BY <1>0, <1>6, <1>7, <1>13, <2>1, <2>2 DEF Sound
<1>17. SameTuples(f, k)
  BY <1>15 DEF SameTuples
<1>18. NoNewNames(f, k)
  <2>1. \A x \in 1..Len(k.blk) : x \in 1..Len(h.blk) /\ k.blk[x] = h.blk[x]
    BY <1>1, <1>5, <1>6
  <2> QED BY <1>5, <2>1 DEF NoNewNames
<1> QED BY <1>6, <1>7, <1>10, <1>12, <1>14, <1>16, <1>17, <1>18 DEF k, L

-----------------------------------------------------------------------------
(***************************************************************************)
(* What the calls do to a sound file.                                      *)
(***************************************************************************)

\* The tuple in a slot is written anew.
LEMMA Refill ==
    ASSUME NEW f \in FileType, Sound(f), NEW q \in TuplePositions(f),
           NEW b \in WordBlock, SmallWords(b), b[1] = f.blk[q][1]
    PROVE  LET g == WriteTuple(f, Off(q), b)
           IN  /\ g \in FileType
               /\ Sound(g)
               /\ CurId(g) = CurId(f)
               /\ Live(g) = Live(f)
               /\ \A id \in Live(f) : Entry(g, id) = Entry(f, id)
               /\ TuplePositions(g) = TuplePositions(f)
               /\ Len(g.blk) = Len(f.blk) /\ NoNewNames(f, g)
               /\ \A x \in TuplePositions(f) : g.blk[x][1] = f.blk[x][1]
               /\ \A x \in TuplePositions(f) : g.blk[x] = IF x = q THEN b ELSE f.blk[x]
<1> DEFINE g == WriteTuple(f, Off(q), b)
<1>0. LastArraySlot(f) <= Len(f.blk) /\ EntriesLead(f)
  BY DEF Sound
<1>1. /\ g \in FileType
      /\ g.sub = f.sub /\ CurId(g) = CurId(f) /\ ~g.lost
      /\ Len(g.blk) = Len(f.blk)
      /\ \A x \in 1..Len(f.blk) : g.blk[x] = IF x = q THEN b ELSE f.blk[x]
      /\ \A id \in Nat : id <= CurId(f) => Entry(g, id) = Entry(f, id)
      /\ Live(g) = Live(f)
      /\ OffsetsAreEntries(g)
  BY Overwrite
<1> HIDE DEF g
<1>2. \A id \in Live(f) : Entry(g, id) = Entry(f, id)
  BY <1>0, <1>1, LiveFacts
<1>3. TuplePositions(g) = TuplePositions(f) /\ LastArraySlot(g) = LastArraySlot(f)
  BY <1>1 DEF TuplePositions, LastArraySlot
<1>4. \A x \in TuplePositions(f) : g.blk[x] = IF x = q THEN b ELSE f.blk[x]
  BY <1>0, <1>1, TuplePlaces
<1>5. \A x \in TuplePositions(f) : g.blk[x][1] = f.blk[x][1]
  BY <1>4
<1>6. EntriesLead(g)
  BY <1>0, <1>1, <1>2, <1>3, <1>5 DEF EntriesLead
<1>7. Sound(g)
  BY <1>1, <1>3, <1>6 DEF Sound
<1>8. NoNewNames(f, g)
  <2>1. q \in 1..Len(f.blk)
    BY <1>0, TuplePlaces
  <2> QED BY <1>1, <2>1 DEF NoNewNames
<1> QED BY <1>1, <1>2, <1>3, <1>5, <1>7, <1>4, <1>8 DEF g

\* A slot is added at the end of the file.
LEMMA AppendSlot ==
    ASSUME NEW f \in FileType, Sound(f), NEW b \in WordBlock, SmallWords(b)
    PROVE  LET g == InsertNewTuple(f, b)
           IN  /\ g \in FileType
               /\ Sound(g)
               /\ CurId(g) = CurId(f)
               /\ Len(g.blk) = Len(f.blk) + 1
               /\ g.blk[Len(f.blk) + 1] = b
               /\ \A x \in 1..Len(f.blk) : g.blk[x] = f.blk[x]
               /\ Live(g) = Live(f)
               /\ \A id \in Live(f) : /\ Entry(g, id) = Entry(f, id)
                                      /\ Entry(g, id) # Off(Len(f.blk) + 1)
<1> DEFINE L == Len(f.blk)
           g == InsertNewTuple(f, b)
           s == Append(f.blk, b)
<1>0. LastArraySlot(f) <= L /\ OffsetsAreEntries(f) /\ EntriesLead(f) /\ ~f.lost
  BY DEF Sound
<1>1. L \in Nat /\ f.blk \in Seq(WordBlock)
  BY FileParts
<1>2. /\ s \in Seq(WordBlock) /\ Len(s) = L + 1 /\ s[L + 1] = b
      /\ \A x \in 1..L : s[x] = f.blk[x]
  BY <1>1, AppendProperties
<1>3. g = [f EXCEPT !.blk = s]
  BY DEF InsertNewTuple
<1> HIDE DEF s, g
<1>4. g \in FileType /\ g.sub = f.sub /\ ~g.lost /\ g.blk = s
  BY <1>0, <1>2, <1>3 DEF FileType
<1>5. /\ CurId(g) = CurId(f) /\ Ids(g) = Ids(f)
      /\ LastArraySlot(g) = LastArraySlot(f)
  BY <1>4 DEF CurId, Ids, LastArraySlot
<1>6. LastArraySlot(g) <= Len(g.blk)
  <2>1. LastArraySlot(f) \in Nat
    BY <1>0, TuplePlaces
  <2> QED BY <1>0, <1>1, <1>2, <1>4, <1>5, <2>1
<1>7. \A id \in Nat : id <= CurId(f) => Entry(g, id) = Entry(f, id)
  <2> SUFFICES ASSUME NEW id \in Nat, id <= CurId(f) PROVE Entry(g, id) = Entry(f, id)
    OBVIOUS
  <2>1. EntryPos(id) \in 1..L
    BY <1>0, SoundEntries
  <2> QED BY <1>2, <1>4, <2>1 DEF Entry
<1>8. Live(g) = Live(f)
  <2>1. \A id : id \in Live(g) <=> id \in Ids(g) /\ Entry(g, id) # 0
    BY <1>4, <1>6, LiveFacts
  <2>2. \A id : id \in Live(f) <=> id \in Ids(f) /\ Entry(f, id) # 0
    BY <1>0, LiveFacts
  <2>3. \A id \in Ids(f) : id \in Nat /\ id <= CurId(f)
    BY <1>0, LiveFacts
  <2> QED BY <1>5, <1>7, <2>1, <2>2, <2>3
<1>9. \A id \in Live(f) : /\ Entry(g, id) = Entry(f, id)
                          /\ Entry(f, id) \in Nat
  BY <1>0, <1>7, LiveFacts
<1>10. OffsetsAreEntries(g)
  <2> SUFFICES ASSUME NEW x \in 1..Len(g.blk), NEW w \in Words,
                      g.blk[x][w] >= FirstOffset
               PROVE  \E id \in Ids(g) : x = EntryPos(id) /\ w = EntryWord(id)
    BY DEF OffsetsAreEntries
  <2>1. x # L + 1
    <3>1. b[w] < FirstOffset /\ b[w] \in Nat
      BY WordType DEF SmallWords
    <3> QED BY <1>2, <1>4, <3>1
  <2>2. x \in 1..L
    BY <1>1, <1>2, <1>4, <2>1
  <2> QED BY <1>0, <1>2, <1>4, <1>5, <2>2 DEF OffsetsAreEntries
<1>11. ASSUME NEW id \in Live(f)
       PROVE  /\ Pos(Entry(g, id)) \in TuplePositions(g)
              /\ g.blk[Pos(Entry(g, id))][1] = id
              /\ Entry(g, id) # Off(L + 1)
  <2> DEFINE x == Pos(Entry(f, id))
  <2>1. x \in TuplePositions(f) /\ f.blk[x][1] = id
    BY <1>0, <1>11 DEF EntriesLead
  <2> HIDE DEF x
  <2>2. x \in Nat /\ x > LastArraySlot(f) /\ x \in 1..L
    BY <1>0, <2>1, TuplePlaces
  <2>3. x \in LastArraySlot(f) + 1..L + 1
    <3>1. LastArraySlot(f) \in Nat
      BY <1>0, TuplePlaces
    <3> QED BY <1>1, <2>2, <3>1
  <2>4. x \in TuplePositions(g)
    BY <1>2, <1>4, <1>5, <2>3 DEF TuplePositions
  <2>5. g.blk[x][1] = id
    BY <1>2, <1>4, <2>1, <2>2
  <2>6. Entry(f, id) # Off(L + 1)
    <3>1. Pos(Off(L + 1)) = L + 1
      BY <1>1, OffPos
    <3> QED BY <1>1, <2>2, <3>1 DEF x
  <2> QED BY <1>9, <1>11, <2>4, <2>5, <2>6 DEF x
<1>12. Sound(g)
  <2>1. g.sub[SIGNATURE] = Signature /\ CurId(g) <= MaxIds
    BY <1>4, <1>5 DEF Sound
  <2>2. EntriesLead(g)
    BY <1>8, <1>11 DEF EntriesLead
  <2> QED BY <1>4, <1>6, <1>10, <2>1, <2>2 DEF Sound
<1> QED BY <1>2, <1>4, <1>5, <1>8, <1>9, <1>11, <1>12 DEF g, L

\* The next id is given out to the slot n, which may need one more array slot.
LEMMA NameNext ==
    ASSUME NEW f \in FileType, ~f.lost, f.sub[SIGNATURE] = Signature,
           CurId(f) < MaxIds,
           LastArraySlot(f) <= Len(f.blk),
           EntryPos(CurId(f) + 1) <= Len(f.blk),
           OffsetsAreEntries(f),
           NEW n \in EntryPos(CurId(f) + 1) + 1..Len(f.blk),
           f.blk[n][1] = CurId(f),
           \A id \in Live(f) :
              /\ Pos(Entry(f, id)) \in EntryPos(CurId(f) + 1) + 1..Len(f.blk)
              /\ f.blk[Pos(Entry(f, id))][1] = id
    PROVE  LET h == [WriteIdValue(f, CurId(f), Off(n)) EXCEPT !.sub[CUR_ID] = @ + 1]
           IN  /\ h \in FileType
               /\ Sound(h)
               /\ CurId(h) = CurId(f) + 1
               /\ CurId(f) \notin Live(f)
               /\ Live(h) = Live(f) \cup {CurId(f)}
               /\ Entry(h, CurId(f)) = Off(n)
               /\ \A id \in Live(f) : Entry(h, id) = Entry(f, id)
               /\ TuplePositions(h) = EntryPos(CurId(f) + 1) + 1..Len(f.blk)
               /\ Len(h.blk) = Len(f.blk) /\ NoNewNames(f, h)
               /\ \A x \in TuplePositions(h) : h.blk[x] = f.blk[x]
<1> DEFINE c == CurId(f)
           g == WriteIdValue(f, c, Off(n))
           h == [g EXCEPT !.sub[CUR_ID] = @ + 1]
           k == EntryPos(c + 1)
<1>1. c \in Nat /\ Len(f.blk) \in Nat /\ MaxIds \in Nat
  BY FileParts, MaxIdsAssumption
<1>2. k \in Nat \ {0} /\ EntryPos(c) \in Nat \ {0} /\ EntryPos(c) <= k
  <2>1. c + 1 \in Nat /\ c <= c + 1
    BY <1>1
  <2> QED BY <1>1, <2>1, EntryPlace, EntryOrder
<1>3. n \in Nat /\ n > 0 /\ Off(n) \in Nat /\ Off(n) >= FirstOffset /\ Pos(Off(n)) = n
  <2>1. n \in Nat /\ n > 0
    BY <1>1, <1>2
  <2> QED BY <2>1, OffPos
<1>4. /\ g \in FileType
      /\ g.sub = f.sub /\ CurId(g) = c /\ ~g.lost
      /\ Len(g.blk) = Len(f.blk)
      /\ \A x \in 1..Len(f.blk) : \A w \in Words :
           g.blk[x][w] = IF x = EntryPos(c) /\ w = EntryWord(c)
                         THEN Off(n) ELSE f.blk[x][w]
      /\ \A x \in TuplePositions(f) : g.blk[x] = f.blk[x]
      /\ \A i \in Nat : i <= c =>
           Entry(g, i) = IF i = c THEN Off(n) ELSE Entry(f, i)
  <2>1. c \in Nat /\ c <= CurId(f) /\ Off(n) \in Nat
    BY <1>1, <1>3
  <2> QED BY <2>1, WriteEntry
<1> HIDE DEF g
<1>5. /\ h \in FileType /\ h.blk = g.blk /\ ~h.lost
      /\ CurId(h) = c + 1 /\ h.sub[SIGNATURE] = Signature
  <2>1. g.sub \in [0..5 -> Nat] /\ CUR_ID \in 0..5 /\ g.sub[CUR_ID] = c
    BY <1>4, FileParts DEF CUR_ID, CurId
  <2>2. h = [g EXCEPT !.sub[CUR_ID] = c + 1]
    BY <2>1
  <2>3. h \in FileType
    <3>1. c + 1 \in Nat
      BY <1>1
    <3>2. [g EXCEPT !.sub[CUR_ID] = c + 1] \in FileType
      BY <1>4, <3>1, SetCurIdType
    <3> QED BY <2>2, <3>2
  <2>4. h = [g EXCEPT !.sub = [g.sub EXCEPT ![CUR_ID] = c + 1]]
    BY <2>2
  <2>5. h.sub = [g.sub EXCEPT ![CUR_ID] = c + 1] /\ h.blk = g.blk /\ h.lost = g.lost
    BY <1>4, <2>4 DEF FileType
  <2>6. h.sub[CUR_ID] = c + 1 /\ h.sub[SIGNATURE] = f.sub[SIGNATURE]
    BY <1>4, <2>1, <2>5 DEF CUR_ID, SIGNATURE
  <2> QED BY <1>4, <2>3, <2>5, <2>6 DEF CurId
<1> HIDE DEF h
<1>6. /\ Ids(h) = 0..c /\ LastArraySlot(h) = k /\ LastArraySlot(f) = EntryPos(c)
      /\ Len(h.blk) = Len(f.blk)
      /\ LastArraySlot(h) <= Len(h.blk)
      /\ TuplePositions(h) = k + 1..Len(f.blk)
  BY <1>1, <1>4, <1>5 DEF Ids, LastArraySlot, TuplePositions
<1>7. \A x \in TuplePositions(h) : h.blk[x] = f.blk[x]
  <2>1. \A x \in TuplePositions(h) : x \in TuplePositions(f)
    BY <1>1, <1>2, <1>6 DEF TuplePositions
  <2> QED BY <1>4, <1>5, <2>1
<1>8. \A i \in Nat : i <= c => Entry(h, i) = IF i = c THEN Off(n) ELSE Entry(f, i)
  BY <1>4, <1>5 DEF Entry
<1>9. \A id \in Live(h) : id = c \/ id \in Live(f)
  <2> SUFFICES ASSUME NEW id \in Live(h), id # c PROVE id \in Live(f)
    OBVIOUS
  <2>1. id \in 0..c /\ Entry(h, id) # 0
    BY <1>5, <1>6, LiveFacts
  <2>2. id \in Nat /\ id <= c /\ id \in Ids(f)
    BY <1>1, <2>1 DEF Ids
  <2> QED BY <1>8, <2>1, <2>2, LiveFacts
<1>10. \A id \in Live(f) : /\ id \in Nat /\ id < c /\ Entry(h, id) = Entry(f, id)
                           /\ id \in Live(h)
  <2> SUFFICES ASSUME NEW id \in Live(f)
               PROVE  /\ id \in Nat /\ id < c /\ Entry(h, id) = Entry(f, id)
                      /\ id \in Live(h)
    OBVIOUS
  <2>1. id \in Nat /\ id < c /\ Entry(f, id) # 0
    BY LiveFacts
  <2>2. Entry(h, id) = Entry(f, id) /\ id \in Ids(h)
    BY <1>1, <1>6, <1>8, <2>1
  <2> QED BY <1>5, <1>6, <2>1, <2>2, LiveFacts
<1>11. c \in Live(h) /\ Entry(h, c) = Off(n)
  <2>1. c \in Ids(h) /\ c <= c
    BY <1>1, <1>6
  <2>2. Entry(h, c) = Off(n) /\ Off(n) # 0
    BY <1>1, <1>3, <1>8, <2>1
  <2> QED BY <1>5, <1>6, <2>1, <2>2, LiveFacts
<1>12. EntriesLead(h)
  <2> SUFFICES ASSUME NEW id \in Live(h)
               PROVE  /\ Pos(Entry(h, id)) \in TuplePositions(h)
                      /\ h.blk[Pos(Entry(h, id))][1] = id
    BY DEF EntriesLead
  <2>1. CASE id = c
    BY <1>3, <1>6, <1>7, <1>11, <2>1
  <2>2. CASE id \in Live(f)
    <3>1. Pos(Entry(h, id)) \in TuplePositions(h) /\ f.blk[Pos(Entry(h, id))][1] = id
      BY <1>6, <1>10, <2>2
    <3> QED BY <1>7, <3>1
  <2> QED BY <1>9, <2>1, <2>2
<1>13. OffsetsAreEntries(h)
  <2> SUFFICES ASSUME NEW x \in 1..Len(h.blk), NEW w \in Words,
                      h.blk[x][w] >= FirstOffset
               PROVE  \E id \in Ids(h) : x = EntryPos(id) /\ w = EntryWord(id)
    BY DEF OffsetsAreEntries
  <2>1. CASE x = EntryPos(c) /\ w = EntryWord(c)
    BY <1>1, <1>6, <2>1
  <2>2. CASE ~(x = EntryPos(c) /\ w = EntryWord(c))
    <3>1. x \in 1..Len(f.blk) /\ f.blk[x][w] >= FirstOffset
      BY <1>4, <1>5, <1>6, <2>2
    <3>2. \E id \in Ids(f) : x = EntryPos(id) /\ w = EntryWord(id)
      BY <3>1 DEF OffsetsAreEntries
    <3>3. \A id \in Ids(f) : id \in Ids(h)
      <4>1. \A id \in Ids(f) : id \in Nat /\ id <= c
        BY LiveFacts
      <4> QED BY <1>1, <1>6, <4>1
    <3> QED BY <3>2, <3>3
  <2> QED BY <2>1, <2>2
<1>14. Sound(h)
  BY <1>1, <1>5, <1>6, <1>12, <1>13 DEF Sound
<1>15. c \notin Live(f) /\ Live(h) = Live(f) \cup {c}
  BY <1>1, <1>9, <1>10, <1>11
<1>16. \A id \in Live(f) : Entry(h, id) = Entry(f, id)
  BY <1>10
<1>17. NoNewNames(f, h)
  <2>1. 1 \in Words
    BY DEF Words
  <2>2. \A x \in 1..Len(f.blk) : h.blk[x][1] = Off(n) \/ h.blk[x][1] = f.blk[x][1]
    BY <1>4, <1>5, <2>1
  <2> QED BY <1>3, <1>6, <2>2 DEF NoNewNames
<1> QED BY <1>5, <1>6, <1>7, <1>11, <1>14, <1>15, <1>16, <1>17 DEF g, h, c, k

\* A tuple is reserved.  The array may grow over a slot that is not its own.
LEMMA Reserve ==
    ASSUME OnlyIntegers, NEW f \in FileType, Sound(f), CurId(f) < MaxIds,
           GrowthDue(CurId(f)) => TuplePositions(f) # {},
           NamesCovered(f, {}),
           NEW parent \in Parents
    PROVE  LET h == ReserveTuple(f, parent)
               s == NewSlot(f, parent)
           IN  /\ h \in FileType
               /\ Sound(h)
               /\ CurId(h) = CurId(f) + 1
               /\ CurId(f) \notin Live(f)
               /\ Live(h) = Live(f) \cup {CurId(f)}
               /\ Entry(h, CurId(f)) = End(f)
               /\ SameTuples(f, h)
               /\ Pos(End(f)) \in TuplePositions(h)
               /\ h.blk[Pos(End(f))] = s
               /\ SmallWords(s)
               /\ NamesCovered(h, {})
<1> DEFINE c == CurId(f)
           L == Len(f.blk)
           k == EntryPos(c)
           s == NewSlot(f, parent)
           g == InsertNewTuple(f, s)
           room == IF GrowthDue(c) THEN GrowIdArray(g) ELSE g
           h == [WriteIdValue(room, c, Off(L + 1)) EXCEPT !.sub[CUR_ID] = @ + 1]
<1>1. /\ c \in Nat /\ L \in Nat /\ MaxIds \in Nat /\ MaxIds < FirstOffset
      /\ parent \in Nat /\ parent < FirstOffset
      /\ k \in Nat \ {0} /\ k = LastArraySlot(f) /\ k <= L
  <2>1. c \in Nat /\ L \in Nat
    BY FileParts
  <2>2. parent \in 0..FirstOffset - 1
    BY ParentsAssumption
  <2>3. k \in Nat \ {0}
    BY <2>1, EntryPlace
  <2>4. k = LastArraySlot(f) /\ k <= L
    BY DEF LastArraySlot, Sound
  <2> QED BY <2>1, <2>2, <2>3, <2>4, MaxIdsAssumption
<1>2. s \in WordBlock /\ s[1] = c /\ SmallWords(s)
  <2>1. s \in WordBlock
    BY <1>1, NewSlotType
  <2>2. 1 \in Words
    BY DEF Words
  <2>3. s[1] = c
    BY <2>2 DEF NewSlot
  <2>4. SmallWords(s)
    BY <1>1 DEF NewSlot, SmallWords
  <2> QED BY <2>1, <2>3, <2>4
<1> HIDE DEF s
<1>3. /\ g \in FileType
      /\ Sound(g)
      /\ CurId(g) = c
      /\ Len(g.blk) = L + 1
      /\ g.blk[L + 1] = s
      /\ \A x \in 1..L : g.blk[x] = f.blk[x]
      /\ Live(g) = Live(f)
      /\ \A id \in Live(g) : Entry(g, id) = Entry(f, id) /\ Entry(g, id) # Off(L + 1)
  BY <1>2, AppendSlot
<1> HIDE DEF g
<1>4. \A id \in Live(f) : g.blk[Pos(Entry(g, id))] = f.blk[Pos(Entry(f, id))]
  <2> SUFFICES ASSUME NEW id \in Live(f)
               PROVE  g.blk[Pos(Entry(g, id))] = f.blk[Pos(Entry(f, id))]
    OBVIOUS
  <2>1. Pos(Entry(f, id)) \in TuplePositions(f) /\ LastArraySlot(f) <= Len(f.blk)
    BY DEF Sound, EntriesLead
  <2>2. Pos(Entry(f, id)) \in 1..L
    BY <2>1, TuplePlaces
  <2> QED BY <1>3, <2>2
<1>5. LastArraySlot(g) = k /\ TuplePositions(g) = k + 1..L + 1
  BY <1>1, <1>3 DEF LastArraySlot, TuplePositions
\* How far the array has reached.
<1>11. PICK m \in k..L : NamesWithin(f, m) /\ \A id \in Live(f) : Pos(Entry(f, id)) > m
  BY <1>1 DEF NamesCovered, SlotsInUse
<1>12. m \in Nat /\ m > 0 /\ m >= k /\ m <= L
  BY <1>1
<1>13. NamesWithin(g, m)
  <2> SUFFICES ASSUME NEW x \in 1..Len(g.blk), g.blk[x][1] < FirstOffset
               PROVE  EntryPos(g.blk[x][1]) <= m
    BY DEF NamesWithin
  <2>1. CASE x = L + 1
    BY <1>2, <1>3, <1>12, <2>1
  <2>2. CASE x # L + 1
    <3>1. x \in 1..L
      BY <1>1, <1>3, <2>2
    <3> QED BY <1>3, <1>11, <3>1 DEF NamesWithin
  <2> QED BY <2>1, <2>2
<1>6. /\ room \in FileType /\ ~room.lost /\ room.sub[SIGNATURE] = Signature
      /\ CurId(room) = c
      /\ NamesWithin(room, m) /\ L + 1 <= Len(room.blk)
      /\ LastArraySlot(room) <= Len(room.blk)
      /\ EntryPos(c + 1) <= Len(room.blk)
      /\ OffsetsAreEntries(room)
      /\ L + 1 \in EntryPos(c + 1) + 1..Len(room.blk)
      /\ room.blk[L + 1] = s
      /\ Live(room) = Live(f)
      /\ \A id \in Live(room) :
            /\ Pos(Entry(room, id)) \in EntryPos(c + 1) + 1..Len(room.blk)
            /\ room.blk[Pos(Entry(room, id))] = g.blk[Pos(Entry(g, id))]
            /\ room.blk[Pos(Entry(room, id))][1] = id
            /\ Pos(Entry(room, id)) > m
  <2>1. CASE ~GrowthDue(c)
    <3>1. room = g /\ EntryPos(c + 1) = k
      BY <1>1, <2>1, NextPlace
    <3>2. L + 1 \in k + 1..L + 1 /\ k <= L + 1
      BY <1>1
    <3>3. /\ ~g.lost /\ g.sub[SIGNATURE] = Signature /\ OffsetsAreEntries(g)
          /\ EntriesLead(g) /\ LastArraySlot(g) <= Len(g.blk)
      BY <1>3 DEF Sound
    <3>4. L + 1 <= Len(g.blk) /\ \A id \in Live(g) : Pos(Entry(g, id)) > m
      BY <1>1, <1>3, <1>11
    <3> QED BY <1>3, <1>5, <1>13, <3>1, <3>2, <3>3, <3>4 DEF EntriesLead
  <2>2. CASE GrowthDue(c)
    <3> DEFINE e == InsertNewTuple(g, ZeroSlot)
    <3>1. /\ EntryPos(c + 1) = k + 1
          /\ RealIdArraySize(c) \div SlotWords = k
      BY <1>1, <2>2, NextPlace
    <3>2. k < L
      <4>1. PICK x \in TuplePositions(f) : TRUE
        BY <2>2
      <4>2. x > LastArraySlot(f) /\ x \in 1..L
        BY TuplePlaces DEF Sound
      <4> QED BY <1>1, <4>2
    <3>3. /\ e \in FileType
          /\ Sound(e)
          /\ CurId(e) = c
          /\ Len(e.blk) = L + 2
          /\ \A x \in 1..L + 1 : e.blk[x] = g.blk[x]
          /\ e.blk[L + 2] = ZeroSlot
          /\ Live(e) = Live(g)
          /\ \A id \in Live(e) : Entry(e, id) = Entry(g, id) /\ Entry(e, id) # Off(L + 2)
      <4>1. ZeroSlot \in WordBlock /\ SmallWords(ZeroSlot)
        BY ZeroSlotType DEF ZeroSlot, SmallWords
      <4>2. L + 1 + 1 = L + 2
        BY <1>1
      <4> QED BY <1>3, <4>1, <4>2, AppendSlot
    <3> HIDE DEF e
    <3>4. TuplePositions(e) = k + 1..L + 2 /\ LastArraySlot(e) = k
      BY <1>1, <3>3 DEF LastArraySlot, TuplePositions
    <3>5. room = SwapTupleTo(e, Off(k + 1), Off(L + 2))
      <4>1. End(g) = Off(L + 2)
        BY <1>1, <1>3 DEF End
      <4> QED BY <1>3, <2>2, <3>1, <4>1 DEF GrowIdArray, e
    <3>6. k + 1 \in TuplePositions(e) /\ L + 2 \in TuplePositions(e) /\ k + 1 # L + 2
      BY <1>1, <3>2, <3>4
    <3>14. NamesWithin(e, m)
      <4>1. ZeroSlot[1] = 0
        BY DEF ZeroSlot, Words
      <4>2. \A x \in 1..Len(e.blk) : x = L + 2 \/ x \in 1..L + 1
        BY <1>1, <3>3
      <4>3. NoNewNames(g, e)
        BY <1>3, <3>3, <4>1, <4>2 DEF NoNewNames
      <4> QED BY <1>3, <1>12, <1>13, <3>3, <4>3, NamesKept
    <3>15. \A id \in Live(e) : Pos(Entry(e, id)) > m
      BY <1>3, <1>11, <3>3
    <3>16. NamesCovered(e, {})
      <4>1. m \in LastArraySlot(e)..Len(e.blk)
        BY <1>1, <1>12, <3>3, <3>4
      <4> QED BY <3>14, <3>15, <4>1 DEF NamesCovered, SlotsInUse
    <3>17. HasEntry(e, e.blk[k + 1][1])
      BY <3>3, <3>6, <3>16, NamesReadable
    <3>7. Moved(e, room, k + 1, L + 2)
      BY <3>3, <3>5, <3>6, <3>17, MoveTuple
    <3> HIDE DEF room
    <3>8. /\ room \in FileType
          /\ room.sub = e.sub /\ CurId(room) = c /\ ~room.lost
          /\ Len(room.blk) = L + 2
          /\ \A x \in TuplePositions(e) :
               room.blk[x] = IF x = L + 2 THEN e.blk[k + 1] ELSE e.blk[x]
          /\ Live(room) = Live(e)
          /\ \A id \in Live(e) : Entry(room, id) = IF Entry(e, id) = Off(k + 1)
                                                   THEN Off(L + 2) ELSE Entry(e, id)
          /\ OffsetsAreEntries(room)
          /\ NoNewNames(e, room)
      BY <3>3, <3>7 DEF Moved
    <3>18. NamesWithin(room, m)
      BY <1>12, <3>3, <3>8, <3>14, NamesKept
    <3>9. /\ LastArraySlot(room) <= Len(room.blk)
          /\ L + 1 <= Len(room.blk)
          /\ k + 1 <= Len(room.blk)
          /\ L + 1 \in k + 1 + 1..Len(room.blk)
      BY <1>1, <3>2, <3>8 DEF LastArraySlot
    <3>10. room.blk[L + 1] = s
      <4>1. L + 1 \in TuplePositions(e) /\ L + 1 # L + 2 /\ L + 1 \in 1..L + 1
        BY <1>1, <3>2, <3>4
      <4> QED BY <1>3, <3>3, <3>8, <4>1
    <3>11. ASSUME NEW id \in Live(room)
           PROVE  /\ Pos(Entry(room, id)) \in k + 1 + 1..Len(room.blk)
                  /\ room.blk[Pos(Entry(room, id))] = g.blk[Pos(Entry(g, id))]
                  /\ room.blk[Pos(Entry(room, id))][1] = id
                  /\ Pos(Entry(room, id)) > m
      <4> DEFINE x == Pos(Entry(e, id))
      <4>1. x \in TuplePositions(e) /\ e.blk[x][1] = id
        BY <3>3, <3>8, <3>11 DEF Sound, EntriesLead
      <4>2. Entry(e, id) \in Nat /\ x = Pos(Entry(g, id))
        BY <3>3, <3>8, <3>11, LiveFacts DEF Sound
      <4> HIDE DEF x
      <4>3. x \in Nat /\ x > k /\ x \in 1..L + 2 /\ x # L + 2
        <5>1. x \in Nat /\ x > k /\ x \in 1..L + 2
          BY <3>3, <3>4, <4>1, TuplePlaces DEF Sound
        <5>2. Entry(e, id) # Off(L + 2)
          BY <3>3, <3>8, <3>11
        <5>3. L + 2 \in Nat
          BY <1>1
        <5> QED BY <4>2, <5>1, <5>2, <5>3, PosInjective DEF x
      <4>4. e.blk[x] = g.blk[x]
        <5>1. x \in 1..L + 1
          BY <1>1, <4>3
        <5> QED BY <3>3, <5>1
      <4>5. CASE x = k + 1
        <5>1. Entry(e, id) = Off(k + 1)
          BY <1>1, <4>2, <4>5, PosInjective DEF x
        <5>2. Entry(room, id) = Off(L + 2) /\ Pos(Off(L + 2)) = L + 2
          BY <1>1, <3>8, <3>11, <5>1, OffPos
        <5>3. room.blk[L + 2] = e.blk[x]
          BY <3>6, <3>8, <4>5
        <5>4. L + 2 \in k + 1 + 1..L + 2 /\ L + 2 > m
          BY <1>1, <1>12, <3>2
        <5> QED BY <3>8, <4>1, <4>2, <4>4, <5>2, <5>3, <5>4
      <4>6. CASE x # k + 1
        <5>1. Entry(e, id) # Off(k + 1)
          BY <1>1, <4>2, <4>6, PosInjective DEF x
        <5>2. Entry(room, id) = Entry(e, id)
          BY <3>8, <3>11, <5>1
        <5>3. room.blk[x] = e.blk[x]
          BY <3>8, <4>1, <4>3
        <5>4. x \in k + 1 + 1..L + 2
          BY <1>1, <4>3, <4>6
        <5>5. Pos(Entry(room, id)) = x /\ x > m
          BY <3>8, <3>11, <3>15, <5>2 DEF x
        <5> QED BY <3>8, <4>1, <4>2, <4>4, <5>3, <5>4, <5>5
      <4> QED BY <4>5, <4>6
    <3>12. room.sub[SIGNATURE] = Signature
      BY <3>3, <3>8 DEF Sound
    <3>13. Live(room) = Live(f)
      BY <1>3, <3>3, <3>8
    <3> QED BY <3>1, <3>8, <3>9, <3>10, <3>11, <3>12, <3>13, <3>18
  <2> QED BY <2>1, <2>2
<1>7. h = ReserveTuple(f, parent)
  BY <1>3 DEF ReserveTuple, AppendToIdArray, End, room, h, g, s
<1> HIDE DEF room
<1>8. /\ h \in FileType
      /\ Sound(h)
      /\ CurId(h) = c + 1
      /\ c \notin Live(room) /\ Live(h) = Live(room) \cup {c}
      /\ Entry(h, c) = Off(L + 1)
      /\ \A id \in Live(room) : Entry(h, id) = Entry(room, id)
      /\ TuplePositions(h) = EntryPos(c + 1) + 1..Len(room.blk)
      /\ Len(h.blk) = Len(room.blk) /\ NoNewNames(room, h)
      /\ \A x \in TuplePositions(h) : h.blk[x] = room.blk[x]
  <2> DEFINE n == L + 1
             d == CurId(room)
             r == [WriteIdValue(room, d, Off(n)) EXCEPT !.sub[CUR_ID] = @ + 1]
  <2>1. d = c /\ r = h /\ CurId(room) < MaxIds
    BY <1>6
  <2>2. /\ n \in EntryPos(d + 1) + 1..Len(room.blk)
        /\ room.blk[n][1] = CurId(room)
        /\ EntryPos(CurId(room) + 1) <= Len(room.blk)
        /\ \A id \in Live(room) :
              /\ Pos(Entry(room, id)) \in EntryPos(CurId(room) + 1) + 1..Len(room.blk)
              /\ room.blk[Pos(Entry(room, id))][1] = id
    BY <1>2, <1>6
  <2>3. /\ room \in FileType /\ ~room.lost /\ room.sub[SIGNATURE] = Signature
        /\ LastArraySlot(room) <= Len(room.blk)
        /\ OffsetsAreEntries(room)
    BY <1>6
  <2> HIDE DEF n, r, h, c
  <2>4. /\ r \in FileType
        /\ Sound(r)
        /\ CurId(r) = d + 1
        /\ d \notin Live(room) /\ Live(r) = Live(room) \cup {d}
        /\ Entry(r, d) = Off(n)
        /\ \A id \in Live(room) : Entry(r, id) = Entry(room, id)
        /\ TuplePositions(r) = EntryPos(d + 1) + 1..Len(room.blk)
        /\ Len(r.blk) = Len(room.blk) /\ NoNewNames(room, r)
        /\ \A x \in TuplePositions(r) : r.blk[x] = room.blk[x]
    BY <2>1, <2>2, <2>3, NameNext DEF r
  <2> QED BY <2>1, <2>4 DEF n
<1> HIDE DEF h
<1>9. Pos(End(f)) = L + 1 /\ End(f) = Off(L + 1)
  BY <1>1, OffPos DEF End
<1>10. SameTuples(f, h)
  <2> SUFFICES ASSUME NEW id \in Live(f)
               PROVE  h.blk[Pos(Entry(h, id))] = f.blk[Pos(Entry(f, id))]
    BY DEF SameTuples
  <2>1. Entry(h, id) = Entry(room, id) /\ Pos(Entry(room, id)) \in TuplePositions(h)
    BY <1>6, <1>8
  <2> QED BY <1>6, <1>8, <1>4, <2>1
<1>14. NamesCovered(h, {})
  <2> DEFINE a == EntryPos(c + 1)
             b == IF m >= a THEN m ELSE a
  <2>1. a \in Nat \ {0} /\ LastArraySlot(h) = a
    <3>1. c + 1 \in Nat
      BY <1>1
    <3> QED BY <1>8, <3>1, EntryPlace DEF LastArraySlot
  <2>2. b \in Nat /\ b >= m /\ b >= a /\ (b = m \/ b = a)
    BY <1>12, <2>1
  <2>3. b \in LastArraySlot(h)..Len(h.blk)
    <3>1. a <= Len(h.blk) /\ L + 1 <= Len(h.blk) /\ Len(h.blk) \in Nat
      BY <1>6, <1>8, FileParts
    <3> QED BY <1>1, <1>12, <2>1, <2>2, <3>1
  <2>4. NamesWithin(h, m)
    BY <1>6, <1>8, <1>12, NamesKept
  <2> HIDE DEF a, b
  <2>5. NamesWithin(h, b)
    <3> SUFFICES ASSUME NEW x \in 1..Len(h.blk), h.blk[x][1] < FirstOffset
                 PROVE  EntryPos(h.blk[x][1]) <= b
      BY DEF NamesWithin
    <3>1. h.blk[x][1] \in Nat
      BY <1>8, FileParts, WordType DEF Words
    <3>2. EntryPos(h.blk[x][1]) \in Nat /\ EntryPos(h.blk[x][1]) <= m
      BY <2>4, <3>1, EntryPlace DEF NamesWithin
    <3> QED BY <1>12, <2>2, <3>2
  <2>6. ASSUME NEW id \in Live(h) PROVE Pos(Entry(h, id)) > b
    <3>1. Pos(Entry(h, id)) \in TuplePositions(h)
      BY <1>8 DEF Sound, EntriesLead
    <3>2. Pos(Entry(h, id)) \in Nat /\ Pos(Entry(h, id)) > a
      BY <1>8, <2>1, <3>1, TuplePlaces DEF Sound
    <3>3. Pos(Entry(h, id)) > m
      <4>1. CASE id = c
        <5>1. Pos(Off(L + 1)) = L + 1
          BY <1>1, OffPos
        <5> QED BY <1>1, <1>8, <1>12, <4>1, <5>1
      <4>2. CASE id \in Live(room)
        BY <1>6, <1>8, <4>2
      <4> QED BY <1>8, <2>6, <4>1, <4>2
    <3> QED BY <2>2, <3>2, <3>3
  <2> QED BY <2>3, <2>5, <2>6 DEF NamesCovered, SlotsInUse
<1> QED BY <1>2, <1>6, <1>7, <1>8, <1>9, <1>10, <1>14 DEF s, c, h

\* A tuple's entry is cleared, and its id given back when it is the last one.
LEMMA Forget ==
    ASSUME NEW f \in FileType, Sound(f), NEW id \in Live(f)
    PROVE  LET h == RemoveFromIdArray(f, id)
           IN  /\ h \in FileType
               /\ Sound(h)
               /\ CurId(h) = IF CurId(f) - 1 = id THEN id ELSE CurId(f)
               /\ Len(h.blk) = Len(f.blk)
               /\ Live(h) = Live(f) \ {id}
               /\ \A i \in Live(h) : Entry(h, i) = Entry(f, i)
               /\ SameTuples(f, h)
               /\ \A i \in Ids(h) : HasEntry(h, i) /\ (i \notin Live(h) => Entry(h, i) = 0)
               /\ LastArraySlot(h) <= LastArraySlot(f)
               /\ NoNewNames(f, h)
               /\ \A x \in TuplePositions(f) : x \in TuplePositions(h) /\ h.blk[x] = f.blk[x]
<1> DEFINE c == CurId(f)
           d == IF c - 1 = id THEN id ELSE c
           g == IF c - 1 = id THEN [f EXCEPT !.sub[CUR_ID] = @ - 1] ELSE f
           h == WriteIdValue(g, id, 0)
<1>0. /\ LastArraySlot(f) <= Len(f.blk) /\ OffsetsAreEntries(f) /\ EntriesLead(f) /\ ~f.lost
      /\ f.sub[SIGNATURE] = Signature /\ c <= MaxIds
  BY DEF Sound
<1>1. /\ c \in Nat /\ Len(f.blk) \in Nat /\ MaxIds \in Nat
      /\ id \in Nat /\ id < c /\ d \in Nat /\ id <= d /\ d <= c
      /\ c - 1 = id => d = c - 1
  <2>1. c \in Nat /\ Len(f.blk) \in Nat
    BY FileParts
  <2>2. id \in Nat /\ id < c
    BY <1>0, LiveFacts
  <2> QED BY <2>1, <2>2, MaxIdsAssumption
<1>2. h = RemoveFromIdArray(f, id)
  BY DEF RemoveFromIdArray, NullValue
<1>3. /\ g \in FileType /\ g.blk = f.blk /\ ~g.lost
      /\ CurId(g) = d /\ g.sub[SIGNATURE] = Signature
  <2>1. CASE c - 1 = id
    <3>1. f.sub \in [0..5 -> Nat] /\ CUR_ID \in 0..5 /\ f.sub[CUR_ID] = c
      BY FileParts DEF CUR_ID, CurId
    <3>2. g = [f EXCEPT !.sub[CUR_ID] = id]
      BY <2>1, <3>1
    <3>3. [f EXCEPT !.sub[CUR_ID] = id] \in FileType
      BY <1>1, SetCurIdType
    <3>4. g = [f EXCEPT !.sub = [f.sub EXCEPT ![CUR_ID] = id]]
      BY <3>2
    <3>5. g.sub = [f.sub EXCEPT ![CUR_ID] = id] /\ g.blk = f.blk /\ g.lost = f.lost
      BY <3>4 DEF FileType
    <3>6. g.sub[CUR_ID] = id /\ g.sub[SIGNATURE] = f.sub[SIGNATURE]
      BY <3>1, <3>5 DEF CUR_ID, SIGNATURE
    <3> QED BY <1>0, <2>1, <3>2, <3>3, <3>5, <3>6 DEF CurId
  <2>2. CASE c - 1 # id
    BY <1>0, <2>2
  <2> QED BY <2>1, <2>2
<1> HIDE DEF g, h
<1>4. /\ LastArraySlot(g) \in Nat /\ LastArraySlot(f) \in Nat
      /\ LastArraySlot(g) <= LastArraySlot(f)
      /\ LastArraySlot(g) <= Len(g.blk)
  <2>1. EntryPos(d) <= EntryPos(c) /\ EntryPos(d) \in Nat /\ EntryPos(c) \in Nat
    BY <1>1, EntryOrder, EntryPlace
  <2>2. LastArraySlot(g) = EntryPos(d) /\ LastArraySlot(f) = EntryPos(c)
    BY <1>3 DEF LastArraySlot
  <2> QED BY <1>0, <1>1, <1>3, <2>1, <2>2
<1>5. /\ h \in FileType
      /\ h.sub = g.sub /\ CurId(h) = CurId(g) /\ ~h.lost
      /\ Len(h.blk) = Len(g.blk)
      /\ \A x \in 1..Len(g.blk) : \A w \in Words :
           h.blk[x][w] = IF x = EntryPos(id) /\ w = EntryWord(id)
                         THEN 0 ELSE g.blk[x][w]
      /\ \A x \in TuplePositions(g) : h.blk[x] = g.blk[x]
      /\ \A i \in Nat : i <= CurId(g) =>
           Entry(h, i) = IF i = id THEN 0 ELSE Entry(g, i)
  BY <1>1, <1>3, <1>4, WriteEntry DEF h
<1>6. /\ CurId(h) = d /\ Ids(h) = 0..d - 1
      /\ LastArraySlot(h) = LastArraySlot(g) /\ Len(h.blk) = Len(f.blk)
      /\ LastArraySlot(h) <= Len(h.blk)
      /\ TuplePositions(h) = TuplePositions(g)
  BY <1>3, <1>4, <1>5 DEF Ids, LastArraySlot, TuplePositions
<1>7. \A x \in TuplePositions(f) : x \in TuplePositions(h) /\ h.blk[x] = f.blk[x]
  <2> SUFFICES ASSUME NEW x \in TuplePositions(f)
               PROVE  x \in TuplePositions(h) /\ h.blk[x] = f.blk[x]
    OBVIOUS
  <2>1. x \in TuplePositions(g)
    BY <1>1, <1>3, <1>4 DEF TuplePositions
  <2> QED BY <1>3, <1>5, <1>6, <2>1
<1>8. \A i \in Nat : i <= d => Entry(h, i) = IF i = id THEN 0 ELSE Entry(f, i)
  <2>1. \A i \in Nat : Entry(g, i) = Entry(f, i)
    BY <1>3 DEF Entry
  <2> QED BY <1>3, <1>5, <2>1
<1>9. Live(h) = Live(f) \ {id}
  <2>1. \A i : i \in Live(h) <=> i \in Ids(h) /\ Entry(h, i) # 0
    BY <1>5, <1>6, LiveFacts
  <2>2. \A i : i \in Live(f) <=> i \in Ids(f) /\ Entry(f, i) # 0
    BY <1>0, LiveFacts
  <2>3. Ids(f) = 0..c - 1
    BY DEF Ids
  <2>4. ASSUME NEW i \in Live(h) PROVE i \in Live(f) \ {id}
    <3>1. i \in Nat /\ i <= d - 1 /\ Entry(h, i) # 0
      BY <1>1, <1>6, <2>1, <2>4
    <3>2. i # id /\ Entry(f, i) # 0 /\ i \in 0..c - 1
      BY <1>1, <1>8, <3>1
    <3> QED BY <2>2, <2>3, <3>2
  <2>5. ASSUME NEW i \in Live(f), i # id PROVE i \in Live(h)
    <3>1. i \in Nat /\ i <= c - 1 /\ Entry(f, i) # 0
      BY <1>1, <2>2, <2>3, <2>5
    <3>2. i <= d - 1
      BY <1>1, <2>5, <3>1
    <3>3. Entry(h, i) # 0 /\ i \in 0..d - 1
      BY <1>1, <1>8, <2>5, <3>1, <3>2
    <3> QED BY <1>6, <2>1, <3>3
  <2> QED BY <2>4, <2>5
<1>10. \A i \in Ids(h) : /\ i \in Nat /\ i <= d /\ HasEntry(h, i)
                         /\ i \notin Live(h) => Entry(h, i) = 0
  <2> SUFFICES ASSUME NEW i \in Ids(h)
               PROVE i \in Nat /\ i <= d /\ HasEntry(h, i) /\ (i \notin Live(h) => Entry(h, i) = 0)
    OBVIOUS
  <2>1. i \in Nat /\ i <= d
    BY <1>1, <1>6
  <2>2. HasEntry(h, i)
    BY <1>5, <1>6, <2>1, SoundEntries
  <2> QED BY <1>5, <1>6, <2>1, <2>2, LiveFacts
<1>11. \A i \in Live(h) : Entry(h, i) = Entry(f, i)
  <2> SUFFICES ASSUME NEW i \in Live(h) PROVE Entry(h, i) = Entry(f, i)
    OBVIOUS
  <2>1. i \in Ids(h) /\ i # id
    BY <1>5, <1>6, <1>9, LiveFacts
  <2> QED BY <1>8, <1>10, <2>1
<1>12. EntriesLead(h)
  <2> SUFFICES ASSUME NEW i \in Live(h)
               PROVE  /\ Pos(Entry(h, i)) \in TuplePositions(h)
                      /\ h.blk[Pos(Entry(h, i))][1] = i
    BY DEF EntriesLead
  <2>1. /\ Pos(Entry(f, i)) \in TuplePositions(f)
        /\ f.blk[Pos(Entry(f, i))][1] = i
    BY <1>0, <1>9 DEF EntriesLead
  <2> QED BY <1>7, <1>11, <2>1
<1>13. OffsetsAreEntries(h)
  <2> SUFFICES ASSUME NEW x \in 1..Len(h.blk), NEW w \in Words,
                      h.blk[x][w] >= FirstOffset
               PROVE  \E i \in Ids(h) : x = EntryPos(i) /\ w = EntryWord(i)
    BY DEF OffsetsAreEntries
  <2>1. ~(x = EntryPos(id) /\ w = EntryWord(id))
    BY <1>3, <1>5, <1>6
  <2>2. x \in 1..Len(f.blk) /\ f.blk[x][w] >= FirstOffset
    BY <1>3, <1>5, <1>6, <2>1
  <2>3. PICK i \in Ids(f) : x = EntryPos(i) /\ w = EntryWord(i)
    BY <1>0, <2>2 DEF OffsetsAreEntries
  <2>4. i # id /\ i \in Nat /\ i < c
    BY <1>0, <2>1, <2>3, LiveFacts
  <2>5. i \in 0..d - 1
    BY <1>1, <2>4
  <2> QED BY <1>6, <2>3, <2>5
<1>14. Sound(h)
  BY <1>0, <1>1, <1>3, <1>5, <1>6, <1>12, <1>13 DEF Sound
<1>15. SameTuples(f, h)
  <2> SUFFICES ASSUME NEW i \in Live(h), i \in Live(f)
               PROVE  h.blk[Pos(Entry(h, i))] = f.blk[Pos(Entry(f, i))]
    BY DEF SameTuples
  <2>1. Pos(Entry(f, i)) \in TuplePositions(f)
    BY <1>0 DEF EntriesLead
  <2> QED BY <1>7, <1>11, <2>1
<1>16. NoNewNames(f, h)
  <2>1. 1 \in Words
    BY DEF Words
  <2>2. \A x \in 1..Len(f.blk) : h.blk[x][1] = 0 \/ h.blk[x][1] = f.blk[x][1]
    BY <1>3, <1>5, <2>1
  <2> QED BY <1>6, <2>2 DEF NoNewNames
<1> QED BY <1>2, <1>4, <1>5, <1>6, <1>7, <1>9, <1>10, <1>11, <1>14, <1>15, <1>16 DEF c

-----------------------------------------------------------------------------
(***************************************************************************)
(* The slot the array may grow over.                                       *)
(***************************************************************************)

\* A slot the array gives back when the last id goes is one that is spare.
LEMMA ForgetGrowth ==
    ASSUME NEW f \in FileType, Sound(f), NEW id \in Live(f),
           NEW T \in SUBSET TuplePositions(f), GrowthCovered(f, T)
    PROVE  GrowthCovered(RemoveFromIdArray(f, id), T \cup {Pos(Entry(f, id))})
<1> DEFINE g == RemoveFromIdArray(f, id)
           x == Pos(Entry(f, id))
<1>1. LastArraySlot(f) <= Len(f.blk) /\ EntriesLead(f)
  BY DEF Sound
<1>2. /\ g \in FileType
      /\ Sound(g)
      /\ CurId(g) = IF CurId(f) - 1 = id THEN id ELSE CurId(f)
      /\ Len(g.blk) = Len(f.blk)
      /\ Live(g) = Live(f) \ {id}
      /\ \A i \in Live(g) : Entry(g, i) = Entry(f, i)
      /\ LastArraySlot(g) <= LastArraySlot(f)
      /\ \A p \in TuplePositions(f) : p \in TuplePositions(g)
  BY Forget
<1> HIDE DEF g
<1>3. x \in TuplePositions(f) /\ f.blk[x][1] = id
  BY <1>1 DEF EntriesLead
<1> HIDE DEF x
<1>4. \A i \in Live(g) : Pos(Entry(g, i)) \in TuplePositions(f) /\ Pos(Entry(g, i)) # x
  <2> SUFFICES ASSUME NEW i \in Live(g)
               PROVE  Pos(Entry(g, i)) \in TuplePositions(f) /\ Pos(Entry(g, i)) # x
    OBVIOUS
  <2>1. i \in Live(f) /\ i # id /\ Entry(g, i) = Entry(f, i)
    BY <1>2
  <2>2. Pos(Entry(f, i)) \in TuplePositions(f) /\ f.blk[Pos(Entry(f, i))][1] = i
    BY <1>1, <2>1 DEF EntriesLead
  <2> QED BY <1>3, <2>1, <2>2
<1>5. SUFFICES ASSUME GrowthDue(CurId(g)), CurId(g) - 1 \notin Live(g)
               PROVE  \E p \in Spare(g, T \cup {x}) : TRUE
  BY DEF GrowthCovered, g, x
<1>6. CASE CurId(f) - 1 # id
  <2>1. CurId(g) = CurId(f) /\ CurId(f) - 1 \notin Live(f)
    BY <1>2, <1>5, <1>6
  <2>2. PICK p \in Spare(f, T) : TRUE
    BY <1>5, <2>1 DEF GrowthCovered
  <2>3. p \in TuplePositions(g) /\ p \notin T /\ p # x
    BY <1>2, <2>2 DEF Spare, x
  <2>4. \A i \in Live(g) : Pos(Entry(g, i)) # p
    BY <1>2, <2>2 DEF Spare
  <2> QED BY <2>3, <2>4 DEF Spare
<1>7. CASE CurId(f) - 1 = id
  <2>1. id \in Nat /\ CurId(f) \in Nat /\ CurId(f) = id + 1 /\ CurId(g) = id
    BY <1>1, <1>2, <1>7, LiveFacts, FileParts
  <2>2. LastArraySlot(f) = LastArraySlot(g) + 1
    BY <1>5, <2>1, NextPlace DEF LastArraySlot
  <2> DEFINE p == LastArraySlot(f)
  <2>3. p \in Nat /\ LastArraySlot(g) \in Nat /\ Len(f.blk) \in Nat
    BY <1>1, <1>2, TuplePlaces, FileParts DEF Sound
  <2>4. p \in LastArraySlot(g) + 1..Len(g.blk)
    BY <1>1, <1>2, <2>2, <2>3
  <2>5. \A y \in TuplePositions(f) : y # p
    BY <1>1, <2>3, TuplePlaces
  <2>6. p \in TuplePositions(g)
    BY <2>4 DEF TuplePositions
  <2> HIDE DEF p
  <2>7. p \notin T \cup {x}
    BY <1>3, <2>5
  <2> QED BY <1>4, <2>5, <2>6, <2>7 DEF Spare
<1> QED BY <1>6, <1>7

\* A spare slot stays spare, or it was the last one and now the filled one is.
LEMMA CutGrowth ==
    ASSUME OnlyIntegers, NEW f \in FileType, Sound(f),
           NEW q \in TuplePositions(f),
           \A id \in Live(f) : Entry(f, id) # Off(q),
           HasEntry(f, f.blk[Len(f.blk)][1]),
           NEW T, \A t \in T : t \in Nat /\ t < q,
           GrowthCovered(f, T \cup {q})
    PROVE  GrowthCovered(SwapWithLast(f, Off(q)), T)
<1> DEFINE L == Len(f.blk)
           k == SwapWithLast(f, Off(q))
<1>1. LastArraySlot(f) <= L
  BY DEF Sound
<1>2. /\ q \in Nat /\ L \in Nat /\ q > LastArraySlot(f) /\ q <= L
      /\ LastArraySlot(f) \in Nat
  <2>1. q \in Nat /\ q > LastArraySlot(f) /\ q \in 1..L /\ LastArraySlot(f) \in Nat
    BY <1>1, TuplePlaces
  <2> QED BY <2>1, FileParts
<1>3. /\ k \in FileType
      /\ CurId(k) = CurId(f)
      /\ Len(k.blk) = L - 1
      /\ Live(k) = Live(f)
      /\ \A i \in Live(f) : Entry(k, i) = IF Entry(f, i) = Off(L) THEN Off(q)
                                                                 ELSE Entry(f, i)
  BY FillAndCut
<1> HIDE DEF k
<1>4. TuplePositions(k) = LastArraySlot(f) + 1..L - 1
  BY <1>3 DEF TuplePositions, LastArraySlot
<1>5. \A i \in Live(f) : Entry(f, i) \in Nat
  BY <1>1, LiveFacts
<1>6. Pos(Off(q)) = q /\ Pos(Off(L)) = L
  BY <1>2, OffPos
<1>7. SUFFICES ASSUME GrowthDue(CurId(f)), CurId(f) - 1 \notin Live(f)
               PROVE  \E p \in Spare(k, T) : TRUE
  BY <1>3 DEF GrowthCovered, k
<1>8. PICK p \in Spare(f, T \cup {q}) : TRUE
  BY <1>7 DEF GrowthCovered
<1>9. /\ p \in TuplePositions(f) /\ p \notin T /\ p # q
      /\ \A i \in Live(f) : Pos(Entry(f, i)) # p
  BY <1>8 DEF Spare
<1>10. p \in Nat /\ p > LastArraySlot(f) /\ p <= L
  <2>1. p \in Nat /\ p > LastArraySlot(f) /\ p \in 1..L
    BY <1>1, <1>9, TuplePlaces
  <2> QED BY <1>2, <2>1
<1>11. CASE p # L
  <2>1. p \in TuplePositions(k)
    <3>1. p \in LastArraySlot(f) + 1..L - 1
      BY <1>2, <1>10, <1>11
    <3> QED BY <1>4, <3>1
  <2>2. \A i \in Live(k) : Pos(Entry(k, i)) # p
    BY <1>3, <1>6, <1>9
  <2> QED BY <1>9, <2>1, <2>2 DEF Spare
<1>12. CASE p = L
  <2>1. q \in TuplePositions(k)
    <3>1. q \in LastArraySlot(f) + 1..L - 1
      BY <1>2, <1>9, <1>12
    <3> QED BY <1>4, <3>1
  <2>2. ASSUME NEW i \in Live(k) PROVE Pos(Entry(k, i)) # q
    <3>1. Entry(f, i) # Off(L)
      BY <1>3, <1>6, <1>9, <1>12, <2>2
    <3>2. Entry(k, i) = Entry(f, i)
      BY <1>3, <2>2, <3>1
    <3> QED BY <1>2, <1>3, <1>5, <2>2, <3>2, PosInjective
  <2>3. q \notin T
    BY <1>2
  <2> QED BY <2>1, <2>2, <2>3 DEF Spare
<1> QED BY <1>11, <1>12

-----------------------------------------------------------------------------
(***************************************************************************)
(* How far the array has reached, when an id is given back and when a slot *)
(* is given up.                                                            *)
(***************************************************************************)
LEMMA ForgetNames ==
    ASSUME NEW f \in FileType, Sound(f), NEW id \in Live(f),
           NEW T, NamesCovered(f, T)
    PROVE  NamesCovered(RemoveFromIdArray(f, id), T \cup {Pos(Entry(f, id))})
<1> DEFINE g == RemoveFromIdArray(f, id)
<1>1. /\ g \in FileType
      /\ Len(g.blk) = Len(f.blk)
      /\ Live(g) = Live(f) \ {id}
      /\ \A i \in Live(g) : Entry(g, i) = Entry(f, i)
      /\ LastArraySlot(g) <= LastArraySlot(f)
      /\ NoNewNames(f, g)
      /\ LastArraySlot(g) \in Nat \ {0} /\ LastArraySlot(f) \in Nat \ {0}
      /\ Len(f.blk) \in Nat
  BY Forget, TuplePlaces, FileParts DEF Sound
<1> HIDE DEF g
<1>2. PICK m \in LastArraySlot(f)..Len(f.blk) :
        NamesWithin(f, m) /\ \A p \in SlotsInUse(f, T) : p > m
  BY DEF NamesCovered
<1>3. m \in Nat /\ m > 0 /\ m \in LastArraySlot(g)..Len(g.blk)
  BY <1>1
<1>4. NamesWithin(g, m)
  BY <1>1, <1>2, <1>3, NamesKept
<1>5. \A p \in SlotsInUse(g, T \cup {Pos(Entry(f, id))}) : p > m
  BY <1>1, <1>2 DEF SlotsInUse
<1> QED BY <1>3, <1>4, <1>5 DEF NamesCovered, g

LEMMA CutNames ==
    ASSUME OnlyIntegers, NEW f \in FileType, Sound(f),
           NEW q \in TuplePositions(f),
           \A id \in Live(f) : Entry(f, id) # Off(q),
           NEW T, NamesCovered(f, T \cup {q})
    PROVE  /\ HasEntry(f, f.blk[Len(f.blk)][1])
           /\ NamesCovered(SwapWithLast(f, Off(q)), T)
<1> DEFINE L == Len(f.blk)
           k == SwapWithLast(f, Off(q))
<1>1. LastArraySlot(f) <= L /\ LastArraySlot(f) \in Nat \ {0} /\ L \in Nat
      /\ q \in Nat /\ q > LastArraySlot(f) /\ q <= L
  <2>1. LastArraySlot(f) <= L
    BY DEF Sound
  <2>2. q \in Nat /\ q > LastArraySlot(f) /\ q \in 1..L /\ LastArraySlot(f) \in Nat \ {0}
    BY <2>1, TuplePlaces
  <2> QED BY <2>1, <2>2, FileParts
<1>2. HasEntry(f, f.blk[L][1])
  <2>1. L \in TuplePositions(f)
    BY <1>1 DEF TuplePositions
  <2> HIDE DEF L
  <2> QED BY <2>1, NamesReadable
<1>3. /\ k \in FileType
      /\ CurId(k) = CurId(f)
      /\ Len(k.blk) = L - 1
      /\ Live(k) = Live(f)
      /\ \A i \in Live(f) : Entry(k, i) = IF Entry(f, i) = Off(L) THEN Off(q)
                                                                 ELSE Entry(f, i)
      /\ NoNewNames(f, k)
  BY <1>2, FillAndCut
<1> HIDE DEF k
<1>4. PICK m \in LastArraySlot(f)..L :
        NamesWithin(f, m) /\ \A p \in SlotsInUse(f, T \cup {q}) : p > m
  BY DEF NamesCovered
<1>5. /\ m \in Nat /\ m > 0 /\ q > m
      /\ m \in LastArraySlot(k)..Len(k.blk)
  <2>1. q \in SlotsInUse(f, T \cup {q})
    BY DEF SlotsInUse
  <2>2. q > m
    BY <1>4, <2>1
  <2>3. m \in Nat /\ m >= LastArraySlot(f) /\ m > 0
    BY <1>1
  <2>4. LastArraySlot(k) = LastArraySlot(f)
    BY <1>3 DEF LastArraySlot
  <2> QED BY <1>1, <1>3, <2>2, <2>3, <2>4
<1>6. NamesWithin(k, m)
  BY <1>3, <1>4, <1>5, NamesKept
<1>7. \A p \in SlotsInUse(k, T) : p > m
  <2>1. ASSUME NEW i \in Live(k) PROVE Pos(Entry(k, i)) > m
    <3>1. Pos(Off(q)) = q
      BY <1>1, OffPos
    <3>2. Pos(Entry(f, i)) > m
      BY <1>3, <1>4, <2>1 DEF SlotsInUse
    <3> QED BY <1>3, <1>5, <2>1, <3>1, <3>2
  <2> QED BY <1>4, <2>1 DEF SlotsInUse
<1> QED BY <1>2, <1>5, <1>6, <1>7 DEF NamesCovered, k, L

-----------------------------------------------------------------------------
(***************************************************************************)
(* What find_all reads in a sound file.                                    *)
(***************************************************************************)
TupleIn(b) == [parent |-> b[0],
               fields |-> [n \in Fields |-> <<b[FieldWord(n)]>>]]

LEMMA ContentsRead ==
    ASSUME OnlyIntegers, NEW f \in FileType, Sound(f)
    PROVE  /\ DOMAIN Contents(f) = Live(f)
           /\ Contents(f) = [id \in Live(f) |-> TupleIn(f.blk[Pos(Entry(f, id))])]
           /\ \A id \in Live(f) :
                /\ ReadTuple(f, Entry(f, id)) = f.blk[Pos(Entry(f, id))]
                /\ Contents(f)[id] = TupleIn(f.blk[Pos(Entry(f, id))])
<1>1. LastArraySlot(f) <= Len(f.blk) /\ EntriesLead(f)
  BY DEF Sound
<1>2. DOMAIN Contents(f) = Live(f)
  BY DEF Contents
<1>3. ASSUME NEW id \in Live(f)
      PROVE  /\ ReadTuple(f, Entry(f, id)) = f.blk[Pos(Entry(f, id))]
             /\ Contents(f)[id] = TupleIn(f.blk[Pos(Entry(f, id))])
  <2> DEFINE b == f.blk[Pos(Entry(f, id))]
             t == ReadTuple(f, Entry(f, id))
             r == [n \in Fields |-> IF Types[n] = "STRING"
                                    THEN ReadString(f, t[FieldWord(n)])
                                    ELSE <<t[FieldWord(n)]>>]
  <2>1. Pos(Entry(f, id)) \in 1..Len(f.blk)
    <3>1. Pos(Entry(f, id)) \in TuplePositions(f)
      BY <1>1 DEF EntriesLead
    <3> QED BY <1>1, <3>1, TuplePlaces
  <2>2. t = b
    BY <2>1 DEF ReadTuple, Inside
  <2>3. Contents(f)[id] = [parent |-> t[0], fields |-> r]
    BY DEF Contents
  <2> HIDE DEF t
  <2>4. r = [n \in Fields |-> <<t[FieldWord(n)]>>]
    <3>1. \A n \in Fields : Types[n] # "STRING"
      BY DEF OnlyIntegers, StringFields
    <3> QED BY <3>1
  <2> HIDE DEF r, b
  <2> QED BY <2>2, <2>3, <2>4 DEF TupleIn, b, t
<1>4. Contents(f) = [id \in Live(f) |-> Contents(f)[id]]
  BY DEF Contents
<1>5. [id \in Live(f) |-> Contents(f)[id]]
        = [id \in Live(f) |-> TupleIn(f.blk[Pos(Entry(f, id))])]
  BY <1>3
<1> QED BY <1>2, <1>3, <1>4, <1>5

\* Two files agree on the tuples they both have when these have the same words.
LEMMA ContentsKept ==
    ASSUME OnlyIntegers, NEW f \in FileType, Sound(f), NEW h \in FileType, Sound(h),
           SameTuples(f, h)
    PROVE  \A id \in Live(f) \cap Live(h) : Contents(h)[id] = Contents(f)[id]
BY ContentsRead DEF SameTuples

-----------------------------------------------------------------------------
(***************************************************************************)
(* The file a database starts as.                                          *)
(***************************************************************************)
LEMMA EmptyFileFacts ==
    /\ CurId(EmptyFile) = 0 /\ EmptyFile.sub[SIGNATURE] = Signature /\ ~EmptyFile.lost
    /\ LastArraySlot(EmptyFile) = 1 /\ Len(EmptyFile.blk) = 1
    /\ \A x \in 1..1 : \A w \in Words : EmptyFile.blk[x][w] = 0
    /\ Ids(EmptyFile) = {} /\ Live(EmptyFile) = {}
<1>1. /\ CurId(EmptyFile) = 0 /\ EmptyFile.sub[SIGNATURE] = Signature
      /\ ~EmptyFile.lost
  BY DEF EmptyFile, EmptySubheader, CurId, CUR_ID, SIGNATURE, PATTERN_SIZE, NullValue
<1>2. SlotWords \in Nat /\ SlotWords > 0 /\ 0 \in 0..SlotWords - 1
  OBVIOUS
<1>3. LastArraySlot(EmptyFile) = 1
  <2>1. 0 = SlotWords * 0 + 0
    BY <1>2
  <2>2. 0 \div SlotWords = 0
    BY <1>2, <2>1, DivModUnique
  <2> QED BY <1>1, <2>2 DEF LastArraySlot, EntryPos
<1>4. EmptyFile.blk = [x \in 1..1 |-> ZeroSlot]
  <2>1. RealIdArraySize(0) = SlotWords
    BY OneSlotArray
  <2>2. SlotWords = SlotWords * 1 + 0
    BY <1>2
  <2>3. RealIdArraySize(0) \div SlotWords = 1
    BY <1>2, <2>1, <2>2, DivModUnique
  <2> QED BY <2>3 DEF EmptyFile
<1>5. Len(EmptyFile.blk) = 1 /\ \A x \in 1..1 : \A w \in Words : EmptyFile.blk[x][w] = 0
  BY <1>4 DEF ZeroSlot
<1>6. Ids(EmptyFile) = {} /\ Live(EmptyFile) = {}
  BY <1>1 DEF Ids, Live
<1> QED BY <1>1, <1>3, <1>5, <1>6

-----------------------------------------------------------------------------
(***************************************************************************)
(* The file after a step.                                                  *)
(***************************************************************************)
LEMMA ContentsThen ==
    /\ CurId(file)' = CurId(file')
    /\ Live(file)' = Live(file')
    /\ Contents(file)' = Contents(file')
    /\ \A id : Entry(file, id)' = Entry(file', id)
BY DEF CurId, Live, Ids, HasEntry, Entry

(***************************************************************************)
(* What the callers have been promised, and which step of TreeStore each   *)
(* step of a call is: the last one takes effect, the others do nothing.    *)
(***************************************************************************)
Promised == IF op = "none" THEN Contents(file) ELSE before

LEMMA PromisedThen ==
    Promised' = IF op' = "none" THEN Contents(file') ELSE before'
BY ContentsThen DEF Promised

\* At the beginning nothing has been promised.
LEMMA InitPromised == Init => Store!Init
<1> SUFFICES ASSUME Init PROVE Store!Init
  OBVIOUS
<1>1. Live(file) = {}
  <2>1. CurId(file) = 0
    BY DEF Init, EmptyFile, EmptySubheader, CurId, CUR_ID, SIGNATURE, PATTERN_SIZE, NullValue
  <2> QED BY <2>1 DEF Live, Ids
<1>2. Contents(file) = [id \in {} |-> <<>>]
  BY <1>1 DEF Contents
<1> QED BY <1>2 DEF Init, Store!Init

-----------------------------------------------------------------------------
(***************************************************************************)
(* The invariant after a step, in terms of the file there is then.         *)
(***************************************************************************)
LEMMA Afterwards ==
    /\ Live(file)' = Live(file') /\ TuplePositions(file)' = TuplePositions(file')
    /\ Sound(file)' <=> Sound(file')
    /\ \A t : FrameSound(file, t)' <=> FrameSound(file', t)
    /\ GrowthSound' <=> GrowthCovered(file', Taken(stack'))
    /\ NamesSound' <=> NamesCovered(file', Taken(stack'))
BY DEF Sound, CurId, LastArraySlot, OffsetsAreEntries, EntriesLead, Ids, Live, HasEntry,
       Entry, TuplePositions, Pos, FrameSound, GrowthSound, GrowthCovered, Spare, Taken,
       NamesSound, NamesCovered, NamesWithin, SlotsInUse

LEMMA InitShallow == Init => ShallowInv
<1> SUFFICES ASSUME Init PROVE ShallowInv
  OBVIOUS
<1>1. file = EmptyFile /\ op = "none" /\ stack = <<>>
  BY DEF Init
<1>2. Sound(file)
  <2>1. \A x \in 1..Len(file.blk) : \A w \in Words : ~(file.blk[x][w] >= FirstOffset)
    BY <1>1, EmptyFileFacts
  <2> QED BY <1>1, <2>1, EmptyFileFacts, MaxIdsAssumption
          DEF Sound, OffsetsAreEntries, EntriesLead
<1>3. AddSound /\ RemoveSound
  BY <1>1 DEF AddSound, RemoveSound
<1>4. GrowthSound
  <2>1. ~GrowthDue(CurId(file))
    BY <1>1, EmptyFileFacts, NextPlace
  <2> QED BY <2>1 DEF GrowthSound, GrowthCovered
<1>5. NamesSound
  <2>1. NamesWithin(file, 1)
    <3>1. SlotWords \in Nat /\ SlotWords > 0 /\ 0 = SlotWords * 0 + 0 /\ 0 \in 0..SlotWords - 1
          /\ 1 \in Words
      BY DEF Words
    <3>2. EntryPos(0) = 1
      <4>1. 0 \div SlotWords = 0
        BY <3>1, DivModUnique
      <4> QED BY <4>1 DEF EntryPos
    <3> QED BY <1>1, <3>1, <3>2, EmptyFileFacts DEF NamesWithin
  <2>2. SlotsInUse(file, Taken(stack)) = {}
    <3>1. Len(stack) = 0
      BY <1>1
    <3> QED BY <1>1, <3>1, EmptyFileFacts DEF SlotsInUse, Taken
  <2>3. 1 \in LastArraySlot(file)..Len(file.blk)
    BY <1>1, EmptyFileFacts
  <2> QED BY <2>1, <2>2, <2>3 DEF NamesSound, NamesCovered
<1> QED BY <1>2, <1>3, <1>4, <1>5 DEF ShallowInv

-----------------------------------------------------------------------------
(***************************************************************************)
(* Adding a tuple.                                                         *)
(***************************************************************************)
LEMMA AddTupleShallow ==
    ASSUME OnlyIntegers, TypeOK, ShallowInv, NEW v \in FieldValues, NEW p \in Parents,
           AddTuple(v, p)
    PROVE  /\ ShallowInv'
           /\ CurId(file') - 1 = CurId(file) /\ CurId(file) \notin Live(file)
           /\ Live(file') = Live(file) \cup {CurId(file)}
           /\ Entry(file', CurId(file)) = End(file)
           /\ SameTuples(file, file')
<1>1. /\ file \in FileType /\ Sound(file) /\ op = "none" /\ stack = <<>>
      /\ CurId(file) < MaxIds
      /\ op' = "add" /\ stack' = <<>>
      /\ file' = ReserveTuple(file, p)
      /\ new'.at = End(file) /\ new'.slot = NewSlot(file, p)
  BY DEF TypeOK, ShallowInv, RemoveSound, AddTuple, Idle
<1>2. GrowthDue(CurId(file)) => TuplePositions(file) # {}
  <2> SUFFICES ASSUME GrowthDue(CurId(file)) PROVE TuplePositions(file) # {}
    OBVIOUS
  <2>1. CASE CurId(file) - 1 \in Live(file)
    BY <1>1, <2>1 DEF Sound, EntriesLead
  <2> QED BY <2>1 DEF ShallowInv, GrowthSound, GrowthCovered, Spare
<1>3. /\ file' \in FileType
      /\ Sound(file')
      /\ CurId(file') = CurId(file) + 1
      /\ CurId(file) \notin Live(file)
      /\ Live(file') = Live(file) \cup {CurId(file)}
      /\ Entry(file', CurId(file)) = End(file)
      /\ SameTuples(file, file')
      /\ Pos(End(file)) \in TuplePositions(file')
      /\ file'.blk[Pos(End(file))] = NewSlot(file, p)
      /\ SmallWords(NewSlot(file, p))
      /\ NamesCovered(file', {})
  <2>1. NamesCovered(file, {})
    <3>1. Taken(stack) = {}
      BY <1>1 DEF Taken
    <3> QED BY <3>1 DEF ShallowInv, NamesSound
  <2> QED BY <1>1, <1>2, <2>1, Reserve
<1>4. AddSound'
  BY <1>1, <1>3 DEF AddSound
<1>5. RemoveSound'
  BY <1>1 DEF RemoveSound
<1>6. CurId(file') - 1 = CurId(file)
  BY <1>1, <1>3, FileParts
<1>7. GrowthSound'
  BY <1>3, <1>6, Afterwards DEF GrowthCovered
<1>8. NamesSound'
  <2>1. Taken(stack') = {}
    BY <1>1 DEF Taken
  <2> QED BY <1>3, <2>1, Afterwards
<1> QED BY <1>3, <1>4, <1>5, <1>6, <1>7, <1>8, Afterwards DEF ShallowInv

\* There are no strings to be written.
LEMMA AddStringShallow == ASSUME OnlyIntegers, AddString PROVE FALSE
BY DEF OnlyIntegers, AddString

LEMMA AddIntegerShallow ==
    ASSUME OnlyIntegers, TypeOK, ShallowInv, AddInteger
    PROVE  ShallowInv'
<1> DEFINE w == FieldWord(new.n)
           i == new.fields[new.n][1]
<1>1. /\ op = "add" /\ op' = op /\ file' = file /\ stack' = stack
      /\ new.n \in Fields /\ new.n \notin StringFields
      /\ new' = [new EXCEPT !.slot[w] = i, !.n = @ + 1]
      /\ new \in NewType /\ new.slot \in WordBlock /\ new.fields \in FieldValues
  BY DEF AddInteger, AddStep, TypeOK
<1>2. w \in Words /\ w >= 2
  BY <1>1, FieldWordType
<1>3. i < FirstOffset
  <2>1. new.fields[new.n] \in Values(new.n)
    BY <1>1 DEF FieldValues
  <2>2. new.fields[new.n] \in {<<j>> : j \in Ints}
    BY <1>1, <2>1 DEF Values, StringFields
  <2>3. i \in Ints
    BY <2>2
  <2> QED BY <2>3 DEF OnlyIntegers
<1> HIDE DEF w, i
<1>4. new'.at = new.at /\ new'.slot = [new.slot EXCEPT ![w] = i]
  BY <1>1 DEF NewType
<1>5. SmallWords(new'.slot) /\ new'.slot[1] = new.slot[1]
  <2>1. SmallWords(new.slot)
    BY <1>1 DEF ShallowInv, AddSound
  <2>2. \A v \in Words : new'.slot[v] = IF v = w THEN i ELSE new.slot[v]
    BY <1>1, <1>2, <1>4 DEF WordBlock
  <2>3. 1 \in Words /\ w # 1
    BY <1>2 DEF Words
  <2> QED BY <1>3, <2>1, <2>2, <2>3 DEF SmallWords
<1>6. AddSound'
  BY <1>1, <1>4, <1>5 DEF ShallowInv, AddSound, TuplePositions, LastArraySlot, SmallWords
<1>7. RemoveSound'
  BY <1>1 DEF ShallowInv, RemoveSound
<1>8. GrowthSound' /\ NamesSound'
  BY <1>1, Afterwards DEF ShallowInv, GrowthSound, NamesSound
<1>9. Sound(file)'
  BY <1>1, Afterwards DEF ShallowInv
<1> QED BY <1>6, <1>7, <1>8, <1>9 DEF ShallowInv

\* A step that rewrites one tuple in its slot and leaves no call in progress.
LEMMA RefillShallow ==
    ASSUME TypeOK, ShallowInv, NEW q \in TuplePositions(file),
           NEW b \in WordBlock, SmallWords(b), b[1] = file.blk[q][1],
           file' = WriteTuple(file, Off(q), b),
           op # "remove", op' = "none", stack' = stack
    PROVE  ShallowInv'
<1>1. file \in FileType /\ Sound(file) /\ stack = <<>>
  BY DEF TypeOK, ShallowInv, RemoveSound
<1>2. /\ file' \in FileType
      /\ Sound(file')
      /\ CurId(file') = CurId(file)
      /\ Live(file') = Live(file)
      /\ \A id \in Live(file) : Entry(file', id) = Entry(file, id)
      /\ TuplePositions(file') = TuplePositions(file)
      /\ Len(file'.blk) = Len(file.blk) /\ NoNewNames(file, file')
  BY <1>1, Refill
<1>3. AddSound' /\ RemoveSound'
  BY <1>1 DEF AddSound, RemoveSound
<1>4. GrowthSound'
  <2>1. Spare(file, Taken(stack)) = Spare(file', Taken(stack))
    BY <1>2 DEF Spare
  <2>2. GrowthCovered(file', Taken(stack))
    BY <1>2, <2>1 DEF ShallowInv, GrowthSound, GrowthCovered
  <2> QED BY <2>2, Afterwards
<1>5. NamesSound'
  <2>1. PICK m \in LastArraySlot(file)..Len(file.blk) :
          NamesWithin(file, m) /\ \A p \in SlotsInUse(file, Taken(stack)) : p > m
    BY DEF ShallowInv, NamesSound, NamesCovered
  <2>2. LastArraySlot(file') = LastArraySlot(file) /\ LastArraySlot(file) \in Nat \ {0}
    BY <1>1, <1>2, TuplePlaces DEF LastArraySlot, Sound
  <2>3. m \in Nat /\ m > 0 /\ m \in LastArraySlot(file')..Len(file'.blk)
    BY <1>1, <1>2, <2>2, FileParts
  <2>4. NamesWithin(file', m)
    BY <1>1, <1>2, <2>1, <2>3, NamesKept
  <2>5. SlotsInUse(file', Taken(stack)) = SlotsInUse(file, Taken(stack))
    BY <1>2 DEF SlotsInUse
  <2>6. NamesCovered(file', Taken(stack))
    BY <2>1, <2>3, <2>4, <2>5 DEF NamesCovered
  <2> QED BY <2>6, Afterwards
<1> QED BY <1>2, <1>3, <1>4, <1>5, Afterwards DEF ShallowInv

\* The second write of a tuple, and an update of one that exists, are such steps.
LEMMA AddWriteRefills ==
    ASSUME TypeOK, ShallowInv, AddWrite
    PROVE  LET q == Pos(new.at)
           IN  /\ q \in TuplePositions(file)
               /\ new.slot \in WordBlock /\ SmallWords(new.slot)
               /\ new.slot[1] = file.blk[q][1]
               /\ file' = WriteTuple(file, Off(q), new.slot)
               /\ op = "add" /\ op' = "none" /\ stack' = stack
<1> DEFINE q == Pos(new.at)
<1>1. /\ op = "add" /\ op' = "none" /\ stack' = stack
      /\ file' = WriteTuple(file, new.at, new.slot)
      /\ file \in FileType /\ new.slot \in WordBlock /\ new.at \in Nat
      /\ LastArraySlot(file) <= Len(file.blk)
  BY DEF AddWrite, AddStep, TypeOK, NewType, ShallowInv, Sound
<1>2. /\ q \in TuplePositions(file)
      /\ new.slot[1] = file.blk[q][1]
      /\ SmallWords(new.slot)
  BY <1>1 DEF ShallowInv, AddSound
<1>3. new.at = Off(q)
  <2>1. q \in Nat
    BY <1>1, <1>2, TuplePlaces
  <2> QED BY <1>1, <2>1, PosInjective
<1> QED BY <1>1, <1>2, <1>3

LEMMA AddWriteShallow == ASSUME TypeOK, ShallowInv, AddWrite PROVE ShallowInv'
BY AddWriteRefills, RefillShallow

LEMMA UpdateRefills ==
    ASSUME OnlyIntegers, TypeOK, ShallowInv, NEW n \in Fields, NEW v \in Values(n),
           NEW id \in Live(file), Idle, Update(n, v, id)
    PROVE  LET q == Pos(Entry(file, id))
               b == [file.blk[q] EXCEPT ![FieldWord(n)] = v[1]]
           IN  /\ q \in TuplePositions(file)
               /\ b \in WordBlock /\ SmallWords(b)
               /\ b[1] = file.blk[q][1]
               /\ file' = WriteTuple(file, Off(q), b)
               /\ op = "none" /\ op' = "none" /\ stack' = stack
<1> DEFINE o == Entry(file, id)
           q == Pos(o)
           b == [file.blk[q] EXCEPT ![FieldWord(n)] = v[1]]
<1>1. /\ file \in FileType /\ LastArraySlot(file) <= Len(file.blk)
      /\ OffsetsAreEntries(file) /\ EntriesLead(file)
      /\ op = "none" /\ op' = "none" /\ stack' = stack
      /\ file' = UpdateTuple(file, n, v, id)
  BY DEF TypeOK, ShallowInv, Sound, Idle, Update
<1>2. o \in Nat /\ o # 0 /\ HasEntry(file, id)
  <2>1. HasEntry(file, id)
    BY DEF Live
  <2> QED BY <1>1, <2>1, LiveFacts
<1>3. q \in TuplePositions(file)
  BY <1>1 DEF EntriesLead
<1> HIDE DEF q
<1>4. q \in Nat /\ Off(q) = o /\ Inside(file, o) /\ file.blk[q] \in WordBlock
  <2>1. q \in Nat
    BY <1>1, <1>3, TuplePlaces
  <2>2. Off(q) = o
    BY <1>2, <2>1, PosInjective DEF q
  <2> QED BY <1>1, <1>3, <2>1, <2>2, TuplePlaces
<1>5. n \notin StringFields /\ Types[n] # "STRING"
  BY DEF OnlyIntegers, StringFields
<1>6. v[1] \in Nat /\ v[1] < FirstOffset
  <2>1. v \in {<<j>> : j \in Ints}
    BY <1>5 DEF Values
  <2>2. v[1] \in Ints
    BY <2>1
  <2> QED BY <2>2, IntsAssumption DEF OnlyIntegers
<1>7. FieldWord(n) \in Words /\ FieldWord(n) # 1
  BY FieldWordType
<1>8. b \in WordBlock /\ SmallWords(b) /\ b[1] = file.blk[q][1]
  <2>1. \A w \in Words : b[w] = IF w = FieldWord(n) THEN v[1] ELSE file.blk[q][w]
    BY <1>4, <1>7 DEF WordBlock
  <2>2. b \in WordBlock
    BY <1>4, <1>6, <1>7 DEF WordBlock
  <2>3. SmallWords(file.blk[q])
    BY <1>1, <1>3, TuplesSmall
  <2>4. 1 \in Words
    BY DEF Words
  <2> QED BY <1>6, <1>7, <2>1, <2>2, <2>3, <2>4 DEF SmallWords
<1>9. file' = WriteTuple(file, o, b)
  <2>1. file' = WriteWord(file, o, FieldWord(n), v[1])
    BY <1>1, <1>2, <1>4, <1>5 DEF UpdateTuple, NullValue
  <2>2. WriteWord(file, o, FieldWord(n), v[1]) = [file EXCEPT !.blk[q][FieldWord(n)] = v[1]]
    BY <1>4 DEF WriteWord, q
  <2>3. WriteTuple(file, o, b) = [file EXCEPT !.blk[q] = b]
    BY <1>4 DEF WriteTuple, q
  <2> QED BY <2>1, <2>2, <2>3
<1> HIDE DEF b, o
<1> QED BY <1>1, <1>3, <1>4, <1>8, <1>9 DEF b, q, o

LEMMA UpdateShallow ==
    ASSUME OnlyIntegers, TypeOK, ShallowInv, NEW n \in Fields, NEW v \in Values(n),
           NEW id \in Live(file), Idle, Update(n, v, id)
    PROVE  ShallowInv'
BY UpdateRefills, RefillShallow

-----------------------------------------------------------------------------
(***************************************************************************)
(* Removing a shallow tuple.                                               *)
(***************************************************************************)

\* No childs are found but the live tuples that name id: an id without a tuple
\* is looked up in the header, and reads as no parent's.
LEMMA ChildsFound ==
    ASSUME OnlyIntegers, TypeOK, ShallowInv, NEW id \in Live(file)
    PROVE  LET g == RemoveFromIdArray(file, id)
           IN  ChildsReadable(g) /\ ChildsById(g, id) = Childs(id)
<1> DEFINE f == file
           g == RemoveFromIdArray(f, id)
<1>1. /\ f \in FileType /\ Sound(f) /\ LastArraySlot(f) <= Len(f.blk) /\ EntriesLead(f)
      /\ CurId(f) <= MaxIds
  BY DEF TypeOK, ShallowInv, Sound
<1> HIDE DEF f
<1>2. /\ g \in FileType
      /\ Sound(g)
      /\ Len(g.blk) = Len(f.blk)
      /\ Live(g) = Live(f) \ {id}
      /\ \A i \in Live(g) : Entry(g, i) = Entry(f, i)
      /\ \A i \in Ids(g) : HasEntry(g, i) /\ (i \notin Live(g) => Entry(g, i) = 0)
      /\ \A x \in TuplePositions(f) : x \in TuplePositions(g) /\ g.blk[x] = f.blk[x]
  BY <1>1, Forget DEF f
<1> HIDE DEF g
<1>3. ASSUME NEW i \in Live(g)
      PROVE  /\ Inside(f, Entry(f, i)) /\ Inside(g, Entry(g, i))
             /\ ReadTuple(g, Entry(g, i)) = ReadTuple(f, Entry(f, i))
  <2> DEFINE x == Pos(Entry(f, i))
  <2>1. x \in TuplePositions(f) /\ Entry(g, i) = Entry(f, i)
    BY <1>1, <1>2, <1>3 DEF EntriesLead
  <2>2. x \in 1..Len(f.blk) /\ x \in 1..Len(g.blk) /\ g.blk[x] = f.blk[x]
    BY <1>1, <1>2, <2>1, TuplePlaces
  <2> QED BY <2>1, <2>2 DEF Inside, ReadTuple
<1>4. ChildsReadable(g)
  BY <1>2, <1>3 DEF ChildsReadable, NullValue
<1>5. ASSUME NEW i \in Ids(g), i \notin Live(g), ReadTuple(g, Entry(g, i))[0] = id
      PROVE  FALSE
  <2>1. Entry(g, i) = 0
    BY <1>2, <1>5
  <2>2. ~Inside(g, 0)
    <3>1. Pos(0) = 1 - FirstOffset /\ 1 - FirstOffset < 1
      BY DEF Pos
    <3> QED BY <3>1 DEF Inside
  <2>3. HeaderView(g)[0] = g.sub[0]
    <3>1. 0 \in Words /\ 0 \in DOMAIN g.sub
      BY <1>2, FileParts DEF Words
    <3> QED BY <3>1 DEF HeaderView
  <2>4. id = Signature
    BY <1>2, <1>5, <2>1, <2>2, <2>3 DEF ReadTuple, Sound, SIGNATURE
  <2>5. id \in 0..MaxIds - 1
    <3>1. id \in Nat /\ id < CurId(f) /\ CurId(f) \in Nat
      BY <1>1, LiveFacts, FileParts DEF f
    <3> QED BY <1>1, <3>1, MaxIdsAssumption
  <2> QED BY <2>4, <2>5 DEF OnlyIntegers, AllIds
<1>6. ChildsById(g, id) = {i \in Live(g) : ReadTuple(g, Entry(g, i))[0] = id}
  <2>1. \A i \in Live(g) : i \in Ids(g)
    BY DEF Live
  <2> QED BY <1>5, <2>1 DEF ChildsById
<1>7. \A i \in Live(g) : ReadTuple(g, Entry(g, i)) = ReadTuple(f, Entry(f, i))
  BY <1>3
<1>8. {i \in Live(g) : ReadTuple(g, Entry(g, i))[0] = id} = Childs(id)
  BY <1>2, <1>7 DEF Childs, f
<1> QED BY <1>4, <1>6, <1>8 DEF g, f

\* What the entry of a live tuple comes to.
LEMMA EnterLive ==
    ASSUME OnlyIntegers, TypeOK, ShallowInv, NEW id \in Live(file),
           NEW callers, Enter(id, callers)
    PROVE  /\ file' = RemoveFromIdArray(file, id)
           /\ stack' = Append(callers, Frame(id, Entry(file, id), Childs(id)))
<1>1. /\ ChildsReadable(RemoveFromIdArray(file, id))
      /\ ChildsById(RemoveFromIdArray(file, id), id) = Childs(id)
  BY ChildsFound
<1>2. HasEntry(file, id) /\ Entry(file, id) # NullValue
  BY DEF Live
<1> QED BY <1>1, <1>2 DEF Enter

\* Who was not in the file does not become a child.
LEMMA ChildsKept ==
    ASSUME file \in FileType, Sound(file), file' \in FileType, Sound(file'),
           SameTuples(file, file'), Live(file') \subseteq Live(file), NEW c
    PROVE  Childs(c)' \subseteq Childs(c) \cap Live(file')
<1>1. Childs(c)' = {d \in Live(file') \ {c} : ReadTuple(file', Entry(file', d))[0] = c}
  BY Afterwards DEF Childs, ReadTuple, Inside, HeaderView, Entry, Pos
<1>2. ASSUME NEW f \in FileType, Sound(f), NEW d \in Live(f)
      PROVE  ReadTuple(f, Entry(f, d)) = f.blk[Pos(Entry(f, d))]
  <2>1. LastArraySlot(f) <= Len(f.blk) /\ Pos(Entry(f, d)) \in TuplePositions(f)
    BY <1>2 DEF Sound, EntriesLead
  <2>2. Pos(Entry(f, d)) \in 1..Len(f.blk)
    BY <1>2, <2>1, TuplePlaces
  <2> QED BY <2>2 DEF ReadTuple, Inside
<1>3. \A d \in Live(file') : ReadTuple(file', Entry(file', d)) = ReadTuple(file, Entry(file, d))
  <2> SUFFICES ASSUME NEW d \in Live(file')
               PROVE  ReadTuple(file', Entry(file', d)) = ReadTuple(file, Entry(file, d))
    OBVIOUS
  <2>1. ReadTuple(file', Entry(file', d)) = file'.blk[Pos(Entry(file', d))]
    BY <1>2
  <2>2. ReadTuple(file, Entry(file, d)) = file.blk[Pos(Entry(file, d))]
    BY <1>2
  <2>3. file'.blk[Pos(Entry(file', d))] = file.blk[Pos(Entry(file, d))]
    BY DEF SameTuples
  <2> QED BY <2>1, <2>2, <2>3
<1> QED BY <1>1, <1>3 DEF Childs

\* What all activations rely on still holds when an entry has been forgotten.
LEMMA FramesForget ==
    ASSUME NEW f \in FileType, Sound(f), NEW id \in Live(f), NEW t,
           FrameSound(f, t)
    PROVE  FrameSound(RemoveFromIdArray(f, id), t)
BY Forget DEF FrameSound

LEMMA NewFrame ==
    ASSUME NEW f \in FileType, Sound(f), NEW id \in Live(f), NEW childs
    PROVE  LET t == Frame(id, Entry(f, id), childs)
           IN  /\ t.id = id /\ t.offset = Entry(f, id) /\ t.childs = childs
               /\ ~t.loaded
               /\ FrameSound(RemoveFromIdArray(f, id), t)
<1> DEFINE t == Frame(id, Entry(f, id), childs)
<1>1. t.id = id /\ t.offset = Entry(f, id) /\ t.childs = childs /\ ~t.loaded /\ t.links = NoLinks
  BY DEF Frame
<1> HIDE DEF t
<1>2. Pos(Entry(f, id)) \in TuplePositions(f) /\ f.blk[Pos(Entry(f, id))][1] = id
  BY DEF Sound, EntriesLead
<1>3. FrameSound(RemoveFromIdArray(f, id), t)
  BY <1>1, <1>2, Forget DEF FrameSound
<1> QED BY <1>1, <1>3 DEF t

LEMMA TakenAppend ==
    ASSUME NEW s \in Seq(FrameType), NEW t \in FrameType
    PROVE  /\ Len(Append(s, t)) = Len(s) + 1
           /\ Append(s, t)[Len(s) + 1] = t
           /\ \A k \in 1..Len(s) : Append(s, t)[k] = s[k]
           /\ Taken(Append(s, t)) = Taken(s) \cup {Pos(t.offset)}
<1> DEFINE r == Append(s, t)
           n == Len(s)
<1>1. n \in Nat /\ Len(r) = n + 1 /\ r[n + 1] = t /\ \A k \in 1..n : r[k] = s[k]
  BY AppendProperties
<1> HIDE DEF r, n
<1>2. 1..n + 1 = (1..n) \cup {n + 1}
  BY <1>1
<1>3. Taken(r) = {Pos(r[k].offset) : k \in 1..n} \cup {Pos(r[n + 1].offset)}
  BY <1>1, <1>2 DEF Taken
<1>4. Taken(s) = {Pos(s[k].offset) : k \in 1..n}
  BY DEF Taken, n
<1>5. Taken(r) = Taken(s) \cup {Pos(t.offset)}
  BY <1>1, <1>3, <1>4
<1> QED BY <1>1, <1>5 DEF r, n

LEMMA RemoveTupleShallow ==
    ASSUME OnlyIntegers, TypeOK, ShallowInv, NEW id \in AllIds, Shallow(id),
           Idle, RemoveTuple(id), TypeOK'
    PROVE  /\ ShallowInv'
           /\ op' = "remove" /\ before' = Contents(file)
           /\ stack'[1].id = id /\ stack'[1].childs = Childs(id)
           /\ Live(file') = Live(file) \ {id}
           /\ SameTuples(file, file')
<1> DEFINE o == Entry(file, id)
           t == Frame(id, o, Childs(id))
<1>1. /\ file \in FileType /\ Sound(file) /\ id \in Live(file)
      /\ op = "none" /\ stack = <<>> /\ file' \in FileType /\ stack' \in Seq(FrameType)
  BY DEF TypeOK, ShallowInv, Idle, RemoveSound, Shallow
<1>2. file' = RemoveFromIdArray(file, id) /\ stack' = <<t>>
  <2>1. Enter(id, <<>>)
    BY DEF RemoveTuple
  <2>2. file' = RemoveFromIdArray(file, id) /\ stack' = Append(<<>>, t)
    BY <1>1, <2>1, EnterLive
  <2> HIDE DEF t
  <2> QED BY <2>2
<1>3. /\ Len(stack') = 1 /\ stack'[1] = t
      /\ op' = "remove" /\ before' = Contents(file)
  BY <1>2 DEF RemoveTuple
<1>4. /\ Sound(file')
      /\ Live(file') = Live(file) \ {id}
      /\ \A i \in Live(file') : Entry(file', i) = Entry(file, i)
      /\ SameTuples(file, file')
  BY <1>1, <1>2, Forget
<1>5. /\ t.id = id /\ t.offset = o /\ t.childs = Childs(id)
      /\ FrameSound(file', t)
  BY <1>1, <1>2, NewFrame
<1> HIDE DEF t
<1>6. ASSUME NEW c \in Childs(id)
      PROVE  /\ c \in Live(file') /\ Entry(file', c) > o
             /\ Childs(c)' = {}
  <2>1. c \in Live(file') /\ Entry(file', c) > o
    BY <1>4, <1>6 DEF Childs, Shallow
  <2>2. Childs(c)' \subseteq Childs(c) \cap Live(file')
    BY <1>1, <1>4, ChildsKept
  <2>3. Childs(c) \subseteq {id} /\ id \notin Live(file')
    BY <1>4, <1>6 DEF Shallow
  <2> QED BY <2>1, <2>2, <2>3
<1>7. RemoveSound'
  <2>1. \A k \in 1..Len(stack') : FrameSound(file', stack'[k])
    BY <1>3, <1>5
  <2>2. \A c \in stack'[1].childs : /\ c \in Live(file')
                                    /\ Entry(file', c) > stack'[1].offset
                                    /\ Childs(c)' = {}
    BY <1>3, <1>5, <1>6
  <2>3. \A c : Entry(file, c)' = Entry(file', c)
    BY DEF Entry
  <2> QED BY <1>3, <2>1, <2>2, <2>3, Afterwards DEF RemoveSound
<1>8. AddSound'
  BY <1>3 DEF AddSound
<1>9. GrowthSound'
  <2>1. Taken(stack) = {} /\ Taken(stack') = {Pos(o)}
    BY <1>1, <1>3, <1>5 DEF Taken
  <2>2. GrowthCovered(file, {})
    BY <2>1 DEF ShallowInv, GrowthSound
  <2>3. GrowthCovered(file', {} \cup {Pos(o)})
    BY <1>1, <1>2, <2>2, ForgetGrowth
  <2> QED BY <2>1, <2>3, Afterwards
<1>10. NamesSound'
  <2>1. Taken(stack) = {} /\ Taken(stack') = {} \cup {Pos(o)}
    BY <1>1, <1>3, <1>5 DEF Taken
  <2>2. NamesCovered(file, {})
    BY <2>1 DEF ShallowInv, NamesSound
  <2>3. NamesCovered(file', {} \cup {Pos(o)})
    BY <1>1, <1>2, <2>2, ForgetNames
  <2> QED BY <2>1, <2>3, Afterwards
<1> QED BY <1>3, <1>4, <1>5, <1>7, <1>8, <1>9, <1>10, Afterwards DEF ShallowInv

\* Only the tuple the call was made for has childs, and they have none.
LEMMA RemoveChildShallow ==
    ASSUME OnlyIntegers, TypeOK, ShallowInv, RemoveChild, TypeOK'
    PROVE  /\ ShallowInv'
           /\ op' = op /\ before' = before
           /\ stack'[1].id = stack[1].id
           /\ SameTuples(file, file')
           /\ \E c \in stack[1].childs : /\ stack'[1].childs = stack[1].childs \ {c}
                                         /\ Live(file') = Live(file) \ {c}
<1>1. /\ file \in FileType /\ Sound(file) /\ RemoveSound
      /\ op = "remove" /\ op' = "remove" /\ before' = before
      /\ stack \in Seq(FrameType) /\ file' \in FileType
  BY DEF TypeOK, ShallowInv, RemoveChild, RemoveStep
<1>2. PICK c \in Top.childs : Enter(c, [stack EXCEPT ![Len(stack)].childs = @ \ {c}])
  BY DEF RemoveChild
<1>3. /\ Len(stack) = 1 /\ Top = stack[1] /\ stack[1] \in FrameType
      /\ FrameSound(file, stack[1])
      /\ \A d \in stack[1].childs : /\ d \in Live(file)
                                    /\ Entry(file, d) > stack[1].offset
                                    /\ Childs(d) = {}
  <2>1. Len(stack) # 2
    BY <1>1, <1>2 DEF RemoveSound, Top
  <2>2. Len(stack) = 1
    BY <1>1, <2>1 DEF RemoveSound
  <2>3. Top = stack[1] /\ 1 \in 1..Len(stack)
    BY <2>2 DEF Top
  <2>4. stack[1] \in FrameType
    BY <1>1, <2>3, ElementOfSeq
  <2> QED BY <1>1, <2>2, <2>3, <2>4 DEF RemoveSound
<1> DEFINE t == [stack[1] EXCEPT !.childs = @ \ {c}]
           u == Frame(c, Entry(file, c), {})
           callers == [stack EXCEPT ![1] = t]
<1>4. c \in Live(file) /\ Childs(c) = {} /\ Entry(file, c) > stack[1].offset
  BY <1>2, <1>3
<1>5. /\ t \in FrameType
      /\ t.id = stack[1].id /\ t.offset = stack[1].offset /\ t.links = stack[1].links
      /\ t.loaded = stack[1].loaded /\ t.childs = stack[1].childs \ {c}
  BY <1>3 DEF FrameType
<1>6. FrameSound(file, t)
  BY <1>3, <1>5 DEF FrameSound
<1>7. callers = <<t>> /\ callers \in Seq(FrameType) /\ Len(callers) = 1 /\ callers[1] = t
  <2> HIDE DEF t
  <2>1. /\ callers \in Seq(FrameType) /\ Len(callers) = Len(stack)
        /\ \A k \in 1..Len(stack) : callers[k] = IF k = 1 THEN t ELSE stack[k]
    <3>1. t \in FrameType /\ 1 \in 1..Len(stack) /\ stack \in Seq(FrameType)
      BY <1>1, <1>3, <1>5
    <3> QED BY <3>1, ExceptSeq
  <2> HIDE DEF callers
  <2> QED BY <1>3, <2>1
<1>8. file' = RemoveFromIdArray(file, c) /\ stack' = Append(callers, u)
  <2>1. callers = [stack EXCEPT ![Len(stack)].childs = @ \ {c}]
    BY <1>3
  <2>2. Enter(c, callers)
    BY <1>2, <2>1
  <2> HIDE DEF callers
  <2> QED BY <1>4, <2>2, EnterLive
<1>9. /\ Sound(file')
      /\ Live(file') = Live(file) \ {c}
      /\ \A i \in Live(file') : Entry(file', i) = Entry(file, i)
      /\ SameTuples(file, file')
  BY <1>1, <1>4, <1>8, Forget
<1>10. /\ u.id = c /\ u.offset = Entry(file, c) /\ u.childs = {}
       /\ FrameSound(file', u) /\ FrameSound(file', t)
  BY <1>1, <1>4, <1>6, <1>8, NewFrame, FramesForget
<1>11. u \in FrameType
  <2>1. c \in Nat /\ Entry(file, c) \in Nat
    BY <1>1, <1>4, LiveFacts DEF Sound, Live
  <2>2. NoLinks \in [Fields -> Nat]
    BY DEF NoLinks, NullValue
  <2> QED BY <2>1, <2>2 DEF Frame, FrameType
<1> HIDE DEF t, u, callers
<1>12. /\ Len(stack') = 2 /\ stack'[1] = t /\ stack'[2] = u
       /\ Taken(stack') = Taken(callers) \cup {Pos(Entry(file, c))}
  BY <1>7, <1>8, <1>10, <1>11, TakenAppend
<1>13. ASSUME NEW d \in t.childs
       PROVE  /\ d \in Live(file') /\ Entry(file', d) > t.offset
              /\ Childs(d)' = {}
  <2>1. d \in Live(file) /\ d # c /\ Entry(file, d) > stack[1].offset /\ Childs(d) = {}
    BY <1>3, <1>5, <1>13
  <2>2. Childs(d)' \subseteq Childs(d) \cap Live(file')
    BY <1>1, <1>9, ChildsKept
  <2> QED BY <1>5, <1>9, <2>1, <2>2
<1>14. RemoveSound'
  <2>1. \A k \in 1..Len(stack') : FrameSound(file', stack'[k])
    BY <1>10, <1>12
  <2>2. \A d \in stack'[1].childs : /\ d \in Live(file')
                                    /\ Entry(file', d) > stack'[1].offset
                                    /\ Childs(d)' = {}
    BY <1>12, <1>13
  <2>3. \A d : Entry(file, d)' = Entry(file', d)
    BY DEF Entry
  <2>4. stack[1].id # c
    BY <1>3, <1>4 DEF FrameSound
  <2>5. /\ stack'[2].childs = {}
        /\ stack'[1].offset < stack'[2].offset
        /\ stack'[1].id # stack'[2].id
    <3>1. Entry(file, c) \in Nat /\ stack[1].offset \in Nat
      BY <1>1, <1>3, <1>4, LiveFacts DEF Sound, FrameType
    <3> QED BY <1>4, <1>5, <1>10, <1>12, <2>4, <3>1
  <2> QED BY <1>1, <1>12, <2>1, <2>2, <2>3, <2>5, Afterwards DEF RemoveSound
<1>15. AddSound'
  BY <1>1 DEF AddSound
<1>16. GrowthSound'
  <2>1. Taken(callers) = {Pos(stack[1].offset)} /\ Taken(stack) = {Pos(stack[1].offset)}
    BY <1>3, <1>5, <1>7 DEF Taken
  <2>2. Taken(stack) \in SUBSET TuplePositions(file)
    BY <1>3, <2>1 DEF FrameSound
  <2>3. GrowthCovered(file', Taken(stack) \cup {Pos(Entry(file, c))})
    BY <1>1, <1>4, <1>8, <2>2, ForgetGrowth DEF ShallowInv, GrowthSound
  <2> QED BY <1>12, <2>1, <2>3, Afterwards
<1>18. NamesSound'
  <2>1. Taken(callers) = {Pos(stack[1].offset)} /\ Taken(stack) = {Pos(stack[1].offset)}
    BY <1>3, <1>5, <1>7 DEF Taken
  <2>2. NamesCovered(file', Taken(stack) \cup {Pos(Entry(file, c))})
    BY <1>1, <1>4, <1>8, ForgetNames DEF ShallowInv, NamesSound
  <2> QED BY <1>12, <2>1, <2>2, Afterwards
<1>17. /\ c \in stack[1].childs /\ stack'[1].id = stack[1].id
       /\ stack'[1].childs = stack[1].childs \ {c}
  BY <1>2, <1>3, <1>5, <1>12
<1> QED BY <1>1, <1>9, <1>14, <1>15, <1>16, <1>17, <1>18, Afterwards DEF ShallowInv

LEMMA RemovePieceShallow == ASSUME TypeOK, ShallowInv, RemovePiece PROVE FALSE
<1>1. Top.links = NoLinks
  BY DEF RemovePiece, RemoveStep, ShallowInv, RemoveSound, FrameSound, Top
<1> QED BY <1>1 DEF RemovePiece, NoLinks

LEMMA RemoveReadShallow ==
    ASSUME OnlyIntegers, TypeOK, ShallowInv, RemoveRead
    PROVE  /\ ShallowInv'
           /\ file' = file /\ op' = op /\ before' = before
           /\ stack'[1].id = stack[1].id /\ stack'[1].childs = stack[1].childs
<1> DEFINE n == Len(stack)
           t == [Top EXCEPT !.loaded = TRUE, !.links = NoLinks]
<1>1. /\ op = "remove" /\ op' = op /\ file' = file /\ before' = before
      /\ Top.childs = {} /\ RemoveSound
      /\ stack \in Seq(FrameType) /\ stack # <<>>
      /\ stack' = [stack EXCEPT ![n].loaded = TRUE,
                                ![n].links = LinksOf(Top.offset)]
  BY DEF RemoveRead, RemoveStep, ShallowInv, TypeOK, OnlyIntegers
<1>2. LinksOf(Top.offset) = NoLinks
  BY DEF LinksOf, NoLinks, OnlyIntegers
<1>3. n \in 1..Len(stack) /\ Top = stack[n] /\ Top \in FrameType
  BY <1>1, TopType, LenProperties DEF Top, RemoveSound
<1>4. stack' = [stack EXCEPT ![n] = t]
  <2>1. stack' = [stack EXCEPT ![n] = [stack[n] EXCEPT !.loaded = TRUE, !.links = NoLinks]]
    BY <1>1, <1>2, <1>3
  <2> QED BY <1>3, <2>1
<1>5. /\ t \in FrameType
      /\ t.id = Top.id /\ t.offset = Top.offset /\ t.childs = Top.childs
      /\ t.loaded /\ t.links = NoLinks
  <2>1. NoLinks \in [Fields -> Nat]
    BY DEF NoLinks, NullValue
  <2> QED BY <1>3, <2>1 DEF FrameType
<1> HIDE DEF t
<1>6. /\ Len(stack') = Len(stack)
      /\ \A k \in 1..Len(stack) : stack'[k] = IF k = n THEN t ELSE stack[k]
  <2> DEFINE r == [stack EXCEPT ![n] = t]
  <2>1. /\ Len(r) = Len(stack)
        /\ \A k \in 1..Len(stack) : r[k] = IF k = n THEN t ELSE stack[k]
    BY <1>1, <1>3, <1>5, ExceptSeq
  <2> HIDE DEF r
  <2>2. stack' = r
    BY <1>4 DEF r
  <2> QED BY <2>1, <2>2
<1> HIDE DEF n
<1>7. \A k \in 1..Len(stack) :
        /\ stack'[k].id = stack[k].id /\ stack'[k].offset = stack[k].offset
        /\ stack'[k].childs = stack[k].childs
  <2> SUFFICES ASSUME NEW k \in 1..Len(stack)
               PROVE  /\ stack'[k].id = stack[k].id /\ stack'[k].offset = stack[k].offset
                      /\ stack'[k].childs = stack[k].childs
    OBVIOUS
  <2>1. CASE k = n
    BY <1>3, <1>5, <1>6, <2>1
  <2>2. CASE k # n
    BY <1>6, <2>2
  <2> QED BY <2>1, <2>2
<1>8. \A k \in 1..Len(stack) : FrameSound(file, stack'[k])
  <2> SUFFICES ASSUME NEW k \in 1..Len(stack) PROVE FrameSound(file, stack'[k])
    OBVIOUS
  <2>1. FrameSound(file, stack[k])
    BY <1>1 DEF RemoveSound
  <2>2. CASE k = n
    <3>1. stack'[k] = t /\ FrameSound(file, Top)
      BY <1>3, <1>6, <2>1, <2>2
    <3> QED BY <1>1, <1>5, <3>1 DEF FrameSound
  <2>3. CASE k # n
    BY <1>6, <2>1, <2>3
  <2> QED BY <2>2, <2>3
<1>9. RemoveSound'
  <2>1. /\ Len(stack) \in {1, 2} /\ 1 \in 1..Len(stack)
        /\ Len(stack) = 2 => 2 \in 1..Len(stack)
    BY <1>1 DEF RemoveSound
  <2>2. /\ \A d : Entry(file, d)' = Entry(file, d) /\ Childs(d)' = Childs(d)
        /\ Live(file)' = Live(file)
    BY <1>1 DEF Entry, Childs, Live, Ids, HasEntry, CurId, ReadTuple, Inside, HeaderView, Pos
  <2>3. \A k \in 1..Len(stack) : FrameSound(file', stack'[k])
    BY <1>1, <1>8
  <2>4. \A c \in stack'[1].childs : /\ c \in Live(file)'
                                    /\ Entry(file, c)' > stack'[1].offset
                                    /\ Childs(c)' = {}
    <3>1. stack'[1].childs = stack[1].childs /\ stack'[1].offset = stack[1].offset
      BY <1>7, <2>1
    <3>2. \A c \in stack[1].childs : /\ c \in Live(file)
                                     /\ Entry(file, c) > stack[1].offset
                                     /\ Childs(c) = {}
      BY <1>1 DEF RemoveSound
    <3> QED BY <2>2, <3>1, <3>2
  <2>5. Len(stack) = 2 => /\ stack'[2].childs = {}
                          /\ stack'[1].offset < stack'[2].offset
                          /\ stack'[1].id # stack'[2].id
    BY <1>1, <1>7, <2>1 DEF RemoveSound
  <2> QED BY <1>1, <1>6, <2>1, <2>3, <2>4, <2>5, Afterwards DEF RemoveSound
<1>10. GrowthSound' /\ NamesSound'
  <2>1. Taken(stack') = Taken(stack)
    BY <1>6, <1>7 DEF Taken
  <2> QED BY <1>1, <2>1, Afterwards DEF ShallowInv, GrowthSound, NamesSound
<1>11. AddSound' /\ Sound(file)'
  BY <1>1, Afterwards DEF ShallowInv, AddSound
<1>12. 1 \in 1..Len(stack)
  BY <1>1 DEF RemoveSound
<1> QED BY <1>1, <1>7, <1>9, <1>10, <1>11, <1>12 DEF ShallowInv

\* What the last slot of the file is moved into is never the slot of a caller.
LEMMA FramesCut ==
    ASSUME OnlyIntegers, NEW f \in FileType, Sound(f), NEW q \in TuplePositions(f),
           \A id \in Live(f) : Entry(f, id) # Off(q),
           HasEntry(f, f.blk[Len(f.blk)][1]),
           NEW t \in FrameType, FrameSound(f, t), Pos(t.offset) < q
    PROVE  FrameSound(SwapWithLast(f, Off(q)), t)
<1>1. LastArraySlot(f) <= Len(f.blk) /\ Len(f.blk) \in Nat /\ t.offset \in Nat
  BY FileParts DEF Sound, FrameType
<1>2. q \in 1..Len(f.blk) /\ Pos(t.offset) \in TuplePositions(f)
  BY <1>1, TuplePlaces DEF FrameSound
<1>3. Pos(t.offset) # q /\ Pos(t.offset) # Len(f.blk)
  BY <1>1, <1>2 DEF Pos
<1> QED BY <1>2, <1>3, FillAndCut DEF FrameSound

LEMMA RemoveSlotShallow ==
    ASSUME OnlyIntegers, TypeOK, ShallowInv, RemoveSlot, TypeOK'
    PROVE  /\ ShallowInv'
           /\ Live(file') = Live(file)
           /\ SameTuples(file, file')
           /\ IF Len(stack) = 1
              THEN op' = "none" /\ stack[1].childs = {}
              ELSE op' = op /\ before' = before /\ stack'[1] = stack[1]
<1> DEFINE q == Pos(Top.offset)
<1>1. /\ file \in FileType /\ Sound(file) /\ RemoveSound
      /\ op = "remove" /\ stack \in Seq(FrameType) /\ stack # <<>>
      /\ file' = SwapWithLast(file, Top.offset) /\ file' \in FileType
      /\ stack' = SubSeq(stack, 1, Len(stack) - 1)
      /\ op' = IF Len(stack) = 1 THEN "none" ELSE "remove"
      /\ before' = IF Len(stack) = 1 THEN Nothing ELSE before
      /\ Top.loaded
  BY DEF RemoveSlot, RemoveStep, ShallowInv, TypeOK
<1>2. /\ Top \in FrameType /\ Top.offset \in Nat /\ Top.id \notin Live(file)
      /\ q \in TuplePositions(file) /\ file.blk[q][1] = Top.id
      /\ Top.childs = {}
  <2>1. Top \in FrameType
    BY <1>1, TopType
  <2>2. Len(stack) \in 1..Len(stack)
    BY <1>1 DEF RemoveSound
  <2>3. FrameSound(file, Top)
    BY <1>1, <2>2 DEF RemoveSound, Top
  <2> QED BY <1>1, <2>1, <2>3 DEF FrameSound, FrameType
<1> HIDE DEF q
<1>3. q \in Nat /\ Top.offset = Off(q)
  <2>1. q \in Nat
    BY <1>1, <1>2, TuplePlaces DEF Sound
  <2> QED BY <1>2, <2>1, PosInjective DEF q
<1>4. \A i \in Live(file) : Entry(file, i) # Off(q)
  <2> SUFFICES ASSUME NEW i \in Live(file), Entry(file, i) = Off(q) PROVE FALSE
    OBVIOUS
  <2>1. file.blk[Pos(Entry(file, i))][1] = i
    BY <1>1 DEF Sound, EntriesLead
  <2>2. Pos(Off(q)) = q
    BY <1>3, OffPos
  <2> QED BY <1>2, <2>1, <2>2
<1>8. Taken(stack) = IF Len(stack) = 1 THEN {} \cup {q} ELSE {Pos(stack[1].offset)} \cup {q}
  <2>1. CASE Len(stack) = 1
    BY <2>1 DEF Taken, Top, q
  <2>2. CASE Len(stack) = 2
    <3>1. 1..Len(stack) = {1, 2}
      BY <2>2
    <3>2. Taken(stack) = {Pos(stack[1].offset), Pos(stack[2].offset)}
      BY <3>1 DEF Taken
    <3> QED BY <2>2, <3>2 DEF Top, q
  <2> QED BY <1>1, <2>1, <2>2 DEF RemoveSound
\* Where the array has reached, and the slot that is moved into the hole.
<1>9. /\ HasEntry(file, file.blk[Len(file.blk)][1])
      /\ NamesCovered(file', IF Len(stack) = 1 THEN {} ELSE {Pos(stack[1].offset)})
  <2> DEFINE T == IF Len(stack) = 1 THEN {} ELSE {Pos(stack[1].offset)}
  <2>1. NamesCovered(file, T \cup {q})
    BY <1>8 DEF ShallowInv, NamesSound
  <2> HIDE DEF T
  <2> QED BY <1>1, <1>2, <1>3, <1>4, <2>1, CutNames DEF T
<1>5. /\ Sound(file')
      /\ Live(file') = Live(file)
      /\ \A i \in Live(file) : Entry(file', i) = IF Entry(file, i) = Off(Len(file.blk))
                                                 THEN Off(q) ELSE Entry(file, i)
      /\ SameTuples(file, file')
  BY <1>1, <1>2, <1>3, <1>4, <1>9, FillAndCut
<1>6. CASE Len(stack) = 1
  <2>1. stack' = <<>> /\ op' = "none" /\ Len(stack') = 0
    <3>1. 1 \in Int /\ 0 \in Int /\ \A j \in 1..0 : stack[j] \in FrameType
      OBVIOUS
    <3>2. Len(SubSeq(stack, 1, 0)) = 0 /\ SubSeq(stack, 1, 0) \in Seq(FrameType)
      BY <3>1, SubSeqProperties
    <3> QED BY <1>1, <1>6, <3>2
  <2>2. AddSound' /\ RemoveSound'
    BY <2>1 DEF AddSound, RemoveSound
  <2>3. GrowthSound'
    <3>1. Taken(stack') = {} /\ Taken(stack) = {} \cup {q}
      BY <1>6, <2>1 DEF Taken, Top, q
    <3>2. GrowthCovered(file, {} \cup {q})
      BY <3>1 DEF ShallowInv, GrowthSound
    <3>3. \A t \in {} : t \in Nat /\ t < q
      OBVIOUS
    <3>4. GrowthCovered(file', {})
      BY <1>1, <1>2, <1>3, <1>4, <1>9, <3>2, <3>3, CutGrowth
    <3> QED BY <3>1, <3>4, Afterwards
  <2>5. NamesSound'
    <3>1. Taken(stack') = {}
      BY <2>1 DEF Taken
    <3> QED BY <1>6, <1>9, <3>1, Afterwards
  <2>4. stack[1].childs = {}
    BY <1>2, <1>6 DEF Top
  <2> QED BY <1>5, <1>6, <2>1, <2>2, <2>3, <2>4, <2>5, Afterwards DEF ShallowInv
<1>7. CASE Len(stack) = 2
  <2> DEFINE t == stack[1]
  <2>1. /\ Top = stack[2] /\ t \in FrameType /\ FrameSound(file, t)
        /\ t.offset \in Nat /\ t.offset < Top.offset
        /\ \A c \in t.childs : c \in Live(file) /\ Entry(file, c) > t.offset /\ Childs(c) = {}
    <3>1. 1 \in 1..Len(stack) /\ Top = stack[2]
      BY <1>7 DEF Top
    <3>2. t \in FrameType
      BY <1>1, <3>1, ElementOfSeq
    <3> QED BY <1>1, <1>7, <3>1, <3>2 DEF RemoveSound, FrameType
  <2>2. op' = "remove" /\ Len(stack') = 1 /\ stack'[1] = t
    <3>1. 1 \in Int /\ \A j \in 1..1 : stack[j] \in FrameType
      BY <2>1
    <3>2. /\ Len(SubSeq(stack, 1, 1)) = 1 /\ SubSeq(stack, 1, 1) \in Seq(FrameType)
          /\ SubSeq(stack, 1, 1)[1] = stack[1]
      BY <3>1, SubSeqProperties
    <3>3. stack' = SubSeq(stack, 1, 1)
      BY <1>1, <1>7
    <3> QED BY <1>1, <1>7, <3>2, <3>3
  <2> HIDE DEF t
  <2>3. Pos(t.offset) \in Nat /\ Pos(t.offset) < q
    <3>1. Pos(t.offset) \in Nat
      BY <1>1, <2>1, TuplePlaces DEF FrameSound, Sound
    <3> QED BY <1>2, <1>3, <2>1, <3>1 DEF Pos, q
  <2>4. FrameSound(file', t)
    BY <1>1, <1>2, <1>3, <1>4, <1>9, <2>1, <2>3, FramesCut
  <2>5. ASSUME NEW c \in t.childs
        PROVE  /\ c \in Live(file') /\ Entry(file', c) > t.offset /\ Childs(c)' = {}
    <3>1. c \in Live(file) /\ Entry(file, c) > t.offset /\ Childs(c) = {}
      BY <2>1, <2>5
    <3>2. Childs(c)' \subseteq Childs(c) \cap Live(file')
      BY <1>1, <1>5, ChildsKept
    <3>3. Entry(file', c) > t.offset
      BY <1>3, <1>5, <2>1, <3>1
    <3> QED BY <1>5, <3>1, <3>2, <3>3
  <2>6. RemoveSound'
    <3>1. \A d : Entry(file, d)' = Entry(file', d)
      BY DEF Entry
    <3>2. \A k \in 1..Len(stack') : FrameSound(file', stack'[k])
      BY <2>2, <2>4
    <3>3. \A c \in stack'[1].childs : /\ c \in Live(file')
                                      /\ Entry(file', c) > stack'[1].offset
                                      /\ Childs(c)' = {}
      BY <2>2, <2>5
    <3> QED BY <2>2, <3>1, <3>2, <3>3, Afterwards DEF RemoveSound
  <2>7. AddSound'
    BY <2>2 DEF AddSound
  <2>8. GrowthSound'
    <3>1. Taken(stack') = {Pos(t.offset)}
      BY <2>2 DEF Taken
    <3>2. Taken(stack) = {Pos(t.offset)} \cup {q}
      BY <1>7, <1>8 DEF t
    <3>3. GrowthCovered(file, {Pos(t.offset)} \cup {q})
      BY <3>2 DEF ShallowInv, GrowthSound
    <3>4. \A p \in {Pos(t.offset)} : p \in Nat /\ p < q
      BY <2>3
    <3>5. GrowthCovered(file', {Pos(t.offset)})
      <4> DEFINE T == {Pos(t.offset)}
      <4>1. GrowthCovered(file, T \cup {q}) /\ \A p \in T : p \in Nat /\ p < q
        BY <3>3, <3>4
      <4> HIDE DEF q, T
      <4>2. file \in FileType /\ Sound(file) /\ q \in TuplePositions(file)
            /\ HasEntry(file, file.blk[Len(file.blk)][1])
        BY <1>1, <1>2, <1>9
      <4>3. GrowthCovered(SwapWithLast(file, Off(q)), T)
        BY <1>4, <4>1, <4>2, CutGrowth
      <4>4. file' = SwapWithLast(file, Off(q))
        BY <1>1, <1>3
      <4> QED BY <4>3, <4>4 DEF T
    <3> QED BY <3>1, <3>5, Afterwards
  <2>9. NamesSound'
    <3>1. Taken(stack') = {Pos(stack[1].offset)}
      BY <2>2 DEF Taken, t
    <3> QED BY <1>7, <1>9, <3>1, Afterwards
  <2> QED BY <1>1, <1>5, <1>7, <2>2, <2>6, <2>7, <2>8, <2>9, Afterwards DEF ShallowInv, t
<1> QED BY <1>1, <1>6, <1>7 DEF RemoveSound

-----------------------------------------------------------------------------
(***************************************************************************)
(* All steps together, and the theorems.                                   *)
(***************************************************************************)
LEMMA ShallowNextIsNext == ASSUME ShallowNext PROVE Next
BY DEF ShallowNext, LiveUpdate, Next

LEMMA StepShallow ==
    ASSUME OnlyIntegers, TypeOK, ShallowInv, [ShallowNext]_vars
    PROVE  TypeOK' /\ ShallowInv'
<1>1. TypeOK'
  BY ShallowNextIsNext, StepType
<1>2. CASE \E v \in FieldValues, p \in Parents : AddTuple(v, p)
  BY <1>1, <1>2, AddTupleShallow
<1>3. CASE LiveUpdate
  BY <1>1, <1>3, UpdateShallow DEF LiveUpdate
<1>4. CASE \E id \in AllIds : Idle /\ Shallow(id) /\ RemoveTuple(id)
  BY <1>1, <1>4, RemoveTupleShallow
<1>5. CASE Inner
  BY <1>1, <1>5, AddStringShallow, AddIntegerShallow, AddWriteShallow, RemoveChildShallow,
     RemoveReadShallow, RemovePieceShallow, RemoveSlotShallow DEF Inner
<1>6. CASE UNCHANGED vars
  <2>1. file' = file /\ op' = op /\ new' = new /\ stack' = stack
    BY <1>6 DEF vars
  <2>2. \A c : Childs(c)' = Childs(c)
    BY <2>1 DEF Childs, Live, Ids, HasEntry, CurId, Entry, ReadTuple, Inside, HeaderView, Pos
  <2>3. RemoveSound'
    BY <2>1, <2>2 DEF ShallowInv, RemoveSound, FrameSound, Live, Ids, HasEntry, CurId, Entry,
                      TuplePositions, LastArraySlot, Pos
  <2>4. AddSound' /\ Sound(file)' /\ GrowthSound' /\ NamesSound'
    BY <2>1, Afterwards DEF ShallowInv, AddSound, SmallWords, GrowthSound, NamesSound
  <2> QED BY <1>1, <2>3, <2>4 DEF ShallowInv
<1> QED BY <1>1, <1>2, <1>3, <1>4, <1>5, <1>6 DEF ShallowNext

LEMMA ShallowInductive ==
    ASSUME OnlyIntegers
    PROVE  ShallowSpec => [](TypeOK /\ ShallowInv)
<1>1. Init => TypeOK /\ ShallowInv
  BY InitType, InitShallow
<1>2. TypeOK /\ ShallowInv /\ [ShallowNext]_vars => (TypeOK /\ ShallowInv)'
  BY StepShallow
<1> QED BY <1>1, <1>2, PTL DEF ShallowSpec

(***************************************************************************)
(* Files of integer tuples: as long as only shallow tuples are removed, no *)
(* call of the storage interface takes a slot from a tuple that is in use, *)
(* wherever removals and the growing array move it.                        *)
(***************************************************************************)
THEOREM ShallowCorrect ==
    ASSUME OnlyIntegers
    PROVE  ShallowSpec => []ShallowInv
<1>1. TypeOK /\ ShallowInv => ShallowInv
  OBVIOUS
<1> QED BY <1>1, ShallowInductive, PTL

(***************************************************************************)
(* A removal never leaves the file: the offsets that the activations of    *)
(* remove_recursive_tuple_with_values keep, while slots are moved, are     *)
(* those of slots.                                                         *)
(***************************************************************************)
THEOREM ShallowStaysInside ==
    ASSUME OnlyIntegers
    PROVE  ShallowSpec => []StaysInside
<1>1. ASSUME TypeOK, ShallowInv PROVE StaysInside
  <2>1. file \in FileType /\ ~file.lost /\ LastArraySlot(file) <= Len(file.blk)
    BY <1>1 DEF TypeOK, ShallowInv, Sound
  <2>2. CASE op # "remove"
    <3>1. stack = <<>> /\ Len(stack) = 0
      BY <1>1, <2>2, EmptySeq DEF ShallowInv, RemoveSound
    <3> QED BY <2>1, <3>1 DEF StaysInside
  <2>3. CASE op = "remove"
    <3>1. \A k \in 1..Len(stack) : Pos(stack[k].offset) \in TuplePositions(file)
      BY <1>1, <2>3 DEF ShallowInv, RemoveSound, FrameSound
    <3>2. \A k \in 1..Len(stack) : Inside(file, stack[k].offset)
      BY <2>1, <3>1, TuplePlaces DEF Inside
    <3> QED BY <2>1, <3>2 DEF StaysInside
  <2> QED BY <2>2, <2>3
<1> QED BY <1>1, ShallowInductive, PTL

(***************************************************************************)
(* However often the array has grown, been given back and grown again, the *)
(* entry that append_to_id_array writes next lies before every tuple.      *)
(***************************************************************************)
THEOREM ShallowArrayApart ==
    ASSUME OnlyIntegers
    PROVE  ShallowSpec => []ArrayApart
<1>1. ASSUME TypeOK, ShallowInv PROVE ArrayApart
  <2>1. /\ file \in FileType /\ EntriesLead(file)
        /\ LastArraySlot(file) <= Len(file.blk)
    BY <1>1 DEF TypeOK, ShallowInv, Sound
  <2>2. \A id \in Live(file) : Pos(Entry(file, id)) > LastArraySlot(file)
    BY <2>1, TuplePlaces DEF EntriesLead
  <2> QED BY <2>2 DEF ArrayApart, LastArraySlot
<1> QED BY <1>1, ShallowInductive, PTL

(***************************************************************************)
(* After every step of every call, each id that find_all and id_to_offset  *)
(* find leads to the slot that holds its tuple.                            *)
(***************************************************************************)
THEOREM ShallowEntriesReachTuples ==
    ASSUME OnlyIntegers
    PROVE  ShallowSpec => []EntriesReachTuples
<1>1. ASSUME TypeOK, ShallowInv PROVE EntriesReachTuples
  <2>1. /\ file \in FileType /\ EntriesLead(file)
        /\ LastArraySlot(file) <= Len(file.blk)
    BY <1>1 DEF TypeOK, ShallowInv, Sound
  <2> SUFFICES ASSUME NEW id \in Live(file)
               PROVE  /\ Inside(file, Entry(file, id))
                      /\ ReadTuple(file, Entry(file, id))[1] = id
    BY DEF EntriesReachTuples
  <2>2. /\ Pos(Entry(file, id)) \in TuplePositions(file)
        /\ file.blk[Pos(Entry(file, id))][1] = id
    BY <2>1 DEF EntriesLead
  <2>3. Inside(file, Entry(file, id))
    BY <2>1, <2>2, TuplePlaces DEF Inside
  <2> QED BY <2>2, <2>3 DEF ReadTuple
<1> QED BY <1>1, ShallowInductive, PTL

(***************************************************************************)
(* The loop of remove_recursive_tuple_with_values over a tuple's childs    *)
(* gives up no slot twice, although each turn moves a slot: the tuples     *)
(* being removed are different ones in different slots, and none of them   *)
(* can be found by its id any more.                                        *)
(***************************************************************************)
THEOREM ShallowRemovedOnce ==
    ASSUME OnlyIntegers
    PROVE  ShallowSpec => []RemovedOnce
<1>1. ASSUME TypeOK, ShallowInv PROVE RemovedOnce
  <2> SUFFICES ASSUME op = "remove", NEW i \in 1..Len(stack)
               PROVE  /\ stack[i].id \notin Live(file)
                      /\ \A j \in 1..Len(stack) : i # j =>
                           stack[i].id # stack[j].id /\ stack[i].offset # stack[j].offset
    BY DEF RemovedOnce
  <2>1. FrameSound(file, stack[i])
    BY <1>1 DEF ShallowInv, RemoveSound
  <2>2. ASSUME NEW j \in 1..Len(stack), i # j
        PROVE  stack[i].id # stack[j].id /\ stack[i].offset # stack[j].offset
    <3>1. Len(stack) = 2 /\ {i, j} = {1, 2}
      BY <1>1, <2>2 DEF ShallowInv, RemoveSound
    <3>2. stack[1].offset < stack[2].offset /\ stack[1].id # stack[2].id
      BY <1>1, <3>1 DEF ShallowInv, RemoveSound
    <3>3. stack[1].offset \in Nat /\ stack[2].offset \in Nat
      <4>1. stack[1] \in FrameType /\ stack[2] \in FrameType
        BY <1>1, <3>1, ElementOfSeq DEF TypeOK
      <4> QED BY <4>1 DEF FrameType
    <3> QED BY <3>1, <3>2, <3>3
  <2> QED BY <2>1, <2>2 DEF FrameSound
<1> QED BY <1>1, ShallowInductive, PTL

-----------------------------------------------------------------------------
\* A step that leaves every tuple that is live before and after it as it was.
LEMMA BeforeKept ==
    ASSUME OnlyIntegers, TypeOK, ShallowInv, TypeOK', ShallowInv',
           Live(file') \subseteq Live(file), SameTuples(file, file'),
           SameAsBefore(Live(file))
    PROVE  \A id \in Live(file') : Contents(file')[id] = before[id]
<1>1. file \in FileType /\ Sound(file) /\ file' \in FileType /\ Sound(file')
  BY Afterwards DEF TypeOK, ShallowInv
<1>2. \A id \in Live(file') : Contents(file')[id] = Contents(file)[id]
  BY <1>1, ContentsKept
<1> QED BY <1>2 DEF SameAsBefore

-----------------------------------------------------------------------------
(***************************************************************************)
(* Each step keeps CallTraced.                                             *)
(***************************************************************************)
LEMMA AddTupleTraced ==
    ASSUME OnlyIntegers, TypeOK, ShallowInv, NEW v \in FieldValues, NEW p \in Parents,
           AddTuple(v, p), TypeOK'
    PROVE  CallTraced'
<1> DEFINE c == CurId(file)
<1>1. /\ ShallowInv'
      /\ CurId(file') - 1 = c /\ c \notin Live(file)
      /\ Live(file') = Live(file) \cup {c}
      /\ Entry(file', c) = End(file)
      /\ SameTuples(file, file')
  BY AddTupleShallow
<1>2. /\ op' = "add" /\ before' = Contents(file)
      /\ new'.at = End(file) /\ new'.slot = NewSlot(file, p) /\ new'.n = 1
  BY DEF AddTuple
<1>3. file \in FileType /\ Sound(file) /\ file' \in FileType /\ Sound(file')
  BY <1>1, Afterwards DEF TypeOK, ShallowInv
<1>4. DOMAIN before' = Live(file)
  BY <1>2, <1>3, ContentsRead
<1> HIDE DEF c
<1>5. \A id \in DOMAIN before' : Contents(file')[id] = before'[id]
  BY <1>1, <1>2, <1>3, <1>4, ContentsKept
<1>6. new'.slot[0] \in Parents
  <2>1. 0 \in Words
    BY DEF Words
  <2> QED BY <1>2, <2>1 DEF NewSlot
<1>7. \A n \in Fields : ~(n < new'.n)
  BY <1>2 DEF Fields
<1>8. AddTraced'
  BY <1>1, <1>2, <1>4, <1>5, <1>6, <1>7, ContentsThen DEF AddTraced, SameAsBefore
<1>9. RemoveTraced'
  BY <1>2 DEF RemoveTraced
<1> QED BY <1>8, <1>9 DEF CallTraced

LEMMA AddIntegerTraced ==
    ASSUME OnlyIntegers, TypeOK, ShallowInv, CallTraced, AddInteger
    PROVE  CallTraced'
<1> DEFINE w == FieldWord(new.n)
           i == new.fields[new.n][1]
<1>1. /\ op = "add" /\ op' = op /\ file' = file /\ before' = before
      /\ new.n \in Fields
      /\ new' = [new EXCEPT !.slot[w] = i, !.n = @ + 1]
      /\ new \in NewType /\ new.slot \in WordBlock
      /\ AddTraced
  BY DEF AddInteger, AddStep, TypeOK, CallTraced
<1>2. w \in Words /\ w >= 2
  BY <1>1, FieldWordType
<1>3. \A n \in Fields : FieldWord(n) \in Words /\ (FieldWord(n) = w <=> n = new.n)
  <2>1. new.n \in Int /\ \A n \in Fields : n \in Int
    BY <1>1 DEF Fields
  <2>2. \A n \in Fields : FieldWord(n) \in Words
    BY FieldWordType
  <2> QED BY <2>1, <2>2 DEF FieldWord, HeaderWords
<1> HIDE DEF w
<1>4. /\ new'.at = new.at /\ new'.n = new.n + 1 /\ new'.fields = new.fields
      /\ new'.slot = [new.slot EXCEPT ![w] = i]
  BY <1>1 DEF NewType
<1>5. \A x \in Words : new'.slot[x] = IF x = w THEN i ELSE new.slot[x]
  BY <1>1, <1>4 DEF WordBlock
<1>6. new'.slot[0] = new.slot[0]
  BY <1>2, <1>5 DEF Words
<1>7. ASSUME NEW n \in Fields, n < new'.n
      PROVE  new'.slot[FieldWord(n)] = new'.fields[n][1]
  <2>1. new'.slot[FieldWord(n)] = IF n = new.n THEN i ELSE new.slot[FieldWord(n)]
    BY <1>3, <1>5
  <2>2. n # new.n => n < new.n
    BY <1>1, <1>4, <1>7 DEF Fields
  <2>3. n < new.n => new.slot[FieldWord(n)] = new.fields[n][1]
    BY <1>1 DEF AddTraced
  <2> QED BY <1>4, <2>1, <2>2, <2>3
<1> HIDE DEF i
<1>8. AddTraced'
  BY <1>1, <1>4, <1>6, <1>7, ContentsThen DEF AddTraced, SameAsBefore
<1>9. RemoveTraced'
  BY <1>1 DEF RemoveTraced
<1> QED BY <1>8, <1>9 DEF CallTraced

\* With no call in progress there is nothing to trace.
LEMMA NoneTraced == ASSUME op' = "none" PROVE CallTraced'
BY DEF CallTraced, AddTraced, RemoveTraced

LEMMA RemoveTupleTraced ==
    ASSUME OnlyIntegers, TypeOK, ShallowInv, NEW id \in AllIds, Shallow(id),
           Idle, RemoveTuple(id), TypeOK'
    PROVE  CallTraced'
<1> DEFINE S == Childs(id)
<1>1. /\ ShallowInv'
      /\ op' = "remove" /\ before' = Contents(file)
      /\ stack'[1].id = id /\ stack'[1].childs = S
      /\ Live(file') = Live(file) \ {id}
      /\ SameTuples(file, file')
  BY RemoveTupleShallow
<1>2. /\ file \in FileType /\ Sound(file) /\ file' \in FileType /\ Sound(file')
      /\ id \in Live(file) /\ \A c \in S : Childs(c) \subseteq {id}
  BY <1>1, Afterwards DEF TypeOK, ShallowInv, Shallow
<1>3. /\ DOMAIN before' = Live(file)
      /\ \A c \in Live(file) : before'[c].parent = ReadTuple(file, Entry(file, c))[0]
  <2>1. \A b : TupleIn(b).parent = b[0]
    BY DEF TupleIn
  <2>2. DOMAIN Contents(file) = Live(file)
    BY <1>2, ContentsRead
  <2>3. \A c \in Live(file) : Contents(file)[c] = TupleIn(ReadTuple(file, Entry(file, c)))
    BY <1>2, ContentsRead
  <2> QED BY <1>1, <2>1, <2>2, <2>3
<1>4. \A d : Childs(d) = {c \in DOMAIN before' \ {d} : before'[c].parent = d}
  BY <1>3 DEF Childs
<1>5. ChildsBefore(id)' = S
  BY <1>4 DEF ChildsBefore
<1>6. \A i \in Live(file') : Contents(file')[i] = before'[i]
  BY <1>1, <1>2, ContentsKept
<1>7. ASSUME NEW i \in DOMAIN before' \ {id} PROVE before'[i].parent \notin S
  <2> SUFFICES ASSUME before'[i].parent \in S PROVE FALSE
    OBVIOUS
  <2> DEFINE c == before'[i].parent
  <2>1. c # id /\ before'[c].parent = id /\ Childs(c) \subseteq {id}
    BY <1>2, <1>4
  <2>2. i = c
    BY <1>4, <2>1
  <2> QED BY <2>1, <2>2
<1> HIDE DEF S
<1>8. RemoveTraced'
  BY <1>1, <1>2, <1>3, <1>5, <1>6, <1>7, ContentsThen
     DEF RemoveTraced, SameAsBefore, ChildsBefore
<1>9. AddTraced'
  BY <1>1 DEF AddTraced
<1> QED BY <1>8, <1>9 DEF CallTraced

LEMMA RemoveChildTraced ==
    ASSUME OnlyIntegers, TypeOK, ShallowInv, CallTraced, RemoveChild, TypeOK'
    PROVE  CallTraced'
<1> DEFINE id == stack[1].id
<1>1. /\ ShallowInv'
      /\ op' = op /\ before' = before /\ op = "remove"
      /\ stack'[1].id = id
      /\ SameTuples(file, file')
  BY RemoveChildShallow DEF RemoveChild, RemoveStep
<1>2. PICK c \in stack[1].childs : /\ stack'[1].childs = stack[1].childs \ {c}
                                   /\ Live(file') = Live(file) \ {c}
  BY RemoveChildShallow
<1>3. /\ id \in AllIds \cap DOMAIN before
      /\ stack[1].childs \subseteq ChildsBefore(id)
      /\ Live(file) = DOMAIN before \ ({id} \cup (ChildsBefore(id) \ stack[1].childs))
      /\ SameAsBefore(Live(file))
      /\ \A i \in DOMAIN before \ {id} : before[i].parent \notin ChildsBefore(id)
  BY <1>1 DEF CallTraced, RemoveTraced
<1>4. ChildsBefore(id) \subseteq DOMAIN before \ {id}
  BY DEF ChildsBefore
<1>5. \A i \in Live(file') : Contents(file')[i] = before[i]
  BY <1>1, <1>2, <1>3, BeforeKept
<1>6. ChildsBefore(stack[1].id)' = ChildsBefore(id)
  BY <1>1 DEF ChildsBefore
<1>7. Live(file') = DOMAIN before \ ({id} \cup (ChildsBefore(id) \ stack'[1].childs))
  BY <1>2, <1>3, <1>4
<1> HIDE DEF id
<1>8. RemoveTraced'
  BY <1>1, <1>2, <1>3, <1>5, <1>6, <1>7, ContentsThen DEF RemoveTraced, SameAsBefore
<1>9. AddTraced'
  BY <1>1 DEF AddTraced
<1> QED BY <1>8, <1>9 DEF CallTraced

LEMMA RemoveReadTraced ==
    ASSUME OnlyIntegers, TypeOK, ShallowInv, CallTraced, RemoveRead
    PROVE  CallTraced'
<1>1. /\ file' = file /\ op' = op /\ before' = before /\ op = "remove"
      /\ stack'[1].id = stack[1].id /\ stack'[1].childs = stack[1].childs
  BY RemoveReadShallow DEF RemoveRead, RemoveStep
<1>2. RemoveTraced'
  BY <1>1, ContentsThen DEF CallTraced, RemoveTraced, SameAsBefore, ChildsBefore
<1>3. AddTraced'
  BY <1>1 DEF AddTraced
<1> QED BY <1>2, <1>3 DEF CallTraced

LEMMA RemoveSlotTraced ==
    ASSUME OnlyIntegers, TypeOK, ShallowInv, CallTraced, RemoveSlot, TypeOK'
    PROVE  CallTraced'
<1>1. /\ ShallowInv'
      /\ Live(file') = Live(file)
      /\ SameTuples(file, file')
      /\ IF Len(stack) = 1 THEN op' = "none" /\ stack[1].childs = {}
                           ELSE op' = op /\ before' = before /\ stack'[1] = stack[1]
  BY RemoveSlotShallow
<1>2. CASE Len(stack) = 1
  BY <1>1, <1>2, NoneTraced
<1>3. CASE Len(stack) # 1
  <2>1. op = "remove" /\ RemoveTraced /\ SameAsBefore(Live(file))
    BY DEF RemoveSlot, RemoveStep, CallTraced, RemoveTraced
  <2>2. \A i \in Live(file') : Contents(file')[i] = before[i]
    BY <1>1, <2>1, BeforeKept
  <2>3. RemoveTraced'
    BY <1>1, <1>3, <2>1, <2>2, ContentsThen DEF RemoveTraced, SameAsBefore, ChildsBefore
  <2>4. AddTraced'
    BY <1>1, <1>3, <2>1 DEF AddTraced
  <2> QED BY <2>3, <2>4 DEF CallTraced
<1> QED BY <1>2, <1>3

LEMMA StepTraced ==
    ASSUME OnlyIntegers, TypeOK, ShallowInv, CallTraced, [ShallowNext]_vars, TypeOK'
    PROVE  CallTraced'
<1>1. CASE \E v \in FieldValues, p \in Parents : AddTuple(v, p)
  BY <1>1, AddTupleTraced
<1>2. CASE LiveUpdate
  BY <1>2, NoneTraced DEF LiveUpdate, Idle, Update
<1>3. CASE \E id \in AllIds : Idle /\ Shallow(id) /\ RemoveTuple(id)
  BY <1>3, RemoveTupleTraced
<1>4. CASE Inner
  <2>1. CASE AddWrite
    BY <2>1, NoneTraced DEF AddWrite
  <2> QED BY <1>4, <2>1, AddStringShallow, AddIntegerTraced, RemoveChildTraced,
             RemoveReadTraced, RemovePieceShallow, RemoveSlotTraced DEF Inner
<1>5. CASE UNCHANGED vars
  BY <1>5, ContentsThen DEF vars, CallTraced, AddTraced, RemoveTraced, SameAsBefore, ChildsBefore
<1> QED BY <1>1, <1>2, <1>3, <1>4, <1>5 DEF ShallowNext

LEMMA TracedInductive ==
    ASSUME OnlyIntegers
    PROVE  ShallowSpec => [](TypeOK /\ ShallowInv /\ CallTraced)
<1>1. Init => TypeOK /\ ShallowInv /\ CallTraced
  BY InitType, InitShallow DEF Init, CallTraced, AddTraced, RemoveTraced
<1>2. TypeOK /\ ShallowInv /\ CallTraced /\ [ShallowNext]_vars
        => (TypeOK /\ ShallowInv /\ CallTraced)'
  BY StepShallow, StepTraced
<1> QED BY <1>1, <1>2, PTL DEF ShallowSpec

(***************************************************************************)
(* What the file holds between two steps of a call is what it held before, *)
(* but for what add_tuple or remove_tuple has done so far.                 *)
(***************************************************************************)
THEOREM ShallowCallTraced ==
    ASSUME OnlyIntegers
    PROVE  ShallowSpec => []CallTraced
<1>1. TypeOK /\ ShallowInv /\ CallTraced => CallTraced
  OBVIOUS
<1> QED BY <1>1, TracedInductive, PTL

(***************************************************************************)
(* A process killed at any point of add_tuple or remove_tuple leaves every *)
(* other tuple as it was when the call began.                              *)
(***************************************************************************)
THEOREM ShallowOthersReadable ==
    ASSUME OnlyIntegers
    PROVE  ShallowSpec => []OthersReadable
<1>1. ASSUME TypeOK, CallTraced PROVE OthersReadable
  <2> SUFFICES ASSUME op # "none", NEW id \in DOMAIN before \cap Live(file)
               PROVE  Contents(file)[id] = before[id]
    BY DEF OthersReadable
  <2>1. CASE op = "add"
    BY <1>1, <2>1 DEF CallTraced, AddTraced, SameAsBefore
  <2>2. CASE op = "remove"
    BY <1>1, <2>2 DEF CallTraced, RemoveTraced, SameAsBefore
  <2> QED BY <1>1, <2>1, <2>2 DEF TypeOK
<1>2. TypeOK /\ ShallowInv /\ CallTraced => OthersReadable
  BY <1>1
<1> QED BY <1>2, TracedInductive, PTL

-----------------------------------------------------------------------------
\* The words a sound file has for a live tuple.
LEMMA TupleFields ==
    /\ \A b : /\ TupleIn(b).parent = b[0]
              /\ DOMAIN TupleIn(b).fields = Fields
              /\ \A n \in Fields : TupleIn(b).fields[n] = <<b[FieldWord(n)]>>
    /\ \A b, c : (/\ b[0] = c[0]
                  /\ \A n \in Fields : b[FieldWord(n)] = c[FieldWord(n)])
                 => TupleIn(b) = TupleIn(c)
<1>1. \A b : TupleIn(b) = [parent |-> b[0], fields |-> [n \in Fields |-> <<b[FieldWord(n)]>>]]
  BY DEF TupleIn
<1>2. \A b : TupleIn(b).parent = b[0]
  BY <1>1
<1>3. \A b : TupleIn(b).fields = [n \in Fields |-> <<b[FieldWord(n)]>>]
  BY <1>1
<1>4. ASSUME NEW b, NEW c, b[0] = c[0],
             \A n \in Fields : b[FieldWord(n)] = c[FieldWord(n)]
      PROVE  TupleIn(b) = TupleIn(c)
  <2>1. [n \in Fields |-> <<b[FieldWord(n)]>>] = [n \in Fields |-> <<c[FieldWord(n)]>>]
    BY <1>4
  <2> QED BY <1>1, <1>4, <2>1
<1> QED BY <1>2, <1>3, <1>4

\* The values of a field are one word each, and any of them is one of some tuple.
LEMMA IntegerValues ==
    ASSUME OnlyIntegers, NEW n \in Fields
    PROVE  /\ Values(n) = {<<i>> : i \in Ints}
           /\ \A v \in Values(n) : v = <<v[1]>>
           /\ \A v \in Values(n) : v \in {w[n] : w \in FieldValues}
<1>1. \A m \in Fields : Values(m) = {<<i>> : i \in Ints}
  BY DEF OnlyIntegers, StringFields, Values
<1>2. \A v \in Values(n) : v = <<v[1]>>
  BY <1>1
<1>3. ASSUME NEW v \in Values(n) PROVE v \in {w[n] : w \in FieldValues}
  <2> DEFINE w == [m \in Fields |-> v]
  <2>1. \A m \in Fields : v \in Values(m)
    BY <1>1
  <2>2. w \in [Fields -> UNION {Values(m) : m \in Fields}]
    BY <2>1
  <2>3. w \in FieldValues
    BY <2>1, <2>2 DEF FieldValues
  <2>4. w[n] = v
    OBVIOUS
  <2> QED BY <2>3, <2>4
<1> QED BY <1>1, <1>2, <1>3

\* One tuple is written anew, the others are read as they were.
LEMMA RefillContents ==
    ASSUME OnlyIntegers, TypeOK, ShallowInv,
           NEW id \in Live(file),
           NEW b \in WordBlock, SmallWords(b), b[1] = file.blk[Pos(Entry(file, id))][1],
           file' = WriteTuple(file, Off(Pos(Entry(file, id))), b)
    PROVE  /\ DOMAIN Contents(file') = Live(file)
           /\ Contents(file') = [i \in Live(file) |-> IF i = id THEN TupleIn(b)
                                                               ELSE Contents(file)[i]]
<1> DEFINE q == Pos(Entry(file, id))
<1>1. /\ file \in FileType /\ Sound(file) /\ EntriesLead(file)
      /\ q \in TuplePositions(file)
  BY DEF TypeOK, ShallowInv, Sound, EntriesLead
<1> HIDE DEF q
<1>2. /\ file' \in FileType
      /\ Sound(file')
      /\ Live(file') = Live(file)
      /\ \A i \in Live(file) : Entry(file', i) = Entry(file, i)
      /\ \A x \in TuplePositions(file) : file'.blk[x] = IF x = q THEN b ELSE file.blk[x]
  BY <1>1, Refill DEF q
<1>3. ASSUME NEW i \in Live(file)
      PROVE  Contents(file')[i] = IF i = id THEN TupleIn(b) ELSE Contents(file)[i]
  <2> DEFINE x == Pos(Entry(file, i))
  <2>1. x \in TuplePositions(file) /\ file.blk[x][1] = i /\ file.blk[q][1] = id
    BY <1>1 DEF EntriesLead, q
  <2>2. x = q <=> i = id
    BY <2>1 DEF q
  <2>3. Contents(file')[i] = TupleIn(file'.blk[x])
    BY <1>2, ContentsRead
  <2>4. Contents(file)[i] = TupleIn(file.blk[x])
    BY <1>1, ContentsRead
  <2>5. file'.blk[x] = IF x = q THEN b ELSE file.blk[x]
    BY <1>2, <2>1
  <2> HIDE DEF x
  <2> QED BY <2>2, <2>3, <2>4, <2>5
<1>4. DOMAIN Contents(file') = Live(file)
  BY <1>2, ContentsRead
<1>5. Contents(file') = [i \in Live(file') |-> Contents(file')[i]]
  BY DEF Contents
<1> QED BY <1>2, <1>3, <1>4, <1>5

\* The second write of a tuple: now it is there, with its parent and its fields.
LEMMA AddWriteAdds ==
    ASSUME OnlyIntegers, TypeOK, ShallowInv, CallTraced, AddWrite
    PROVE  \E id \in AllIds, t \in Store!TupleType : Store!Add(id, t)
<1> DEFINE id == CurId(file) - 1
           b  == new.slot
           t  == [parent |-> b[0], fields |-> new.fields]
<1>1. /\ op = "add" /\ op' = "none" /\ new.n = PatternSize + 1
      /\ file \in FileType /\ Sound(file) /\ new.fields \in FieldValues
  BY DEF AddWrite, AddStep, TypeOK, ShallowInv
<1>2. /\ id \in Live(file) /\ Entry(file, id) = new.at
      /\ DOMAIN before = Live(file) \ {id}
      /\ \A i \in DOMAIN before : Contents(file)[i] = before[i]
      /\ b[0] \in Parents
      /\ \A n \in Fields : n < new.n => b[FieldWord(n)] = new.fields[n][1]
  BY <1>1 DEF CallTraced, AddTraced, SameAsBefore
<1>3. /\ b \in WordBlock /\ SmallWords(b) /\ b[1] = file.blk[Pos(new.at)][1]
      /\ file' = WriteTuple(file, Off(Pos(new.at)), b)
  BY AddWriteRefills
<1>4. id \in AllIds
  <2>1. id \in 0..CurId(file) - 1 /\ CurId(file) \in Nat /\ CurId(file) <= MaxIds
    BY <1>1, <1>2, FileParts DEF Live, Ids, Sound
  <2> QED BY <2>1, MaxIdsAssumption DEF AllIds
<1>5. t \in Store!TupleType
  BY <1>1, <1>2 DEF Store!TupleType
<1> HIDE DEF id
<1>6. TupleIn(b) = t
  <2>1. \A n \in Fields : n < new.n
    BY <1>1 DEF Fields
  <2>2. \A n \in Fields : new.fields[n] \in Values(n)
    BY <1>1 DEF FieldValues
  <2>3. \A n \in Fields : <<b[FieldWord(n)]>> = new.fields[n]
    BY <1>2, <2>1, <2>2, IntegerValues
  <2>4. new.fields = [n \in Fields |-> new.fields[n]]
    BY <1>1 DEF FieldValues
  <2>5. [n \in Fields |-> <<b[FieldWord(n)]>>] = new.fields
    BY <2>3, <2>4
  <2> QED BY <2>5 DEF TupleIn
<1> HIDE DEF b, t
<1>7. Contents(file') = [i \in Live(file) |-> IF i = id THEN t ELSE Contents(file)[i]]
  BY <1>2, <1>3, <1>6, RefillContents
<1>8. Promised = before /\ Promised' = Contents(file')
  BY <1>1, PromisedThen DEF Promised
<1>9. Promised' = [i \in DOMAIN before \cup {id} |-> IF i = id THEN t ELSE before[i]]
  <2>1. DOMAIN before \cup {id} = Live(file)
    BY <1>2
  <2>2. \A i \in Live(file) : i # id => Contents(file)[i] = before[i]
    BY <1>2
  <2> QED BY <1>7, <1>8, <2>1, <2>2
<1>10. Store!Add(id, t)
  BY <1>2, <1>8, <1>9 DEF Store!Add, Promised
<1> QED BY <1>4, <1>5, <1>10

LEMMA UpdateUpdates ==
    ASSUME OnlyIntegers, TypeOK, ShallowInv, NEW n \in Fields, NEW v \in Values(n),
           NEW id \in AllIds, Idle, id \in Live(file), Update(n, v, id)
    PROVE  Store!Update(id, n, v)
<1> DEFINE q == Pos(Entry(file, id))
           b == [file.blk[q] EXCEPT ![FieldWord(n)] = v[1]]
           C == Contents(file)
<1>1. file \in FileType /\ Sound(file) /\ op = "none" /\ op' = "none"
  BY DEF TypeOK, ShallowInv, Idle, Update
<1>2. /\ q \in TuplePositions(file)
      /\ b \in WordBlock /\ SmallWords(b) /\ b[1] = file.blk[q][1]
      /\ file' = WriteTuple(file, Off(q), b)
  BY UpdateRefills
<1>3. Contents(file') = [i \in Live(file) |-> IF i = id THEN TupleIn(b) ELSE C[i]]
  BY <1>2, RefillContents
<1>4. /\ C[id] = TupleIn(file.blk[q]) /\ DOMAIN C = Live(file)
      /\ C = [i \in Live(file) |-> TupleIn(file.blk[Pos(Entry(file, i))])]
  BY <1>1, ContentsRead
<1>5. /\ \A w \in Words : b[w] = IF w = FieldWord(n) THEN v[1] ELSE file.blk[q][w]
      /\ \A m \in Fields : FieldWord(m) \in Words /\ (FieldWord(m) = FieldWord(n) <=> m = n)
      /\ 0 \in Words /\ FieldWord(n) # 0
  <2>1. file.blk[q] \in WordBlock
    BY <1>1, <1>2, TuplePlaces DEF Sound
  <2>2. FieldWord(n) \in Words /\ FieldWord(n) >= 2
    BY FieldWordType
  <2>3. \A w \in Words : b[w] = IF w = FieldWord(n) THEN v[1] ELSE file.blk[q][w]
    BY <2>1 DEF WordBlock
  <2>4. \A m \in Fields : m \in Int /\ FieldWord(m) \in Words
    BY FieldWordType DEF Fields
  <2>5. \A m \in Fields : FieldWord(m) = FieldWord(n) <=> m = n
    BY <2>4 DEF FieldWord, HeaderWords
  <2> QED BY <2>2, <2>3, <2>4, <2>5 DEF Words
<1> HIDE DEF b, q, C
<1>6. TupleIn(b) = [C[id] EXCEPT !.fields[n] = v]
  <2> DEFINE old == [m \in Fields |-> <<file.blk[q][FieldWord(m)]>>]
             now == [m \in Fields |-> <<b[FieldWord(m)]>>]
  <2>1. b[0] = file.blk[q][0]
    BY <1>5
  <2>2. \A m \in Fields : <<b[FieldWord(m)]>> = IF m = n THEN v ELSE <<file.blk[q][FieldWord(m)]>>
    BY <1>5, IntegerValues
  <2>3. now = [old EXCEPT ![n] = v]
    BY <2>2
  <2>4. C[id] = [parent |-> b[0], fields |-> old]
    BY <1>4, <2>1 DEF TupleIn
  <2>5. TupleIn(b) = [parent |-> b[0], fields |-> now]
    BY DEF TupleIn
  <2> HIDE DEF old, now
  <2>6. C[id].fields = old
    BY <2>4
  <2>7. [C[id] EXCEPT !.fields = now] = [parent |-> b[0], fields |-> now]
    BY <2>4
  <2>8. [C[id] EXCEPT !.fields[n] = v] = [C[id] EXCEPT !.fields = now]
    BY <2>3, <2>6
  <2> QED BY <2>5, <2>7, <2>8
<1>7. Contents(file') = [C EXCEPT ![id] = TupleIn(b)]
  BY <1>3, <1>4
<1>8. Promised = C /\ Promised' = Contents(file')
  BY <1>1, PromisedThen DEF Promised, C
<1>9. Promised' = [Promised EXCEPT ![id].fields[n] = v]
  BY <1>6, <1>7, <1>8
<1> QED BY <1>4, <1>8, <1>9 DEF Store!Update, Promised

\* What is below a shallow tuple is the tuple and its childs.
LEMMA BelowShallow ==
    ASSUME NEW id \in DOMAIN before, op # "none",
           \A i \in DOMAIN before \ {id} : before[i].parent \notin ChildsBefore(id)
    PROVE  Store!Below(id) = {id} \cup ChildsBefore(id)
<1> DEFINE R == {id} \cup ChildsBefore(id)
<1>1. Promised = before
  BY DEF Promised
<1>2. /\ R \subseteq DOMAIN before
      /\ \A i \in DOMAIN before : before[i].parent \in R => i \in R
  BY DEF ChildsBefore
<1>3. ASSUME NEW i \in R, NEW S \in SUBSET DOMAIN before, id \in S,
             \A j \in DOMAIN before : before[j].parent \in S => j \in S
      PROVE  i \in S
  BY <1>3 DEF ChildsBefore
<1> HIDE DEF R
<1>4. Store!Below(id) = {i \in DOMAIN before : \A S \in SUBSET DOMAIN before :
                            (id \in S /\ \A j \in DOMAIN before : before[j].parent \in S => j \in S)
                              => i \in S}
  BY DEF Store!Below, Store!Closed
<1>5. \A i \in R : i \in Store!Below(id)
  BY <1>2, <1>3, <1>4
<1>6. \A i \in Store!Below(id) : i \in R
  <2>1. R \in SUBSET DOMAIN before /\ id \in R
    BY <1>2 DEF R
  <2> QED BY <1>2, <1>4, <2>1
<1> QED BY <1>5, <1>6 DEF R

\* The last slot of a removal goes: now the tuple is gone, and all below it.
LEMMA RemoveSlotRemoves ==
    ASSUME OnlyIntegers, TypeOK, ShallowInv, CallTraced, RemoveSlot, TypeOK', op' = "none"
    PROVE  \E id \in AllIds : Store!Remove(id)
<1> DEFINE id == stack[1].id
<1>1. /\ ShallowInv' /\ op = "remove"
      /\ Live(file') = Live(file)
      /\ SameTuples(file, file')
      /\ stack[1].childs = {}
  BY RemoveSlotShallow DEF RemoveSlot, RemoveStep
<1>2. /\ id \in AllIds /\ id \in DOMAIN before
      /\ Live(file) = DOMAIN before \ ({id} \cup ChildsBefore(id))
      /\ SameAsBefore(Live(file))
      /\ \A i \in DOMAIN before \ {id} : before[i].parent \notin ChildsBefore(id)
  BY <1>1 DEF CallTraced, RemoveTraced
<1> HIDE DEF id
<1>3. \A i \in Live(file') : Contents(file')[i] = before[i]
  BY <1>1, <1>2, BeforeKept
<1>4. Contents(file') = [i \in Live(file') |-> Contents(file')[i]]
  BY DEF Contents
<1>5. Store!Below(id) = {id} \cup ChildsBefore(id)
  BY <1>1, <1>2, BelowShallow
<1>6. Promised = before /\ Promised' = Contents(file')
  BY <1>1, PromisedThen DEF Promised
<1>7. Live(file') = DOMAIN before \ Store!Below(id)
  BY <1>1, <1>2, <1>5
<1>8. Promised' = [i \in DOMAIN Promised \ Store!Below(id) |-> Promised[i]]
  BY <1>3, <1>4, <1>6, <1>7
<1>9. Store!Remove(id)
  BY <1>2, <1>6, <1>8 DEF Store!Remove, Promised
<1> QED BY <1>2, <1>9

LEMMA StepPromised ==
    ASSUME OnlyIntegers, TypeOK, ShallowInv, CallTraced, [ShallowNext]_vars, TypeOK'
    PROVE  Store!Next \/ Promised' = Promised
<1>1. CASE \E v \in FieldValues, p \in Parents : AddTuple(v, p)
  BY <1>1, PromisedThen DEF AddTuple, Idle, Promised
<1>2. CASE LiveUpdate
  <2>1. PICK n \in Fields : \E v \in Values(n), id \in AllIds :
                                Idle /\ id \in Live(file) /\ Update(n, v, id)
    BY <1>2 DEF LiveUpdate
  <2>2. PICK v \in Values(n), id \in AllIds : Idle /\ id \in Live(file) /\ Update(n, v, id)
    BY <2>1
  <2>3. Store!Update(id, n, v) /\ v \in {w[n] : w \in FieldValues}
    BY <2>2, UpdateUpdates, IntegerValues
  <2> QED BY <2>3 DEF Store!Next
<1>3. CASE \E id \in AllIds : Idle /\ Shallow(id) /\ RemoveTuple(id)
  <2>1. op = "none" /\ op' = "remove" /\ before' = Contents(file)
    BY <1>3, RemoveTupleShallow DEF Idle
  <2> QED BY <2>1, PromisedThen DEF Promised
<1>4. CASE AddInteger
  BY <1>4, PromisedThen DEF AddInteger, AddStep, Promised
<1>5. CASE AddWrite
  BY <1>5, AddWriteAdds DEF Store!Next
<1>6. CASE RemoveChild \/ RemoveRead
  <2>1. op = "remove" /\ op' = op /\ before' = before
    BY <1>6 DEF RemoveChild, RemoveRead, RemoveStep
  <2> QED BY <2>1, PromisedThen DEF Promised
<1>7. CASE RemoveSlot
  <2>1. CASE op' = "none"
    BY <1>7, <2>1, RemoveSlotRemoves DEF Store!Next
  <2>2. CASE op' # "none"
    <3>1. op = "remove" /\ before' = before
      BY <1>7, <2>2 DEF RemoveSlot, RemoveStep
    <3> QED BY <2>2, <3>1, PromisedThen DEF Promised
  <2> QED BY <2>1, <2>2
<1>8. CASE UNCHANGED vars
  BY <1>8, PromisedThen DEF vars, Promised
<1> QED BY <1>1, <1>2, <1>3, <1>4, <1>5, <1>6, <1>7, <1>8, AddStringShallow,
           RemovePieceShallow DEF ShallowNext, Inner

(***************************************************************************)
(* The refinement.  A caller who removes only shallow tuples sees ids and  *)
(* tuples and nothing of slots: add_tuple adds one with a new id,          *)
(* update_tuple changes one field of one tuple, remove_tuple removes the   *)
(* tuple and what is below it, each all at once at its last step.          *)
(***************************************************************************)
THEOREM ShallowKeepsPromise ==
    ASSUME OnlyIntegers
    PROVE  ShallowSpec => KeepsPromise
<1>1. Init => Store!Init
  BY InitPromised
<1>2. /\ TypeOK /\ ShallowInv /\ CallTraced /\ TypeOK'
      /\ [ShallowNext]_vars
      => [Store!Next]_(IF op = "none" THEN Contents(file) ELSE before)
  BY StepPromised DEF Promised
<1> QED BY <1>1, <1>2, TracedInductive, PTL DEF ShallowSpec, KeepsPromise, Store!Spec
=============================================================================
