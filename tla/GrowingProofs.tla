---------------------------- MODULE GrowingProofs ----------------------------
(***************************************************************************)
(* What each operation of the file does to tuples with any number of       *)
(* strings of one piece: following a string's pieces back, moving a slot,  *)
(* growing the id array over one, inserting and changing a string.  Then   *)
(* that GrowingInv and GrowingTraced are invariants of GrowingSpec for     *)
(* every pattern, every slot size and any number of ids and slots, and     *)
(* that with them the file implements TreeStore.                           *)
(***************************************************************************)
EXTENDS GrowingInvariant, ShallowProofs, WellFoundedInduction

USE SlotWordsFacts, PatternAssumption, OffsetAssumption

-----------------------------------------------------------------------------
(***************************************************************************)
(* Induction over sets of numbers, and a function that repeats a step.     *)
(***************************************************************************)
LEMMA LessThan == OpToRel(<, Nat) = {x \in Nat \X Nat : x[1] < x[2]}
BY DEF OpToRel

LEMMA SetInduction ==
    ASSUME NEW T \in SUBSET Nat, 0 \in T, \A n \in T : n + 1 \in T
    PROVE  T = Nat
<1> DEFINE R == {x \in Nat \X Nat : x[1] < x[2]}
           S == Nat \ T
<1>1. IsWellFoundedOn(R, Nat)
  BY NatLessThanWellFounded, LessThan
<1> SUFFICES ASSUME S # {} PROVE FALSE
  OBVIOUS
<1> HIDE DEF R
<1>2. PICK x \in S : \A y \in S : ~ (<<y, x>> \in R)
  BY <1>1, WFMin
<1>3. x # 0 /\ x - 1 \in Nat
  OBVIOUS
<1>4. <<x - 1, x>> \in R
  <2>1. <<x - 1, x>> \in Nat \X Nat
    BY <1>3
  <2> QED BY <1>3, <2>1 DEF R
<1>5. x - 1 \notin S
  BY <1>2, <1>4
<1> QED BY <1>3, <1>5

\* h repeats the step s from z on, n times.
Repeats(h, s, z, n) ==
    /\ h[0] = z
    /\ \A k \in 0..n - 1 : h[k + 1] = s[h[k]]

LEMMA RepeatsAgree ==
    ASSUME NEW s, NEW z, NEW n \in Nat, NEW h, NEW g,
           Repeats(h, s, z, n), Repeats(g, s, z, n)
    PROVE  \A k \in 0..n : h[k] = g[k]
<1> DEFINE T == {k \in Nat : k <= n => h[k] = g[k]}
<1>1. 0 \in T
  BY DEF Repeats
<1>2. ASSUME NEW k \in T PROVE k + 1 \in T
  <2> SUFFICES ASSUME k + 1 <= n PROVE h[k + 1] = g[k + 1]
    OBVIOUS
  <2>1. k \in 0..n - 1 /\ h[k] = g[k]
    OBVIOUS
  <2> QED BY <2>1 DEF Repeats
<1> HIDE DEF T
<1>3. T = Nat
  <2>1. T \in SUBSET Nat
    BY DEF T
  <2> QED BY <1>1, <1>2, <2>1, SetInduction
<1> QED BY <1>3 DEF T

-----------------------------------------------------------------------------
(***************************************************************************)
(* A string of one piece is read as that.                                  *)
(***************************************************************************)
Chains == [Int -> Seq(Int)]

NoChain == [x \in Int |-> <<>>]

\* The pieces from each offset on, given those from the next ones on.
Longer(f, c) == [x \in Int |-> IF ~Inside(f, x) THEN <<>>
                               ELSE <<x>> \o c[f.blk[Pos(x)][1]]]

Lengthen(f) == [c \in Chains |-> Longer(f, c)]

LEMMA ChainsLengthen ==
    ASSUME NEW f \in FileType
    PROVE  NoChain \in Chains /\ Lengthen(f) \in [Chains -> Chains]
<1>1. NoChain \in Chains
  BY DEF NoChain, Chains
<1>2. ASSUME NEW c \in Chains PROVE Longer(f, c) \in Chains
  <2> SUFFICES ASSUME NEW x \in Int, Inside(f, x)
               PROVE  <<x>> \o c[f.blk[Pos(x)][1]] \in Seq(Int)
    BY DEF Chains, Longer
  <2>1. f.blk[Pos(x)] \in WordBlock
    BY FileParts DEF Inside
  <2>2. f.blk[Pos(x)][1] \in Int
    <3>1. 1 \in Words
      BY DEF Words
    <3> QED BY <2>1, <3>1, WordType
  <2>3. c[f.blk[Pos(x)][1]] \in Seq(Int)
    BY <2>2 DEF Chains
  <2> QED BY <2>3, ConcatProperties
<1> QED BY <1>1, <1>2 DEF Lengthen

LEMMA Iteration ==
    ASSUME NEW f \in FileType
    PROVE  \E g \in [Nat -> Chains] :
             g[0] = NoChain /\ \A n \in Nat : g[n + 1] = Lengthen(f)[g[n]]
<1> DEFINE A == Chains
           z == NoChain
           s == Lengthen(f)
<1>0. z \in A /\ s \in [A -> A]
  BY ChainsLengthen
<1> HIDE DEF A, z, s
<1> DEFINE T == {n \in Nat : \E h \in [0..n -> A] : Repeats(h, s, z, n)}
<1>1. 0 \in T
  <2>1. [k \in 0..0 |-> z] \in [0..0 -> A]
    BY <1>0
  <2>2. Repeats([k \in 0..0 |-> z], s, z, 0)
    BY DEF Repeats
  <2> QED BY <2>1, <2>2
<1>2. ASSUME NEW n \in T PROVE n + 1 \in T
  <2>1. n \in Nat
    OBVIOUS
  <2>2. PICK h \in [0..n -> A] : Repeats(h, s, z, n)
    OBVIOUS
  <2> DEFINE g == [k \in 0..n + 1 |-> IF k <= n THEN h[k] ELSE s[h[n]]]
  <2>3. g \in [0..n + 1 -> A]
    <3>1. s[h[n]] \in A
      BY <1>0, <2>1
    <3>2. \A k \in 0..n + 1 : k <= n => h[k] \in A
      BY <2>1
    <3> QED BY <3>1, <3>2
  <2>4. g[0] = z
    BY <2>1, <2>2 DEF Repeats
  <2>5. ASSUME NEW k \in 0..n PROVE g[k + 1] = s[g[k]]
    <3>1. g[k] = h[k]
      BY <2>1
    <3>2. CASE k = n
      BY <2>1, <3>1, <3>2
    <3>3. CASE k # n
      <4>1. k \in 0..n - 1 /\ k + 1 <= n /\ k + 1 \in 0..n + 1
        BY <2>1, <3>3
      <4>2. g[k + 1] = h[k + 1]
        BY <4>1
      <4> QED BY <2>2, <3>1, <4>1, <4>2 DEF Repeats
    <3> QED BY <3>2, <3>3
  <2>6. n + 1 \in Nat /\ n + 1 - 1 = n
    BY <2>1
  <2> HIDE DEF g
  <2>7. Repeats(g, s, z, n + 1)
    BY <2>4, <2>5, <2>6 DEF Repeats
  <2> QED BY <2>3, <2>6, <2>7
<1> HIDE DEF T
<1>3. T = Nat
  <2>1. T \in SUBSET Nat
    BY DEF T
  <2> QED BY <1>1, <1>2, <2>1, SetInduction
<1> DEFINE H(n) == CHOOSE h \in [0..n -> A] : Repeats(h, s, z, n)
           g == [n \in Nat |-> H(n)[n]]
<1>4. \A n \in Nat : H(n) \in [0..n -> A] /\ Repeats(H(n), s, z, n)
  BY <1>3 DEF T
<1> HIDE DEF H
<1>5. g \in [Nat -> A]
  BY <1>4
<1>6. g[0] = z
  BY <1>4 DEF Repeats
<1>7. ASSUME NEW n \in Nat PROVE g[n + 1] = s[g[n]]
  <2>1. H(n + 1)[n + 1] = s[H(n + 1)[n]]
    <3>1. n + 1 \in Nat /\ n \in 0..(n + 1) - 1
      OBVIOUS
    <3> QED BY <1>4, <3>1 DEF Repeats
  <2>2. H(n + 1)[n] = H(n)[n]
    <3>1. n + 1 \in Nat /\ n \in 0..n /\ \A k \in 0..n - 1 : k \in 0..(n + 1) - 1
      OBVIOUS
    <3>2. Repeats(H(n + 1), s, z, n)
      BY <1>4, <3>1 DEF Repeats
    <3> QED BY <1>4, <3>1, <3>2, RepeatsAgree
  <2> QED BY <2>1, <2>2
<1> HIDE DEF g
<1> QED BY <1>5, <1>6, <1>7 DEF A, z, s

LEMMA OnePiece ==
    ASSUME NEW f \in FileType, NEW o \in Nat, Inside(f, o),
           f.blk[Pos(o)][1] = NullValue
    PROVE  Pieces(f, o) = <<o>> /\ ReadString(f, o) = TextAt(f, o)
<1> DEFINE Is(g) == g = [n \in Nat |->
                           [x \in Int |-> IF n = 0 \/ ~Inside(f, x) THEN <<>>
                                          ELSE <<x>> \o g[n - 1][f.blk[Pos(x)][1]]]]
           from == CHOOSE g : Is(g)
<1>4. PICK g \in [Nat -> Chains] : g[0] = NoChain /\ \A n \in Nat : g[n + 1] = Lengthen(f)[g[n]]
  BY Iteration
<1>5. \A n \in Nat : n # 0 => g[n] = Longer(f, g[n - 1])
  <2> SUFFICES ASSUME NEW n \in Nat, n # 0 PROVE g[n] = Longer(f, g[n - 1])
    OBVIOUS
  <2>1. n - 1 \in Nat /\ (n - 1) + 1 = n
    OBVIOUS
  <2>2. g[n] = Lengthen(f)[g[n - 1]] /\ g[n - 1] \in Chains
    BY <1>4, <2>1
  <2> QED BY <2>2 DEF Lengthen
<1>6. Is(g)
  <2> DEFINE G == [n \in Nat |->
                     [x \in Int |-> IF n = 0 \/ ~Inside(f, x) THEN <<>>
                                    ELSE <<x>> \o g[n - 1][f.blk[Pos(x)][1]]]]
  <2>1. ASSUME NEW n \in Nat PROVE g[n] = G[n]
    <3>1. CASE n = 0
      BY <1>4, <3>1 DEF NoChain
    <3>2. CASE n # 0
      BY <1>5, <3>2 DEF Longer
    <3> QED BY <3>1, <3>2
  <2>2. g = [n \in Nat |-> g[n]]
    BY <1>4
  <2>3. g = G
    BY <2>1, <2>2
  <2> QED BY <2>3
<1>7. Is(from)
  BY <1>6
<1> HIDE DEF from
<1>8. Len(f.blk) \in Nat /\ Len(f.blk) # 0 /\ Len(f.blk) - 1 \in Nat /\ Pos(o) \in 1..Len(f.blk)
  BY FileParts DEF Inside
<1>9. ASSUME NEW n \in Nat, NEW x \in Int
      PROVE  from[n][x] = IF n = 0 \/ ~Inside(f, x) THEN <<>>
                          ELSE <<x>> \o from[n - 1][f.blk[Pos(x)][1]]
  <2>1. from[n] = [y \in Int |-> IF n = 0 \/ ~Inside(f, y) THEN <<>>
                                ELSE <<y>> \o from[n - 1][f.blk[Pos(y)][1]]]
    BY <1>7, Zenon
  <2> QED BY <2>1, Zenon
<1>10. ~Inside(f, 0)
  BY FileParts DEF Inside, Pos
<1>11. from[Len(f.blk) - 1][0] = <<>>
  <2>1. 0 \in Int /\ Len(f.blk) - 1 \in Nat
    BY <1>8
  <2> QED BY <1>9, <1>10, <2>1, Zenon
<1>12. from[Len(f.blk)][o] = <<o>> \o from[Len(f.blk) - 1][0]
  <2>1. o \in Int /\ Len(f.blk) \in Nat /\ Len(f.blk) # 0 /\ f.blk[Pos(o)][1] = 0
    BY <1>8 DEF NullValue
  <2>2. from[Len(f.blk)][o] = IF Len(f.blk) = 0 \/ ~Inside(f, o) THEN <<>>
                              ELSE <<o>> \o from[Len(f.blk) - 1][f.blk[Pos(o)][1]]
    BY <1>9, <2>1, Zenon
  <2> QED BY <2>1, <2>2, Zenon
<1>13. Pieces(f, o) = from[Len(f.blk)][o]
  BY DEF Pieces, from
<1>14. Pieces(f, o) = <<o>>
  BY <1>11, <1>12, <1>13
<1>15. ReadString(f, o) = [k \in 1..1 |-> f.blk[Pos(o)][HeaderWords]]
  BY <1>14 DEF ReadString
<1> QED BY <1>14, <1>15 DEF TextAt

-----------------------------------------------------------------------------
(***************************************************************************)
(* The file's slots, one at a time.                                        *)
(***************************************************************************)

\* Where the live tuples are in a file that has only grown.
LEMMA GrownFacts ==
    ASSUME NEW f \in FileType, Grown(f)
    PROVE  /\ LastArraySlot(f) \in Nat \ {0} /\ Len(f.blk) \in Nat
           /\ CurId(f) \in Nat /\ CurId(f) < FirstOffset
           /\ \A i \in Live(f) :
                /\ i \in Nat /\ i < CurId(f) /\ i < FirstOffset
                /\ Entry(f, i) \in Nat
                /\ Pos(Entry(f, i)) \in TuplePositions(f)
                /\ Entry(f, i) = Off(Pos(Entry(f, i)))
                /\ f.blk[Pos(Entry(f, i))] \in WordBlock
                /\ f.blk[Pos(Entry(f, i))][1] = i
                /\ \A j \in Live(f) : Entry(f, i) = Entry(f, j) => i = j
<1>0. LastArraySlot(f) <= Len(f.blk) /\ EntriesLead(f) /\ CurId(f) <= MaxIds
  BY DEF Grown
<1>1. LastArraySlot(f) \in Nat \ {0} /\ Len(f.blk) \in Nat /\ CurId(f) \in Nat
  BY <1>0, TuplePlaces, FileParts
<1>2. CurId(f) < FirstOffset
  BY <1>0, <1>1, MaxIdsAssumption
<1>3. ASSUME NEW i \in Live(f)
      PROVE  /\ i \in Nat /\ i < CurId(f) /\ i < FirstOffset
             /\ Entry(f, i) \in Nat
             /\ Pos(Entry(f, i)) \in TuplePositions(f)
             /\ Entry(f, i) = Off(Pos(Entry(f, i)))
             /\ f.blk[Pos(Entry(f, i))] \in WordBlock
             /\ f.blk[Pos(Entry(f, i))][1] = i
  <2>1. i \in Nat /\ i < CurId(f) /\ Entry(f, i) \in Nat
    BY <1>0, LiveFacts
  <2>2. i < FirstOffset
    BY <1>1, <1>2, <2>1
  <2>3. /\ Pos(Entry(f, i)) \in TuplePositions(f)
        /\ f.blk[Pos(Entry(f, i))][1] = i
    BY <1>0 DEF EntriesLead
  <2>4. Pos(Entry(f, i)) \in Nat /\ f.blk[Pos(Entry(f, i))] \in WordBlock
    BY <1>0, <2>3, TuplePlaces
  <2>5. Entry(f, i) = Off(Pos(Entry(f, i)))
    BY <2>1, <2>4, PosInjective
  <2> QED BY <2>1, <2>2, <2>3, <2>4, <2>5
<1> QED BY <1>1, <1>2, <1>3

\* One slot behind the array is overwritten.
LEMMA Patch ==
    ASSUME NEW f \in FileType, LastArraySlot(f) <= Len(f.blk),
           NEW q \in TuplePositions(f), NEW b \in WordBlock
    PROVE  LET g == WriteTuple(f, Off(q), b)
           IN  /\ g \in FileType
               /\ g.sub = f.sub /\ g.lost = f.lost
               /\ Len(g.blk) = Len(f.blk)
               /\ \A x \in 1..Len(f.blk) : g.blk[x] = IF x = q THEN b ELSE f.blk[x]
<1> DEFINE g == WriteTuple(f, Off(q), b)
<1>1. q \in 1..Len(f.blk) /\ Inside(f, Off(q)) /\ Pos(Off(q)) = q
  BY TuplePlaces, OffPos
<1>2. g = [f EXCEPT !.blk = [f.blk EXCEPT ![q] = b]]
  BY <1>1 DEF WriteTuple
<1>3. /\ [f.blk EXCEPT ![q] = b] \in Seq(WordBlock)
      /\ Len([f.blk EXCEPT ![q] = b]) = Len(f.blk)
      /\ \A x \in 1..Len(f.blk) : [f.blk EXCEPT ![q] = b][x] = IF x = q THEN b ELSE f.blk[x]
  BY <1>1, FileParts, ExceptSeq
<1> QED BY <1>2, <1>3 DEF FileType

\* One slot is added at the end.
LEMMA Extend ==
    ASSUME NEW f \in FileType, NEW b \in WordBlock
    PROVE  LET g == InsertNewTuple(f, b)
           IN  /\ g \in FileType
               /\ g.sub = f.sub /\ g.lost = f.lost
               /\ Len(g.blk) = Len(f.blk) + 1
               /\ g.blk[Len(f.blk) + 1] = b
               /\ \A x \in 1..Len(f.blk) : g.blk[x] = f.blk[x]
<1> DEFINE L == Len(f.blk)
           g == InsertNewTuple(f, b)
           s == Append(f.blk, b)
<1>1. L \in Nat /\ f.blk \in Seq(WordBlock)
  BY FileParts
<1>2. /\ s \in Seq(WordBlock) /\ Len(s) = L + 1 /\ s[L + 1] = b
      /\ \A x \in 1..L : s[x] = f.blk[x]
  BY <1>1, AppendProperties
<1>3. g = [f EXCEPT !.blk = s]
  BY DEF InsertNewTuple
<1> HIDE DEF s
<1> QED BY <1>2, <1>3 DEF FileType

(***************************************************************************)
(* Two files with the same array, the second one at least as long.         *)
(***************************************************************************)
SameArray(f, g) ==
    /\ g.sub = f.sub
    /\ Len(g.blk) >= Len(f.blk)
    /\ \A x \in 1..LastArraySlot(f) : g.blk[x] = f.blk[x]

LEMMA SameEntries ==
    ASSUME NEW f \in FileType, LastArraySlot(f) <= Len(f.blk),
           NEW g \in FileType, SameArray(f, g)
    PROVE  /\ CurId(g) = CurId(f) /\ Ids(g) = Ids(f)
           /\ LastArraySlot(g) = LastArraySlot(f)
           /\ LastArraySlot(g) <= Len(g.blk)
           /\ TuplePositions(f) \subseteq TuplePositions(g)
           /\ \A i \in Nat : i <= CurId(f) => Entry(g, i) = Entry(f, i)
           /\ Live(g) = Live(f)
           /\ \A i \in Live(f) : Entry(g, i) = Entry(f, i)
<1>1. /\ LastArraySlot(f) \in Nat \ {0} /\ Len(f.blk) \in Nat /\ Len(g.blk) \in Nat
  BY TuplePlaces, FileParts
<1>2. /\ CurId(g) = CurId(f) /\ Ids(g) = Ids(f)
      /\ LastArraySlot(g) = LastArraySlot(f)
  BY DEF SameArray, CurId, Ids, LastArraySlot
<1>3. LastArraySlot(g) <= Len(g.blk)
  BY <1>1, <1>2 DEF SameArray
<1>4. TuplePositions(f) \subseteq TuplePositions(g)
  BY <1>1, <1>2 DEF SameArray, TuplePositions
<1>5. ASSUME NEW i \in Nat, i <= CurId(f) PROVE Entry(g, i) = Entry(f, i)
  <2>1. EntryPos(i) \in 1..Len(f.blk) /\ EntryPos(i) <= LastArraySlot(f)
    BY <1>5, SoundEntries
  <2>2. EntryPos(i) \in 1..LastArraySlot(f)
    BY <1>1, <2>1
  <2> QED BY <2>2 DEF SameArray, Entry
<1>6. \A i \in Ids(f) : i \in Nat /\ i <= CurId(f)
  BY LiveFacts
<1>7. Live(g) = Live(f)
  <2>1. \A i : i \in Live(g) <=> i \in Ids(g) /\ Entry(g, i) # 0
    BY <1>3, LiveFacts
  <2>2. \A i : i \in Live(f) <=> i \in Ids(f) /\ Entry(f, i) # 0
    BY LiveFacts
  <2> QED BY <1>2, <1>5, <1>6, <2>1, <2>2
<1>8. \A i \in Live(f) : Entry(g, i) = Entry(f, i)
  <2>1. \A i \in Live(f) : i \in Ids(f)
    BY LiveFacts
  <2> QED BY <1>5, <1>6, <2>1
<1> QED BY <1>2, <1>3, <1>4, <1>5, <1>7, <1>8

LEMMA KeepGrown ==
    ASSUME NEW f \in FileType, Grown(f), NEW g \in FileType, SameArray(f, g), ~g.lost,
           \A i \in Live(f) : g.blk[Pos(Entry(f, i))][1] = i
    PROVE  Grown(g)
<1>1. LastArraySlot(f) <= Len(f.blk) /\ CurId(f) <= MaxIds /\ Live(f) = Ids(f)
  BY DEF Grown
<1>2. /\ CurId(g) = CurId(f) /\ Ids(g) = Ids(f)
      /\ LastArraySlot(g) <= Len(g.blk)
      /\ TuplePositions(f) \subseteq TuplePositions(g)
      /\ Live(g) = Live(f)
      /\ \A i \in Live(f) : Entry(g, i) = Entry(f, i)
  BY <1>1, SameEntries
<1>3. EntriesLead(g)
  BY <1>2, GrownFacts DEF EntriesLead
<1> QED BY <1>1, <1>2, <1>3 DEF Grown

LEMMA KeepStrings ==
    ASSUME NEW f \in FileType, Grown(f), NEW g \in FileType, SameArray(f, g),
           NEW id \in Live(f), NEW b, NEW S, HasStrings(f, id, b, S),
           \A n \in S : \A w \in {0, 1} :
              g.blk[Pos(b[FieldWord(n)])][w] = f.blk[Pos(b[FieldWord(n)])][w]
    PROVE  HasStrings(g, id, b, S)
<1>1. LastArraySlot(f) <= Len(f.blk)
  BY DEF Grown
<1>2. /\ TuplePositions(f) \subseteq TuplePositions(g)
      /\ Live(g) = Live(f)
      /\ \A i \in Live(f) : Entry(g, i) = Entry(f, i)
  BY <1>1, SameEntries
<1>3. \A n \in S : StringAt(g, b[FieldWord(n)], Entry(g, id))
  BY <1>2 DEF HasStrings, StringAt
<1> QED BY <1>2, <1>3 DEF HasStrings

-----------------------------------------------------------------------------
(***************************************************************************)
(* A file all tuples of which are complete.                                *)
(***************************************************************************)
WordsOf(f, id) == f.blk[Pos(Entry(f, id))]

Tied(f) == Grown(f) /\ \A id \in Live(f) : HasStrings(f, id, WordsOf(f, id), StringFields)

NothingSpare(f) ==
    \A p \in TuplePositions(f) : \E id \in Live(f) :
        UsedBy(f, p, id, WordsOf(f, id), StringFields)

LEMMA TiedFacts ==
    ASSUME NEW f \in FileType, Tied(f), NEW id \in Live(f)
    PROVE  /\ WordsOf(f, id) \in WordBlock
           /\ \A n \in StringFields :
                LET o == WordsOf(f, id)[FieldWord(n)]
                IN  /\ o \in Nat /\ o >= FirstOffset
                    /\ Pos(o) \in TuplePositions(f) /\ o = Off(Pos(o))
                    /\ f.blk[Pos(o)] \in WordBlock
                    /\ f.blk[Pos(o)][0] = Entry(f, id) /\ f.blk[Pos(o)][1] = 0
                    /\ \A i \in Live(f) : Entry(f, i) # o
                    /\ \A i \in Live(f) : \A m \in StringFields :
                         WordsOf(f, i)[FieldWord(m)] = o => i = id /\ m = n
           /\ \A w \in Words : \/ WordsOf(f, id)[w] < FirstOffset
                               \/ \E n \in StringFields : w = FieldWord(n)
<1>1. /\ LastArraySlot(f) <= Len(f.blk)
      /\ \A i \in Live(f) : HasStrings(f, i, WordsOf(f, i), StringFields)
  BY DEF Tied, Grown
<1>2. /\ WordsOf(f, id) \in WordBlock
      /\ \A i \in Live(f) : Entry(f, i) = Entry(f, id) => i = id
  BY GrownFacts DEF Tied, WordsOf
<1>3. ASSUME NEW n \in StringFields
      PROVE  LET o == WordsOf(f, id)[FieldWord(n)]
             IN  /\ o \in Nat /\ o >= FirstOffset
                 /\ Pos(o) \in TuplePositions(f) /\ o = Off(Pos(o))
                 /\ f.blk[Pos(o)] \in WordBlock
                 /\ f.blk[Pos(o)][0] = Entry(f, id) /\ f.blk[Pos(o)][1] = 0
                 /\ \A i \in Live(f) : Entry(f, i) # o
                 /\ \A i \in Live(f) : \A m \in StringFields :
                      WordsOf(f, i)[FieldWord(m)] = o => i = id /\ m = n
  <2> DEFINE o == WordsOf(f, id)[FieldWord(n)]
  <2>1. o \in Nat
    BY <1>2, FieldWordType, WordType DEF StringFields
  <2>2. /\ StringAt(f, o, Entry(f, id))
        /\ \A i \in Live(f) : Entry(f, i) # o
        /\ \A m \in StringFields \ {n} : WordsOf(f, id)[FieldWord(m)] # o
    BY <1>1 DEF HasStrings
  <2>3. \A i \in Live(f) : \A m \in StringFields :
          StringAt(f, WordsOf(f, i)[FieldWord(m)], Entry(f, i))
    BY <1>1 DEF HasStrings
  <2> HIDE DEF o
  <2>4. /\ Pos(o) \in TuplePositions(f)
        /\ f.blk[Pos(o)][0] = Entry(f, id) /\ f.blk[Pos(o)][1] = 0
    BY <2>2 DEF StringAt, NullValue
  <2>5. Pos(o) \in Nat /\ Pos(o) > 0 /\ f.blk[Pos(o)] \in WordBlock
    BY <1>1, <2>4, TuplePlaces
  <2>6. o = Off(Pos(o)) /\ o >= FirstOffset
    <3>1. o = Off(Pos(o))
      BY <2>1, <2>5, PosInjective
    <3> QED BY <2>5, <3>1, OffPos
  <2>7. \A i \in Live(f) : \A m \in StringFields :
          WordsOf(f, i)[FieldWord(m)] = o => i = id /\ m = n
    <3> SUFFICES ASSUME NEW i \in Live(f), NEW m \in StringFields,
                        WordsOf(f, i)[FieldWord(m)] = o
                 PROVE  i = id /\ m = n
      OBVIOUS
    <3>1. f.blk[Pos(o)][0] = Entry(f, i)
      BY <2>3 DEF StringAt
    <3>2. i = id
      BY <1>2, <2>4, <3>1
    <3> QED BY <2>2, <3>2
  <2> QED BY <2>1, <2>2, <2>4, <2>5, <2>6, <2>7 DEF o
<1>4. ASSUME NEW w \in Words
      PROVE  WordsOf(f, id)[w] < FirstOffset \/ \E n \in StringFields : w = FieldWord(n)
  <2>1. WordsOf(f, id)[w] \in Nat
    BY <1>2, WordType
  <2>2. WordsOf(f, id)[w] >= FirstOffset => \E n \in StringFields : w = FieldWord(n)
    BY <1>1 DEF HasStrings
  <2> QED BY <2>1, <2>2
<1> QED BY <1>2, <1>3, <1>4

-----------------------------------------------------------------------------
(***************************************************************************)
(* The references to the slot that is moved: swap_tuple_to finds them all. *)
(***************************************************************************)

\* One word behind the array is written.
LEMMA PutWord ==
    ASSUME NEW f \in FileType, LastArraySlot(f) <= Len(f.blk),
           NEW q \in TuplePositions(f), NEW u \in Words, NEW v \in Nat
    PROVE  LET g == WriteWord(f, Off(q), u, v)
           IN  /\ g \in FileType
               /\ g.sub = f.sub /\ g.lost = f.lost
               /\ Len(g.blk) = Len(f.blk)
               /\ \A x \in 1..Len(f.blk) : \A w \in Words :
                    g.blk[x][w] = IF x = q /\ w = u THEN v ELSE f.blk[x][w]
               /\ \A x \in 1..Len(f.blk) : x # q => g.blk[x] = f.blk[x]
<1> DEFINE b == [f.blk[q] EXCEPT ![u] = v]
           g == WriteWord(f, Off(q), u, v)
<1>1. /\ q \in 1..Len(f.blk) /\ Inside(f, Off(q)) /\ Pos(Off(q)) = q
      /\ f.blk[q] \in WordBlock
  BY TuplePlaces, OffPos
<1>2. /\ b \in WordBlock
      /\ \A w \in Words : b[w] = IF w = u THEN v ELSE f.blk[q][w]
  BY <1>1 DEF WordBlock
<1>3. g = WriteTuple(f, Off(q), b)
  BY <1>1 DEF WriteWord, WriteTuple
<1> HIDE DEF b, g
<1>4. /\ g \in FileType
      /\ g.sub = f.sub /\ g.lost = f.lost
      /\ Len(g.blk) = Len(f.blk)
      /\ \A x \in 1..Len(f.blk) : g.blk[x] = IF x = q THEN b ELSE f.blk[x]
  BY <1>2, <1>3, Patch
<1> QED BY <1>2, <1>4 DEF g

\* A tuple was moved: its strings point to it.
LEMMA StringsFollow ==
    ASSUME NEW f \in FileType, NEW b, NEW to \in Nat,
           \A n \in StringFields : Inside(f, b[FieldWord(n)])
    PROVE  LET g == RelinkStrings(f, b, to)
               link(x) == \E n \in StringFields : Off(x) = b[FieldWord(n)]
           IN  /\ g \in FileType
               /\ g.sub = f.sub /\ g.lost = f.lost
               /\ Len(g.blk) = Len(f.blk)
               /\ \A x \in 1..Len(f.blk) :
                    /\ ~link(x) => g.blk[x] = f.blk[x]
                    /\ link(x) => /\ g.blk[x][0] = to
                                  /\ \A w \in Words \ {0} : g.blk[x][w] = f.blk[x][w]
<1> DEFINE links == {b[FieldWord(n)] : n \in StringFields}
           gone  == f.lost \/ \E o \in links : ~Inside(f, o)
           s == [p \in 1..Len(f.blk) |->
                   IF Off(p) \in links THEN [f.blk[p] EXCEPT ![0] = to]
                                       ELSE f.blk[p]]
           g == RelinkStrings(f, b, to)
<1>1. g \in FileType
  BY RelinkStringsType
<1>2. g = [f EXCEPT !.blk = s, !.lost = gone]
  BY DEF RelinkStrings
<1>3. gone = f.lost
  BY FileParts
<1>4. Len(s) = Len(f.blk)
  BY FileParts
<1>5. ASSUME NEW x \in 1..Len(f.blk)
      PROVE  /\ Off(x) \notin links => s[x] = f.blk[x]
             /\ Off(x) \in links => /\ s[x][0] = to
                                    /\ \A w \in Words \ {0} : s[x][w] = f.blk[x][w]
  <2>1. s[x] = IF Off(x) \in links THEN [f.blk[x] EXCEPT ![0] = to] ELSE f.blk[x]
    OBVIOUS
  <2>2. /\ [f.blk[x] EXCEPT ![0] = to][0] = to
        /\ \A w \in Words \ {0} : [f.blk[x] EXCEPT ![0] = to][w] = f.blk[x][w]
    <3>1. f.blk[x] \in WordBlock /\ 0 \in Words
      BY FileParts DEF Words
    <3> QED BY <3>1 DEF WordBlock
  <2> QED BY <2>1, <2>2
<1>6. \A x : Off(x) \in links <=> \E n \in StringFields : Off(x) = b[FieldWord(n)]
  OBVIOUS
<1> HIDE DEF s, links, gone
<1>7. g.blk = s /\ g.sub = f.sub /\ g.lost = f.lost
  BY <1>2, <1>3 DEF FileType
<1> HIDE DEF g
<1> QED BY <1>1, <1>4, <1>5, <1>6, <1>7 DEF g

-----------------------------------------------------------------------------
(***************************************************************************)
(* Moving a slot that is in use over one that is not.                      *)
(***************************************************************************)
Used(f, p) == \E id \in Live(f) : UsedBy(f, p, id, WordsOf(f, id), StringFields)

\* What becomes of an offset when the slot at from is moved to the offset to.
Follow(o, from, to) == IF o = from THEN to ELSE o

\* The tuples of f are in h what they were, but for the slot that was moved.
Carried(f, h, from, to) ==
    \A i \in Live(f) :
      /\ i \in Live(h)
      /\ Entry(h, i) = Follow(Entry(f, i), from, to)
      /\ Pos(Entry(h, i)) \in TuplePositions(h)
      /\ \A w \in Words : WordsOf(h, i)[w] = Follow(WordsOf(f, i)[w], from, to)
      /\ \A n \in StringFields :
           LET o == WordsOf(f, i)[FieldWord(n)]
               x == Pos(Follow(o, from, to))
           IN  /\ x \in TuplePositions(h)
               /\ h.blk[x][0] = Entry(h, i)
               /\ \A w \in Words \ {0} : h.blk[x][w] = f.blk[Pos(o)][w]

Swapped(f, h, p, q) ==
    /\ h \in FileType
    /\ h.sub = f.sub /\ ~h.lost
    /\ Len(h.blk) = Len(f.blk)
    /\ Live(h) = Live(f)
    /\ Carried(f, h, Off(p), Off(q))
    /\ \A x \in TuplePositions(f) : ~Used(f, x) /\ x # q => h.blk[x] = f.blk[x]

\* What swap_tuple_to has done when it looks for the reference.
LEMMA Copied ==
    ASSUME NEW f \in FileType, Tied(f),
           NEW p \in TuplePositions(f), NEW q \in TuplePositions(f), p # q
    PROVE  LET g == WriteTuple(f, Off(q), f.blk[p])
               b == f.blk[p]
           IN  /\ g \in FileType /\ g.sub = f.sub /\ ~g.lost
               /\ Len(g.blk) = Len(f.blk)
               /\ \A x \in 1..Len(f.blk) : g.blk[x] = IF x = q THEN b ELSE f.blk[x]
               /\ SameArray(f, g)
               /\ SwapTupleTo(f, Off(p), Off(q)) =
                    IF ~HasEntry(g, b[1]) THEN Lost(g)
                    ELSE IF ValidOffsetId(g, b[1], Off(p))
                    THEN WriteIdValue(RelinkStrings(g, b, Off(q)), b[1], Off(q))
                    ELSE RelinkHolder(g, b[0], Off(p), Off(q))
<1> DEFINE b == f.blk[p]
           g == WriteTuple(f, Off(q), b)
<1>1. LastArraySlot(f) <= Len(f.blk) /\ ~f.lost
  BY DEF Tied, Grown
<1>2. /\ p \in Nat /\ q \in Nat /\ q > LastArraySlot(f) /\ LastArraySlot(f) \in Nat
      /\ b \in WordBlock /\ ReadTuple(f, Off(p)) = b /\ Len(f.blk) \in Nat
  BY <1>1, TuplePlaces, FileParts
<1>3. /\ g \in FileType /\ g.sub = f.sub /\ ~g.lost
      /\ Len(g.blk) = Len(f.blk)
      /\ \A x \in 1..Len(f.blk) : g.blk[x] = IF x = q THEN b ELSE f.blk[x]
  BY <1>1, <1>2, Patch
<1>4. Off(p) # Off(q)
  BY <1>2 DEF Off
<1>5. SwapTupleTo(f, Off(p), Off(q)) =
        IF ~HasEntry(g, b[1]) THEN Lost(g)
        ELSE IF ValidOffsetId(g, b[1], Off(p))
        THEN WriteIdValue(RelinkStrings(g, b, Off(q)), b[1], Off(q))
        ELSE RelinkHolder(g, b[0], Off(p), Off(q))
  BY <1>2, <1>4 DEF SwapTupleTo
<1> HIDE DEF g
<1>6. SameArray(f, g)
  <2>1. \A x \in 1..LastArraySlot(f) : x \in 1..Len(f.blk) /\ x # q
    BY <1>1, <1>2
  <2> QED BY <1>2, <1>3, <2>1 DEF SameArray
<1> QED BY <1>3, <1>5, <1>6 DEF g

LEMMA MoveTupleSlot ==
    ASSUME NEW f \in FileType, Tied(f),
           NEW p \in TuplePositions(f), NEW q \in TuplePositions(f), p # q, ~Used(f, q),
           NEW i \in Live(f), Entry(f, i) = Off(p)
    PROVE  Swapped(f, SwapTupleTo(f, Off(p), Off(q)), p, q)
<1> DEFINE b == f.blk[p]
           g == WriteTuple(f, Off(q), b)
           k == RelinkStrings(g, b, Off(q))
           h == SwapTupleTo(f, Off(p), Off(q))
           link(x) == \E n \in StringFields : Off(x) = b[FieldWord(n)]
<1>0. LastArraySlot(f) <= Len(f.blk) /\ ~f.lost /\ Grown(f)
  BY DEF Tied, Grown
<1>1. /\ p \in Nat /\ q \in Nat /\ LastArraySlot(f) \in Nat \ {0} /\ Len(f.blk) \in Nat
      /\ \A x \in TuplePositions(f) : x \in Nat /\ x > LastArraySlot(f) /\ x \in 1..Len(f.blk)
      /\ p > 0 /\ q > 0
  BY <1>0, TuplePlaces, FileParts
<1>2. /\ Pos(Off(p)) = p /\ Pos(Off(q)) = q
      /\ Off(p) \in Nat /\ Off(p) >= FirstOffset
      /\ Off(q) \in Nat /\ Off(q) >= FirstOffset
  BY <1>1, OffPos
<1>3. /\ WordsOf(f, i) = b /\ b[1] = i /\ i \in Nat /\ i <= CurId(f)
      /\ \A j \in Live(f) : Entry(f, j) = Off(p) => j = i
  BY <1>0, <1>2, GrownFacts DEF WordsOf
<1>4. /\ g \in FileType /\ g.sub = f.sub /\ ~g.lost
      /\ Len(g.blk) = Len(f.blk)
      /\ \A x \in 1..Len(f.blk) : g.blk[x] = IF x = q THEN b ELSE f.blk[x]
      /\ SameArray(f, g)
      /\ h = IF ~HasEntry(g, b[1]) THEN Lost(g)
             ELSE IF ValidOffsetId(g, b[1], Off(p))
             THEN WriteIdValue(k, b[1], Off(q))
             ELSE RelinkHolder(g, b[0], Off(p), Off(q))
  BY Copied
<1> HIDE DEF g, h
<1>5. /\ CurId(g) = CurId(f) /\ LastArraySlot(g) = LastArraySlot(f)
      /\ LastArraySlot(g) <= Len(g.blk)
      /\ \A j \in Nat : j <= CurId(f) => Entry(g, j) = Entry(f, j)
  BY <1>0, <1>4, SameEntries
<1>6. h = WriteIdValue(k, i, Off(q))
  <2>1. HasEntry(g, i) /\ Entry(g, i) = Off(p)
    BY <1>3, <1>4, <1>5, SoundEntries
  <2> QED BY <1>3, <1>4, <2>1 DEF ValidOffsetId
\* The strings of all tuples.
<1>7. \A j \in Live(f) : \A n \in StringFields :
        LET o == WordsOf(f, j)[FieldWord(n)]
        IN  /\ o \in Nat /\ o = Off(Pos(o)) /\ o # Off(p)
            /\ Pos(o) \in TuplePositions(f) /\ Pos(o) # q
            /\ f.blk[Pos(o)][0] = Entry(f, j)
            /\ \A m \in Live(f) : Entry(f, m) # o
            /\ link(Pos(o)) <=> j = i
  <2> SUFFICES ASSUME NEW j \in Live(f), NEW n \in StringFields
               PROVE  LET o == WordsOf(f, j)[FieldWord(n)]
                      IN  /\ o \in Nat /\ o = Off(Pos(o)) /\ o # Off(p)
                          /\ Pos(o) \in TuplePositions(f) /\ Pos(o) # q
                          /\ f.blk[Pos(o)][0] = Entry(f, j)
                          /\ \A m \in Live(f) : Entry(f, m) # o
                          /\ link(Pos(o)) <=> j = i
    OBVIOUS
  <2> DEFINE o == WordsOf(f, j)[FieldWord(n)]
  <2>1. /\ o \in Nat /\ o = Off(Pos(o)) /\ Pos(o) \in TuplePositions(f)
        /\ f.blk[Pos(o)][0] = Entry(f, j)
        /\ \A m \in Live(f) : Entry(f, m) # o
        /\ \A l \in Live(f) : \A m \in StringFields :
             WordsOf(f, l)[FieldWord(m)] = o => l = j /\ m = n
    BY TiedFacts
  <2>2. Pos(o) # q
    BY <2>1 DEF Used, UsedBy
  <2>3. link(Pos(o)) <=> j = i
    BY <1>3, <2>1
  <2> QED BY <2>1, <2>2, <2>3
<1>8. /\ k \in FileType /\ k.sub = g.sub /\ ~k.lost
      /\ Len(k.blk) = Len(g.blk)
      /\ \A x \in 1..Len(g.blk) :
           /\ ~link(x) => k.blk[x] = g.blk[x]
           /\ link(x) => /\ k.blk[x][0] = Off(q)
                         /\ \A w \in Words \ {0} : k.blk[x][w] = g.blk[x][w]
  <2>1. \A n \in StringFields : Inside(g, b[FieldWord(n)])
    BY <1>1, <1>3, <1>4, <1>7 DEF Inside
  <2> QED BY <1>2, <1>4, <2>1, StringsFollow, SMTT(20)
<1>9. \A x \in 1..Len(f.blk) : link(x) => x \in TuplePositions(f) /\ x # q
  <2> SUFFICES ASSUME NEW x \in 1..Len(f.blk), NEW n \in StringFields,
                      Off(x) = b[FieldWord(n)]
               PROVE  x \in TuplePositions(f) /\ x # q
    OBVIOUS
  <2>1. /\ Pos(b[FieldWord(n)]) \in TuplePositions(f)
        /\ Pos(b[FieldWord(n)]) # q
    BY <1>3, <1>7
  <2>2. Pos(Off(x)) = x
    BY <1>1, OffPos
  <2> QED BY <2>1, <2>2
<1> HIDE DEF k
<1>10. SameArray(f, k)
  <2>1. ASSUME NEW x \in 1..LastArraySlot(f) PROVE k.blk[x] = f.blk[x]
    <3>1. x \in 1..Len(f.blk) /\ ~(x \in TuplePositions(f)) /\ x # q
      BY <1>0, <1>1
    <3>2. ~link(x)
      BY <1>9, <3>1
    <3> QED BY <1>4, <1>8, <3>1, <3>2
  <2> QED BY <1>1, <1>4, <1>8, <2>1 DEF SameArray
<1>11. /\ CurId(k) = CurId(f) /\ Ids(k) = Ids(f) /\ LastArraySlot(k) = LastArraySlot(f)
       /\ LastArraySlot(k) <= Len(k.blk) /\ TuplePositions(k) = TuplePositions(f)
       /\ \A j \in Nat : j <= CurId(f) => Entry(k, j) = Entry(f, j)
  <2>1. /\ CurId(k) = CurId(f) /\ Ids(k) = Ids(f) /\ LastArraySlot(k) = LastArraySlot(f)
        /\ LastArraySlot(k) <= Len(k.blk)
        /\ \A j \in Nat : j <= CurId(f) => Entry(k, j) = Entry(f, j)
    BY <1>0, <1>8, <1>10, SameEntries
  <2> QED BY <1>4, <1>8, <2>1 DEF TuplePositions
<1>12. /\ h \in FileType
       /\ h.sub = k.sub /\ CurId(h) = CurId(k) /\ ~h.lost
       /\ Len(h.blk) = Len(k.blk)
       /\ \A x \in TuplePositions(k) : h.blk[x] = k.blk[x]
       /\ \A j \in Nat : j <= CurId(k) =>
            Entry(h, j) = IF j = i THEN Off(q) ELSE Entry(k, j)
  BY <1>2, <1>3, <1>6, <1>8, <1>11, WriteEntry
<1>13. \A j \in Live(f) : j \in Nat /\ j <= CurId(f) /\ Entry(f, j) \in Nat
  BY <1>0, LiveFacts
<1>14. Live(h) = Live(f)
  <2>1. Ids(h) = Ids(f) /\ LastArraySlot(h) <= Len(h.blk)
    BY <1>11, <1>12 DEF Ids, LastArraySlot
  <2>2. \A j : j \in Live(h) <=> j \in Ids(f) /\ Entry(h, j) # 0
    BY <1>12, <2>1, LiveFacts
  <2>3. \A j : j \in Live(f) <=> j \in Ids(f) /\ Entry(f, j) # 0
    BY <1>0, LiveFacts
  <2>4. \A j \in Ids(f) : j \in Nat /\ j <= CurId(f)
    BY <1>0, LiveFacts
  <2>5. Off(q) # 0
    BY <1>2
  <2>6. \A j \in Ids(f) : Entry(h, j) = IF j = i THEN Off(q) ELSE Entry(f, j)
    BY <1>11, <1>12, <2>4
  <2> QED BY <2>2, <2>3, <2>5, <2>6
<1>15. TuplePositions(h) = TuplePositions(f)
  BY <1>11, <1>12 DEF TuplePositions, LastArraySlot
<1>16. \A j \in Live(f) : Entry(h, j) = Follow(Entry(f, j), Off(p), Off(q))
  BY <1>3, <1>11, <1>12, <1>13 DEF Follow
\* A slot that is neither q nor one of the tuple's strings is as it was.
<1>17. \A x \in TuplePositions(f) : x # q /\ ~link(x) => h.blk[x] = f.blk[x]
  BY <1>1, <1>4, <1>8, <1>11, <1>12
<1>18. h.blk[q] = b
  BY <1>1, <1>4, <1>8, <1>9, <1>11, <1>12
<1>19. ASSUME NEW j \in Live(f)
       PROVE  /\ Pos(Entry(h, j)) \in TuplePositions(h)
              /\ \A w \in Words : WordsOf(h, j)[w] = Follow(WordsOf(f, j)[w], Off(p), Off(q))
  <2>1. ASSUME NEW w \in Words PROVE WordsOf(f, j)[w] # Off(p)
    <3>1. CASE \E n \in StringFields : w = FieldWord(n)
      BY <1>7, <3>1
    <3>2. CASE ~\E n \in StringFields : w = FieldWord(n)
      <4>1. WordsOf(f, j)[w] < FirstOffset
        BY <3>2, TiedFacts
      <4>2. WordsOf(f, j)[w] \in Nat
        BY TiedFacts, WordType
      <4> QED BY <1>2, <4>1, <4>2
    <3> QED BY <3>1, <3>2
  <2>2. WordsOf(h, j) = WordsOf(f, j) /\ Pos(Entry(h, j)) \in TuplePositions(f)
    <3>1. CASE j = i
      BY <1>2, <1>3, <1>16, <1>18, <3>1 DEF Follow, WordsOf
    <3>2. CASE j # i
      <4>1. Entry(h, j) = Entry(f, j)
        BY <1>3, <1>16, <3>2 DEF Follow
      <4>2. /\ Pos(Entry(f, j)) \in TuplePositions(f)
            /\ Entry(f, j) = Off(Pos(Entry(f, j)))
        BY <1>0, GrownFacts
      <4>3. Pos(Entry(f, j)) # q
        BY <4>2 DEF Used, UsedBy
      <4>4. ~link(Pos(Entry(f, j)))
        BY <1>3, <1>7, <4>2
      <4> QED BY <1>17, <4>1, <4>2, <4>3, <4>4 DEF WordsOf
    <3> QED BY <3>1, <3>2
  <2> QED BY <1>15, <2>1, <2>2 DEF Follow
<1>20. ASSUME NEW j \in Live(f), NEW n \in StringFields
       PROVE  LET o == WordsOf(f, j)[FieldWord(n)]
                  x == Pos(Follow(o, Off(p), Off(q)))
              IN  /\ x \in TuplePositions(h)
                  /\ h.blk[x][0] = Entry(h, j)
                  /\ \A w \in Words \ {0} : h.blk[x][w] = f.blk[Pos(o)][w]
  <2> DEFINE o == WordsOf(f, j)[FieldWord(n)]
             x == Pos(o)
  <2>1. /\ o # Off(p) /\ x \in TuplePositions(f) /\ x # q
        /\ f.blk[x][0] = Entry(f, j) /\ (link(x) <=> j = i)
    BY <1>7
  <2>2. Follow(o, Off(p), Off(q)) = o
    BY <2>1 DEF Follow
  <2> HIDE DEF o
  <2>3. x \in 1..Len(f.blk) /\ g.blk[x] = f.blk[x] /\ h.blk[x] = k.blk[x]
    BY <1>1, <1>4, <1>11, <1>12, <2>1
  <2>4. h.blk[x][0] = Entry(h, j) /\ \A w \in Words \ {0} : h.blk[x][w] = f.blk[x][w]
    <3>1. CASE j = i
      <4>1. /\ k.blk[x][0] = Off(q)
            /\ \A w \in Words \ {0} : k.blk[x][w] = g.blk[x][w]
        BY <1>4, <1>8, <2>1, <2>3, <3>1
      <4>2. Entry(h, j) = Off(q)
        BY <1>16, <3>1 DEF Follow
      <4> QED BY <2>3, <4>1, <4>2
    <3>2. CASE j # i
      <4>1. k.blk[x] = g.blk[x]
        BY <1>4, <1>8, <2>1, <2>3, <3>2
      <4>2. Entry(h, j) = Entry(f, j)
        BY <1>3, <1>16, <3>2 DEF Follow
      <4> QED BY <2>1, <2>3, <4>1, <4>2
    <3> QED BY <3>1, <3>2
  <2> QED BY <1>15, <2>1, <2>2, <2>4 DEF o
<1>21. Carried(f, h, Off(p), Off(q))
  BY <1>14, <1>16, <1>19, <1>20 DEF Carried
<1>22. \A x \in TuplePositions(f) : ~Used(f, x) /\ x # q => h.blk[x] = f.blk[x]
  <2> SUFFICES ASSUME NEW x \in TuplePositions(f), ~Used(f, x), x # q
               PROVE  h.blk[x] = f.blk[x]
    OBVIOUS
  <2>1. ~link(x)
    BY <1>3 DEF Used, UsedBy
  <2> QED BY <1>17, <2>1
<1> QED BY <1>4, <1>8, <1>12, <1>14, <1>21, <1>22 DEF Swapped, h

LEMMA MoveStringSlot ==
    ASSUME NEW f \in FileType, Tied(f),
           NEW p \in TuplePositions(f), NEW q \in TuplePositions(f), p # q, ~Used(f, q),
           NEW i \in Live(f), NEW n \in StringFields,
           WordsOf(f, i)[FieldWord(n)] = Off(p)
    PROVE  Swapped(f, SwapTupleTo(f, Off(p), Off(q)), p, q)
<1> DEFINE b == f.blk[p]
           g == WriteTuple(f, Off(q), b)
           h == SwapTupleTo(f, Off(p), Off(q))
           y == Pos(Entry(f, i))
           u == FieldWord(n)
<1>0. LastArraySlot(f) <= Len(f.blk) /\ ~f.lost /\ Grown(f)
  BY DEF Tied, Grown
<1>1. /\ p \in Nat /\ q \in Nat /\ LastArraySlot(f) \in Nat \ {0} /\ Len(f.blk) \in Nat
      /\ \A x \in TuplePositions(f) : x \in Nat /\ x > LastArraySlot(f) /\ x \in 1..Len(f.blk)
      /\ p > 0 /\ q > 0
  BY <1>0, TuplePlaces, FileParts
<1>2. /\ Pos(Off(p)) = p /\ Pos(Off(q)) = q
      /\ Off(p) \in Nat /\ Off(p) >= FirstOffset
      /\ Off(q) \in Nat /\ Off(q) >= FirstOffset
  BY <1>1, OffPos
<1>3. /\ b[0] = Entry(f, i) /\ b[1] = 0
      /\ \A j \in Live(f) : Entry(f, j) # Off(p)
      /\ \A j \in Live(f) : \A m \in StringFields :
           WordsOf(f, j)[FieldWord(m)] = Off(p) => j = i /\ m = n
  BY <1>2, TiedFacts
<1>4. /\ g \in FileType /\ g.sub = f.sub /\ ~g.lost
      /\ Len(g.blk) = Len(f.blk)
      /\ \A x \in 1..Len(f.blk) : g.blk[x] = IF x = q THEN b ELSE f.blk[x]
      /\ SameArray(f, g)
      /\ h = IF ~HasEntry(g, b[1]) THEN Lost(g)
             ELSE IF ValidOffsetId(g, b[1], Off(p))
             THEN WriteIdValue(RelinkStrings(g, b, Off(q)), b[1], Off(q))
             ELSE RelinkHolder(g, b[0], Off(p), Off(q))
  BY Copied
<1> HIDE DEF g, h
<1>5. /\ LastArraySlot(g) = LastArraySlot(f)
      /\ LastArraySlot(g) <= Len(g.blk) /\ TuplePositions(g) = TuplePositions(f)
      /\ Live(g) = Live(f)
      /\ \A j \in Live(f) : Entry(g, j) = Entry(f, j)
  <2>1. /\ LastArraySlot(g) = LastArraySlot(f)
        /\ LastArraySlot(g) <= Len(g.blk)
        /\ Live(g) = Live(f)
        /\ \A j \in Live(f) : Entry(g, j) = Entry(f, j)
    BY <1>0, <1>4, SameEntries
  <2> QED BY <1>4, <2>1 DEF TuplePositions
\* A string's second word is 0, which is the id of another slot's tuple.
<1>6. HasEntry(g, b[1]) /\ ~ValidOffsetId(g, b[1], Off(p))
  <2>1. 0 \in Live(f)
    <3>1. i \in Nat /\ i < CurId(f) /\ CurId(f) \in Nat
      BY <1>0, GrownFacts
    <3>2. 0 \in Ids(f)
      BY <3>1 DEF Ids
    <3> QED BY <1>0, <3>2 DEF Grown
  <2>2. Entry(g, 0) # Off(p) /\ HasEntry(g, 0)
    <3>1. 0 \in Live(g)
      BY <1>5, <2>1
    <3> QED BY <1>3, <1>5, <2>1, <3>1 DEF Live
  <2> QED BY <1>3, <2>2 DEF ValidOffsetId
<1>7. /\ y \in TuplePositions(f) /\ y \in 1..Len(f.blk) /\ Entry(f, i) = Off(y) /\ y # q
      /\ f.blk[y] = WordsOf(f, i) /\ g.blk[y] = WordsOf(f, i)
  <2>1. y \in TuplePositions(f) /\ Entry(f, i) = Off(y)
    BY <1>0, GrownFacts
  <2>2. y # q
    BY <2>1 DEF Used, UsedBy
  <2> QED BY <1>1, <1>4, <2>1, <2>2 DEF WordsOf
<1> HIDE DEF y
<1>8. u \in Words /\ u \in HeaderWords..SlotWords - 1
  <2>1. FieldWord(n) \in Words /\ FieldWord(n) >= 2
    BY FieldWordType DEF StringFields
  <2> QED BY <2>1 DEF Words, HeaderWords
\* One word of the tuple, and no other, is the string's offset.
<1>9. ASSUME NEW w \in Words PROVE WordsOf(f, i)[w] = Off(p) <=> w = u
  <2>1. ASSUME WordsOf(f, i)[w] = Off(p) PROVE w = u
    <3>1. \E m \in StringFields : w = FieldWord(m)
      <4>1. WordsOf(f, i)[w] \in Nat /\ ~(WordsOf(f, i)[w] < FirstOffset)
        BY <1>2, <2>1
      <4> QED BY <4>1, TiedFacts
    <3> QED BY <1>3, <2>1, <3>1
  <2> QED BY <2>1
<1>10. h = WriteWord(g, Off(y), u, Off(q))
  <2>1. Pos(Off(y)) = y /\ Inside(g, Off(y))
    BY <1>1, <1>4, <1>7, OffPos DEF Inside
  <2>2. WordsOf(f, i)[1] # Off(p)
    <3>1. 1 \in Words /\ u # 1
      BY <1>8 DEF Words, HeaderWords
    <3> QED BY <1>9, <3>1
  <2> DEFINE hits == {w \in HeaderWords..SlotWords - 1 : WordsOf(f, i)[w] = Off(p)}
  <2>3. hits = {u}
    <3>1. \A w \in HeaderWords..SlotWords - 1 : w \in Words
      BY DEF Words, HeaderWords
    <3> QED BY <1>8, <1>9, <3>1
  <2> HIDE DEF hits
  <2>4. (CHOOSE w \in hits : \A v \in hits : w <= v) = u
    <3>1. u <= u
      BY <1>8 DEF Words
    <3>2. \E w \in hits : \A v \in hits : w <= v
      BY <2>3, <3>1
    <3> QED BY <2>3, <3>2
  <2>5. h = RelinkHolder(g, Off(y), Off(p), Off(q))
    BY <1>3, <1>4, <1>6, <1>7
  <2>6. g.blk[Pos(Off(y))] = WordsOf(f, i)
    BY <1>7, <2>1
  <2>7. RelinkHolder(g, Off(y), Off(p), Off(q)) =
          WriteWord(g, Off(y), CHOOSE w \in hits : \A v \in hits : w <= v, Off(q))
    BY <2>1, <2>2, <2>3, <2>6 DEF RelinkHolder, hits
  <2> QED BY <2>4, <2>5, <2>7
<1>11. /\ h \in FileType
       /\ h.sub = g.sub /\ h.lost = g.lost
       /\ Len(h.blk) = Len(g.blk)
       /\ \A x \in 1..Len(g.blk) : \A w \in Words :
            h.blk[x][w] = IF x = y /\ w = u THEN Off(q) ELSE g.blk[x][w]
       /\ \A x \in 1..Len(g.blk) : x # y => h.blk[x] = g.blk[x]
  <2>1. /\ g \in FileType /\ LastArraySlot(g) <= Len(g.blk)
        /\ y \in TuplePositions(g) /\ u \in Words /\ Off(q) \in Nat
    BY <1>2, <1>4, <1>5, <1>7, <1>8
  <2> HIDE DEF u
  <2> QED BY <1>10, <2>1, PutWord
<1>12. SameArray(f, h)
  <2>1. \A x \in 1..LastArraySlot(f) : x \in 1..Len(f.blk) /\ x # q /\ x # y
    BY <1>0, <1>1, <1>7
  <2> QED BY <1>1, <1>4, <1>11, <2>1 DEF SameArray
<1>13. /\ TuplePositions(h) = TuplePositions(f)
       /\ Live(h) = Live(f)
       /\ \A j \in Live(f) : Entry(h, j) = Entry(f, j)
  <2>1. /\ LastArraySlot(h) = LastArraySlot(f)
        /\ Live(h) = Live(f)
        /\ \A j \in Live(f) : Entry(h, j) = Entry(f, j)
    BY <1>0, <1>11, <1>12, SameEntries
  <2> QED BY <1>4, <1>11, <2>1 DEF TuplePositions
<1>14. \A j \in Live(f) : Entry(h, j) = Follow(Entry(f, j), Off(p), Off(q))
  BY <1>3, <1>13 DEF Follow
<1>15. \A x \in TuplePositions(f) : x # q /\ x # y => h.blk[x] = f.blk[x]
  BY <1>1, <1>4, <1>11
<1>16. h.blk[q] = b
  BY <1>1, <1>4, <1>7, <1>11
<1>17. ASSUME NEW j \in Live(f)
       PROVE  /\ Pos(Entry(h, j)) \in TuplePositions(h)
              /\ \A w \in Words : WordsOf(h, j)[w] = Follow(WordsOf(f, j)[w], Off(p), Off(q))
  <2>1. /\ Pos(Entry(f, j)) \in TuplePositions(f)
        /\ Entry(f, j) = Off(Pos(Entry(f, j)))
        /\ Entry(h, j) = Entry(f, j)
        /\ Entry(f, i) = Entry(f, j) => i = j
    BY <1>0, <1>13, GrownFacts
  <2>2. CASE j = i
    <3>1. WordsOf(h, i) = h.blk[y]
      BY <1>13 DEF WordsOf, y
    <3>2. \A w \in Words : h.blk[y][w] = IF w = u THEN Off(q) ELSE WordsOf(f, i)[w]
      BY <1>1, <1>4, <1>7, <1>11
    <3> QED BY <1>9, <1>13, <2>1, <2>2, <3>1, <3>2 DEF Follow
  <2>3. CASE j # i
    <3>1. Pos(Entry(f, j)) # q
      BY <2>1 DEF Used, UsedBy
    <3>2. Pos(Entry(f, j)) # y
      BY <1>7, <2>1, <2>3
    <3>3. WordsOf(h, j) = WordsOf(f, j)
      BY <1>15, <2>1, <3>1, <3>2 DEF WordsOf
    <3>4. ASSUME NEW w \in Words PROVE WordsOf(f, j)[w] # Off(p)
      <4>1. CASE \E m \in StringFields : w = FieldWord(m)
        BY <1>3, <2>3, <4>1
      <4>2. CASE ~\E m \in StringFields : w = FieldWord(m)
        <5>1. WordsOf(f, j)[w] < FirstOffset
          BY <4>2, TiedFacts
        <5>2. WordsOf(f, j)[w] \in Nat
          BY TiedFacts, WordType
        <5> QED BY <1>2, <5>1, <5>2
      <4> QED BY <4>1, <4>2
    <3> QED BY <1>13, <2>1, <3>3, <3>4 DEF Follow
  <2> QED BY <2>2, <2>3
<1>18. ASSUME NEW j \in Live(f), NEW m \in StringFields
       PROVE  LET o == WordsOf(f, j)[FieldWord(m)]
                  x == Pos(Follow(o, Off(p), Off(q)))
              IN  /\ x \in TuplePositions(h)
                  /\ h.blk[x][0] = Entry(h, j)
                  /\ \A w \in Words \ {0} : h.blk[x][w] = f.blk[Pos(o)][w]
  <2> DEFINE o == WordsOf(f, j)[FieldWord(m)]
  <2>1. /\ o = Off(Pos(o)) /\ Pos(o) \in TuplePositions(f)
        /\ f.blk[Pos(o)][0] = Entry(f, j)
        /\ Entry(f, i) # o
    BY TiedFacts
  <2>2. Entry(h, j) = Entry(f, j)
    BY <1>13
  <2>3. CASE o = Off(p)
    <3>1. j = i
      BY <1>3, <2>3
    <3>2. Pos(Follow(o, Off(p), Off(q))) = q
      BY <1>2, <2>3 DEF Follow
    <3> HIDE DEF o
    <3>3. Pos(o) = p
      BY <1>2, <2>3
    <3> QED BY <1>3, <1>13, <1>16, <2>2, <3>1, <3>2, <3>3 DEF o
  <2>4. CASE o # Off(p)
    <3>1. Follow(o, Off(p), Off(q)) = o
      BY <2>4 DEF Follow
    <3>2. Pos(o) # q
      BY <2>1 DEF Used, UsedBy
    <3> HIDE DEF o
    <3>3. Pos(o) # y
      BY <1>7, <2>1
    <3>4. h.blk[Pos(o)] = f.blk[Pos(o)]
      BY <1>15, <2>1, <3>2, <3>3
    <3> QED BY <1>13, <2>1, <2>2, <3>1, <3>4 DEF o
  <2> QED BY <2>3, <2>4
<1>19. Carried(f, h, Off(p), Off(q))
  BY <1>13, <1>14, <1>17, <1>18 DEF Carried
<1>20. \A x \in TuplePositions(f) : ~Used(f, x) /\ x # q => h.blk[x] = f.blk[x]
  <2>1. Used(f, y)
    BY <1>7 DEF Used, UsedBy
  <2> QED BY <1>15, <2>1
<1> QED BY <1>4, <1>11, <1>13, <1>19, <1>20 DEF Swapped, h

LEMMA MoveSlot ==
    ASSUME NEW f \in FileType, Tied(f),
           NEW p \in TuplePositions(f), NEW q \in TuplePositions(f), p # q,
           Used(f, p), ~Used(f, q)
    PROVE  Swapped(f, SwapTupleTo(f, Off(p), Off(q)), p, q)
BY MoveTupleSlot, MoveStringSlot DEF Used, UsedBy

-----------------------------------------------------------------------------
(***************************************************************************)
(* A tuple gets the next id, and the array may need one more slot for it.  *)
(***************************************************************************)
LEMMA GiveId ==
    ASSUME NEW g \in FileType, ~g.lost, LastArraySlot(g) <= Len(g.blk), NEW o \in Nat
    PROVE  LET c == CurId(g)
               h == [WriteIdValue(g, c, o) EXCEPT !.sub[CUR_ID] = @ + 1]
           IN  /\ h \in FileType /\ ~h.lost
               /\ CurId(h) = c + 1
               /\ Len(h.blk) = Len(g.blk)
               /\ \A x \in TuplePositions(g) : h.blk[x] = g.blk[x]
               /\ \A i \in Nat : i <= c => Entry(h, i) = IF i = c THEN o ELSE Entry(g, i)
<1> DEFINE c == CurId(g)
           k == WriteIdValue(g, c, o)
           h == [k EXCEPT !.sub[CUR_ID] = @ + 1]
<1>1. c \in Nat
  BY FileParts
<1>2. /\ k \in FileType
      /\ k.sub = g.sub /\ CurId(k) = c /\ ~k.lost
      /\ Len(k.blk) = Len(g.blk)
      /\ \A x \in TuplePositions(g) : k.blk[x] = g.blk[x]
      /\ \A i \in Nat : i <= c => Entry(k, i) = IF i = c THEN o ELSE Entry(g, i)
  BY <1>1, WriteEntry
<1> HIDE DEF k
<1>3. k.sub \in [0..5 -> Nat] /\ CUR_ID \in 0..5 /\ k.sub[CUR_ID] = c
  BY <1>2, FileParts DEF CUR_ID, CurId
<1>4. h = [k EXCEPT !.sub[CUR_ID] = c + 1]
  BY <1>3
<1>5. h \in FileType
  <2>1. c + 1 \in Nat
    BY <1>1
  <2>2. [k EXCEPT !.sub[CUR_ID] = c + 1] \in FileType
    BY <1>2, <2>1, SetCurIdType
  <2> QED BY <1>4, <2>2
<1>6. h.sub = [k.sub EXCEPT ![CUR_ID] = c + 1] /\ h.blk = k.blk /\ h.lost = k.lost
  BY <1>2 , <1>4 DEF FileType
<1>7. CurId(h) = c + 1
  BY <1>3, <1>6 DEF CurId
<1>8. \A i \in Nat : Entry(h, i) = Entry(k, i)
  BY <1>6 DEF Entry
<1> HIDE DEF h
<1> QED BY <1>2, <1>5, <1>6, <1>7, <1>8 DEF h, k

\* In k the tuples of f are where they may stay when the next id is given out.
LEMMA NameTuple ==
    ASSUME NEW f \in FileType, Tied(f), CurId(f) < MaxIds,
           NEW k \in FileType, ~k.lost, CurId(k) = CurId(f),
           EntryPos(CurId(f) + 1) <= Len(k.blk),
           NEW from \in Nat, NEW to \in Nat, from >= FirstOffset \/ from = to,
           Carried(f, k, from, to),
           \A x \in TuplePositions(f) :
              Pos(Follow(Off(x), from, to)) > EntryPos(CurId(f) + 1),
           NEW n \in EntryPos(CurId(f) + 1) + 1..Len(k.blk),
           k.blk[n][1] = CurId(f)
    PROVE  LET c == CurId(f)
               h == [WriteIdValue(k, c, Off(n)) EXCEPT !.sub[CUR_ID] = @ + 1]
           IN  /\ h \in FileType /\ Grown(h)
               /\ CurId(h) = c + 1 /\ Len(h.blk) = Len(k.blk)
               /\ c \notin Live(f) /\ Live(h) = Live(f) \cup {c}
               /\ Entry(h, c) = Off(n) /\ h.blk[n] = k.blk[n]
               /\ Carried(f, h, from, to)
<1> DEFINE c == CurId(f)
           m == EntryPos(c + 1)
           h == [WriteIdValue(k, c, Off(n)) EXCEPT !.sub[CUR_ID] = @ + 1]
<1>0. Grown(f) /\ Live(f) = Ids(f)
  BY DEF Tied, Grown
<1>1. /\ c \in Nat /\ c < FirstOffset /\ MaxIds \in Nat
      /\ \A i : i \in Live(f) <=> i \in Nat /\ i < c
  BY <1>0, FileParts, GrownFacts, MaxIdsAssumption DEF Ids
<1>2. /\ m \in Nat \ {0} /\ EntryPos(c) \in Nat \ {0} /\ EntryPos(c) <= m
      /\ Len(k.blk) \in Nat
  <2>1. c + 1 \in Nat /\ c <= c + 1
    BY <1>1
  <2> QED BY <1>1, <2>1, EntryPlace, EntryOrder, FileParts
<1>3. LastArraySlot(k) = EntryPos(c) /\ LastArraySlot(k) <= Len(k.blk)
  BY <1>2 DEF LastArraySlot
<1>4. n \in Nat /\ Off(n) \in Nat /\ Off(n) >= FirstOffset /\ Pos(Off(n)) = n
  <2>1. n \in Nat /\ n > 0
    BY <1>2
  <2> QED BY <2>1, OffPos
<1>5. /\ h \in FileType /\ ~h.lost
      /\ CurId(h) = c + 1
      /\ Len(h.blk) = Len(k.blk)
      /\ \A x \in TuplePositions(k) : h.blk[x] = k.blk[x]
      /\ \A i \in Nat : i <= c => Entry(h, i) = IF i = c THEN Off(n) ELSE Entry(k, i)
  <2> DEFINE h2 == [WriteIdValue(k, CurId(k), Off(n)) EXCEPT !.sub[CUR_ID] = @ + 1]
  <2>1. /\ h2 \in FileType /\ ~h2.lost
        /\ CurId(h2) = CurId(k) + 1
        /\ Len(h2.blk) = Len(k.blk)
        /\ \A x \in TuplePositions(k) : h2.blk[x] = k.blk[x]
        /\ \A i \in Nat : i <= CurId(k) =>
             Entry(h2, i) = IF i = CurId(k) THEN Off(n) ELSE Entry(k, i)
    BY <1>3, <1>4, GiveId
  <2>2. h = h2
    OBVIOUS
  <2> HIDE DEF h, h2
  <2> QED BY <2>1, <2>2
<1> HIDE DEF h, m
<1>6. /\ LastArraySlot(h) = m
      /\ TuplePositions(h) = m + 1..Len(k.blk)
      /\ \A x \in TuplePositions(k) : x > m => x \in TuplePositions(h)
      /\ \A x \in TuplePositions(h) : x \in TuplePositions(k)
  <2>1. LastArraySlot(h) = m
    BY <1>5 DEF LastArraySlot, m
  <2> QED BY <1>2, <1>3, <1>5, <2>1 DEF TuplePositions
<1>7. n \in TuplePositions(h) /\ h.blk[n] = k.blk[n]
  BY <1>5, <1>6 DEF m
<1>8. ASSUME NEW i \in Live(f)
      PROVE  /\ i \in Live(k)
             /\ Entry(h, i) = Entry(k, i) /\ Entry(k, i) = Follow(Entry(f, i), from, to)
             /\ Pos(Entry(h, i)) \in TuplePositions(h)
             /\ WordsOf(h, i) = WordsOf(k, i)
  <2>1. /\ i \in Live(k) /\ Entry(k, i) = Follow(Entry(f, i), from, to)
        /\ Pos(Entry(k, i)) \in TuplePositions(k)
    BY DEF Carried
  <2>2. Entry(h, i) = Entry(k, i)
    BY <1>1, <1>5
  <2>3. Pos(Entry(f, i)) \in TuplePositions(f) /\ Entry(f, i) = Off(Pos(Entry(f, i)))
    BY <1>0, GrownFacts
  <2>4. Pos(Entry(k, i)) > m
    BY <2>1, <2>3 DEF m
  <2> QED BY <1>5, <1>6, <2>1, <2>2, <2>4 DEF WordsOf
<1>9. ASSUME NEW i \in Live(f)
      PROVE  h.blk[Pos(Entry(h, i))][1] = i
  <2>1. WordsOf(h, i)[1] = Follow(WordsOf(f, i)[1], from, to)
    <3>1. 1 \in Words
      BY DEF Words
    <3> QED BY <1>8, <3>1 DEF Carried
  <2>2. WordsOf(f, i)[1] = i /\ i \in Nat /\ i < FirstOffset
    BY <1>0, GrownFacts DEF WordsOf
  <2>3. Follow(i, from, to) = i
    BY <2>2 DEF Follow
  <2> QED BY <2>1, <2>2, <2>3 DEF WordsOf
<1>10. c \notin Live(f) /\ Live(h) = Live(f) \cup {c}
  <2>1. Ids(h) = 0..c
    BY <1>1, <1>5 DEF Ids
  <2>2. LastArraySlot(h) <= Len(h.blk)
    BY <1>5, <1>6 DEF m
  <2>3. \A i : i \in Live(h) <=> i \in 0..c /\ Entry(h, i) # 0
    BY <1>5, <2>1, <2>2, LiveFacts
  <2>4. ASSUME NEW i \in Live(f) PROVE Entry(h, i) # 0
    <3>1. Pos(0) = 1 - FirstOffset /\ 1 - FirstOffset < 1
      BY DEF Pos
    <3>2. \A x \in TuplePositions(h) : x >= 1
      BY <1>2, <1>6
    <3> QED BY <1>8, <3>1, <3>2
  <2>5. Entry(h, c) = Off(n) /\ Off(n) # 0
    BY <1>1, <1>4, <1>5
  <2>6. \A i : i \in 0..c <=> i \in Live(f) \/ i = c
    BY <1>1
  <2> QED BY <1>1, <2>3, <2>4, <2>5, <2>6
<1>11. Entry(h, c) = Off(n)
  BY <1>1, <1>5
<1>12. EntriesLead(h)
  <2>1. ASSUME NEW i \in Live(h)
        PROVE  /\ Pos(Entry(h, i)) \in TuplePositions(h)
               /\ h.blk[Pos(Entry(h, i))][1] = i
    <3>1. CASE i = c
      BY <1>4, <1>7, <1>11, <3>1
    <3>2. CASE i # c
      BY <1>8, <1>9, <1>10, <3>2
    <3> QED BY <3>1, <3>2
  <2> QED BY <2>1 DEF EntriesLead
<1>13. Grown(h)
  <2>1. CurId(h) <= MaxIds /\ LastArraySlot(h) <= Len(h.blk)
    BY <1>1, <1>5, <1>6 DEF m
  <2>2. Live(h) = Ids(h)
    <3>1. Ids(h) = 0..c
      BY <1>1, <1>5 DEF Ids
    <3>2. \A i : i \in 0..c <=> i \in Live(f) \/ i = c
      BY <1>1
    <3> QED BY <1>10, <3>1, <3>2
  <2> QED BY <1>5, <1>12, <2>1, <2>2 DEF Grown
<1>14. Carried(f, h, from, to)
  <2> SUFFICES ASSUME NEW i \in Live(f)
               PROVE  /\ \A w \in Words : WordsOf(h, i)[w] = Follow(WordsOf(f, i)[w], from, to)
                      /\ \A r \in StringFields :
                           LET o == WordsOf(f, i)[FieldWord(r)]
                               x == Pos(Follow(o, from, to))
                           IN  /\ x \in TuplePositions(h)
                               /\ h.blk[x][0] = Entry(h, i)
                               /\ \A w \in Words \ {0} : h.blk[x][w] = f.blk[Pos(o)][w]
    BY <1>8, <1>10 DEF Carried
  <2>1. \A w \in Words : WordsOf(h, i)[w] = Follow(WordsOf(f, i)[w], from, to)
    BY <1>8 DEF Carried
  <2>2. ASSUME NEW r \in StringFields
        PROVE  LET o == WordsOf(f, i)[FieldWord(r)]
                   x == Pos(Follow(o, from, to))
               IN  /\ x \in TuplePositions(h)
                   /\ h.blk[x][0] = Entry(h, i)
                   /\ \A w \in Words \ {0} : h.blk[x][w] = f.blk[Pos(o)][w]
    <3> DEFINE o == WordsOf(f, i)[FieldWord(r)]
               x == Pos(Follow(o, from, to))
    <3>1. /\ x \in TuplePositions(k)
          /\ k.blk[x][0] = Entry(k, i)
          /\ \A w \in Words \ {0} : k.blk[x][w] = f.blk[Pos(o)][w]
      BY DEF Carried
    <3>2. x > m
      <4>1. Pos(o) \in TuplePositions(f) /\ o = Off(Pos(o))
        BY TiedFacts
      <4> QED BY <4>1 DEF m
    <3>3. x \in TuplePositions(h) /\ h.blk[x] = k.blk[x]
      BY <1>5, <1>6, <3>1, <3>2
    <3> QED BY <1>8, <3>1, <3>3
  <2> QED BY <2>1, <2>2
<1> QED BY <1>5, <1>7, <1>10, <1>11, <1>13, <1>14 DEF h

\* What is in h of the tuples of f, when h has one tuple more, at offset o.
Reserved(f, h, o, from, to) ==
    /\ h \in FileType /\ Grown(h)
    /\ CurId(h) = CurId(f) + 1
    /\ CurId(f) \notin Live(f) /\ Live(h) = Live(f) \cup {CurId(f)}
    /\ Entry(h, CurId(f)) = o
    /\ Carried(f, h, from, to)
    /\ to # o /\ \A x \in TuplePositions(f) : Off(x) # to /\ Off(x) # o
    /\ from >= FirstOffset \/ from = to
    /\ \A x \in TuplePositions(h) :
         \/ x = Pos(o)
         \/ \E y \in TuplePositions(f) : x = Pos(Follow(Off(y), from, to))

\* The new slot itself does not disturb the tuples.
LEMMA ExtendTied ==
    ASSUME NEW f \in FileType, Tied(f), NEW b \in WordBlock
    PROVE  LET g == InsertNewTuple(f, b)
           IN  /\ g \in FileType /\ Tied(g) /\ ~g.lost
               /\ CurId(g) = CurId(f) /\ Live(g) = Live(f)
               /\ LastArraySlot(g) = LastArraySlot(f)
               /\ Len(g.blk) = Len(f.blk) + 1
               /\ g.blk[Len(f.blk) + 1] = b
               /\ \A x \in 1..Len(f.blk) : g.blk[x] = f.blk[x]
               /\ \A i \in Live(f) : /\ Entry(g, i) = Entry(f, i)
                                     /\ WordsOf(g, i) = WordsOf(f, i)
               /\ Carried(f, g, 0, 0)
<1> DEFINE g == InsertNewTuple(f, b)
<1>0. Grown(f) /\ LastArraySlot(f) <= Len(f.blk) /\ ~f.lost
  BY DEF Tied, Grown
<1>1. /\ g \in FileType
      /\ g.sub = f.sub /\ g.lost = f.lost
      /\ Len(g.blk) = Len(f.blk) + 1
      /\ g.blk[Len(f.blk) + 1] = b
      /\ \A x \in 1..Len(f.blk) : g.blk[x] = f.blk[x]
  BY Extend
<1> HIDE DEF g
<1>2. /\ Len(f.blk) \in Nat /\ LastArraySlot(f) \in Nat
      /\ \A x \in TuplePositions(f) : x \in 1..Len(f.blk)
  BY <1>0, TuplePlaces, FileParts
<1>3. SameArray(f, g)
  <2>1. \A x \in 1..LastArraySlot(f) : x \in 1..Len(f.blk)
    BY <1>0, <1>2
  <2> QED BY <1>1, <1>2, <2>1 DEF SameArray
<1>4. /\ CurId(g) = CurId(f) /\ Live(g) = Live(f)
      /\ LastArraySlot(g) = LastArraySlot(f)
      /\ TuplePositions(f) \subseteq TuplePositions(g)
      /\ \A i \in Live(f) : Entry(g, i) = Entry(f, i)
  BY <1>0, <1>1, <1>3, SameEntries
<1>5. \A i \in Live(f) : /\ Pos(Entry(f, i)) \in TuplePositions(f)
                         /\ WordsOf(g, i) = WordsOf(f, i)
                         /\ WordsOf(f, i)[1] = i
  BY <1>0, <1>1, <1>2, <1>4, GrownFacts DEF WordsOf
<1>6. Grown(g)
  <2>1. \A i \in Live(f) : g.blk[Pos(Entry(f, i))][1] = i
    BY <1>1, <1>2, <1>5 DEF WordsOf
  <2> QED BY <1>0, <1>1, <1>3, <2>1, KeepGrown
<1>7. ASSUME NEW i \in Live(f), NEW n \in StringFields
      PROVE  LET x == Pos(WordsOf(f, i)[FieldWord(n)])
             IN  /\ x \in TuplePositions(f) /\ g.blk[x] = f.blk[x]
                 /\ f.blk[x][0] = Entry(f, i)
  <2>1. /\ Pos(WordsOf(f, i)[FieldWord(n)]) \in TuplePositions(f)
        /\ f.blk[Pos(WordsOf(f, i)[FieldWord(n)])][0] = Entry(f, i)
    BY TiedFacts
  <2> QED BY <1>1, <1>2, <2>1
<1>8. Tied(g)
  <2> SUFFICES ASSUME NEW i \in Live(f)
               PROVE  HasStrings(g, i, WordsOf(f, i), StringFields)
    BY <1>4, <1>5, <1>6 DEF Tied
  <2>1. HasStrings(f, i, WordsOf(f, i), StringFields)
    BY DEF Tied
  <2> QED BY <1>0, <1>1, <1>3, <1>7, <2>1, KeepStrings
<1>9. Carried(f, g, 0, 0)
  <2>1. \A o : Follow(o, 0, 0) = o
    BY DEF Follow
  <2> QED BY <1>4, <1>5, <1>7, <2>1 DEF Carried
<1> QED BY <1>0, <1>1, <1>4, <1>5, <1>8, <1>9 DEF g

LEMMA UsedPlaces ==
    ASSUME NEW f \in FileType, Tied(f), NEW x \in Nat, Used(f, x)
    PROVE  x \in TuplePositions(f)
<1>1. Pos(Off(x)) = x
  BY OffPos
<1>2. \A i \in Live(f) : Pos(Entry(f, i)) \in TuplePositions(f)
  BY GrownFacts DEF Tied
<1>3. \A i \in Live(f) : \A n \in StringFields :
        Pos(WordsOf(f, i)[FieldWord(n)]) \in TuplePositions(f)
  BY TiedFacts
<1> QED BY <1>1, <1>2, <1>3 DEF Used, UsedBy

LEMMA ReserveInPlace ==
    ASSUME NEW f \in FileType, Tied(f), CurId(f) < MaxIds, ~GrowthDue(CurId(f)),
           NEW b \in WordBlock, b[1] = CurId(f)
    PROVE  LET h == AppendToIdArray(InsertNewTuple(f, b), End(f))
           IN  Reserved(f, h, End(f), 0, 0) /\ h.blk[Pos(End(f))] = b
<1> DEFINE g == InsertNewTuple(f, b)
           h == AppendToIdArray(g, End(f))
           L == Len(f.blk)
           c == CurId(f)
<1>0. LastArraySlot(f) <= L /\ Grown(f)
  BY DEF Tied, Grown
<1>1. /\ g \in FileType /\ ~g.lost
      /\ CurId(g) = CurId(f) /\ Len(g.blk) = L + 1 /\ g.blk[L + 1] = b
      /\ Carried(f, g, 0, 0)
  BY ExtendTied
<1> HIDE DEF g
<1>2. /\ c \in Nat /\ L \in Nat /\ LastArraySlot(f) \in Nat \ {0}
      /\ EntryPos(c + 1) = LastArraySlot(f)
      /\ \A x \in TuplePositions(f) : x \in 1..L /\ x > LastArraySlot(f)
  BY <1>0, FileParts, TuplePlaces, NextPlace DEF LastArraySlot
<1>3. /\ End(f) = Off(L + 1) /\ Pos(Off(L + 1)) = L + 1
      /\ Off(L + 1) >= FirstOffset /\ Off(L + 1) \in Nat
  <2>1. L + 1 \in Nat /\ L + 1 > 0
    BY <1>2
  <2>2. End(f) = Off(L + 1)
    BY DEF End
  <2> QED BY <2>1, <2>2, OffPos
<1>4. \A x \in TuplePositions(f) : Follow(Off(x), 0, 0) = Off(x) /\ Pos(Off(x)) = x
  BY <1>2, OffPos DEF Follow
<1>5. h = [WriteIdValue(g, c, Off(L + 1)) EXCEPT !.sub[CUR_ID] = @ + 1]
  BY <1>1, <1>3 DEF AppendToIdArray
<1>6. /\ h \in FileType /\ Grown(h)
      /\ CurId(h) = c + 1 /\ Len(h.blk) = L + 1
      /\ c \notin Live(f) /\ Live(h) = Live(f) \cup {c}
      /\ Entry(h, c) = Off(L + 1) /\ h.blk[L + 1] = b
      /\ Carried(f, h, 0, 0)
  <2>1. /\ EntryPos(c + 1) <= Len(g.blk)
        /\ L + 1 \in EntryPos(c + 1) + 1..Len(g.blk)
        /\ g.blk[L + 1][1] = c
    BY <1>0, <1>1, <1>2
  <2>2. \A x \in TuplePositions(f) : Pos(Follow(Off(x), 0, 0)) > EntryPos(c + 1)
    BY <1>2, <1>4
  <2> DEFINE n == L + 1
             h2 == [WriteIdValue(g, c, Off(n)) EXCEPT !.sub[CUR_ID] = @ + 1]
  <2> HIDE DEF n
  <2>3. n \in EntryPos(c + 1) + 1..Len(g.blk) /\ g.blk[n][1] = c
    BY <2>1 DEF n
  <2>4. /\ h2 \in FileType /\ Grown(h2)
        /\ CurId(h2) = c + 1 /\ Len(h2.blk) = Len(g.blk)
        /\ c \notin Live(f) /\ Live(h2) = Live(f) \cup {c}
        /\ Entry(h2, c) = Off(n) /\ h2.blk[n] = g.blk[n]
        /\ Carried(f, h2, 0, 0)
    BY <1>1, <2>1, <2>2, <2>3, NameTuple
  <2>5. h = h2
    BY <1>5 DEF n
  <2> HIDE DEF h, h2, L
  <2> QED BY <1>1, <2>4, <2>5 DEF n
<1> HIDE DEF h
<1>7. ASSUME NEW x \in TuplePositions(f) PROVE Off(x) # 0 /\ Off(x) # Off(L + 1)
  <2>1. x \in Nat /\ x > 0 /\ x <= L
    BY <1>2
  <2> QED BY <1>2, <2>1 DEF Off
<1>8. ASSUME NEW x \in TuplePositions(h), x # L + 1
      PROVE  x \in TuplePositions(f)
  <2>1. LastArraySlot(h) = LastArraySlot(f)
    BY <1>2, <1>6 DEF LastArraySlot
  <2> QED BY <1>2, <1>6, <1>8, <2>1 DEF TuplePositions
<1>9. Reserved(f, h, End(f), 0, 0)
  <2>1. 0 # Off(L + 1)
    BY <1>3
  <2> QED BY <1>3, <1>4, <1>6, <1>7, <1>8, <2>1 DEF Reserved
<1> QED BY <1>3, <1>6, <1>9 DEF h, g

LEMMA ReserveByMoving ==
    ASSUME NEW f \in FileType, Tied(f), NothingSpare(f),
           CurId(f) < MaxIds, GrowthDue(CurId(f)),
           NEW b \in WordBlock, b[1] = CurId(f)
    PROVE  LET h == AppendToIdArray(InsertNewTuple(f, b), End(f))
               p == LastArraySlot(f) + 1
           IN  /\ Reserved(f, h, End(f), Off(p), Off(Len(f.blk) + 2))
               /\ h.blk[Pos(End(f))] = b
<1> DEFINE L == Len(f.blk)
           c == CurId(f)
           p == LastArraySlot(f) + 1
           q == L + 2
           f1 == InsertNewTuple(f, b)
           f2 == InsertNewTuple(f1, ZeroSlot)
           k == SwapTupleTo(f2, Off(p), Off(q))
           h == AppendToIdArray(f1, End(f))
<1>0. LastArraySlot(f) <= L /\ Grown(f) /\ Live(f) = Ids(f)
  BY DEF Tied, Grown
<1>1. /\ f1 \in FileType /\ Tied(f1) /\ ~f1.lost
      /\ CurId(f1) = c /\ Live(f1) = Live(f)
      /\ LastArraySlot(f1) = LastArraySlot(f)
      /\ Len(f1.blk) = L + 1 /\ f1.blk[L + 1] = b
      /\ \A x \in 1..L : f1.blk[x] = f.blk[x]
      /\ \A i \in Live(f) : Entry(f1, i) = Entry(f, i) /\ WordsOf(f1, i) = WordsOf(f, i)
  BY ExtendTied
<1> HIDE DEF f1
<1>2. /\ f2 \in FileType /\ Tied(f2) /\ ~f2.lost
      /\ CurId(f2) = c /\ Live(f2) = Live(f)
      /\ LastArraySlot(f2) = LastArraySlot(f)
      /\ Len(f2.blk) = L + 1 + 1
      /\ \A x \in 1..L + 1 : f2.blk[x] = f1.blk[x]
      /\ \A i \in Live(f) : Entry(f2, i) = Entry(f, i) /\ WordsOf(f2, i) = WordsOf(f, i)
  <2>1. /\ f2 \in FileType /\ Tied(f2) /\ ~f2.lost
        /\ CurId(f2) = CurId(f1) /\ Live(f2) = Live(f1)
        /\ LastArraySlot(f2) = LastArraySlot(f1)
        /\ Len(f2.blk) = Len(f1.blk) + 1
        /\ \A x \in 1..Len(f1.blk) : f2.blk[x] = f1.blk[x]
        /\ \A i \in Live(f1) : Entry(f2, i) = Entry(f1, i) /\ WordsOf(f2, i) = WordsOf(f1, i)
    BY <1>1, ZeroSlotType, ExtendTied
  <2> HIDE DEF f2
  <2> QED BY <1>1, <2>1
<1> HIDE DEF f2
<1>3. /\ c \in Nat /\ L \in Nat /\ LastArraySlot(f) \in Nat \ {0}
      /\ EntryPos(c + 1) = p /\ c > 1
      /\ RealIdArraySize(c) \div SlotWords = LastArraySlot(f)
      /\ \A x \in TuplePositions(f) : x \in 1..L /\ x > LastArraySlot(f)
      /\ p \in Nat \ {0} /\ q \in Nat \ {0}
  BY <1>0, FileParts, TuplePlaces, NextPlace DEF LastArraySlot
<1>4. p \in TuplePositions(f) /\ p <= L
  <2>1. 0 \in Live(f)
    BY <1>0, <1>3 DEF Ids
  <2>2. Pos(Entry(f, 0)) \in 1..L /\ Pos(Entry(f, 0)) > LastArraySlot(f)
    BY <1>0, <1>3, <2>1, GrownFacts
  <2>3. p <= L
    BY <1>3, <2>2
  <2> QED BY <1>3, <2>3 DEF TuplePositions
<1>5. TuplePositions(f2) = p..L + 2
  <2>1. L + 1 + 1 = L + 2
    BY <1>3
  <2> QED BY <1>2, <2>1 DEF TuplePositions
<1>6. /\ End(f) = Off(L + 1) /\ Pos(Off(L + 1)) = L + 1
      /\ Off(L + 1) >= FirstOffset /\ Off(L + 1) \in Nat
      /\ Pos(Off(p)) = p /\ Off(p) \in Nat /\ Off(p) >= FirstOffset
      /\ Pos(Off(q)) = q /\ Off(q) \in Nat
      /\ Off(q) # Off(L + 1)
  <2>1. L + 1 \in Nat \ {0} /\ L + 1 # q
    BY <1>3
  <2>2. \A x \in Nat \ {0} : Pos(Off(x)) = x /\ Off(x) >= FirstOffset /\ Off(x) \in Nat
    BY OffPos
  <2>3. End(f) = Off(L + 1)
    BY DEF End
  <2> HIDE DEF L, p, q
  <2> QED BY <1>3, <2>1, <2>2, <2>3
<1> HIDE DEF L, p, q
<1>7. \A x \in Nat : Used(f2, x) <=> Used(f, x)
  BY <1>2 DEF Used, UsedBy
<1>8. Used(f2, p) /\ ~Used(f2, q) /\ ~Used(f2, L + 1)
  <2>1. Used(f, p)
    BY <1>4 DEF NothingSpare, Used
  <2>2. ASSUME NEW x \in Nat, Used(f, x) PROVE x \in 1..L
    BY <1>3, <2>2, UsedPlaces
  <2>3. q \notin 1..L /\ L + 1 \notin 1..L
    BY <1>3 DEF q
  <2>4. p \in Nat /\ q \in Nat /\ L + 1 \in Nat
    BY <1>3
  <2> QED BY <1>7, <2>1, <2>2, <2>3, <2>4
<1>9. /\ k \in FileType /\ k.sub = f2.sub /\ ~k.lost
      /\ Len(k.blk) = L + 2
      /\ Live(k) = Live(f)
      /\ Carried(f2, k, Off(p), Off(q))
      /\ k.blk[L + 1] = b
  <2>1. p \in TuplePositions(f2) /\ q \in TuplePositions(f2) /\ p # q
    BY <1>3, <1>4, <1>5 DEF q
  <2>2. Swapped(f2, k, p, q)
    BY <1>2, <1>8, <2>1, MoveSlot
  <2> HIDE DEF k
  <2>3. L + 1 \in TuplePositions(f2) /\ L + 1 # q /\ L + 1 \in 1..L + 1 /\ L + 1 + 1 = L + 2
    BY <1>3, <1>4, <1>5 DEF q
  <2> QED BY <1>1, <1>2, <1>8, <2>2, <2>3 DEF Swapped
<1>10. h = [WriteIdValue(k, c, Off(L + 1)) EXCEPT !.sub[CUR_ID] = @ + 1]
  <2>1. End(f1) = Off(q)
    <3>1. L + 1 + 1 = q
      BY <1>3 DEF q
    <3> QED BY <1>1, <3>1 DEF End
  <2>2. GrowIdArray(f1) = k
    BY <1>1, <1>3, <2>1 DEF GrowIdArray, f2, k, p
  <2> HIDE DEF k
  <2> QED BY <1>1, <1>6, <2>2 DEF AppendToIdArray
<1> HIDE DEF k, h
<1>11. Carried(f, k, Off(p), Off(q))
  <2>1. ASSUME NEW i \in Live(f), NEW n \in StringFields
        PROVE  LET x == Pos(WordsOf(f, i)[FieldWord(n)])
               IN  f2.blk[x] = f.blk[x]
    <3>1. Pos(WordsOf(f, i)[FieldWord(n)]) \in 1..L
      BY <1>3, TiedFacts
    <3>2. \A x \in 1..L : x \in 1..L + 1
      BY <1>3
    <3> QED BY <1>1, <1>2, <3>1, <3>2
  <2> QED BY <1>2, <1>9, <2>1 DEF Carried
<1>12. \A x \in TuplePositions(f) : Pos(Follow(Off(x), Off(p), Off(q))) > p
  <2> SUFFICES ASSUME NEW x \in TuplePositions(f)
               PROVE  Pos(Follow(Off(x), Off(p), Off(q))) > p
    OBVIOUS
  <2>1. x \in Nat /\ x > LastArraySlot(f) /\ Pos(Off(x)) = x
    BY <1>3, OffPos
  <2>2. CASE x = p
    <3>1. q > p
      BY <1>3, <1>4 DEF q
    <3> QED BY <1>6, <2>2, <3>1 DEF Follow
  <2>3. CASE x # p
    <3>1. Off(x) # Off(p) /\ x > p
      BY <1>3, <2>1, <2>3 DEF Off, p
    <3> QED BY <2>1, <3>1 DEF Follow
  <2> QED BY <2>2, <2>3
<1>13. /\ h \in FileType /\ Grown(h)
       /\ CurId(h) = c + 1 /\ Len(h.blk) = L + 2
       /\ c \notin Live(f) /\ Live(h) = Live(f) \cup {c}
       /\ Entry(h, c) = Off(L + 1) /\ h.blk[L + 1] = b
       /\ Carried(f, h, Off(p), Off(q))
  <2> DEFINE n == L + 1
             h2 == [WriteIdValue(k, c, Off(n)) EXCEPT !.sub[CUR_ID] = @ + 1]
  <2>1. /\ EntryPos(c + 1) <= Len(k.blk)
        /\ n \in EntryPos(c + 1) + 1..Len(k.blk)
        /\ k.blk[n][1] = c
    BY <1>3, <1>4, <1>9
  <2> HIDE DEF n
  <2>2. CurId(k) = CurId(f)
    BY <1>2, <1>9 DEF CurId
  <2>3. \A x \in TuplePositions(f) :
          Pos(Follow(Off(x), Off(p), Off(q))) > EntryPos(CurId(f) + 1)
    BY <1>3, <1>12
  <2>4. /\ h2 \in FileType /\ Grown(h2)
        /\ CurId(h2) = c + 1 /\ Len(h2.blk) = Len(k.blk)
        /\ c \notin Live(f) /\ Live(h2) = Live(f) \cup {c}
        /\ Entry(h2, c) = Off(n) /\ h2.blk[n] = k.blk[n]
        /\ Carried(f, h2, Off(p), Off(q))
    BY <1>6, <1>9, <1>11, <2>1, <2>2, <2>3, NameTuple
  <2>5. h = h2
    BY <1>10 DEF n
  <2> HIDE DEF h2
  <2> QED BY <1>9, <2>4, <2>5 DEF n
<1>14. ASSUME NEW x \in TuplePositions(f)
       PROVE  /\ Off(x) # Off(q) /\ Off(x) # Off(L + 1)
              /\ x # p => Follow(Off(x), Off(p), Off(q)) = Off(x)
              /\ Pos(Off(x)) = x
  <2>1. x \in Nat /\ x <= L
    BY <1>3
  <2> QED BY <1>3, <2>1, OffPos DEF Off, Follow, q
<1>15. ASSUME NEW x \in TuplePositions(h), x # L + 1
       PROVE  \E y \in TuplePositions(f) : x = Pos(Follow(Off(y), Off(p), Off(q)))
  <2>1. x \in p + 1..L + 2
    BY <1>3, <1>13 DEF TuplePositions, LastArraySlot
  <2>2. CASE x = q
    <3>1. Follow(Off(p), Off(p), Off(q)) = Off(q)
      BY DEF Follow
    <3> QED BY <1>4, <1>6, <2>2, <3>1
  <2>3. CASE x # q
    <3>1. x \in p..L /\ x # p
      BY <1>3, <1>15, <2>1, <2>3 DEF q
    <3>2. x \in TuplePositions(f)
      BY <3>1 DEF TuplePositions, p, L
    <3> QED BY <1>14, <3>1, <3>2
  <2> QED BY <2>2, <2>3
<1>16. Reserved(f, h, End(f), Off(p), Off(q))
  BY <1>6, <1>13, <1>14, <1>15 DEF Reserved
<1> QED BY <1>6, <1>13, <1>16 DEF h, f1, p, q, L

LEMMA ReserveTied ==
    ASSUME NEW f \in FileType, Tied(f), NothingSpare(f), CurId(f) < MaxIds,
           NEW b \in WordBlock, b[1] = CurId(f)
    PROVE  LET h == AppendToIdArray(InsertNewTuple(f, b), End(f))
           IN  \E from \in Nat, to \in Nat :
                 Reserved(f, h, End(f), from, to) /\ h.blk[Pos(End(f))] = b
<1> DEFINE h == AppendToIdArray(InsertNewTuple(f, b), End(f))
           p == Off(LastArraySlot(f) + 1)
           q == Off(Len(f.blk) + 2)
<1>1. p \in Nat /\ q \in Nat
  <2>1. LastArraySlot(f) <= Len(f.blk)
    BY DEF Tied, Grown
  <2>2. LastArraySlot(f) \in Nat /\ Len(f.blk) \in Nat
    BY <2>1, TuplePlaces, FileParts
  <2> QED BY <2>2 DEF Off
<1>2. CASE GrowthDue(CurId(f))
  <2>1. Reserved(f, h, End(f), p, q) /\ h.blk[Pos(End(f))] = b
    BY <1>2, ReserveByMoving
  <2> HIDE DEF h, p, q
  <2> QED BY <1>1, <2>1 DEF h
<1>3. CASE ~GrowthDue(CurId(f))
  <2>1. Reserved(f, h, End(f), 0, 0) /\ h.blk[Pos(End(f))] = b
    BY <1>3, ReserveInPlace
  <2> HIDE DEF h
  <2> QED BY <2>1 DEF h
<1> QED BY <1>2, <1>3

-----------------------------------------------------------------------------
(***************************************************************************)
(* What the other tuples are after that.                                   *)
(***************************************************************************)

\* Following a move never makes one offset of two.
LEMMA FollowApart ==
    ASSUME NEW f \in FileType, NEW h, NEW o, NEW from, NEW to, Reserved(f, h, o, from, to),
           NEW x \in TuplePositions(f), NEW y \in TuplePositions(f), Off(x) # Off(y)
    PROVE  /\ Follow(Off(x), from, to) # Follow(Off(y), from, to)
           /\ Follow(Off(x), from, to) # o
BY DEF Reserved, Follow

LEMMA CarriedStrings ==
    ASSUME NEW f \in FileType, Tied(f), NEW h, NEW o, NEW from \in Nat, NEW to \in Nat,
           Reserved(f, h, o, from, to), NEW i \in Live(f)
    PROVE  HasStrings(h, i, WordsOf(h, i), StringFields)
<1> DEFINE g(x) == Follow(x, from, to)
<1>1. /\ Grown(f) /\ Carried(f, h, from, to)
      /\ Live(h) = Live(f) \cup {CurId(f)} /\ Entry(h, CurId(f)) = o
      /\ from >= FirstOffset \/ from = to
  BY DEF Tied, Reserved
<1>2. \A j \in Live(f) : /\ Pos(Entry(f, j)) \in TuplePositions(f)
                         /\ Entry(f, j) = Off(Pos(Entry(f, j)))
                         /\ Entry(h, j) = g(Entry(f, j))
  BY <1>1, GrownFacts DEF Carried
<1>3. \A w \in Words : WordsOf(h, i)[w] = g(WordsOf(f, i)[w])
  BY <1>1 DEF Carried
<1>4. \A n \in StringFields : FieldWord(n) \in Words
  BY FieldWordType DEF StringFields
<1>5. ASSUME NEW n \in StringFields
      PROVE  LET s == WordsOf(f, i)[FieldWord(n)]
             IN  /\ WordsOf(h, i)[FieldWord(n)] = g(s)
                 /\ Pos(s) \in TuplePositions(f) /\ s = Off(Pos(s))
                 /\ StringAt(h, g(s), Entry(h, i))
                 /\ \A j \in Live(f) : Entry(f, j) # s
                 /\ \A m \in StringFields \ {n} : WordsOf(f, i)[FieldWord(m)] # s
  <2> DEFINE s == WordsOf(f, i)[FieldWord(n)]
  <2>1. /\ Pos(s) \in TuplePositions(f) /\ s = Off(Pos(s))
        /\ f.blk[Pos(s)][1] = 0
        /\ \A j \in Live(f) : Entry(f, j) # s
        /\ \A j \in Live(f) : \A m \in StringFields :
              WordsOf(f, j)[FieldWord(m)] = s => j = i /\ m = n
    BY TiedFacts
  <2>2. /\ Pos(g(s)) \in TuplePositions(h)
        /\ h.blk[Pos(g(s))][0] = Entry(h, i)
        /\ \A w \in Words \ {0} : h.blk[Pos(g(s))][w] = f.blk[Pos(s)][w]
    BY <1>1 DEF Carried
  <2>3. 1 \in Words \ {0}
    BY DEF Words
  <2>4. StringAt(h, g(s), Entry(h, i))
    BY <2>1, <2>2, <2>3 DEF StringAt, NullValue
  <2> QED BY <1>3, <1>4, <2>1, <2>4
<1>6. ASSUME NEW n \in StringFields, NEW j \in Live(h)
      PROVE  Entry(h, j) # WordsOf(h, i)[FieldWord(n)]
  <2> DEFINE s == WordsOf(f, i)[FieldWord(n)]
  <2>1. Pos(s) \in TuplePositions(f) /\ s = Off(Pos(s)) /\ WordsOf(h, i)[FieldWord(n)] = g(s)
    BY <1>5
  <2>2. CASE j = CurId(f)
    BY <1>1, <2>1, <2>2 DEF Reserved, Follow
  <2>3. CASE j \in Live(f)
    <3>1. Entry(f, j) # s
      BY <1>5, <2>3
    <3> QED BY <1>2, <2>1, <2>3, <3>1, FollowApart
  <2> QED BY <1>1, <2>2, <2>3
<1>7. ASSUME NEW n \in StringFields, NEW m \in StringFields \ {n}
      PROVE  WordsOf(h, i)[FieldWord(m)] # WordsOf(h, i)[FieldWord(n)]
  <2> DEFINE s == WordsOf(f, i)[FieldWord(n)]
             t == WordsOf(f, i)[FieldWord(m)]
  <2>1. Pos(s) \in TuplePositions(f) /\ s = Off(Pos(s)) /\ WordsOf(h, i)[FieldWord(n)] = g(s)
    BY <1>5
  <2>2. Pos(t) \in TuplePositions(f) /\ t = Off(Pos(t)) /\ WordsOf(h, i)[FieldWord(m)] = g(t)
    BY <1>5
  <2>3. t # s
    BY <1>5
  <2> QED BY <2>1, <2>2, <2>3, FollowApart
<1>8. ASSUME NEW w \in Words, WordsOf(h, i)[w] >= FirstOffset
      PROVE  \E n \in StringFields : w = FieldWord(n)
  <2>1. WordsOf(f, i)[w] \in Nat
    BY TiedFacts, WordType
  <2>2. CASE WordsOf(f, i)[w] < FirstOffset
    BY <1>1, <1>3, <1>8, <2>1, <2>2 DEF Follow
  <2> QED BY <2>2, TiedFacts
<1> QED BY <1>5, <1>6, <1>7, <1>8 DEF HasStrings

\* Every slot of h is in use: in o is the new tuple, in the others what was there.
LEMMA CarriedCovered ==
    ASSUME NEW f \in FileType, Tied(f), NothingSpare(f), NEW h, NEW o \in Nat,
           NEW from \in Nat, NEW to \in Nat,
           Reserved(f, h, o, from, to), NEW x \in TuplePositions(h), Off(x) # o
    PROVE  \E i \in Live(f) : UsedBy(h, x, i, WordsOf(h, i), StringFields)
<1> DEFINE g(z) == Follow(z, from, to)
<1>1. Carried(f, h, from, to) /\ h \in FileType /\ Grown(h)
  BY DEF Reserved
<1>2. x \in Nat
  BY <1>1, TuplePlaces DEF Grown
<1>3. PICK y \in TuplePositions(f) : x = Pos(g(Off(y)))
  <2>1. x # Pos(o)
    BY <1>2, PosInjective
  <2> QED BY <2>1 DEF Reserved
<1>4. y \in Nat /\ Off(y) \in Nat
  <2>1. y \in Nat
    BY TuplePlaces DEF Tied, Grown
  <2> QED BY <2>1 DEF Off
<1>5. g(Off(y)) = Off(x)
  <2>1. g(Off(y)) \in Nat
    BY <1>4 DEF Follow
  <2> QED BY <1>2, <1>3, <2>1, PosInjective
<1>6. PICK i \in Live(f) : UsedBy(f, y, i, WordsOf(f, i), StringFields)
  BY DEF NothingSpare
<1>7. CASE Entry(f, i) = Off(y)
  <2>1. Entry(h, i) = g(Entry(f, i))
    BY <1>1 DEF Carried
  <2> QED BY <1>5, <1>7, <2>1 DEF UsedBy
<1>8. CASE \E n \in StringFields : WordsOf(f, i)[FieldWord(n)] = Off(y)
  <2>1. PICK n \in StringFields : WordsOf(f, i)[FieldWord(n)] = Off(y)
    BY <1>8
  <2>2. FieldWord(n) \in Words
    BY FieldWordType DEF StringFields
  <2>3. WordsOf(h, i)[FieldWord(n)] = g(WordsOf(f, i)[FieldWord(n)])
    BY <1>1, <2>2 DEF Carried
  <2> QED BY <1>5, <2>1, <2>3 DEF UsedBy
<1> QED BY <1>6, <1>7, <1>8 DEF UsedBy

-----------------------------------------------------------------------------
(***************************************************************************)
(* What find_all reads of a complete tuple.                                *)
(***************************************************************************)
TupleOf(f, b) == [parent |-> b[0], fields |-> [n \in Fields |-> FieldIn(f, b, n)]]

LEMMA SameTuple ==
    ASSUME NEW f, NEW b, NEW g, NEW c, b[0] = c[0],
           \A n \in Fields : FieldIn(f, b, n) = FieldIn(g, c, n)
    PROVE  TupleOf(f, b) = TupleOf(g, c)
<1>1. [n \in Fields |-> FieldIn(f, b, n)] = [n \in Fields |-> FieldIn(g, c, n)]
  OBVIOUS
<1> QED BY <1>1 DEF TupleOf

LEMMA ContentsOf ==
    ASSUME NEW f \in FileType, Grown(f), NEW id \in Live(f),
           HasStrings(f, id, WordsOf(f, id), StringFields)
    PROVE  /\ ReadTuple(f, Entry(f, id)) = WordsOf(f, id)
           /\ Contents(f)[id] = TupleOf(f, WordsOf(f, id))
<1> DEFINE b == WordsOf(f, id)
           t == ReadTuple(f, Entry(f, id))
           r == [n \in Fields |-> IF Types[n] = "STRING"
                                  THEN ReadString(f, t[FieldWord(n)])
                                  ELSE <<t[FieldWord(n)]>>]
<1>0. LastArraySlot(f) <= Len(f.blk)
  BY DEF Grown
<1>1. Pos(Entry(f, id)) \in 1..Len(f.blk) /\ b \in WordBlock
  BY <1>0, GrownFacts, TuplePlaces DEF WordsOf
<1>2. t = b
  BY <1>1 DEF ReadTuple, Inside, WordsOf
<1>3. Contents(f)[id] = [parent |-> t[0], fields |-> r]
  BY DEF Contents
<1>4. ASSUME NEW n \in Fields, Types[n] = "STRING"
      PROVE  ReadString(f, b[FieldWord(n)]) = TextAt(f, b[FieldWord(n)])
  <2> DEFINE o == b[FieldWord(n)]
  <2>1. n \in StringFields
    BY <1>4 DEF StringFields
  <2>2. StringAt(f, o, Entry(f, id))
    BY <2>1 DEF HasStrings
  <2>3. o \in Nat
    BY <1>1, FieldWordType, WordType
  <2>4. Inside(f, o) /\ f.blk[Pos(o)][1] = NullValue
    BY <1>0, <2>2, TuplePlaces DEF StringAt, Inside
  <2> HIDE DEF o
  <2>5. ReadString(f, o) = TextAt(f, o)
    BY <2>3, <2>4, OnePiece
  <2> QED BY <2>5 DEF o
<1> HIDE DEF t, b
<1>5. r = [n \in Fields |-> FieldIn(f, b, n)]
  BY <1>2, <1>4 DEF FieldIn
<1> HIDE DEF r
<1> QED BY <1>2, <1>3, <1>5 DEF TupleOf, b, t

\* Words that are not as large as an offset do not follow one.
LEMMA CarriedContents ==
    ASSUME NEW f \in FileType, Tied(f), NEW h, NEW o, NEW from \in Nat, NEW to \in Nat,
           Reserved(f, h, o, from, to), NEW i \in Live(f)
    PROVE  Contents(h)[i] = Contents(f)[i]
<1> DEFINE b == WordsOf(f, i)
           c == WordsOf(h, i)
           g(x) == Follow(x, from, to)
<1>1. /\ Grown(f) /\ h \in FileType /\ Grown(h) /\ i \in Live(h)
      /\ Carried(f, h, from, to)
      /\ from >= FirstOffset \/ from = to
  BY DEF Tied, Reserved
<1>2. Contents(f)[i] = TupleOf(f, b)
  BY <1>1, ContentsOf DEF Tied
<1>3. Contents(h)[i] = TupleOf(h, c)
  BY <1>1, CarriedStrings, ContentsOf
<1>4. \A w \in Words : c[w] = g(b[w])
  BY <1>1 DEF Carried
<1>5. \A n \in Fields : FieldWord(n) \in Words /\ FieldWord(n) # 0
  BY FieldWordType
<1>6. ASSUME NEW w \in Words, \A n \in StringFields : w # FieldWord(n)
      PROVE  c[w] = b[w]
  <2>1. b[w] \in Nat /\ b[w] < FirstOffset
    BY <1>6, TiedFacts, WordType
  <2> QED BY <1>1, <1>4, <2>1 DEF Follow
<1>7. c[0] = b[0]
  <2>1. 0 \in Words
    BY DEF Words
  <2> QED BY <1>5, <1>6, <2>1 DEF StringFields
<1>8. ASSUME NEW n \in Fields PROVE FieldIn(f, b, n) = FieldIn(h, c, n)
  <2>1. CASE Types[n] = "STRING"
    <3> DEFINE s == b[FieldWord(n)]
    <3>1. n \in StringFields /\ c[FieldWord(n)] = g(s)
      BY <1>4, <1>5, <2>1 DEF StringFields
    <3>2. HeaderWords \in Words \ {0}
      BY FieldWordType DEF FieldWord, HeaderWords, Words, Fields
    <3>3. h.blk[Pos(g(s))][HeaderWords] = f.blk[Pos(s)][HeaderWords]
      BY <1>1, <3>1, <3>2 DEF Carried
    <3> QED BY <2>1, <3>1, <3>3 DEF FieldIn, TextAt
  <2>2. CASE Types[n] # "STRING"
    <3>1. \A m \in StringFields : FieldWord(n) # FieldWord(m)
      BY <2>2 DEF StringFields, Fields, FieldWord, HeaderWords
    <3>2. c[FieldWord(n)] = b[FieldWord(n)]
      BY <1>5, <1>6, <3>1
    <3> QED BY <2>2, <3>2 DEF FieldIn
  <2> QED BY <2>1, <2>2
<1> HIDE DEF b, c
<1> QED BY <1>2, <1>3, <1>7, <1>8, SameTuple

-----------------------------------------------------------------------------
(***************************************************************************)
(* A slot of a tuple, or of a string, is written anew in its place.        *)
(***************************************************************************)

\* The tuples' words are those in the file, but for b, what tuple id is to have.
WordsWith(f, id, b, i) == IF i = id THEN b ELSE WordsOf(f, i)

LEMMA WriteSlot ==
    ASSUME NEW f \in FileType, Grown(f), NEW id \in Live(f),
           NEW b \in WordBlock, b[1] = id,
           \A i \in Live(f) : HasStrings(f, i, WordsWith(f, id, b, i), StringFields),
           \A p \in TuplePositions(f) : \E i \in Live(f) :
              UsedBy(f, p, i, WordsWith(f, id, b, i), StringFields)
    PROVE  LET h == WriteTuple(f, Entry(f, id), b)
           IN  /\ h \in FileType /\ Tied(h) /\ NothingSpare(h)
               /\ CurId(h) = CurId(f) /\ Live(h) = Live(f)
               /\ \A i \in Live(f) : Contents(h)[i] = TupleOf(f, WordsWith(f, id, b, i))
<1> DEFINE h == WriteTuple(f, Entry(f, id), b)
           q == Pos(Entry(f, id))
<1>0. LastArraySlot(f) <= Len(f.blk) /\ ~f.lost
  BY DEF Grown
<1>1. /\ q \in TuplePositions(f) /\ Entry(f, id) = Off(q)
      /\ q > LastArraySlot(f) /\ LastArraySlot(f) \in Nat /\ Len(f.blk) \in Nat
      /\ \A x \in TuplePositions(f) : x \in 1..Len(f.blk)
      /\ \A i \in Live(f) : /\ Pos(Entry(f, i)) \in TuplePositions(f)
                            /\ f.blk[Pos(Entry(f, i))][1] = i
  BY <1>0, GrownFacts, TuplePlaces
<1> HIDE DEF q
<1>2. /\ h \in FileType
      /\ h.sub = f.sub /\ h.lost = f.lost
      /\ Len(h.blk) = Len(f.blk)
      /\ \A x \in 1..Len(f.blk) : h.blk[x] = IF x = q THEN b ELSE f.blk[x]
  <2> DEFINE h2 == WriteTuple(f, Off(q), b)
  <2>1. /\ h2 \in FileType
        /\ h2.sub = f.sub /\ h2.lost = f.lost
        /\ Len(h2.blk) = Len(f.blk)
        /\ \A x \in 1..Len(f.blk) : h2.blk[x] = IF x = q THEN b ELSE f.blk[x]
    BY <1>0, <1>1, Patch
  <2>2. h = h2
    BY <1>1
  <2> HIDE DEF h, h2
  <2> QED BY <2>1, <2>2
<1> HIDE DEF h
<1>3. SameArray(f, h)
  <2>1. \A x \in 1..LastArraySlot(f) : x \in 1..Len(f.blk) /\ x # q
    BY <1>0, <1>1
  <2> QED BY <1>1, <1>2, <2>1 DEF SameArray
<1>4. /\ CurId(h) = CurId(f) /\ Live(h) = Live(f)
      /\ \A i \in Live(f) : Entry(h, i) = Entry(f, i)
      /\ TuplePositions(h) = TuplePositions(f)
  BY <1>0, <1>2, <1>3, SameEntries DEF TuplePositions
<1>5. ASSUME NEW i \in Live(f) PROVE WordsOf(h, i) = WordsWith(f, id, b, i)
  <2>1. Pos(Entry(f, i)) = q => i = id
    BY <1>1 DEF q
  <2>2. Pos(Entry(f, i)) \in 1..Len(f.blk)
    BY <1>1
  <2>3. i = id => Pos(Entry(f, i)) = q
    BY DEF q
  <2> QED BY <1>2, <1>4, <2>1, <2>2, <2>3 DEF WordsOf, WordsWith
<1>6. Grown(h)
  <2>1. \A i \in Live(f) : h.blk[Pos(Entry(f, i))][1] = i
    BY <1>1, <1>2 DEF q
  <2> QED BY <1>0, <1>2, <1>3, <2>1, KeepGrown
<1>7. ASSUME NEW i \in Live(f), NEW n \in StringFields
      PROVE  LET o == WordsWith(f, id, b, i)[FieldWord(n)]
             IN  h.blk[Pos(o)] = f.blk[Pos(o)]
  <2> DEFINE o == WordsWith(f, id, b, i)[FieldWord(n)]
  <2>1. StringAt(f, o, Entry(f, i)) /\ Entry(f, id) # o
    BY DEF HasStrings
  <2>2. o \in Nat
    <3>1. WordsWith(f, id, b, i) \in WordBlock
      BY GrownFacts DEF WordsWith, WordsOf
    <3> QED BY <3>1, FieldWordType, WordType DEF StringFields
  <2> HIDE DEF o
  <2>3. Pos(o) \in TuplePositions(f)
    BY <2>1 DEF StringAt
  <2>4. Pos(o) # q
    <3>1. Pos(o) \in Nat
      BY <1>0, <2>3, TuplePlaces
    <3>2. o = Off(Pos(o))
      BY <2>2, <3>1, PosInjective
    <3> QED BY <1>1, <2>1, <3>2
  <2> QED BY <1>1, <1>2, <2>3, <2>4 DEF o
<1>8. \A i \in Live(f) : HasStrings(h, i, WordsOf(h, i), StringFields)
  <2> SUFFICES ASSUME NEW i \in Live(f)
               PROVE  HasStrings(h, i, WordsWith(f, id, b, i), StringFields)
    BY <1>5
  <2> DEFINE c == WordsWith(f, id, b, i)
  <2>1. HasStrings(f, i, c, StringFields)
    OBVIOUS
  <2>2. \A n \in StringFields : \A w \in {0, 1} :
           h.blk[Pos(c[FieldWord(n)])][w] = f.blk[Pos(c[FieldWord(n)])][w]
    BY <1>7
  <2> HIDE DEF c
  <2>3. HasStrings(h, i, c, StringFields)
    BY <1>2, <1>3, <2>1, <2>2, KeepStrings
  <2> QED BY <2>3 DEF c
<1>9. Tied(h)
  BY <1>4, <1>6, <1>8 DEF Tied
<1>10. NothingSpare(h)
  BY <1>4, <1>5 DEF NothingSpare, UsedBy
<1>11. ASSUME NEW i \in Live(f) PROVE Contents(h)[i] = TupleOf(f, WordsWith(f, id, b, i))
  <2> DEFINE c == WordsWith(f, id, b, i)
  <2>1. Contents(h)[i] = TupleOf(h, c)
    BY <1>2, <1>4, <1>5, <1>6, <1>8, ContentsOf
  <2>2. \A n \in Fields : FieldIn(h, c, n) = FieldIn(f, c, n)
    BY <1>7 DEF FieldIn, TextAt, StringFields
  <2> HIDE DEF c
  <2>3. TupleOf(h, c) = TupleOf(f, c)
    BY <2>2, SameTuple
  <2> QED BY <2>1, <2>3 DEF c
<1> QED BY <1>2, <1>4, <1>9, <1>10, <1>11 DEF h

LEMMA WriteText ==
    ASSUME NEW f \in FileType, Tied(f), NothingSpare(f), NEW id \in Live(f),
           NEW n \in StringFields, NEW b \in WordBlock,
           LET o == WordsOf(f, id)[FieldWord(n)]
           IN  b[0] = f.blk[Pos(o)][0] /\ b[1] = f.blk[Pos(o)][1]
    PROVE  LET h == WriteTuple(f, WordsOf(f, id)[FieldWord(n)], b)
           IN  /\ h \in FileType /\ Tied(h) /\ NothingSpare(h)
               /\ CurId(h) = CurId(f) /\ Live(h) = Live(f)
               /\ \A i \in Live(f) : i # id => Contents(h)[i] = Contents(f)[i]
               /\ Contents(h)[id] = [parent |-> Contents(f)[id].parent,
                                     fields |-> [m \in Fields |->
                                        IF m = n THEN <<b[HeaderWords]>>
                                        ELSE Contents(f)[id].fields[m]]]
<1> DEFINE o == WordsOf(f, id)[FieldWord(n)]
           h == WriteTuple(f, o, b)
           q == Pos(o)
<1>0. LastArraySlot(f) <= Len(f.blk) /\ ~f.lost /\ Grown(f)
  BY DEF Tied, Grown
<1>1. /\ q \in TuplePositions(f) /\ o = Off(q)
      /\ q > LastArraySlot(f) /\ LastArraySlot(f) \in Nat /\ Len(f.blk) \in Nat
      /\ \A x \in TuplePositions(f) : x \in 1..Len(f.blk)
      /\ \A i \in Live(f) : Entry(f, i) # o
      /\ \A i \in Live(f) : \A m \in StringFields :
           WordsOf(f, i)[FieldWord(m)] = o => i = id /\ m = n
      /\ b[0] = f.blk[q][0] /\ b[1] = f.blk[q][1]
  BY <1>0, TiedFacts, TuplePlaces, FileParts
<1> HIDE DEF q, o
<1>2. /\ h \in FileType
      /\ h.sub = f.sub /\ h.lost = f.lost
      /\ Len(h.blk) = Len(f.blk)
      /\ \A x \in 1..Len(f.blk) : h.blk[x] = IF x = q THEN b ELSE f.blk[x]
  <2> DEFINE h2 == WriteTuple(f, Off(q), b)
  <2>1. /\ h2 \in FileType
        /\ h2.sub = f.sub /\ h2.lost = f.lost
        /\ Len(h2.blk) = Len(f.blk)
        /\ \A x \in 1..Len(f.blk) : h2.blk[x] = IF x = q THEN b ELSE f.blk[x]
    BY <1>0, <1>1, Patch
  <2>2. h = h2
    BY <1>1
  <2> HIDE DEF h, h2
  <2> QED BY <2>1, <2>2
<1> HIDE DEF h
<1>3. SameArray(f, h)
  <2>1. \A x \in 1..LastArraySlot(f) : x \in 1..Len(f.blk) /\ x # q
    BY <1>0, <1>1
  <2> QED BY <1>1, <1>2, <2>1 DEF SameArray
<1>4. /\ CurId(h) = CurId(f) /\ Live(h) = Live(f)
      /\ \A i \in Live(f) : Entry(h, i) = Entry(f, i)
      /\ TuplePositions(h) = TuplePositions(f)
  BY <1>0, <1>2, <1>3, SameEntries DEF TuplePositions
<1>5. ASSUME NEW i \in Live(f)
      PROVE  WordsOf(h, i) = WordsOf(f, i) /\ WordsOf(f, i)[1] = i
  <2>1. /\ Pos(Entry(f, i)) \in TuplePositions(f) /\ Entry(f, i) = Off(Pos(Entry(f, i)))
        /\ WordsOf(f, i)[1] = i
    BY <1>0, GrownFacts DEF WordsOf
  <2>2. Pos(Entry(f, i)) # q /\ Pos(Entry(f, i)) \in 1..Len(f.blk)
    BY <1>1, <2>1
  <2> QED BY <1>2, <1>4, <2>1, <2>2 DEF WordsOf
<1>6. Grown(h)
  <2>1. \A i \in Live(f) : h.blk[Pos(Entry(f, i))][1] = i
    BY <1>4, <1>5 DEF WordsOf
  <2> QED BY <1>0, <1>2, <1>3, <2>1, KeepGrown
<1>7. ASSUME NEW i \in Live(f), NEW m \in StringFields
      PROVE  LET s == WordsOf(f, i)[FieldWord(m)]
             IN  /\ Pos(s) \in 1..Len(f.blk)
                 /\ i = id /\ m = n => Pos(s) = q
                 /\ i # id \/ m # n => Pos(s) # q
  <2> DEFINE s == WordsOf(f, i)[FieldWord(m)]
  <2>1. Pos(s) \in TuplePositions(f) /\ s = Off(Pos(s))
    BY TiedFacts
  <2> QED BY <1>1, <2>1 DEF q, o
<1>8. \A i \in Live(f) : HasStrings(h, i, WordsOf(h, i), StringFields)
  <2> SUFFICES ASSUME NEW i \in Live(f)
               PROVE  HasStrings(h, i, WordsOf(f, i), StringFields)
    BY <1>5
  <2>1. HasStrings(f, i, WordsOf(f, i), StringFields)
    BY DEF Tied
  <2>2. \A m \in StringFields : \A w \in {0, 1} :
           h.blk[Pos(WordsOf(f, i)[FieldWord(m)])][w]
             = f.blk[Pos(WordsOf(f, i)[FieldWord(m)])][w]
    BY <1>1, <1>2, <1>7
  <2> QED BY <1>0, <1>2, <1>3, <2>1, <2>2, KeepStrings
<1>9. Tied(h)
  BY <1>4, <1>6, <1>8 DEF Tied
<1>10. NothingSpare(h)
  BY <1>4, <1>5 DEF NothingSpare, UsedBy
<1>11. \A i \in Live(f) : /\ Contents(h)[i] = TupleOf(h, WordsOf(f, i))
                          /\ Contents(f)[i] = TupleOf(f, WordsOf(f, i))
  BY <1>0, <1>2, <1>4, <1>5, <1>6, <1>8, ContentsOf DEF Tied
<1>12. ASSUME NEW i \in Live(f), NEW m \in Fields
       PROVE  FieldIn(h, WordsOf(f, i), m) = IF i = id /\ m = n THEN <<b[HeaderWords]>>
                                             ELSE FieldIn(f, WordsOf(f, i), m)
  <2>1. CASE Types[m] = "STRING"
    <3>1. m \in StringFields
      BY <2>1 DEF StringFields
    <3> QED BY <1>2, <1>7, <2>1, <3>1 DEF FieldIn, TextAt
  <2>2. CASE Types[m] # "STRING"
    <3>1. m # n
      BY <2>2 DEF StringFields
    <3> QED BY <2>2, <3>1 DEF FieldIn
  <2> QED BY <2>1, <2>2
<1>13. \A i \in Live(f) : i # id => Contents(h)[i] = Contents(f)[i]
  <2> SUFFICES ASSUME NEW i \in Live(f), i # id
               PROVE  TupleOf(h, WordsOf(f, i)) = TupleOf(f, WordsOf(f, i))
    BY <1>11
  <2>1. \A m \in Fields : FieldIn(h, WordsOf(f, i), m) = FieldIn(f, WordsOf(f, i), m)
    BY <1>12
  <2> QED BY <2>1, SameTuple
<1>14. Contents(h)[id] = [parent |-> Contents(f)[id].parent,
                          fields |-> [m \in Fields |->
                             IF m = n THEN <<b[HeaderWords]>>
                             ELSE Contents(f)[id].fields[m]]]
  <2> DEFINE c == WordsOf(f, id)
             r == [m \in Fields |-> FieldIn(h, c, m)]
             s == [m \in Fields |-> FieldIn(f, c, m)]
  <2>1. Contents(h)[id] = [parent |-> c[0], fields |-> r]
    BY <1>11 DEF TupleOf
  <2>2. Contents(f)[id] = [parent |-> c[0], fields |-> s]
    BY <1>11 DEF TupleOf
  <2>3. r = [m \in Fields |-> IF m = n THEN <<b[HeaderWords]>> ELSE s[m]]
    BY <1>12
  <2> HIDE DEF r, s
  <2> QED BY <2>1, <2>2, <2>3
<1> QED BY <1>2, <1>4, <1>9, <1>10, <1>13, <1>14 DEF h, o

-----------------------------------------------------------------------------
(***************************************************************************)
(* The invariants, in terms of the file and of add_tuple's locals.         *)
(***************************************************************************)
Written(t) == {n \in StringFields : n < t.n}

AddingSound(f, t) ==
    LET id == CurId(f) - 1
    IN  /\ Grown(f)
        /\ id \in Live(f)
        /\ t.at = Entry(f, id) /\ t.slot[1] = id
        /\ HasStrings(f, id, t.slot, Written(t))
        /\ \A i \in Live(f) : i # id => HasStrings(f, i, WordsOf(f, i), StringFields)
        /\ \A p \in TuplePositions(f) :
             \/ UsedBy(f, p, id, t.slot, Written(t))
             \/ \E i \in Live(f) : i # id /\ UsedBy(f, p, i, WordsOf(f, i), StringFields)

AddingTraced(f, t, tuples) ==
    LET id == CurId(f) - 1
    IN  /\ DOMAIN tuples = Live(f) \ {id}
        /\ \A i \in DOMAIN tuples : Contents(f)[i] = tuples[i]
        /\ t.slot[0] \in Parents
        /\ \A n \in Fields : n < t.n => FieldIn(f, t.slot, n) = t.fields[n]

LEMMA GrowingIdle ==
    /\ op = "none" => (GrowingInv <=> Tied(file) /\ NothingSpare(file) /\ stack = <<>>)
    /\ op # "add" => GrowingTraced
<1>1. ASSUME op = "none"
      PROVE  GrowingInv <=> Tied(file) /\ NothingSpare(file) /\ stack = <<>>
  <2>1. \A id : TupleWords(id) = WordsOf(file, id) /\ FieldsWritten(id) = StringFields
    BY <1>1 DEF TupleWords, FieldsWritten, Adding, WordsOf
  <2> QED BY <1>1, <2>1 DEF GrowingInv, Tied, NothingSpare, NewTupleSound
<1> QED BY <1>1 DEF GrowingTraced

LEMMA GrowingAdding ==
    ASSUME file \in FileType, op = "add"
    PROVE  /\ GrowingInv <=> AddingSound(file, new) /\ stack = <<>>
           /\ GrowingTraced <=> AddingTraced(file, new, before)
<1> DEFINE c == CurId(file) - 1
<1>1. CurId(file) \in Nat
  BY FileParts
<1>2. Grown(file) => (CurId(file) > 0 <=> c \in Live(file))
  BY <1>1 DEF Grown, Ids
<1>3. \A id : /\ id = c => TupleWords(id) = new.slot /\ FieldsWritten(id) = Written(new)
              /\ id # c => /\ TupleWords(id) = WordsOf(file, id)
                           /\ FieldsWritten(id) = StringFields
  BY DEF TupleWords, FieldsWritten, Adding, WordsOf, Written
<1>4. GrowingInv <=> AddingSound(file, new) /\ stack = <<>>
  BY <1>2, <1>3 DEF GrowingInv, AddingSound, NewTupleSound
<1>5. GrowingTraced <=> AddingTraced(file, new, before)
  BY DEF GrowingTraced, AddingTraced, SameAsBefore
<1> QED BY <1>4, <1>5

LEMMA AddingThen ==
    /\ AddingSound(file, new)' <=> AddingSound(file', new')
    /\ AddingTraced(file, new, before)' <=> AddingTraced(file', new', before')
    /\ Tied(file)' <=> Tied(file')
    /\ NothingSpare(file)' <=> NothingSpare(file')
    /\ (file \in FileType)' <=> file' \in FileType
OBVIOUS

LEMMA IdleThen ==
    ASSUME op' = "none", Tied(file'), NothingSpare(file'), stack' = <<>>
    PROVE  GrowingInv' /\ GrowingTraced'
<1>1. (op = "none" => (GrowingInv <=> Tied(file) /\ NothingSpare(file) /\ stack = <<>>))'
  BY GrowingIdle, PTL
<1>2. (op # "add" => GrowingTraced)'
  BY GrowingIdle, PTL
<1> QED BY <1>1, <1>2, AddingThen

LEMMA AddingNext ==
    ASSUME op' = "add", file' \in FileType, stack' = <<>>,
           AddingSound(file', new'), AddingTraced(file', new', before')
    PROVE  GrowingInv' /\ GrowingTraced'
<1>1. (file \in FileType /\ op = "add"
         => /\ GrowingInv <=> AddingSound(file, new) /\ stack = <<>>
            /\ GrowingTraced <=> AddingTraced(file, new, before))'
  BY GrowingAdding, PTL
<1> QED BY <1>1, AddingThen

-----------------------------------------------------------------------------
(***************************************************************************)
(* Adding a tuple.                                                         *)
(***************************************************************************)
LEMMA InitGrowing == Init => GrowingInv /\ GrowingTraced
<1> SUFFICES ASSUME Init PROVE GrowingInv /\ GrowingTraced
  OBVIOUS
<1>1. file = EmptyFile /\ op = "none" /\ stack = <<>>
  BY DEF Init
<1>2. Tied(file) /\ NothingSpare(file)
  BY <1>1, EmptyFileFacts, MaxIdsAssumption
     DEF Tied, Grown, EntriesLead, NothingSpare, TuplePositions
<1> QED BY <1>1, <1>2, GrowingIdle

LEMMA AddTupleGrowing ==
    ASSUME TypeOK, GrowingInv, NEW v \in FieldValues, NEW p \in Parents, AddTuple(v, p)
    PROVE  GrowingInv' /\ GrowingTraced'
<1> DEFINE c == CurId(file)
           b == NewSlot(file, p)
           o == End(file)
           h == AppendToIdArray(InsertNewTuple(file, b), o)
<1>1. /\ file \in FileType /\ op = "none"
      /\ CurId(file) < MaxIds
      /\ op' = "add" /\ stack' = stack
      /\ before' = Contents(file)
      /\ file' = h
      /\ new' = [at |-> o, slot |-> b, fields |-> v, n |-> 1, pos |-> FirstOffset]
  BY DEF TypeOK, AddTuple, Idle, ReserveTuple
<1>2. Tied(file) /\ NothingSpare(file) /\ stack = <<>> /\ Grown(file)
  BY <1>1, GrowingIdle DEF Tied
<1>3. c \in Nat /\ c < FirstOffset /\ p \in Nat /\ p < FirstOffset /\ o \in Nat
  <2>1. Len(file.blk) \in Nat
    BY <1>1, FileParts
  <2>2. o \in Nat
    BY <2>1 DEF End, Off
  <2> QED BY <1>1, <1>2, <2>2, GrownFacts, ParentsAssumption
<1>4. /\ b \in WordBlock /\ b[0] = p /\ b[1] = c
      /\ \A w \in Words : b[w] < FirstOffset
  <2>1. 0 \in Words /\ 1 \in Words
    BY DEF Words
  <2> QED BY <1>3, <2>1 DEF NewSlot, WordBlock
<1> HIDE DEF b
<1>5. PICK from \in Nat, to \in Nat : Reserved(file, h, o, from, to) /\ h.blk[Pos(o)] = b
  BY <1>1, <1>2, <1>4, ReserveTied
<1> HIDE DEF h, o
<1>6. /\ h \in FileType /\ Grown(h)
      /\ CurId(h) - 1 = c /\ c \notin Live(file)
      /\ Live(h) = Live(file) \cup {c}
      /\ Entry(h, c) = o
  BY <1>3, <1>5 DEF Reserved
<1>7. /\ new'.at = o /\ new'.slot = b /\ new'.n = 1 /\ Written(new') = {}
  BY <1>1 DEF Written, StringFields, Fields
<1>8. HasStrings(h, c, b, {})
  <2>1. \A w \in Words : ~(b[w] >= FirstOffset)
    BY <1>4 DEF WordBlock
  <2> QED BY <2>1 DEF HasStrings
<1>9. \A i \in Live(file) : /\ HasStrings(h, i, WordsOf(h, i), StringFields)
                            /\ Contents(h)[i] = Contents(file)[i]
  BY <1>1, <1>2, <1>5, CarriedStrings, CarriedContents
<1>10. ASSUME NEW x \in TuplePositions(h)
       PROVE  \/ UsedBy(h, x, c, b, {})
              \/ \E i \in Live(h) : i # c /\ UsedBy(h, x, i, WordsOf(h, i), StringFields)
  <2>1. CASE Off(x) = o
    BY <1>6, <2>1 DEF UsedBy
  <2>2. CASE Off(x) # o
    <3>1. \E i \in Live(file) : UsedBy(h, x, i, WordsOf(h, i), StringFields)
      BY <1>1, <1>2, <1>3, <1>5, <2>2, CarriedCovered
    <3> QED BY <1>6, <3>1
  <2> QED BY <2>1, <2>2
<1> HIDE DEF c
<1>11. AddingSound(h, new')
  BY <1>4, <1>6, <1>7, <1>8, <1>9, <1>10 DEF AddingSound
<1>12. AddingTraced(h, new', before')
  <2>1. DOMAIN before' = Live(file)
    BY <1>1 DEF Contents
  <2>2. \A n \in Fields : ~(n < 1)
    BY DEF Fields
  <2> QED BY <1>1, <1>4, <1>6, <1>7, <1>9, <2>1, <2>2 DEF AddingTraced
<1> QED BY <1>1, <1>2, <1>6, <1>11, <1>12, AddingNext

\* More slots, with the same ones before them.
LEMMA KeptTuples ==
    ASSUME NEW f \in FileType, Grown(f), NEW g \in FileType, SameArray(f, g), ~g.lost,
           \A x \in TuplePositions(f) : g.blk[x] = f.blk[x]
    PROVE  /\ Grown(g) /\ CurId(g) = CurId(f) /\ Live(g) = Live(f)
           /\ LastArraySlot(g) = LastArraySlot(f)
           /\ \A i \in Live(f) : Entry(g, i) = Entry(f, i) /\ WordsOf(g, i) = WordsOf(f, i)
           /\ \A i \in Live(f) : \A b, S :
                HasStrings(f, i, b, S) =>
                  /\ HasStrings(g, i, b, S)
                  /\ \A n \in S : TextAt(g, b[FieldWord(n)]) = TextAt(f, b[FieldWord(n)])
           /\ \A i \in Live(f) : HasStrings(f, i, WordsOf(f, i), StringFields)
                                   => Contents(g)[i] = Contents(f)[i]
<1>0. LastArraySlot(f) <= Len(f.blk)
  BY DEF Grown
<1>1. /\ CurId(g) = CurId(f) /\ Live(g) = Live(f)
      /\ LastArraySlot(g) = LastArraySlot(f)
      /\ \A i \in Live(f) : Entry(g, i) = Entry(f, i)
  BY <1>0, SameEntries
<1>2. \A i \in Live(f) : /\ Pos(Entry(f, i)) \in TuplePositions(f)
                         /\ WordsOf(g, i) = WordsOf(f, i)
                         /\ g.blk[Pos(Entry(f, i))][1] = i
  BY <1>1, GrownFacts DEF WordsOf
<1>3. Grown(g)
  BY <1>2, KeepGrown
<1>4. ASSUME NEW i \in Live(f), NEW b, NEW S, HasStrings(f, i, b, S)
      PROVE  /\ HasStrings(g, i, b, S)
             /\ \A n \in S : TextAt(g, b[FieldWord(n)]) = TextAt(f, b[FieldWord(n)])
  <2>1. \A n \in S : g.blk[Pos(b[FieldWord(n)])] = f.blk[Pos(b[FieldWord(n)])]
    BY <1>4 DEF HasStrings, StringAt
  <2>2. HasStrings(g, i, b, S)
    BY <1>4, <2>1, KeepStrings
  <2> QED BY <2>1, <2>2 DEF TextAt
<1>5. ASSUME NEW i \in Live(f), HasStrings(f, i, WordsOf(f, i), StringFields)
      PROVE  Contents(g)[i] = Contents(f)[i]
  <2> DEFINE b == WordsOf(f, i)
  <2>1. Contents(f)[i] = TupleOf(f, b)
    BY <1>5, ContentsOf
  <2>2. HasStrings(g, i, WordsOf(g, i), StringFields)
    BY <1>2, <1>4, <1>5
  <2>3. Contents(g)[i] = TupleOf(g, b)
    BY <1>1, <1>2, <1>3, <2>2, ContentsOf
  <2>4. \A n \in Fields : FieldIn(g, b, n) = FieldIn(f, b, n)
    BY <1>4, <1>5 DEF FieldIn, StringFields
  <2> HIDE DEF b
  <2> QED BY <2>1, <2>3, <2>4, SameTuple
<1> QED BY <1>1, <1>2, <1>3, <1>4, <1>5

\* A string of one piece is one slot more.
LEMMA InsertPiece ==
    ASSUME NEW f \in FileType, NEW s \in Seq(Nat), Len(s) = 1,
           NEW holder \in Nat, NEW pos \in Nat
    PROVE  LET b == StringSlot(holder, NullValue, s[1])
           IN  /\ InsertString(f, s, holder, pos) = InsertNewTuple(f, b)
               /\ b \in WordBlock
               /\ b[0] = holder /\ b[1] = NullValue /\ <<b[HeaderWords]>> = s
<1> DEFINE b == StringSlot(holder, NullValue, s[1])
<1>1. s[1] \in Nat /\ s = <<s[1]>>
  <2>1. 1 \in 1..Len(s)
    OBVIOUS
  <2>2. s[1] \in Nat
    BY <2>1, ElementOfSeq
  <2> QED BY <2>2
<1>2. 0 \in Words /\ 1 \in Words /\ HeaderWords \in Words
  BY FieldWordType DEF FieldWord, HeaderWords, Words, Fields
<1>3. b \in WordBlock /\ b[0] = holder /\ b[1] = NullValue /\ b[HeaderWords] = s[1]
  BY <1>1, <1>2 DEF StringSlot, NullValue, WordBlock, HeaderWords
<1>4. [k \in 1..Len(s) |-> StringSlot(IF k = 1 THEN holder ELSE pos + (k - 2),
                                      IF k = Len(s) THEN NullValue ELSE pos + k,
                                      s[k])] = <<b>>
  <2>1. \A k \in 1..1 : StringSlot(IF k = 1 THEN holder ELSE pos + (k - 2),
                                   IF k = Len(s) THEN NullValue ELSE pos + k,
                                   s[k]) = b
    OBVIOUS
  <2> HIDE DEF b
  <2> QED BY <2>1
<1> HIDE DEF b
<1>5. InsertString(f, s, holder, pos) = [f EXCEPT !.blk = f.blk \o <<b>>]
  BY <1>4 DEF InsertString
<1>6. Append(f.blk, b) = f.blk \o <<b>>
  BY <1>3, FileParts, AppendIsConcat
<1>7. InsertString(f, s, holder, pos) = InsertNewTuple(f, b)
  BY <1>5, <1>6 DEF InsertNewTuple
<1> QED BY <1>1, <1>3, <1>7 DEF b

\* A field's word is its own.
LEMMA FieldWordApart ==
    ASSUME NEW n \in Fields
    PROVE  /\ FieldWord(n) \in Words /\ FieldWord(n) # 0 /\ FieldWord(n) # 1
           /\ \A m \in Fields : FieldWord(m) = FieldWord(n) <=> m = n
BY FieldWordType DEF FieldWord, HeaderWords, Fields

LEMMA AddStringGrowing ==
    ASSUME OnePieceTexts, TypeOK, GrowingInv, GrowingTraced, AddString, TypeOK'
    PROVE  GrowingInv' /\ GrowingTraced'
<1> DEFINE c == CurId(file) - 1
           n == new.n
           w == FieldWord(n)
           s == new.fields[n]
           o == End(file)
           L == Len(file.blk)
           b == StringSlot(new.at, NullValue, s[1])
           S == Written(new)
<1>1. /\ file \in FileType /\ op = "add" /\ op' = "add" /\ stack' = stack /\ before' = before
      /\ n \in StringFields /\ n \in Fields /\ n \in Nat
      /\ file' = InsertString(file, s, new.at, new.pos) /\ file' \in FileType
      /\ new' = [new EXCEPT !.slot[w] = o, !.n = @ + 1, !.pos = End(file')]
      /\ new \in NewType /\ new.slot \in WordBlock /\ new.fields \in FieldValues
      /\ new.at \in Nat /\ new.pos \in Nat
  BY DEF AddString, AddStep, TypeOK, StringFields, NewType
<1>2. /\ AddingSound(file, new) /\ stack = <<>> /\ AddingTraced(file, new, before)
  BY <1>1, GrowingAdding
<1>3. /\ Grown(file) /\ c \in Live(file) /\ new.at = Entry(file, c) /\ new.slot[1] = c
      /\ HasStrings(file, c, new.slot, S)
      /\ \A i \in Live(file) : i # c => HasStrings(file, i, WordsOf(file, i), StringFields)
      /\ \A p \in TuplePositions(file) :
           \/ UsedBy(file, p, c, new.slot, S)
           \/ \E i \in Live(file) : i # c /\ UsedBy(file, p, i, WordsOf(file, i), StringFields)
  BY <1>2 DEF AddingSound
<1>4. s \in Seq(Nat) /\ Len(s) = 1
  <2>1. s \in Values(n)
    BY <1>1 DEF FieldValues
  <2>2. s \in Strings
    BY <1>1, <2>1 DEF Values, StringFields
  <2> QED BY <2>2, StringsAssumption DEF OnePieceTexts
<1>5. /\ file' = InsertNewTuple(file, b) /\ b \in WordBlock
      /\ b[0] = new.at /\ b[1] = NullValue /\ <<b[HeaderWords]>> = s
  <2> HIDE DEF s
  <2> QED BY <1>1, <1>4, InsertPiece, SMTT(20) DEF s
<1> HIDE DEF b, s
<1>6. /\ file'.sub = file.sub /\ file'.lost = file.lost
      /\ Len(file'.blk) = L + 1 /\ file'.blk[L + 1] = b
      /\ \A x \in 1..L : file'.blk[x] = file.blk[x]
  BY <1>1, <1>5, Extend, SMTT(20)
<1>7. /\ LastArraySlot(file) <= L /\ LastArraySlot(file) \in Nat /\ L \in Nat
      /\ ~file.lost /\ o = Off(L + 1) /\ Pos(o) = L + 1 /\ o \in Nat
      /\ \A x \in TuplePositions(file) : x \in 1..L /\ x # Pos(o)
  <2>1. LastArraySlot(file) <= L /\ ~file.lost
    BY <1>3 DEF Grown
  <2>2. LastArraySlot(file) \in Nat /\ L \in Nat
    BY <1>1, <2>1, TuplePlaces, FileParts
  <2>3. L + 1 \in Nat /\ L + 1 > 0 /\ o = Off(L + 1)
    BY <2>2 DEF End
  <2>4. \A x \in TuplePositions(file) : x \in 1..L
    BY <1>1, <2>1, TuplePlaces
  <2> QED BY <2>1, <2>2, <2>3, <2>4, OffPos
<1>8. SameArray(file, file')
  <2>1. \A x \in 1..LastArraySlot(file) : x \in 1..L
    BY <1>7
  <2> QED BY <1>6, <1>7, <2>1 DEF SameArray
<1>9. /\ Grown(file') /\ CurId(file') = CurId(file) /\ Live(file') = Live(file)
      /\ LastArraySlot(file') = LastArraySlot(file)
      /\ \A i \in Live(file) : /\ Entry(file', i) = Entry(file, i)
                               /\ WordsOf(file', i) = WordsOf(file, i)
      /\ \A i \in Live(file) : \A d, T :
           HasStrings(file, i, d, T) =>
             /\ HasStrings(file', i, d, T)
             /\ \A m \in T : TextAt(file', d[FieldWord(m)]) = TextAt(file, d[FieldWord(m)])
      /\ \A i \in Live(file) : HasStrings(file, i, WordsOf(file, i), StringFields)
                                 => Contents(file')[i] = Contents(file)[i]
  <2>1. /\ file \in FileType /\ Grown(file) /\ file' \in FileType
        /\ SameArray(file, file') /\ ~file'.lost
        /\ \A x \in TuplePositions(file) : file'.blk[x] = file.blk[x]
    BY <1>1, <1>3, <1>6, <1>7, <1>8
  <2> QED BY <2>1, KeptTuples
<1>10. /\ new'.at = new.at /\ new'.n = n + 1 /\ new'.fields = new.fields
       /\ new'.slot = [new.slot EXCEPT ![w] = o]
  BY <1>1 DEF NewType
<1>11. /\ w \in Words /\ w # 0 /\ w # 1 /\ 0 \in Words /\ 1 \in Words
       /\ \A m \in Fields : FieldWord(m) \in Words /\ (FieldWord(m) = w <=> m = n)
  BY <1>1, FieldWordApart DEF Words
<1>12. \A x \in Words : new'.slot[x] = IF x = w THEN o ELSE new.slot[x]
  BY <1>1, <1>10, <1>11 DEF WordBlock
<1> HIDE DEF w, o
<1>13. /\ Written(new') = S \cup {n} /\ n \notin S
       /\ \A m \in S : m \in StringFields /\ m \in Fields /\ m # n
  BY <1>1, <1>10 DEF Written, StringFields, Fields
<1> HIDE DEF S
<1>14. \A m \in S : new'.slot[FieldWord(m)] = new.slot[FieldWord(m)]
  BY <1>11, <1>12, <1>13
<1>15. new'.slot[w] = o
  BY <1>11, <1>12
<1>16. TuplePositions(file') = TuplePositions(file) \cup {Pos(o)}
  BY <1>6, <1>7, <1>9 DEF TuplePositions
<1>17. HasStrings(file', c, new'.slot, S \cup {n})
  <2>1. HasStrings(file', c, new.slot, S)
    BY <1>3, <1>9
  <2>2. ASSUME NEW m \in S
        PROVE  /\ StringAt(file', new'.slot[FieldWord(m)], Entry(file', c))
               /\ \A i \in Live(file') : Entry(file', i) # new'.slot[FieldWord(m)]
               /\ \A k \in S \ {m} : new'.slot[FieldWord(k)] # new'.slot[FieldWord(m)]
               /\ new'.slot[FieldWord(m)] # o
    <3>1. Pos(new.slot[FieldWord(m)]) \in TuplePositions(file)
      BY <1>3 DEF HasStrings, StringAt
    <3> QED BY <1>7, <1>14, <2>1, <3>1 DEF HasStrings
  <2>3. StringAt(file', o, Entry(file', c))
    BY <1>3, <1>5, <1>6, <1>7, <1>9, <1>16 DEF StringAt
  <2>4. \A i \in Live(file') : Entry(file', i) # o
    BY <1>1, <1>3, <1>7, <1>9, GrownFacts
  <2>5. ASSUME NEW x \in Words, new'.slot[x] >= FirstOffset
        PROVE  \E m \in S \cup {n} : x = FieldWord(m)
    <3>1. CASE x = w
      BY <3>1 DEF w
    <3>2. CASE x # w
      BY <1>12, <2>1, <2>5, <3>2 DEF HasStrings
    <3> QED BY <3>1, <3>2
  <2> HIDE DEF c, n
  <2> QED BY <1>15, <2>2, <2>3, <2>4, <2>5 DEF HasStrings, w
<1>18. ASSUME NEW p \in TuplePositions(file')
       PROVE  \/ UsedBy(file', p, c, new'.slot, S \cup {n})
              \/ \E i \in Live(file') : i # c /\ UsedBy(file', p, i, WordsOf(file', i), StringFields)
  <2>1. CASE p = Pos(o)
    BY <1>7, <1>15, <2>1 DEF UsedBy, w
  <2>2. CASE p \in TuplePositions(file)
    <3>1. CASE UsedBy(file, p, c, new.slot, S)
      BY <1>3, <1>9, <1>14, <3>1 DEF UsedBy
    <3>2. CASE \E i \in Live(file) : i # c /\ UsedBy(file, p, i, WordsOf(file, i), StringFields)
      BY <1>9, <3>2 DEF UsedBy
    <3> QED BY <1>3, <2>2, <3>1, <3>2
  <2> QED BY <1>16, <2>1, <2>2
<1>19. \A i \in Live(file') : i # c =>
         /\ HasStrings(file', i, WordsOf(file', i), StringFields)
         /\ Contents(file')[i] = Contents(file)[i]
  BY <1>3, <1>9
<1>20. AddingSound(file', new')
  <2>1. new'.slot[1] = c
    BY <1>3, <1>11, <1>12
  <2> QED BY <1>3, <1>9, <1>10, <1>13, <1>17, <1>18, <1>19, <2>1 DEF AddingSound
<1>21. ASSUME NEW m \in Fields, m < new'.n
       PROVE  FieldIn(file', new'.slot, m) = new'.fields[m]
  <2>1. CASE m = n
    <3>1. TextAt(file', o) = s
      BY <1>5, <1>6, <1>7 DEF TextAt
    <3>2. FieldIn(file', new'.slot, m) = TextAt(file', o)
      BY <1>1, <1>15, <2>1 DEF FieldIn, StringFields, w
    <3> QED BY <1>10, <2>1, <3>1, <3>2 DEF s
  <2>2. CASE m # n
    <3>1. m < n
      BY <1>1, <1>10, <1>21, <2>2 DEF Fields
    <3>2. new'.slot[FieldWord(m)] = new.slot[FieldWord(m)]
      BY <1>11, <1>12, <2>2
    <3>3. FieldIn(file, new.slot, m) = new.fields[m]
      BY <1>2, <3>1 DEF AddingTraced
    <3>4. CASE Types[m] = "STRING"
      <4>1. m \in S
        BY <3>1, <3>4 DEF S, Written, StringFields
      <4>2. TextAt(file', new.slot[FieldWord(m)]) = TextAt(file, new.slot[FieldWord(m)])
        BY <1>3, <1>9, <4>1
      <4> QED BY <1>10, <3>2, <3>3, <3>4, <4>2 DEF FieldIn
    <3>5. CASE Types[m] # "STRING"
      BY <1>10, <3>2, <3>3, <3>5 DEF FieldIn
    <3> QED BY <3>4, <3>5
  <2> QED BY <2>1, <2>2
<1>22. AddingTraced(file', new', before')
  <2>1. new'.slot[0] = new.slot[0]
    BY <1>11, <1>12
  <2> HIDE DEF n
  <2> QED BY <1>1, <1>2, <1>9, <1>19, <1>21, <2>1 DEF AddingTraced
<1> QED BY <1>1, <1>2, <1>20, <1>22, AddingNext

LEMMA AddIntegerGrowing ==
    ASSUME OnePieceTexts, TypeOK, GrowingInv, GrowingTraced, AddInteger, TypeOK'
    PROVE  GrowingInv' /\ GrowingTraced'
<1> DEFINE c == CurId(file) - 1
           n == new.n
           w == FieldWord(n)
           k == new.fields[n][1]
           S == Written(new)
<1>1. /\ file \in FileType /\ op = "add" /\ op' = "add" /\ stack' = stack /\ before' = before
      /\ n \in Fields /\ n \notin StringFields /\ file' = file
      /\ new' = [new EXCEPT !.slot[w] = k, !.n = @ + 1]
      /\ new \in NewType /\ new.slot \in WordBlock /\ new.fields \in FieldValues
  BY DEF AddInteger, AddStep, TypeOK
<1>2. /\ AddingSound(file, new) /\ stack = <<>> /\ AddingTraced(file, new, before)
  BY <1>1, GrowingAdding
<1>3. k \in Nat /\ k < FirstOffset /\ new.fields[n] = <<k>>
  <2>1. new.fields[n] \in Values(n)
    BY <1>1 DEF FieldValues
  <2>2. new.fields[n] \in {<<j>> : j \in Ints}
    BY <1>1, <2>1 DEF Values, StringFields
  <2>3. k \in Ints /\ new.fields[n] = <<k>>
    BY <2>2
  <2> QED BY <2>3, IntsAssumption DEF OnePieceTexts
<1> HIDE DEF k
<1>4. /\ new'.at = new.at /\ new'.n = n + 1 /\ new'.fields = new.fields
      /\ new'.slot = [new.slot EXCEPT ![w] = k]
  BY <1>1 DEF NewType
<1>5. /\ w \in Words /\ w # 0 /\ w # 1 /\ 0 \in Words /\ 1 \in Words
      /\ \A m \in Fields : FieldWord(m) \in Words /\ (FieldWord(m) = w <=> m = n)
  BY <1>1, FieldWordApart DEF Words
<1> HIDE DEF w
<1>6. \A x \in Words : new'.slot[x] = IF x = w THEN k ELSE new.slot[x]
  BY <1>1, <1>4, <1>5 DEF WordBlock
<1>7. Written(new') = S
  BY <1>1, <1>4 DEF Written, StringFields, Fields
<1>8. \A m \in StringFields : new'.slot[FieldWord(m)] = new.slot[FieldWord(m)]
  BY <1>1, <1>5, <1>6 DEF StringFields
<1>9. S \subseteq StringFields
  BY DEF Written
<1>10. HasStrings(file, c, new'.slot, S)
  <2>1. HasStrings(file, c, new.slot, S)
    BY <1>2 DEF AddingSound
  <2>2. ASSUME NEW x \in Words, new'.slot[x] >= FirstOffset
        PROVE  \E m \in S : x = FieldWord(m)
    <3>1. x # w
      BY <1>3, <1>6, <2>2
    <3> QED BY <1>6, <2>1, <2>2, <3>1 DEF HasStrings
  <2> QED BY <1>8, <1>9, <2>1, <2>2 DEF HasStrings
<1>11. AddingSound(file', new')
  <2>1. new'.slot[1] = new.slot[1]
    BY <1>5, <1>6
  <2>2. \A p : UsedBy(file, p, c, new.slot, S) => UsedBy(file, p, c, new'.slot, S)
    BY <1>8, <1>9 DEF UsedBy
  <2> HIDE DEF S
  <2> QED BY <1>1, <1>2, <1>4, <1>7, <1>10, <2>1, <2>2 DEF AddingSound, S
<1>12. ASSUME NEW m \in Fields, m < new'.n
       PROVE  FieldIn(file, new'.slot, m) = new'.fields[m]
  <2>1. CASE m = n
    BY <1>1, <1>3, <1>4, <1>5, <1>6, <2>1 DEF FieldIn, StringFields
  <2>2. CASE m # n
    <3>1. m < n
      BY <1>1, <1>4, <1>12, <2>2 DEF Fields
    <3>2. new'.slot[FieldWord(m)] = new.slot[FieldWord(m)]
      BY <1>5, <1>6, <2>2
    <3>3. FieldIn(file, new.slot, m) = new.fields[m]
      BY <1>2, <3>1 DEF AddingTraced
    <3> QED BY <1>4, <3>2, <3>3 DEF FieldIn
  <2> QED BY <2>1, <2>2
<1>13. AddingTraced(file', new', before')
  <2>1. new'.slot[0] = new.slot[0]
    BY <1>5, <1>6
  <2> HIDE DEF n
  <2> QED BY <1>1, <1>2, <1>12, <2>1 DEF AddingTraced
<1> QED BY <1>1, <1>2, <1>11, <1>13, AddingNext

\* The second write of a tuple: now it is there, with its parent and its fields.
LEMMA AddWriteGrowing ==
    ASSUME TypeOK, GrowingInv, GrowingTraced, AddWrite
    PROVE  LET c == CurId(file) - 1
           IN  /\ GrowingInv' /\ GrowingTraced'
               /\ Live(file') = Live(file) /\ c \in AllIds \ DOMAIN before
               /\ DOMAIN before \cup {c} = Live(file)
               /\ new.slot[0] \in Parents
               /\ Contents(file')[c] = [parent |-> new.slot[0], fields |-> new.fields]
               /\ \A i \in DOMAIN before : Contents(file')[i] = before[i]
<1> DEFINE c == CurId(file) - 1
           b == new.slot
           h == WriteTuple(file, new.at, b)
<1>1. /\ file \in FileType /\ op = "add" /\ op' = "none" /\ stack' = stack
      /\ new.n = PatternSize + 1
      /\ b \in WordBlock /\ new.fields \in FieldValues
      /\ file' = h
  BY DEF AddWrite, AddStep, TypeOK
<1>2. /\ AddingSound(file, new) /\ stack = <<>> /\ AddingTraced(file, new, before)
  BY <1>1, GrowingAdding
<1>3. Written(new) = StringFields
  BY <1>1 DEF Written, StringFields, Fields
<1>4. /\ Grown(file) /\ c \in Live(file) /\ new.at = Entry(file, c) /\ b[1] = c
      /\ HasStrings(file, c, b, StringFields)
      /\ \A i \in Live(file) : i # c => HasStrings(file, i, WordsOf(file, i), StringFields)
      /\ \A p \in TuplePositions(file) :
           \/ UsedBy(file, p, c, b, StringFields)
           \/ \E i \in Live(file) : i # c /\ UsedBy(file, p, i, WordsOf(file, i), StringFields)
  BY <1>2, <1>3 DEF AddingSound
<1> HIDE DEF c, b
<1>5. \A i \in Live(file) : HasStrings(file, i, WordsWith(file, c, b, i), StringFields)
  BY <1>4 DEF WordsWith
<1>6. \A p \in TuplePositions(file) : \E i \in Live(file) :
        UsedBy(file, p, i, WordsWith(file, c, b, i), StringFields)
  BY <1>4 DEF WordsWith
<1>7. /\ h \in FileType /\ Tied(h) /\ NothingSpare(h)
      /\ CurId(h) = CurId(file) /\ Live(h) = Live(file)
      /\ \A i \in Live(file) : Contents(h)[i] = TupleOf(file, WordsWith(file, c, b, i))
  <2> DEFINE h2 == WriteTuple(file, Entry(file, c), b)
  <2>1. /\ h2 \in FileType /\ Tied(h2) /\ NothingSpare(h2)
        /\ CurId(h2) = CurId(file) /\ Live(h2) = Live(file)
        /\ \A i \in Live(file) : Contents(h2)[i] = TupleOf(file, WordsWith(file, c, b, i))
    BY <1>1, <1>4, <1>5, <1>6, WriteSlot
  <2>2. h = h2
    BY <1>4
  <2> HIDE DEF h, h2
  <2> QED BY <2>1, <2>2
<1> HIDE DEF h
<1>8. GrowingInv' /\ GrowingTraced'
  BY <1>1, <1>2, <1>7, IdleThen
<1>9. c \in AllIds
  <2>1. c \in Nat /\ CurId(file) <= MaxIds /\ CurId(file) \in Nat
    BY <1>1, <1>4, FileParts, GrownFacts DEF Grown
  <2> QED BY <2>1, MaxIdsAssumption DEF AllIds, c
<1>10. /\ DOMAIN before = Live(file) \ {c} /\ b[0] \in Parents
       /\ \A i \in DOMAIN before : Contents(file)[i] = before[i]
       /\ \A n \in Fields : n < new.n => FieldIn(file, b, n) = new.fields[n]
  BY <1>2 DEF AddingTraced, c, b
<1>11. Contents(h)[c] = [parent |-> b[0], fields |-> new.fields]
  <2>1. Contents(h)[c] = TupleOf(file, b)
    BY <1>4, <1>7 DEF WordsWith
  <2>2. \A n \in Fields : FieldIn(file, b, n) = new.fields[n]
    BY <1>1, <1>10 DEF Fields
  <2>3. new.fields = [n \in Fields |-> new.fields[n]]
    BY <1>1 DEF FieldValues
  <2>4. [n \in Fields |-> FieldIn(file, b, n)] = new.fields
    BY <2>2, <2>3
  <2> QED BY <2>1, <2>4 DEF TupleOf
<1>12. ASSUME NEW i \in DOMAIN before PROVE Contents(h)[i] = before[i]
  <2>1. i \in Live(file) /\ i # c
    BY <1>10
  <2>2. Contents(h)[i] = TupleOf(file, WordsOf(file, i))
    BY <1>7, <2>1 DEF WordsWith
  <2>3. Contents(file)[i] = TupleOf(file, WordsOf(file, i))
    BY <1>1, <1>4, <2>1, ContentsOf
  <2> QED BY <1>10, <2>2, <2>3
<1> QED BY <1>1, <1>4, <1>7, <1>8, <1>9, <1>10, <1>11, <1>12 DEF c, b

-----------------------------------------------------------------------------
(***************************************************************************)
(* Updating a tuple.                                                       *)
(***************************************************************************)

\* What update_tuple writes where, for a tuple that exists.
LEMMA UpdatePlaces ==
    ASSUME OnePieceTexts, NEW f \in FileType, Tied(f), NEW id \in Live(f),
           NEW n \in Fields, NEW v \in Values(n)
    PROVE  LET b == WordsOf(f, id)
               c == [b EXCEPT ![FieldWord(n)] = v[1]]
               o == b[FieldWord(n)]
               t == f.blk[Pos(o)]
           IN  /\ v[1] \in Nat /\ v = <<v[1]>>
               /\ n \notin StringFields =>
                    /\ v[1] < FirstOffset
                    /\ UpdateTuple(f, n, v, id) = WriteTuple(f, Entry(f, id), c)
               /\ n \in StringFields =>
                    UpdateTuple(f, n, v, id) = WriteTuple(f, o, StringSlot(t[0], t[1], v[1]))
<1> DEFINE b == WordsOf(f, id)
           c == [b EXCEPT ![FieldWord(n)] = v[1]]
           o == b[FieldWord(n)]
           t == f.blk[Pos(o)]
           e == Entry(f, id)
<1>1. LastArraySlot(f) <= Len(f.blk) /\ Grown(f)
  BY DEF Tied, Grown
<1>2. /\ HasEntry(f, id) /\ e # NullValue /\ Inside(f, e) /\ Pos(e) \in 1..Len(f.blk)
      /\ ReadTuple(f, e) = b
  <2>1. Pos(e) \in 1..Len(f.blk)
    BY <1>1, GrownFacts, TuplePlaces
  <2> QED BY <2>1 DEF Live, Inside, ReadTuple, WordsOf
<1>3. CASE n \notin StringFields
  <2>1. v \in {<<j>> : j \in Ints} /\ Types[n] # "STRING"
    BY <1>3 DEF Values, StringFields
  <2>2. v[1] \in Ints /\ v = <<v[1]>>
    BY <2>1
  <2>3. UpdateTuple(f, n, v, id) = WriteWord(f, e, FieldWord(n), v[1])
    BY <1>2, <2>1 DEF UpdateTuple
  <2>4. WriteWord(f, e, FieldWord(n), v[1]) = WriteTuple(f, e, c)
    BY <1>2 DEF WriteWord, WriteTuple, WordsOf
  <2> QED BY <1>3, <2>2, <2>3, <2>4, IntsAssumption DEF OnePieceTexts
<1>4. CASE n \in StringFields
  <2>1. v \in Strings /\ Types[n] = "STRING"
    BY <1>4 DEF Values, StringFields
  <2>2. v \in Seq(Nat) /\ Len(v) = 1
    BY <2>1, StringsAssumption DEF OnePieceTexts
  <2>3. v[1] \in Nat /\ v = <<v[1]>>
    <3>1. 1 \in 1..Len(v)
      BY <2>2
    <3>2. v[1] \in Nat
      BY <2>2, <3>1, ElementOfSeq
    <3> QED BY <2>2, <3>2
  <2>4. Pos(o) \in 1..Len(f.blk)
    BY <1>1, <1>4, TiedFacts, TuplePlaces
  <2>5. UpdateTuple(f, n, v, id) = ChangeString(f, o, v)
    BY <1>2, <2>1 DEF UpdateTuple
  <2> HIDE DEF o, b
  <2>6. Inside(f, o) /\ ReadTuple(f, o) = t
    BY <2>4 DEF Inside, ReadTuple
  <2>7. ChangeString(f, o, v) = WriteTuple(f, o, StringSlot(t[0], t[1], v[1]))
    BY <2>2, <2>6 DEF ChangeString
  <2> QED BY <1>4, <2>3, <2>5, <2>7 DEF o, b
<1> QED BY <1>3, <1>4

WithField(t, n, v) == [t EXCEPT !.fields[n] = v]

LEMMA UpdateSound ==
    ASSUME OnePieceTexts, NEW f \in FileType, Tied(f), NothingSpare(f), NEW id \in Live(f),
           NEW n \in Fields, NEW v \in Values(n)
    PROVE  LET h == UpdateTuple(f, n, v, id)
           IN  /\ h \in FileType /\ Tied(h) /\ NothingSpare(h)
               /\ CurId(h) = CurId(f) /\ Live(h) = Live(f)
               /\ Contents(h)[id] = WithField(Contents(f)[id], n, v)
               /\ \A i \in Live(f) : i # id => Contents(h)[i] = Contents(f)[i]
<1> DEFINE b == WordsOf(f, id)
           w == FieldWord(n)
           c == [b EXCEPT ![w] = v[1]]
           o == b[w]
           t == f.blk[Pos(o)]
           u == StringSlot(t[0], t[1], v[1])
           h == UpdateTuple(f, n, v, id)
           r == [m \in Fields |-> FieldIn(f, b, m)]
           new1 == [parent |-> b[0], fields |-> [r EXCEPT ![n] = v]]
<1>1. /\ Grown(f) /\ b \in WordBlock /\ b[1] = id
      /\ \A i \in Live(f) : HasStrings(f, i, WordsOf(f, i), StringFields)
      /\ \A i \in Live(f) : Contents(f)[i] = TupleOf(f, WordsOf(f, i))
  BY TiedFacts, GrownFacts, ContentsOf DEF Tied, WordsOf
<1>2. /\ w \in Words /\ w # 0 /\ w # 1 /\ 0 \in Words /\ 1 \in Words
      /\ \A m \in Fields : FieldWord(m) \in Words /\ (FieldWord(m) = w <=> m = n)
  BY FieldWordApart DEF Words
<1>3. v[1] \in Nat /\ v = <<v[1]>>
  BY UpdatePlaces
<1>4. WithField(Contents(f)[id], n, v) = new1
  <2>1. Contents(f)[id] = [parent |-> b[0], fields |-> r]
    BY <1>1 DEF TupleOf
  <2> HIDE DEF r
  <2> QED BY <2>1 DEF WithField
<1>5. CASE n \notin StringFields
  <2> DEFINE h2 == WriteTuple(f, Entry(f, id), c)
  <2>1. h = h2 /\ v[1] < FirstOffset
    BY <1>5, UpdatePlaces
  <2>2. \A x \in Words : c[x] = IF x = w THEN v[1] ELSE b[x]
    BY <1>1, <1>2 DEF WordBlock
  <2>3. c \in WordBlock /\ c[1] = id /\ c[0] = b[0]
    BY <1>1, <1>2, <1>3, <2>2 DEF WordBlock
  <2> HIDE DEF b, c, w, h, h2
  <2>4. \A m \in StringFields : c[FieldWord(m)] = b[FieldWord(m)]
    BY <1>2, <1>5, <2>2 DEF StringFields
  <2>5. HasStrings(f, id, c, StringFields)
    <3>1. HasStrings(f, id, b, StringFields)
      BY <1>1 DEF b
    <3>2. ASSUME NEW x \in Words, c[x] >= FirstOffset
          PROVE  \E m \in StringFields : x = FieldWord(m)
      <4>1. x # w
        BY <1>3, <2>1, <2>2, <3>2
      <4> QED BY <2>2, <3>1, <3>2, <4>1 DEF HasStrings
    <3> QED BY <2>4, <3>1, <3>2 DEF HasStrings
  <2>6. \A i \in Live(f) : HasStrings(f, i, WordsWith(f, id, c, i), StringFields)
    BY <1>1, <2>5 DEF WordsWith
  <2>7. \A p \in TuplePositions(f) : \E i \in Live(f) :
           UsedBy(f, p, i, WordsWith(f, id, c, i), StringFields)
    BY <2>4 DEF NothingSpare, UsedBy, WordsWith, b
  <2>8. /\ h2 \in FileType /\ Tied(h2) /\ NothingSpare(h2)
        /\ CurId(h2) = CurId(f) /\ Live(h2) = Live(f)
        /\ \A i \in Live(f) : Contents(h2)[i] = TupleOf(f, WordsWith(f, id, c, i))
    BY <1>1, <2>3, <2>6, <2>7, WriteSlot DEF h2
  <2>9. TupleOf(f, c) = new1
    <3>1. ASSUME NEW m \in Fields
          PROVE  FieldIn(f, c, m) = IF m = n THEN v ELSE FieldIn(f, b, m)
      <4>1. c[FieldWord(m)] = IF m = n THEN v[1] ELSE b[FieldWord(m)]
        BY <1>2, <2>2
      <4>2. m = n => Types[m] # "STRING"
        BY <1>5 DEF StringFields
      <4> QED BY <1>3, <4>1, <4>2 DEF FieldIn
    <3>2. [m \in Fields |-> FieldIn(f, c, m)] = [r EXCEPT ![n] = v]
      BY <3>1
    <3> QED BY <2>3, <3>2 DEF TupleOf
  <2>10. \A i \in Live(f) : Contents(h2)[i] = IF i = id THEN new1 ELSE Contents(f)[i]
    BY <1>1, <2>8, <2>9 DEF WordsWith
  <2> HIDE DEF new1
  <2> QED BY <1>4, <2>1, <2>8, <2>10 DEF h
<1>6. CASE n \in StringFields
  <2> DEFINE h2 == WriteTuple(f, o, u)
  <2>1. h = h2
    BY <1>6, UpdatePlaces
  <2>2. t \in WordBlock /\ HeaderWords \in Words
    BY <1>6, TiedFacts, FieldWordType DEF FieldWord, HeaderWords, Words, Fields
  <2>3. u \in WordBlock /\ u[0] = t[0] /\ u[1] = t[1] /\ <<u[HeaderWords]>> = v
    <3> HIDE DEF t
    <3>1. t[0] \in Nat /\ t[1] \in Nat
      BY <1>2, <2>2, WordType
    <3> QED BY <1>2, <1>3, <2>2, <3>1 DEF StringSlot, WordBlock, HeaderWords
  <2> HIDE DEF u, h
  <2>4. /\ h2 \in FileType /\ Tied(h2) /\ NothingSpare(h2)
        /\ CurId(h2) = CurId(f) /\ Live(h2) = Live(f)
        /\ \A i \in Live(f) : i # id => Contents(h2)[i] = Contents(f)[i]
        /\ Contents(h2)[id] = [parent |-> Contents(f)[id].parent,
                               fields |-> [m \in Fields |->
                                  IF m = n THEN <<u[HeaderWords]>>
                                  ELSE Contents(f)[id].fields[m]]]
    BY <1>6, <2>3, WriteText
  <2> HIDE DEF h2
  <2>5. Contents(h2)[id] = new1
    <3>1. Contents(f)[id] = [parent |-> b[0], fields |-> r]
      BY <1>1 DEF TupleOf
    <3>2. [m \in Fields |-> IF m = n THEN v ELSE r[m]] = [r EXCEPT ![n] = v]
      OBVIOUS
    <3> HIDE DEF r
    <3> QED BY <2>3, <2>4, <3>1, <3>2
  <2> HIDE DEF new1
  <2> QED BY <1>4, <2>1, <2>4, <2>5 DEF h
<1> QED BY <1>5, <1>6

LEMMA UpdateGrowing ==
    ASSUME OnePieceTexts, TypeOK, GrowingInv, NEW n \in Fields, NEW v \in Values(n),
           NEW id \in Live(file), Idle, Update(n, v, id)
    PROVE  /\ GrowingInv' /\ GrowingTraced'
           /\ Live(file') = Live(file)
           /\ Contents(file') = [Contents(file) EXCEPT ![id].fields[n] = v]
<1> DEFINE C == Contents(file)
<1>1. /\ file \in FileType /\ op = "none" /\ op' = "none" /\ stack' = stack
      /\ file' = UpdateTuple(file, n, v, id)
  BY DEF TypeOK, Idle, Update
<1>2. Tied(file) /\ NothingSpare(file) /\ stack = <<>>
  BY <1>1, GrowingIdle
<1>3. /\ file' \in FileType /\ Tied(file') /\ NothingSpare(file')
      /\ Live(file') = Live(file)
      /\ Contents(file')[id] = [C[id] EXCEPT !.fields[n] = v]
      /\ \A i \in Live(file) : i # id => Contents(file')[i] = C[i]
  <2>1. /\ file' \in FileType /\ Tied(file') /\ NothingSpare(file')
        /\ Live(file') = Live(file)
        /\ Contents(file')[id] = WithField(C[id], n, v)
        /\ \A i \in Live(file) : i # id => Contents(file')[i] = C[i]
    BY <1>1, <1>2, UpdateSound
  <2> HIDE DEF C
  <2> QED BY <2>1 DEF WithField
<1>4. /\ DOMAIN C = Live(file)
      /\ C = [i \in Live(file) |-> C[i]]
      /\ Contents(file') = [i \in Live(file') |-> Contents(file')[i]]
  <2>1. DOMAIN C = Live(file)
    BY DEF Contents
  <2>2. C = [i \in Live(file) |-> C[i]]
    BY DEF Contents
  <2>3. Contents(file') = [i \in Live(file') |-> Contents(file')[i]]
    BY DEF Contents
  <2> QED BY <2>1, <2>2, <2>3
<1> HIDE DEF C
<1>5. Contents(file') = [C EXCEPT ![id].fields[n] = v]
  <2> DEFINE now == [C[id] EXCEPT !.fields[n] = v]
  <2>1. Contents(file') = [i \in Live(file) |-> IF i = id THEN now ELSE C[i]]
    BY <1>3, <1>4
  <2> QED BY <1>4, <2>1
<1>6. GrowingInv' /\ GrowingTraced'
  BY <1>1, <1>2, <1>3, IdleThen
<1> QED BY <1>3, <1>5, <1>6 DEF C

-----------------------------------------------------------------------------
(***************************************************************************)
(* All steps together, and the theorems.                                   *)
(***************************************************************************)
LEMMA GrowingNextIsNext == ASSUME GrowingNext PROVE Next
BY DEF GrowingNext, LiveUpdate, Next

LEMMA NoRemoval ==
    ASSUME GrowingInv, Inner
    PROVE  AddString \/ AddInteger \/ AddWrite
BY DEF GrowingInv, Inner, RemoveChild, RemoveRead, RemovePiece, RemoveSlot, RemoveStep

LEMMA StepGrowing ==
    ASSUME OnePieceTexts, TypeOK, GrowingInv, GrowingTraced, [GrowingNext]_vars
    PROVE  TypeOK' /\ GrowingInv' /\ GrowingTraced'
<1>1. TypeOK'
  BY GrowingNextIsNext, StepType
<1>2. CASE \E v \in FieldValues, p \in Parents : AddTuple(v, p)
  BY <1>1, <1>2, AddTupleGrowing
<1>3. CASE LiveUpdate
  BY <1>1, <1>3, UpdateGrowing DEF LiveUpdate
<1>4. CASE Inner
  BY <1>1, <1>4, NoRemoval, AddStringGrowing, AddIntegerGrowing, AddWriteGrowing
<1>5. CASE UNCHANGED vars
  <2>1. file' = file /\ op' = op /\ new' = new /\ stack' = stack /\ before' = before
    BY <1>5 DEF vars
  <2>2. CASE op = "add"
    <3>1. AddingSound(file, new) /\ stack = <<>> /\ AddingTraced(file, new, before)
      BY <2>2, GrowingAdding DEF TypeOK
    <3> QED BY <1>1, <2>1, <2>2, <3>1, AddingNext DEF TypeOK
  <2>3. CASE op = "none"
    <3>1. Tied(file) /\ NothingSpare(file) /\ stack = <<>>
      BY <2>3, GrowingIdle
    <3> QED BY <1>1, <2>1, <2>3, <3>1, IdleThen
  <2>4. op # "remove" /\ op \in {"none", "add", "remove"}
    BY DEF GrowingInv, TypeOK
  <2> QED BY <1>1, <2>2, <2>3, <2>4
<1> QED BY <1>1, <1>2, <1>3, <1>4, <1>5 DEF GrowingNext

LEMMA GrowingInductive ==
    ASSUME OnePieceTexts
    PROVE  GrowingSpec => [](TypeOK /\ GrowingInv /\ GrowingTraced)
<1>1. Init => TypeOK /\ GrowingInv /\ GrowingTraced
  BY InitType, InitGrowing
<1>2. TypeOK /\ GrowingInv /\ GrowingTraced /\ [GrowingNext]_vars
        => (TypeOK /\ GrowingInv /\ GrowingTraced)'
  BY StepGrowing
<1> QED BY <1>1, <1>2, PTL DEF GrowingSpec

(***************************************************************************)
(* Files of tuples with any number of strings, each of one piece: when the *)
(* id array grows over a slot (append_to_id_array), swap_tuple_to finds    *)
(* what the slot is and the one reference to it, whatever call is in       *)
(* progress, and every slot stays that of one tuple or one string.         *)
(***************************************************************************)
THEOREM GrowingCorrect ==
    ASSUME OnePieceTexts
    PROVE  GrowingSpec => []GrowingInv
<1>1. TypeOK /\ GrowingInv /\ GrowingTraced => GrowingInv
  OBVIOUS
<1> QED BY <1>1, GrowingInductive, PTL

(***************************************************************************)
(* Between the steps of add_tuple every other tuple reads as it did, and   *)
(* the new one's fields are those that have been written.                  *)
(***************************************************************************)
THEOREM GrowingCallTraced ==
    ASSUME OnePieceTexts
    PROVE  GrowingSpec => []GrowingTraced
<1>1. TypeOK /\ GrowingInv /\ GrowingTraced => GrowingTraced
  OBVIOUS
<1> QED BY <1>1, GrowingInductive, PTL

(***************************************************************************)
(* The entry that append_to_id_array writes next lies before every tuple,  *)
(* with strings among them too.                                            *)
(***************************************************************************)
THEOREM GrowingArrayApart ==
    ASSUME OnePieceTexts
    PROVE  GrowingSpec => []ArrayApart
<1>1. ASSUME TypeOK, GrowingInv PROVE ArrayApart
  <2>1. file \in FileType /\ Grown(file) /\ LastArraySlot(file) <= Len(file.blk)
    BY <1>1 DEF TypeOK, GrowingInv, Grown
  <2>2. \A id \in Live(file) : Pos(Entry(file, id)) > LastArraySlot(file)
    BY <2>1, GrownFacts, TuplePlaces
  <2> QED BY <2>2 DEF ArrayApart, LastArraySlot
<1>2. TypeOK /\ GrowingInv /\ GrowingTraced => ArrayApart
  BY <1>1
<1> QED BY <1>2, GrowingInductive, PTL

(***************************************************************************)
(* Between calls, a tuple's strings are its own: the first piece of each   *)
(* leads back to the tuple, and no other field leads to it, however often  *)
(* the growing array has moved either.                                     *)
(***************************************************************************)
THEOREM GrowingStringsBelong ==
    ASSUME OnePieceTexts
    PROVE  GrowingSpec => []StringsBelong
<1>1. ASSUME TypeOK, GrowingInv PROVE StringsBelong
  <2> SUFFICES ASSUME Idle, NEW id \in Live(file), NEW n \in StringFields
               PROVE  LET o == ReadTuple(file, Entry(file, id))[FieldWord(n)]
                      IN  /\ Inside(file, o)
                          /\ ReadTuple(file, o)[0] = Entry(file, id)
                          /\ \A other \in Live(file) : \A m \in StringFields :
                               ReadTuple(file, Entry(file, other))[FieldWord(m)] = o
                                 => other = id /\ m = n
    BY DEF StringsBelong
  <2>1. file \in FileType /\ Tied(file) /\ Grown(file) /\ LastArraySlot(file) <= Len(file.blk)
    BY <1>1, GrowingIdle DEF TypeOK, Idle, Tied, Grown
  <2>2. \A i \in Live(file) : ReadTuple(file, Entry(file, i)) = WordsOf(file, i)
    BY <2>1, ContentsOf DEF Tied
  <2> DEFINE o == WordsOf(file, id)[FieldWord(n)]
  <2>3. /\ Pos(o) \in TuplePositions(file)
        /\ file.blk[Pos(o)][0] = Entry(file, id)
        /\ \A i \in Live(file) : \A m \in StringFields :
             WordsOf(file, i)[FieldWord(m)] = o => i = id /\ m = n
    BY <2>1, TiedFacts
  <2> HIDE DEF o
  <2>4. Inside(file, o)
    BY <2>1, <2>3, TuplePlaces DEF Inside
  <2> QED BY <2>2, <2>3, <2>4 DEF ReadTuple, o
<1>2. TypeOK /\ GrowingInv /\ GrowingTraced => StringsBelong
  BY <1>1
<1> QED BY <1>2, GrowingInductive, PTL

(***************************************************************************)
(* Between calls the slots behind the id array are the tuples' and their   *)
(* strings', and no others: growth leaves no slot to nobody, and takes     *)
(* none from anybody.                                                      *)
(***************************************************************************)
THEOREM GrowingNoSlotWasted ==
    ASSUME OnePieceTexts
    PROVE  GrowingSpec => []NoSlotWasted
<1>1. ASSUME TypeOK, GrowingInv PROVE NoSlotWasted
  <2> SUFFICES ASSUME Idle
               PROVE  UNION {SlotsOf(id) : id \in Live(file)}
                        = {Off(p) : p \in TuplePositions(file)}
    BY DEF NoSlotWasted, TuplePositions, LastArraySlot
  <2>1. /\ file \in FileType /\ Tied(file) /\ NothingSpare(file)
        /\ Grown(file) /\ LastArraySlot(file) <= Len(file.blk)
    BY <1>1, GrowingIdle DEF TypeOK, Idle, Tied, Grown
  <2>2. ASSUME NEW id \in Live(file), NEW n \in StringFields
        PROVE  PiecesOf(WordsOf(file, id)[FieldWord(n)]) = {WordsOf(file, id)[FieldWord(n)]}
    <3> DEFINE o == WordsOf(file, id)[FieldWord(n)]
    <3>1. o \in Nat /\ Pos(o) \in TuplePositions(file) /\ file.blk[Pos(o)][1] = 0
      BY <2>1, TiedFacts
    <3> HIDE DEF o
    <3>2. Inside(file, o)
      BY <2>1, <3>1, TuplePlaces DEF Inside
    <3>3. Pieces(file, o) = <<o>>
      BY <2>1, <3>1, <3>2, OnePiece DEF NullValue
    <3> QED BY <3>3 DEF PiecesOf, o
  <2>3. \A id \in Live(file) :
          SlotsOf(id) = {Entry(file, id)} \cup {WordsOf(file, id)[FieldWord(n)] : n \in StringFields}
    <3> SUFFICES ASSUME NEW id \in Live(file)
                 PROVE  SlotsOf(id) = {Entry(file, id)}
                          \cup {WordsOf(file, id)[FieldWord(n)] : n \in StringFields}
      OBVIOUS
    <3> DEFINE b == WordsOf(file, id)
    <3>1. SlotsOf(id) = {Entry(file, id)} \cup UNION {PiecesOf(b[FieldWord(n)]) : n \in StringFields}
      BY DEF SlotsOf, WordsOf
    <3>2. \A n \in StringFields : PiecesOf(b[FieldWord(n)]) = {b[FieldWord(n)]}
      BY <2>2
    <3> HIDE DEF b
    <3>3. {PiecesOf(b[FieldWord(n)]) : n \in StringFields} = {{b[FieldWord(n)]} : n \in StringFields}
      BY <3>2
    <3>4. UNION {{b[FieldWord(n)]} : n \in StringFields} = {b[FieldWord(n)] : n \in StringFields}
      OBVIOUS
    <3> QED BY <3>1, <3>3, <3>4 DEF b
  <2>4. ASSUME NEW id \in Live(file), NEW o \in SlotsOf(id)
        PROVE  \E p \in TuplePositions(file) : o = Off(p)
    <3>1. CASE o = Entry(file, id)
      BY <2>1, <3>1, GrownFacts
    <3>2. CASE \E n \in StringFields : o = WordsOf(file, id)[FieldWord(n)]
      BY <2>1, <3>2, TiedFacts
    <3> QED BY <2>3, <3>1, <3>2
  <2>5. ASSUME NEW p \in TuplePositions(file)
        PROVE  \E id \in Live(file) : Off(p) \in SlotsOf(id)
    <3>1. PICK id \in Live(file) : UsedBy(file, p, id, WordsOf(file, id), StringFields)
      BY <2>1 DEF NothingSpare
    <3> QED BY <2>3, <3>1 DEF UsedBy
  <2> QED BY <2>4, <2>5
<1>2. TypeOK /\ GrowingInv /\ GrowingTraced => NoSlotWasted
  BY <1>1
<1> QED BY <1>2, GrowingInductive, PTL

(***************************************************************************)
(* A process killed at any point of add_tuple, with the array half grown   *)
(* or some of the strings written, leaves every other tuple and all of its *)
(* strings as they were when the call began.                               *)
(***************************************************************************)
THEOREM GrowingOthersReadable ==
    ASSUME OnePieceTexts
    PROVE  GrowingSpec => []OthersReadable
<1>1. ASSUME TypeOK, GrowingInv, GrowingTraced PROVE OthersReadable
  <2> SUFFICES ASSUME op # "none", NEW id \in DOMAIN before \cap Live(file)
               PROVE  Contents(file)[id] = before[id]
    BY DEF OthersReadable
  <2>1. op = "add"
    BY <1>1 DEF TypeOK, GrowingInv
  <2> QED BY <1>1, <2>1 DEF GrowingTraced, SameAsBefore
<1>2. TypeOK /\ GrowingInv /\ GrowingTraced => OthersReadable
  BY <1>1
<1> QED BY <1>2, GrowingInductive, PTL

(***************************************************************************)
(* The program never leaves the file while tuples are added and updated.   *)
(***************************************************************************)
THEOREM GrowingStaysInside ==
    ASSUME OnePieceTexts
    PROVE  GrowingSpec => []StaysInside
<1>1. TypeOK /\ GrowingInv /\ GrowingTraced => StaysInside
  BY DEF GrowingInv, Grown, StaysInside
<1> QED BY <1>1, GrowingInductive, PTL

(***************************************************************************)
(* The entry of a live tuple leads to the slot that says it is its tuple,  *)
(* at every step, whatever the growing array has moved.                    *)
(***************************************************************************)
THEOREM GrowingEntriesReachTuples ==
    ASSUME OnePieceTexts
    PROVE  GrowingSpec => []EntriesReachTuples
<1>1. ASSUME TypeOK, GrowingInv PROVE EntriesReachTuples
  <2>1. file \in FileType /\ Grown(file) /\ LastArraySlot(file) <= Len(file.blk)
    BY <1>1 DEF TypeOK, GrowingInv, Grown
  <2>2. ASSUME NEW id \in Live(file)
        PROVE  Inside(file, Entry(file, id)) /\ ReadTuple(file, Entry(file, id))[1] = id
    <3>1. /\ Pos(Entry(file, id)) \in 1..Len(file.blk)
          /\ file.blk[Pos(Entry(file, id))][1] = id
      BY <2>1, GrownFacts, TuplePlaces
    <3> QED BY <3>1 DEF Inside, ReadTuple
  <2> QED BY <2>2 DEF EntriesReachTuples
<1>2. TypeOK /\ GrowingInv /\ GrowingTraced => EntriesReachTuples
  BY <1>1
<1> QED BY <1>2, GrowingInductive, PTL

-----------------------------------------------------------------------------
(***************************************************************************)
(* The refinement, a step at a time.                                       *)
(***************************************************************************)

\* Where no tuple can be given its fields there are none.
NoneWithoutFields == FieldValues = {} => op = "none" /\ Live(file) = {}

LEMMA GrowingNone ==
    ASSUME OnePieceTexts
    PROVE  GrowingSpec => []NoneWithoutFields
<1>1. ASSUME Init PROVE NoneWithoutFields
  <2>1. Live(file) = {} /\ op = "none"
    BY <1>1, EmptyFileFacts DEF Init
  <2> QED BY <2>1 DEF NoneWithoutFields
<1>2. ASSUME TypeOK, GrowingInv, NoneWithoutFields, [GrowingNext]_vars
      PROVE  NoneWithoutFields'
  <2> SUFFICES ASSUME FieldValues = {} PROVE op' = "none" /\ Live(file') = {}
    BY ContentsThen DEF NoneWithoutFields
  <2>1. op = "none" /\ Live(file) = {}
    BY <1>2 DEF NoneWithoutFields
  <2>2. ~Inner
    BY <1>2, <2>1, NoRemoval DEF AddString, AddInteger, AddWrite, AddStep
  <2>3. UNCHANGED vars
    BY <1>2, <2>1, <2>2 DEF GrowingNext, LiveUpdate
  <2> QED BY <2>1, <2>3 DEF vars
<1>3. TypeOK /\ GrowingInv /\ GrowingTraced => TypeOK /\ GrowingInv
  OBVIOUS
<1>4. TypeOK /\ GrowingInv /\ NoneWithoutFields /\ [GrowingNext]_vars => NoneWithoutFields'
  BY <1>2
<1>5. Init => NoneWithoutFields
  BY <1>1
<1> QED BY <1>3, <1>4, <1>5, GrowingInductive, PTL DEF GrowingSpec

LEMMA UpdateGrowingUpdates ==
    ASSUME OnePieceTexts, TypeOK, GrowingInv, NoneWithoutFields,
           NEW n \in Fields, NEW v \in Values(n), NEW id \in AllIds,
           Idle, id \in Live(file), Update(n, v, id)
    PROVE  Store!Update(id, n, v) /\ v \in {w[n] : w \in FieldValues}
<1>1. op = "none" /\ op' = "none"
  BY DEF Idle, Update
<1>2. Contents(file') = [Contents(file) EXCEPT ![id].fields[n] = v]
  BY UpdateGrowing
<1>3. id \in DOMAIN Contents(file)
  BY DEF Contents
<1>4. Promised = Contents(file) /\ Promised' = Contents(file')
  BY <1>1, PromisedThen DEF Promised
<1>5. Store!Update(id, n, v)
  <2>1. Promised' = [Promised EXCEPT ![id].fields[n] = v]
    BY <1>2, <1>4
  <2> QED BY <1>3, <1>4, <2>1 DEF Store!Update, Promised
<1>6. v \in {w[n] : w \in FieldValues}
  <2>1. PICK w \in FieldValues : TRUE
    BY DEF NoneWithoutFields
  <2> DEFINE x == [w EXCEPT ![n] = v]
  <2>2. w \in [Fields -> UNION {Values(m) : m \in Fields}] /\ \A m \in Fields : w[m] \in Values(m)
    BY DEF FieldValues
  <2>3. x \in [Fields -> UNION {Values(m) : m \in Fields}] /\ \A m \in Fields : x[m] \in Values(m)
    BY <2>2
  <2>4. x \in FieldValues /\ x[n] = v
    BY <2>2, <2>3 DEF FieldValues
  <2> QED BY <2>4
<1> QED BY <1>5, <1>6

LEMMA AddWriteGrowingAdds ==
    ASSUME TypeOK, GrowingInv, GrowingTraced, AddWrite
    PROVE  \E id \in AllIds, t \in Store!TupleType : Store!Add(id, t)
<1> DEFINE id == CurId(file) - 1
           t  == [parent |-> new.slot[0], fields |-> new.fields]
<1>1. op = "add" /\ op' = "none" /\ new.fields \in FieldValues
  BY DEF AddWrite, AddStep, TypeOK
<1>2. /\ Live(file') = Live(file) /\ id \in AllIds \ DOMAIN before
      /\ DOMAIN before \cup {id} = Live(file)
      /\ new.slot[0] \in Parents
      /\ Contents(file')[id] = t
      /\ \A i \in DOMAIN before : Contents(file')[i] = before[i]
  BY AddWriteGrowing
<1>3. t \in Store!TupleType
  BY <1>1, <1>2 DEF Store!TupleType
<1> HIDE DEF id, t
<1>4. Contents(file') = [i \in Live(file') |-> Contents(file')[i]]
  BY DEF Contents
<1>5. Promised = before /\ Promised' = Contents(file')
  BY <1>1, PromisedThen DEF Promised
<1>6. Promised' = [i \in DOMAIN before \cup {id} |-> IF i = id THEN t ELSE before[i]]
  BY <1>2, <1>4, <1>5
<1>7. Store!Add(id, t)
  BY <1>2, <1>5, <1>6 DEF Store!Add, Promised
<1> QED BY <1>2, <1>3, <1>7

LEMMA StepGrowingPromised ==
    ASSUME OnePieceTexts, TypeOK, GrowingInv, GrowingTraced, NoneWithoutFields,
           [GrowingNext]_vars
    PROVE  Store!Next \/ Promised' = Promised
<1>1. CASE \E v \in FieldValues, p \in Parents : AddTuple(v, p)
  BY <1>1, PromisedThen DEF AddTuple, Idle, Promised
<1>2. CASE LiveUpdate
  <2>1. PICK n \in Fields : \E v \in Values(n), id \in AllIds :
                                Idle /\ id \in Live(file) /\ Update(n, v, id)
    BY <1>2 DEF LiveUpdate
  <2>2. PICK v \in Values(n), id \in AllIds : Idle /\ id \in Live(file) /\ Update(n, v, id)
    BY <2>1
  <2>3. Store!Update(id, n, v) /\ v \in {w[n] : w \in FieldValues}
    BY <2>2, UpdateGrowingUpdates
  <2> QED BY <2>3 DEF Store!Next
<1>3. CASE AddString \/ AddInteger
  <2>1. op = "add" /\ op' = op /\ before' = before
    BY <1>3 DEF AddString, AddInteger, AddStep
  <2> QED BY <2>1, PromisedThen DEF Promised
<1>4. CASE AddWrite
  BY <1>4, AddWriteGrowingAdds DEF Store!Next
<1>5. CASE UNCHANGED vars
  BY <1>5, PromisedThen DEF vars, Promised
<1> QED BY <1>1, <1>2, <1>3, <1>4, <1>5, NoRemoval DEF GrowingNext

(***************************************************************************)
(* The refinement, with strings: a caller who adds and updates tuples      *)
(* never sees that their slots move.  add_tuple adds one tuple with a new  *)
(* id and all of its fields at its last write; update_tuple changes one    *)
(* field of one tuple.                                                     *)
(***************************************************************************)
THEOREM GrowingKeepsPromise ==
    ASSUME OnePieceTexts
    PROVE  GrowingSpec => KeepsPromise
<1>1. Init => Store!Init
  BY InitPromised
<1>2. /\ TypeOK /\ GrowingInv /\ GrowingTraced /\ NoneWithoutFields
      /\ [GrowingNext]_vars
      => [Store!Next]_(IF op = "none" THEN Contents(file) ELSE before)
  BY StepGrowingPromised DEF Promised
<1> QED BY <1>1, <1>2, GrowingInductive, GrowingNone, PTL
        DEF GrowingSpec, KeepsPromise, Store!Spec
=============================================================================
