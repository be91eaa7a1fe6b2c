--------------------------- MODULE ExchangeProofs ---------------------------
(***************************************************************************)
(* The code of an answer reaches the client: what the server encodes is    *)
(* the tag and one byte, whatever arrives of it is decoded to the code or  *)
(* to 0, and that is what is shown, or 0 when the client asked for tuples.  *)
(***************************************************************************)
EXTENDS Exchange, SequenceLemmas

-----------------------------------------------------------------------------
(***************************************************************************)
(* The message of an answer. What is known of the messages is a function   *)
(* over the order they are declared in; there is one, which is written     *)
(* down step by step, so CHOOSE finds it.                                  *)
(***************************************************************************)
Answer == "Return_code"

\* Where the message of an answer is declared.
LEMMA DeclaredSeventh ==
    /\ Len(Order) = 10
    /\ Order[7] = Answer /\ Order[8] # Answer /\ Order[9] # Answer /\ Order[10] # Answer
BY DEF Order, Answer

\* The equation of Layouts, and that it has a solution.
LayoutEquation(g) ==
    g = [n \in 0..10 |-> IF n = 0 THEN <<>> ELSE LayoutAdded(g[n - 1], Order[n], FieldList[Order[n]])]

LEMMA LayoutsEquation == LayoutEquation(Layouts)
<1> DEFINE A(known, n) == LayoutAdded(known, Order[n], FieldList[Order[n]])
           g0 == <<>>
           g1 == A(g0, 1)
           g2 == A(g1, 2)
           g3 == A(g2, 3)
           g4 == A(g3, 4)
           g5 == A(g4, 5)
           g6 == A(g5, 6)
           g7 == A(g6, 7)
           g8 == A(g7, 8)
           g9 == A(g8, 9)
           g10 == A(g9, 10)
           c(n) == CASE n = 0 -> g0 [] n = 1 -> g1 [] n = 2 -> g2 [] n = 3 -> g3
                     [] n = 4 -> g4 [] n = 5 -> g5 [] n = 6 -> g6 [] n = 7 -> g7
                     [] n = 8 -> g8 [] n = 9 -> g9 [] n = 10 -> g10
           g == [n \in 0..10 |-> c(n)]
           step(h, n) == IF n = 0 THEN <<>> ELSE A(h[n - 1], n)
<1> HIDE DEF A
<1>1. \A n \in 0..10 : g[n] = step(g, n)
  <2> HIDE DEF g0, g1, g2, g3, g4, g5, g6, g7, g8, g9, g10
  <2>1. /\ g[0] = g0 /\ g[1] = g1 /\ g[2] = g2 /\ g[3] = g3 /\ g[4] = g4 /\ g[5] = g5
        /\ g[6] = g6 /\ g[7] = g7 /\ g[8] = g8 /\ g[9] = g9 /\ g[10] = g10
    OBVIOUS
  <2> HIDE DEF g
  <2>2. g0 = <<>> /\ g1 = A(g0, 1) /\ g2 = A(g1, 2) /\ g3 = A(g2, 3) /\ g4 = A(g3, 4) /\ g5 = A(g4, 5)
        /\ g6 = A(g5, 6) /\ g7 = A(g6, 7) /\ g8 = A(g7, 8) /\ g9 = A(g8, 9) /\ g10 = A(g9, 10)
    BY Zenon DEF g0, g1, g2, g3, g4, g5, g6, g7, g8, g9, g10
  <2> SUFFICES ASSUME NEW n \in 0..10 PROVE g[n] = step(g, n)
    OBVIOUS
  <2> QED BY <2>1, <2>2
<1>2. g = [n \in 0..10 |-> step(g, n)]
  <2> HIDE DEF step, c
  <2>1. \A n \in 0..10 : c(n) = step(g, n)
    BY <1>1
  <2> DEFINE t(x) == step(x, 0)
  <2> QED BY <2>1, Zenon
<1> HIDE DEF g
<1>3. LayoutEquation(g)
  BY <1>2, Zenon DEF LayoutEquation, A
<1>4. Layouts = CHOOSE h : LayoutEquation(h)
  BY DeclaredSeventh, Zenon DEF Layouts, LayoutEquation
<1> QED BY <1>3, <1>4, Zenon

\* The same of the bytes that are set to 0.
ZeroingEquation(g) ==
    g = [n \in 0..10 |-> IF n = 0 THEN <<>> ELSE ZeroedAdded(g[n - 1], Order[n], InfoList[Order[n]])]

LEMMA ZeroedEquation == \E z : ZeroingEquation(z) /\ Zeroed = z[10]
<1> DEFINE A(known, n) == ZeroedAdded(known, Order[n], InfoList[Order[n]])
           g0 == <<>>
           g1 == A(g0, 1)
           g2 == A(g1, 2)
           g3 == A(g2, 3)
           g4 == A(g3, 4)
           g5 == A(g4, 5)
           g6 == A(g5, 6)
           g7 == A(g6, 7)
           g8 == A(g7, 8)
           g9 == A(g8, 9)
           g10 == A(g9, 10)
           c(n) == CASE n = 0 -> g0 [] n = 1 -> g1 [] n = 2 -> g2 [] n = 3 -> g3
                     [] n = 4 -> g4 [] n = 5 -> g5 [] n = 6 -> g6 [] n = 7 -> g7
                     [] n = 8 -> g8 [] n = 9 -> g9 [] n = 10 -> g10
           g == [n \in 0..10 |-> c(n)]
           step(h, n) == IF n = 0 THEN <<>> ELSE A(h[n - 1], n)
<1> HIDE DEF A
<1>1. \A n \in 0..10 : g[n] = step(g, n)
  <2> HIDE DEF g0, g1, g2, g3, g4, g5, g6, g7, g8, g9, g10
  <2>1. /\ g[0] = g0 /\ g[1] = g1 /\ g[2] = g2 /\ g[3] = g3 /\ g[4] = g4 /\ g[5] = g5
        /\ g[6] = g6 /\ g[7] = g7 /\ g[8] = g8 /\ g[9] = g9 /\ g[10] = g10
    OBVIOUS
  <2> HIDE DEF g
  <2>2. g0 = <<>> /\ g1 = A(g0, 1) /\ g2 = A(g1, 2) /\ g3 = A(g2, 3) /\ g4 = A(g3, 4) /\ g5 = A(g4, 5)
        /\ g6 = A(g5, 6) /\ g7 = A(g6, 7) /\ g8 = A(g7, 8) /\ g9 = A(g8, 9) /\ g10 = A(g9, 10)
    BY Zenon DEF g0, g1, g2, g3, g4, g5, g6, g7, g8, g9, g10
  <2> SUFFICES ASSUME NEW n \in 0..10 PROVE g[n] = step(g, n)
    OBVIOUS
  <2> QED BY <2>1, <2>2
<1>2. g = [n \in 0..10 |-> step(g, n)]
  <2> HIDE DEF step, c
  <2>1. \A n \in 0..10 : c(n) = step(g, n)
    BY <1>1
  <2> DEFINE t(x) == step(x, 0)
  <2> QED BY <2>1, Zenon
<1> HIDE DEF g
<1>3. ZeroingEquation(g)
  BY <1>2, Zenon DEF ZeroingEquation, A
<1>4. Zeroed = (CHOOSE h : ZeroingEquation(h))[10]
  BY DeclaredSeventh, Zenon DEF Zeroed, ZeroingEquation
<1> QED BY <1>3, <1>4, Zenon

LEMMA AnswersFields ==
    /\ Answer \in MessageNames
    /\ FieldList[Answer] = <<Scalar("REQUIRED", "INT32", "code", 1)>>
BY Zenon DEF Answer, FieldList, MessageNames

\* What is added later does not change what is known of the answer.
LEMMA Behind ==
    ASSUME NEW known, Answer \in DOMAIN known, NEW m, m # Answer, NEW x,
           NEW after, after = Knowing(known, m, x)
    PROVE  Answer \in DOMAIN after /\ after[Answer] = known[Answer]
BY Zenon DEF Knowing

\* What is added is known.
LEMMA InFront ==
    ASSUME NEW known, NEW m, NEW x, NEW after, after = Knowing(known, m, x)
    PROVE  m \in DOMAIN after /\ after[m] = x
BY Zenon DEF Knowing

\* An answer has one field, a number of four bytes.
AnswersField ==
    [rule |-> "REQUIRED", type |-> "VARINT", sub |-> "", tag |-> 1, offset |-> 0,
     data_size |-> 4, array_size |-> 1, size_offset |-> 0]

\* Where the only member of a struct is.
LEMMA OnlyPlace ==
    ASSUME NEW fields, Len(fields) = 1, NEW items
    PROVE  Places(fields, items)[1] = PlaceAfter(fields, items, 1, NoMember)
<1> DEFINE place == Places(fields, items)
           Equation(g) ==
             g = [i \in 0..1 |-> IF i = 0 THEN NoMember ELSE PlaceAfter(fields, items, i, g[i - 1])]
           first == PlaceAfter(fields, items, 1, NoMember)
           h == [i \in 0..1 |-> IF i = 0 THEN NoMember ELSE first]
<1>1. place = CHOOSE g : Equation(g)
  BY Zenon DEF Places
<1>2. Equation(h)
  <2>1. h[0] = NoMember
    OBVIOUS
  <2>2. \A i \in 0..1 : i # 0 => i = 1 /\ i - 1 = 0
    OBVIOUS
  <2>3. \A i \in 0..1 : (IF i = 0 THEN NoMember ELSE first)
                        = IF i = 0 THEN NoMember ELSE PlaceAfter(fields, items, i, h[i - 1])
    BY <2>1, <2>2, Zenon
  <2> HIDE DEF first
  <2> QED BY <2>3, Zenon
<1> HIDE DEF h
<1>3. Equation(place)
  BY <1>1, <1>2, Zenon
<1> HIDE DEF place
<1>4. place[0] = NoMember /\ place[1] = PlaceAfter(fields, items, 1, place[1 - 1])
  BY <1>3
<1>5. 1 - 1 = 0
  OBVIOUS
<1> QED BY <1>4, <1>5, Zenon DEF place

\* How it is declared.
Code == Scalar("REQUIRED", "INT32", "code", 1)

LEMMA CodesPlace ==
    ASSUME NEW known
    PROVE  LET place == Declared(FieldList[Answer],
                            [i \in DOMAIN FieldList[Answer] |-> Item(FieldList[Answer][i], known)]).place
           IN  /\ place[1].data = 0 /\ place[1].size = 4
<1> DEFINE fields == <<Code>>
           items == [i \in DOMAIN fields |-> Item(fields[i], known)]
           item == [size |-> 4, align |-> 4]
<1>1. FieldList[Answer] = fields
  BY AnswersFields DEF Code
<1>2. Len(fields) = 1 /\ fields[1] = Code /\ DOMAIN fields = {1}
  OBVIOUS
<1>3. Item(Code, known) = item
  BY DEF Item, Code, Scalar
<1>4. items[1] = item
  BY <1>2, <1>3, Zenon
<1>5. Alignment(Code, fields, items) = 4
  <2>1. {j \in DOMAIN fields : fields[j] = Code \/ (fields[j].rule = "ONEOF" /\ Code.rule = "ONEOF")} = {1}
    BY <1>2
  <2>2. {items[i].align : i \in {1}} = {4}
    BY <1>4
  <2>3. Alignment(Code, fields, items) = Largest({4})
    BY <2>1, <2>2, Zenon DEF Alignment
  <2> QED BY <2>3 DEF Largest
<1>6. AlignUp(0, 4) = 0
  BY DEF AlignUp
<1>7. Code.rule = "REQUIRED"
  BY DEF Code, Scalar
<1>8. NoMember.end = 0
  BY DEF NoMember
<1>9. DataPlace(Code, 4, NoMember, CountPlace(Code, NoMember)) = 0
  BY <1>6, <1>7, <1>8, Zenon DEF DataPlace
<1>10. PlaceAfter(fields, items, 1, NoMember)
       = Placed(Code, item, NoMember, CountPlace(Code, NoMember), 0)
  BY <1>2, <1>4, <1>5, <1>9, Zenon DEF PlaceAfter, After
<1>11. Places(fields, items)[1] = Placed(Code, item, NoMember, CountPlace(Code, NoMember), 0)
  <2> HIDE DEF fields, items
  <2> QED BY <1>2, <1>10, OnlyPlace, Zenon
<1>12. Declared(fields, items).place = Places(fields, items)
  <2> HIDE DEF fields, items
  <2> QED BY DEF Declared, Struct
<1> QED BY <1>1, <1>11, <1>12 DEF Placed

LEMMA AnswersLayout == Layout[Answer].place[1].data = 0 /\ Layout[Answer].place[1].size = 4
<1> DEFINE L(n) == Layouts[n]
           declared(known) == Declared(FieldList[Answer],
                            [i \in DOMAIN FieldList[Answer] |-> Item(FieldList[Answer][i], known)])
<1> DEFINE value(known, n) == Declared(FieldList[Order[n]],
                 [i \in DOMAIN FieldList[Order[n]] |-> Item(FieldList[Order[n]][i], known)])
<1>1. \A n \in 1..10 : Layouts[n] = Knowing(Layouts[n - 1], Order[n], value(Layouts[n - 1], n))
  <2>1. \A n \in 1..10 : Layouts[n] = LayoutAdded(Layouts[n - 1], Order[n], FieldList[Order[n]])
    BY LayoutsEquation DEF LayoutEquation
  <2> QED BY <2>1, Zenon DEF LayoutAdded
<1> HIDE DEF value
<1>2. /\ Layouts[7] = Knowing(Layouts[6], Order[7], value(Layouts[6], 7))
      /\ Layouts[8] = Knowing(Layouts[7], Order[8], value(Layouts[7], 8))
      /\ Layouts[9] = Knowing(Layouts[8], Order[9], value(Layouts[8], 9))
      /\ Layouts[10] = Knowing(Layouts[9], Order[10], value(Layouts[9], 10))
  BY <1>1
<1>3. Order[7] = Answer /\ Order[8] # Answer /\ Order[9] # Answer /\ Order[10] # Answer
  BY DeclaredSeventh, Zenon
<1>4. Answer \in DOMAIN Layouts[7] /\ Layouts[7][Answer] = value(Layouts[6], 7)
  BY <1>2, <1>3, InFront
<1>5. value(Layouts[6], 7) = declared(Layouts[6])
  BY <1>3, Zenon DEF value
<1> HIDE DEF declared
<1>6. Answer \in DOMAIN Layouts[8] /\ Layouts[8][Answer] = Layouts[7][Answer]
  BY <1>2, <1>3, <1>4, Behind
<1>7. Answer \in DOMAIN Layouts[9] /\ Layouts[9][Answer] = Layouts[8][Answer]
  BY <1>2, <1>3, <1>6, Behind
<1>8. Layouts[10][Answer] = declared(Layouts[6])
  BY <1>2, <1>3, <1>4, <1>5, <1>6, <1>7, Behind
<1>9. Layout[Answer] = declared(Layouts[6])
  BY <1>8, DeclaredSeventh, Zenon DEF Layout
<1> QED BY <1>9, CodesPlace, Zenon DEF declared

\* What the codec is told of it.
LEMMA AnswersInfo == InfoList[Answer] = <<AnswersField>>
<1>1. InfoList[Answer] = [i \in DOMAIN FieldList[Answer] |-> FieldInfo(FieldList[Answer][i], Layout[Answer].place[i])]
  BY AnswersFields, Zenon DEF InfoList
<1>2. FieldList[Answer] = <<Code>>
  BY AnswersFields, Zenon DEF Code
<1>3. FieldInfo(Code, Layout[Answer].place[1]) = AnswersField
  BY AnswersLayout DEF FieldInfo, Code, Scalar, LType, Measures, AnswersField
<1>4. DOMAIN <<Code>> = {1} /\ <<Code>>[1] = Code
  OBVIOUS
<1>5. InfoList[Answer] = [i \in {1} |-> AnswersField]
  BY <1>1, <1>2, <1>3, <1>4, Zenon
<1> QED BY <1>5

LEMMA AnswersZeroed == Zeroed[Answer] = 0..3
<1>1. PICK z : ZeroingEquation(z) /\ Zeroed = z[10]
  BY ZeroedEquation, Zenon
<1> DEFINE value(known, n) ==
             UNION {Cleared(InfoList[Order[n]][i], known) : i \in DOMAIN InfoList[Order[n]]}
           zeroed(known) == UNION {Cleared(InfoList[Answer][i], known) : i \in DOMAIN InfoList[Answer]}
<1>2. \A n \in 1..10 : z[n] = Knowing(z[n - 1], Order[n], value(z[n - 1], n))
  <2>1. \A n \in 1..10 : z[n] = ZeroedAdded(z[n - 1], Order[n], InfoList[Order[n]])
    BY <1>1 DEF ZeroingEquation
  <2> QED BY <2>1, Zenon DEF ZeroedAdded
<1> HIDE DEF value
<1>3. /\ z[7] = Knowing(z[6], Order[7], value(z[6], 7))
      /\ z[8] = Knowing(z[7], Order[8], value(z[7], 8))
      /\ z[9] = Knowing(z[8], Order[9], value(z[8], 9))
      /\ z[10] = Knowing(z[9], Order[10], value(z[9], 10))
  BY <1>2
<1>4. Order[7] = Answer /\ Order[8] # Answer /\ Order[9] # Answer /\ Order[10] # Answer
  BY DeclaredSeventh, Zenon
<1>5. Answer \in DOMAIN z[7] /\ z[7][Answer] = value(z[6], 7)
  BY <1>3, <1>4, InFront
<1>6. value(z[6], 7) = zeroed(z[6])
  BY <1>4, Zenon DEF value
<1> HIDE DEF zeroed
<1>7. Answer \in DOMAIN z[8] /\ z[8][Answer] = z[7][Answer]
  BY <1>3, <1>4, <1>5, Behind
<1>8. Answer \in DOMAIN z[9] /\ z[9][Answer] = z[8][Answer]
  BY <1>3, <1>4, <1>7, Behind
<1>9. z[10][Answer] = zeroed(z[6])
  BY <1>3, <1>4, <1>5, <1>6, <1>7, <1>8, Behind
<1>10. zeroed(z[6]) = 0..3
  <2>1. Cleared(AnswersField, z[6]) = {0 + i : i \in 0..4 - 1}
    BY DEF Cleared, AnswersField
  <2>2. {0 + i : i \in 0..4 - 1} = 0..3
    OBVIOUS
  <2>3. DOMAIN <<AnswersField>> = {1} /\ <<AnswersField>>[1] = AnswersField
    OBVIOUS
  <2>4. zeroed(z[6]) = UNION {Cleared(<<AnswersField>>[i], z[6]) : i \in {1}}
    BY <2>3, AnswersInfo, Zenon DEF zeroed
  <2>5. UNION {Cleared(<<AnswersField>>[i], z[6]) : i \in {1}} = Cleared(AnswersField, z[6])
    BY <2>3, Zenon
  <2> QED BY <2>1, <2>2, <2>4, <2>5, Zenon
<1> QED BY <1>1, <1>9, <1>10, Zenon

LEMMA AnswersDescriptor ==
    /\ Descriptors[Answer].fields = {AnswersField}
    /\ Descriptors[Answer].required = {1}
    /\ Descriptors[Answer].zeroed = 0..3
<1>1. Descriptors[Answer] = Described(Layout[Answer].size, InfoSet(InfoList[Answer]), Zeroed[Answer])
  BY AnswersFields, Zenon DEF Descriptors
<1>2. InfoSet(<<AnswersField>>) = {AnswersField}
  BY DEF InfoSet
<1>3. {f.tag : f \in {g \in {AnswersField} : g.rule = "REQUIRED"}} = {1}
  <2>1. AnswersField.rule = "REQUIRED" /\ AnswersField.tag = 1
    BY DEF AnswersField
  <2>2. {g \in {AnswersField} : g.rule = "REQUIRED"} = {AnswersField}
    BY <2>1, Zenon
  <2> QED BY <2>1, <2>2, Zenon
<1> QED BY <1>1, <1>2, <1>3, AnswersInfo, AnswersZeroed DEF Described

-----------------------------------------------------------------------------
(***************************************************************************)
(* Encoding an answer: what pb_encode writes of a code below 128 is two    *)
(* bytes.                                                                  *)
(***************************************************************************)
WritingEquation(g, mem) ==
    g = [n \in 0..10 |-> IF n = 0 THEN <<>>
                         ELSE WritesAdded(mem, g[n - 1], Order[n], InfoList[Order[n]])]

LEMMA WritesEquation ==
    ASSUME NEW mem
    PROVE  \E w : WritingEquation(w, mem) /\ Writes(mem) = w[10]
<1> DEFINE A(known, n) == WritesAdded(mem, known, Order[n], InfoList[Order[n]])
           g0 == <<>>
           g1 == A(g0, 1)
           g2 == A(g1, 2)
           g3 == A(g2, 3)
           g4 == A(g3, 4)
           g5 == A(g4, 5)
           g6 == A(g5, 6)
           g7 == A(g6, 7)
           g8 == A(g7, 8)
           g9 == A(g8, 9)
           g10 == A(g9, 10)
           c(n) == CASE n = 0 -> g0 [] n = 1 -> g1 [] n = 2 -> g2 [] n = 3 -> g3
                     [] n = 4 -> g4 [] n = 5 -> g5 [] n = 6 -> g6 [] n = 7 -> g7
                     [] n = 8 -> g8 [] n = 9 -> g9 [] n = 10 -> g10
           g == [n \in 0..10 |-> c(n)]
           step(h, n) == IF n = 0 THEN <<>> ELSE A(h[n - 1], n)
<1> HIDE DEF A
<1>1. \A n \in 0..10 : g[n] = step(g, n)
  <2> HIDE DEF g0, g1, g2, g3, g4, g5, g6, g7, g8, g9, g10
  <2>1. /\ g[0] = g0 /\ g[1] = g1 /\ g[2] = g2 /\ g[3] = g3 /\ g[4] = g4 /\ g[5] = g5
        /\ g[6] = g6 /\ g[7] = g7 /\ g[8] = g8 /\ g[9] = g9 /\ g[10] = g10
    OBVIOUS
  <2> HIDE DEF g
  <2>2. g0 = <<>> /\ g1 = A(g0, 1) /\ g2 = A(g1, 2) /\ g3 = A(g2, 3) /\ g4 = A(g3, 4) /\ g5 = A(g4, 5)
        /\ g6 = A(g5, 6) /\ g7 = A(g6, 7) /\ g8 = A(g7, 8) /\ g9 = A(g8, 9) /\ g10 = A(g9, 10)
    BY Zenon DEF g0, g1, g2, g3, g4, g5, g6, g7, g8, g9, g10
  <2> SUFFICES ASSUME NEW n \in 0..10 PROVE g[n] = step(g, n)
    OBVIOUS
  <2> QED BY <2>1, <2>2
<1>2. g = [n \in 0..10 |-> step(g, n)]
  <2> HIDE DEF step, c
  <2>1. \A n \in 0..10 : c(n) = step(g, n)
    BY <1>1
  <2> DEFINE t(x) == step(x, 0)
  <2> QED BY <2>1, Zenon
<1> HIDE DEF g
<1>3. WritingEquation(g, mem)
  BY <1>2, Zenon DEF WritingEquation, A
<1>4. Writes(mem) = (CHOOSE h : WritingEquation(h, mem))[10]
  BY DeclaredSeventh, Zenon DEF Writes, WritingEquation
<1> QED BY <1>3, <1>4, Zenon

\* A struct that embeds no other is written without what is known of others.
LEMMA AnswersStruct ==
    ASSUME NEW mem
    PROVE  \E known : Writes(mem)[Answer][0] = StructWrites(mem, <<AnswersField>>, 0, known)
<1>1. PICK w : WritingEquation(w, mem) /\ Writes(mem) = w[10]
  BY WritesEquation, Zenon
<1> DEFINE value(known, n) == [base \in Nat |-> StructWrites(mem, InfoList[Order[n]], base, known)]
<1>2. \A n \in 1..10 : w[n] = Knowing(w[n - 1], Order[n], value(w[n - 1], n))
  <2>1. \A n \in 1..10 : w[n] = WritesAdded(mem, w[n - 1], Order[n], InfoList[Order[n]])
    BY <1>1 DEF WritingEquation
  <2> QED BY <2>1, Zenon DEF WritesAdded
<1> HIDE DEF value
<1>3. /\ w[7] = Knowing(w[6], Order[7], value(w[6], 7))
      /\ w[8] = Knowing(w[7], Order[8], value(w[7], 8))
      /\ w[9] = Knowing(w[8], Order[9], value(w[8], 9))
      /\ w[10] = Knowing(w[9], Order[10], value(w[9], 10))
  BY <1>2
<1>4. Order[7] = Answer /\ Order[8] # Answer /\ Order[9] # Answer /\ Order[10] # Answer
  BY DeclaredSeventh, Zenon
<1>5. Answer \in DOMAIN w[7] /\ w[7][Answer] = value(w[6], 7)
  BY <1>3, <1>4, InFront
<1>6. value(w[6], 7)[0] = StructWrites(mem, InfoList[Answer], 0, w[6])
  <2>1. 0 \in Nat
    OBVIOUS
  <2> QED BY <1>4, <2>1, Zenon DEF value
<1>7. Answer \in DOMAIN w[8] /\ w[8][Answer] = w[7][Answer]
  BY <1>3, <1>4, <1>5, Behind
<1>8. Answer \in DOMAIN w[9] /\ w[9][Answer] = w[8][Answer]
  BY <1>3, <1>4, <1>7, Behind
<1>9. w[10][Answer][0] = StructWrites(mem, InfoList[Answer], 0, w[6])
  BY <1>3, <1>4, <1>5, <1>6, <1>7, <1>8, Behind
<1> QED BY <1>1, <1>9, AnswersInfo, Zenon

\* A number below 128 is one byte.
LEMMA SmallVarint ==
    ASSUME NEW n \in 0..127, NEW b, b = [i \in 0..7 |-> IF i = 0 THEN n ELSE 0]
    PROVE  Varint(b) = <<n>>
<1>1. b[0] = n /\ b[1] = 0 /\ b[2] = 0 /\ b[3] = 0 /\ b[4] = 0 /\ b[5] = 0 /\ b[6] = 0 /\ b[7] = 0
  OBVIOUS
<1>2. /\ 2^0 = 1 /\ 2^1 = 2 /\ 2^2 = 4 /\ 2^3 = 8 /\ 2^4 = 16 /\ 2^5 = 32 /\ 2^6 = 64 /\ 2^7 = 128
  OBVIOUS
<1>3. Group(b, 0) = n
  BY <1>1, <1>2 DEF Group
<1>4. /\ Group(b, 1) = 0 /\ Group(b, 2) = 0 /\ Group(b, 3) = 0 /\ Group(b, 4) = 0 /\ Group(b, 5) = 0
      /\ Group(b, 6) = 0 /\ Group(b, 7) = 0 /\ Group(b, 8) = 0 /\ Group(b, 9) = 0
  BY <1>1, <1>2 DEF Group
<1> HIDE DEF Group
<1>5. \A k \in 1..9 : Group(b, k) = 0
  BY <1>4
<1>6. {0} \cup {k \in 1..9 : Group(b, k) # 0} = {0}
  BY <1>5
<1>7. Max({0}) = 0
  BY DEF Max
<1>8. Varint(b) = [k \in 1..0 + 1 |-> Group(b, k - 1) + IF k <= 0 THEN 128 ELSE 0]
  BY <1>6, <1>7, Zenon DEF Varint
<1>9. [k \in 1..0 + 1 |-> Group(b, k - 1) + IF k <= 0 THEN 128 ELSE 0] = [k \in 1..1 |-> n]
  BY <1>3
<1>10. [k \in 1..1 |-> n] = <<n>>
  OBVIOUS
<1> QED BY <1>8, <1>9, <1>10, Zenon

\* do_connection's Return_code in memory.
CodeMemory(code) == Joined({Member(0, Answer, "code", code)})

\* A small number in four bytes.
LEMMA SmallWord ==
    ASSUME NEW n \in 0..255
    PROVE  Word(n) = [i \in 1..4 |-> IF i = 1 THEN n ELSE 0]
<1> DEFINE word == Word(n)
<1>1. 256^(1 - 1) = 1 /\ 256^(2 - 1) = 256 /\ 256^(3 - 1) = 65536 /\ 256^(4 - 1) = 16777216
  OBVIOUS
<1>2. word[1] = n /\ word[2] = 0 /\ word[3] = 0 /\ word[4] = 0
  BY <1>1 DEF Word
<1>3. word = [i \in 1..4 |-> word[i]]
  BY Zenon DEF Word
<1> HIDE DEF word
<1>4. \A i \in 1..4 : word[i] = IF i = 1 THEN n ELSE 0
  BY <1>2
<1>5. word = [i \in 1..4 |-> IF i = 1 THEN n ELSE 0]
  BY <1>3, <1>4, Zenon
<1> QED BY <1>5 DEF word

LEMMA CodesMemory ==
    ASSUME NEW code \in 0..127
    PROVE  /\ ByteAt(CodeMemory(code), 0) = code
           /\ \A a \in 1..3 : ByteAt(CodeMemory(code), a) = 0
<1> DEFINE member == Member(0, Answer, "code", code)
           word == Word(code)
<1>1. word = [i \in 1..4 |-> IF i = 1 THEN code ELSE 0]
  BY SmallWord
<1> HIDE DEF word
<1>2. Offset(Answer, "code") = 0
  <2>1. FieldList[Answer] = <<Code>>
    BY AnswersFields, Zenon DEF Code
  <2>2. DOMAIN <<Code>> = {1} /\ <<Code>>[1] = Code /\ Code.name = "code"
    BY DEF Code, Scalar
  <2>3. (CHOOSE i \in DOMAIN FieldList[Answer] : FieldList[Answer][i].name = "code") = 1
    BY <2>1, <2>2, Zenon
  <2> QED BY <2>3, AnswersLayout, Zenon DEF Offset, PlaceOf
<1>3. member = At(0, word)
  <2>1. 0 + 0 = 0
    OBVIOUS
  <2> QED BY <1>2, <2>1, Zenon DEF Member, word
<1>4. /\ DOMAIN member = 0..3
      /\ member[0] = code /\ member[1] = 0 /\ member[2] = 0 /\ member[3] = 0
  <2> HIDE DEF member
  <2>1. {0 + i - 1 : i \in DOMAIN word} = 0..3
    BY <1>1
  <2>2. /\ DOMAIN member = 0..3
        /\ \A x \in 0..3 : member[x] = word[x - 0 + 1]
    BY <1>3, <2>1, Zenon DEF At
  <2>3. 0 - 0 + 1 = 1 /\ 1 - 0 + 1 = 2 /\ 2 - 0 + 1 = 3 /\ 3 - 0 + 1 = 4
    OBVIOUS
  <2>4. word[1] = code /\ word[2] = 0 /\ word[3] = 0 /\ word[4] = 0
    BY <1>1
  <2> QED BY <2>2, <2>3, <2>4
<1> HIDE DEF member
<1>5. /\ DOMAIN Joined({member}) = DOMAIN member
      /\ \A x \in DOMAIN member : Joined({member})[x] = member[x]
  <2>1. UNION {DOMAIN p : p \in {member}} = DOMAIN member
    OBVIOUS
  <2>2. \A x \in DOMAIN member : (CHOOSE p \in {member} : x \in DOMAIN p) = member
    BY Zenon
  <2> QED BY <2>1, <2>2, Zenon DEF Joined
<1>6. CodeMemory(code) = Joined({member})
  BY Zenon DEF CodeMemory, member
<1> QED BY <1>4, <1>5, <1>6 DEF ByteAt

\* Two values, one after the other.
LEMMA Pair ==
    ASSUME NEW S, NEW a \in S, NEW b \in S
    PROVE  /\ <<a>> \in Seq(S) /\ <<a, b>> \in Seq(S)
           /\ Len(<<a, b>>) = 2 /\ <<a, b>> # <<>>
           /\ SubSeq(<<a, b>>, 1, 2) = <<a, b>>
           /\ <<a, b>>[1] = a /\ <<a, b>>[2] = b /\ Tail(<<a, b>>) = <<b>>
           /\ <<a>> \o <<b>> = <<a, b>>
<1> DEFINE s == <<a, b>>
<1>1. <<a>> \in Seq(S) /\ <<b>> \in Seq(S) /\ s \in Seq(S)
  OBVIOUS
<1>2. Len(s) = 2 /\ s[1] = a /\ s[2] = b /\ s # <<>>
  OBVIOUS
<1>3. SubSeq(s, 1, 2) = s
  BY <1>1, <1>2, SubSeqFull
<1>4. Tail(s) = <<b>>
  OBVIOUS
<1>5. <<a>> \o <<b>> = s
  <2> DEFINE p == <<a>>
             q == <<b>>
             c == p \o q
  <2>1. p \in Seq(S) /\ q \in Seq(S) /\ Len(p) = 1 /\ Len(q) = 1 /\ p[1] = a /\ q[1] = b
    OBVIOUS
  <2> HIDE DEF p, q
  <2>2. /\ c \in Seq(S) /\ Len(c) = Len(p) + Len(q)
        /\ \A i \in 1..Len(p) + Len(q) : c[i] = IF i <= Len(p) THEN p[i] ELSE q[i - Len(p)]
    BY <2>1, ConcatProperties, Zenon
  <2> HIDE DEF c, s
  <2>4. Len(c) = 2 /\ c[1] = a /\ c[2] = b
    BY <2>1, <2>2
  <2>3. c = s
    BY <1>1, <1>2, <2>2, <2>4
  <2> QED BY <2>3 DEF c, p, q
<1> QED BY <1>1, <1>2, <1>3, <1>4, <1>5, Zenon

LEMMA Single == ASSUME NEW S, NEW a \in S PROVE <<a>> \in Seq(S)
OBVIOUS

LEMMA Octets == 8 \in Byte /\ \A code \in 0..127 : code \in Byte
BY DEF Byte

\* What is written of an answer: its tag, and the code.
LEMMA AnswersWrites ==
    ASSUME NEW code \in 0..127
    PROVE  Writes(CodeMemory(code))[Answer][0] = <<<<8>>, <<code>>>>
<1> DEFINE mem == CodeMemory(code)
           F == AnswersField
<1>1. /\ F.rule = "REQUIRED" /\ F.type = "VARINT" /\ F.tag = 1 /\ F.offset = 0 /\ F.data_size = 4
  BY DEF AnswersField
<1> HIDE DEF mem, F
<1>2. TagWrite(F) = <<8>>
  <2>1. TagWrite(F) = Unsigned(8)
    <3>1. 8 * 1 + 0 = 8
      OBVIOUS
    <3> QED BY <1>1, <3>1, Zenon DEF TagWrite
  <2> DEFINE b == [i \in 0..7 |-> IF i < 4 THEN (8 \div 256^i) % 256 ELSE 0]
             c == [i \in 0..7 |-> IF i = 0 THEN 8 ELSE 0]
  <2>2. Unsigned(8) = Varint(b)
    BY Zenon DEF Unsigned
  <2>3. b = c
    <3>1. 256^0 = 1 /\ 256^1 = 256 /\ 256^2 = 65536 /\ 256^3 = 16777216
      OBVIOUS
    <3>2. /\ b[0] = 8 /\ b[1] = 0 /\ b[2] = 0 /\ b[3] = 0
          /\ b[4] = 0 /\ b[5] = 0 /\ b[6] = 0 /\ b[7] = 0
      BY <3>1
    <3>3. b = [i \in 0..7 |-> b[i]]
      BY Zenon
    <3> HIDE DEF b
    <3>4. \A i \in 0..7 : b[i] = IF i = 0 THEN 8 ELSE 0
      BY <3>2
    <3> QED BY <3>3, <3>4, Zenon
  <2> QED BY <2>1, <2>2, <2>3, SmallVarint
<1>3. Varint(Extended(mem, 0, 4)) = <<code>>
  <2> DEFINE b == Extended(mem, 0, 4)
  <2>1. ByteAt(mem, 0) = code /\ ByteAt(mem, 1) = 0 /\ ByteAt(mem, 2) = 0 /\ ByteAt(mem, 3) = 0
    BY CodesMemory DEF mem
  <2>2. /\ b[0] = code /\ b[1] = 0 /\ b[2] = 0 /\ b[3] = 0
        /\ b[4] = 0 /\ b[5] = 0 /\ b[6] = 0 /\ b[7] = 0
    BY <2>1 DEF Extended
  <2>3. b = [i \in 0..7 |-> b[i]]
    BY Zenon DEF Extended
  <2> HIDE DEF b
  <2>4. \A i \in 0..7 : b[i] = IF i = 0 THEN code ELSE 0
    BY <2>2
  <2>5. b = [i \in 0..7 |-> IF i = 0 THEN code ELSE 0]
    BY <2>3, <2>4, Zenon
  <2> QED BY <2>5, SmallVarint DEF b
<1>4. PICK known : Writes(mem)[Answer][0] = StructWrites(mem, <<F>>, 0, known)
  BY AnswersStruct, Zenon DEF F
<1>5. Entries(mem, F, 0) = <<0>>
  <2>1. 0 + 0 = 0
    OBVIOUS
  <2> QED BY <1>1, <2>1, Zenon DEF Entries
<1>6. ValueWrites(mem, F, 0, known) = <<<<code>>>>
  BY <1>1, <1>3, Zenon DEF ValueWrites
<1> DEFINE both == <<<<8>>, <<code>>>>
<1>7. both \in Seq(Seq(Byte)) /\ <<<<8>>>> \o <<<<code>>>> = both
  <2>1. <<8>> \in Seq(Byte) /\ <<code>> \in Seq(Byte)
    BY Octets, Single, Zenon
  <2> DEFINE a == <<8>>
             b == <<code>>
  <2>2. a \in Seq(Byte) /\ b \in Seq(Byte)
    BY <2>1
  <2> HIDE DEF a, b
  <2>3. <<a, b>> \in Seq(Seq(Byte)) /\ <<a>> \o <<b>> = <<a, b>>
    BY <2>2, Pair, Zenon
  <2> QED BY <2>3, Zenon DEF a, b
<1>8. EntriesWrites(mem, F, <<0>>, known) = both
  <2> DEFINE values == [i \in DOMAIN <<0>> |-> ValueWrites(mem, F, <<0>>[i], known)]
  <2>1. DOMAIN <<0>> = {1} /\ <<0>>[1] = 0
    OBVIOUS
  <2>2. DOMAIN values = {1} /\ values[1] = <<<<code>>>>
    BY <1>6, <2>1, Zenon
  <2>3. EntriesWrites(mem, F, <<0>>, known) = FieldWrites(F, values)
    BY Zenon DEF EntriesWrites
  <2> HIDE DEF values
  <2>4. FieldWrites(F, values) = FlattenSeq([i \in DOMAIN values |-> <<TagWrite(F)>> \o values[i]])
    BY <1>1, Zenon DEF FieldWrites
  <2>5. [i \in DOMAIN values |-> <<TagWrite(F)>> \o values[i]] = [i \in {1} |-> both]
    BY <1>2, <1>7, <2>2, Zenon
  <2>6. [i \in {1} |-> both] = <<both>>
    BY <1>7
  <2>7. FlattenSeq(<<both>>) = both
    BY <1>7, FlattenOne, Zenon
  <2> QED BY <2>3, <2>4, <2>5, <2>6, <2>7, Zenon
<1>9. StructWrites(mem, <<F>>, 0, known) = both
  <2>1. DOMAIN <<F>> = {1} /\ <<F>>[1] = F
    OBVIOUS
  <2>2. [i \in DOMAIN <<F>> |-> EntriesWrites(mem, <<F>>[i], Entries(mem, <<F>>[i], 0), known)]
        = [i \in {1} |-> both]
    BY <1>5, <1>8, <2>1, Zenon
  <2>3. [i \in {1} |-> both] = <<both>>
    BY <1>7
  <2>4. FlattenSeq(<<both>>) = both
    BY <1>7, FlattenOne, Zenon
  <2> QED BY <2>2, <2>3, <2>4, Zenon DEF StructWrites
<1> QED BY <1>4, <1>9, Zenon DEF mem

\* There is room for both.
LEMMA EncodedAnswer ==
    ASSUME NEW code \in 0..127, BufferSize \in Nat, BufferSize >= 2
    PROVE  Encoded(CodeMemory(code), Answer, BufferSize) = [bytes |-> <<8, code>>, ok |-> TRUE]
<1> DEFINE both == <<<<8>>, <<code>>>>
           fit == {k \in 0..Len(both) : Fits(both, k, BufferSize)}
<1>1. /\ both \in Seq(Seq(Byte)) /\ Len(both) = 2 /\ SubSeq(both, 1, 2) = both
      /\ both # <<>> /\ both[1] = <<8>> /\ both[2] = <<code>> /\ Tail(both) = <<<<code>>>>
      /\ <<8>> \o <<code>> = <<8, code>> /\ <<code>> \in Seq(Byte)
      /\ Len(<<8, code>>) = 2
  <2>1. 8 \in Byte /\ code \in Byte
    BY Octets, Zenon
  <2>2. <<8>> \in Seq(Byte) /\ <<code>> \in Seq(Byte)
    BY <2>1, Single, Zenon
  <2>3. <<8>> \o <<code>> = <<8, code>> /\ Len(<<8, code>>) = 2
    BY <2>1, Pair, Zenon
  <2> DEFINE a == <<8>>
             b == <<code>>
  <2>4. a \in Seq(Byte) /\ b \in Seq(Byte)
    BY <2>2
  <2> HIDE DEF a, b
  <2>5. /\ <<a, b>> \in Seq(Seq(Byte)) /\ Len(<<a, b>>) = 2
        /\ SubSeq(<<a, b>>, 1, 2) = <<a, b>>
        /\ <<a, b>> # <<>> /\ <<a, b>>[1] = a /\ <<a, b>>[2] = b /\ Tail(<<a, b>>) = <<b>>
    BY <2>4, Pair, Zenon
  <2>6. both = <<a, b>>
    BY Zenon DEF a, b
  <2> HIDE DEF both
  <2>7. /\ both \in Seq(Seq(Byte)) /\ Len(both) = 2 /\ SubSeq(both, 1, 2) = both
        /\ both # <<>> /\ both[1] = a /\ both[2] = b /\ Tail(both) = <<b>>
    BY <2>5, <2>6, Zenon
  <2> QED BY <2>2, <2>3, <2>7, Zenon DEF a, b
<1> HIDE DEF both
<1>2. FlattenSeq(both) = <<8, code>>
  <2>1. FlattenSeq(both) = both[1] \o FlattenSeq(Tail(both))
    BY <1>1, FlattenHead, Zenon
  <2>2. FlattenSeq(<<<<code>>>>) = <<code>>
    BY <1>1, FlattenOne, Zenon
  <2> QED BY <1>1, <2>1, <2>2, Zenon
<1>3. ~Contains(both, Refused)
  <2>1. <<8>> # <<-1>> /\ <<code>> # <<-1>>
    <3>1. 8 # -1 /\ code # -1
      OBVIOUS
    <3>2. <<8>>[1] = 8 /\ <<code>>[1] = code /\ <<-1>>[1] = -1
      OBVIOUS
    <3> QED BY <3>1, <3>2, Zenon
  <2>2. \A i \in 1..Len(both) : both[i] = <<8>> \/ both[i] = <<code>>
    BY <1>1
  <2> QED BY <2>1, <2>2, Zenon DEF Contains, Refused
<1>4. Fits(both, 2, BufferSize)
  <2>1. 2 <= BufferSize
    OBVIOUS
  <2> QED BY <1>1, <1>2, <1>3, <2>1, Zenon DEF Fits
<1>5. 2 \in fit /\ \A k \in fit : k \in Nat /\ k <= 2
  BY <1>1, <1>4
<1> HIDE DEF fit
<1>6. Max(fit) = 2
  <2>1. \A y \in fit : 2 >= y
    BY <1>5
  <2>2. \A x \in fit : (\A y \in fit : x >= y) => x = 2
    BY <1>5
  <2> QED BY <1>5, <2>1, <2>2, Zenon DEF Max
<1>7. InBuffer(both, BufferSize) = Kept(both, 2)
  BY <1>6, Zenon DEF InBuffer, fit
<1>8. Kept(both, 2) = [bytes |-> <<8, code>>, ok |-> TRUE]
  BY <1>1, <1>2, Zenon DEF Kept
<1>9. Writes(CodeMemory(code))[Answer][0] = both
  BY AnswersWrites, Zenon DEF both
<1> QED BY <1>7, <1>8, <1>9, Zenon DEF Encoded

-----------------------------------------------------------------------------
(***************************************************************************)
(* Decoding it: the buffer has the bytes that arrived, then zeros. A tag   *)
(* of 0 stops the decoder, before the code if nothing arrived, behind it   *)
(* otherwise.                                                              *)
(***************************************************************************)
\* A number in one byte.
LEMMA OneByte ==
    ASSUME NEW p \in Nat, NEW left \in Nat \ {0}, NEW x \in 0..127, buf[p + 1] = x
    PROVE  /\ VarintLengths(p, left) = {1}
           /\ Fits32(p, 1) /\ Fits64(p, 1)
           /\ TagNumber(p, 1) = x \div 8 /\ WireType(p, 1) = x % 8
           /\ VarintByte(p, 1, 0) = x
           /\ \A i \in 1..3 : VarintByte(p, 1, i) = 0
<1>1. /\ Bits7(p, 1, 1) = x /\ Bits7(p, 1, 2) = 0 /\ Bits7(p, 1, 3) = 0
      /\ Bits7(p, 1, 4) = 0 /\ Bits7(p, 1, 5) = 0
  <2>1. /\ 1 \in 1..1 /\ 2 \notin 1..1 /\ 3 \notin 1..1 /\ 4 \notin 1..1 /\ 5 \notin 1..1
        /\ x % 128 = x
    OBVIOUS
  <2> QED BY <2>1, Zenon DEF Bits7
<1>2. VarintLengths(p, left) = {1}
  <2> DEFINE high(n) == \A k \in 1..n - 1 : buf[p + k] >= 128
  <2>1. ~(x >= 128) /\ x < 128 /\ 1 \in 1..left /\ 1..1 - 1 = {}
    OBVIOUS
  <2>2. high(1)
    BY <2>1
  <2>3. \A n \in 1..left : n # 1 => 1 \in 1..n - 1
    OBVIOUS
  <2>4. \A n \in 1..left : high(n) => n = 1
    BY <2>1, <2>3, Zenon
  <2> HIDE DEF high
  <2>5. VarintLengths(p, left) = {n \in 1..left : buf[p + n] < 128 /\ high(n)}
    BY Zenon DEF VarintLengths, high
  <2> QED BY <2>1, <2>2, <2>4, <2>5, Zenon
<1>3. Fits32(p, 1)
  <2>1. 1 <= 10 /\ ~(1 >= 5) /\ 6..1 = {}
    OBVIOUS
  <2> QED BY <2>1, Zenon DEF Fits32
<1>4. Fits64(p, 1)
  <2>1. 1 <= 10 /\ 1 # 10
    OBVIOUS
  <2> QED BY <2>1, Zenon DEF Fits64
<1>5. TagNumber(p, 1) = x \div 8
  BY <1>1 DEF TagNumber
<1>6. WireType(p, 1) = x % 8
  BY Zenon DEF WireType
<1>7. VarintByte(p, 1, 0) = x
  <2>1. (8 * 0) \div 7 = 0 /\ (8 * 0) % 7 = 0 /\ 0 + 1 = 1 /\ 0 + 2 = 2 /\ 7 - 0 = 7
    OBVIOUS
  <2>2. VarintByte(p, 1, 0) = (x \div 2^0 + 0 * 2^7) % 256
    BY <1>1, <2>1, Zenon DEF VarintByte
  <2>3. 2^0 = 1 /\ 2^7 = 128
    OBVIOUS
  <2>4. (x \div 1 + 0 * 128) % 256 = x
    OBVIOUS
  <2> QED BY <2>2, <2>3, <2>4, Zenon
<1>8. VarintByte(p, 1, 1) = 0
  <2>1. (8 * 1) \div 7 = 1 /\ (8 * 1) % 7 = 1 /\ 1 + 1 = 2 /\ 1 + 2 = 3 /\ 7 - 1 = 6
    OBVIOUS
  <2>2. VarintByte(p, 1, 1) = (0 \div 2^1 + 0 * 2^6) % 256
    BY <1>1, <2>1, Zenon DEF VarintByte
  <2>3. 2^1 = 2 /\ 2^6 = 64
    OBVIOUS
  <2>4. (0 \div 2 + 0 * 64) % 256 = 0
    OBVIOUS
  <2> QED BY <2>2, <2>3, <2>4, Zenon
<1>9. VarintByte(p, 1, 2) = 0
  <2>1. (8 * 2) \div 7 = 2 /\ (8 * 2) % 7 = 2 /\ 2 + 1 = 3 /\ 2 + 2 = 4 /\ 7 - 2 = 5
    OBVIOUS
  <2>2. VarintByte(p, 1, 2) = (0 \div 2^2 + 0 * 2^5) % 256
    BY <1>1, <2>1, Zenon DEF VarintByte
  <2>3. 2^2 = 4 /\ 2^5 = 32
    OBVIOUS
  <2>4. (0 \div 4 + 0 * 32) % 256 = 0
    OBVIOUS
  <2> QED BY <2>2, <2>3, <2>4, Zenon
<1>10. VarintByte(p, 1, 3) = 0
  <2>1. (8 * 3) \div 7 = 3 /\ (8 * 3) % 7 = 3 /\ 3 + 1 = 4 /\ 3 + 2 = 5 /\ 7 - 3 = 4
    OBVIOUS
  <2>2. VarintByte(p, 1, 3) = (0 \div 2^3 + 0 * 2^4) % 256
    BY <1>1, <2>1, Zenon DEF VarintByte
  <2>3. 2^3 = 8 /\ 2^4 = 16
    OBVIOUS
  <2>4. (0 \div 8 + 0 * 16) % 256 = 0
    OBVIOUS
  <2> QED BY <2>2, <2>3, <2>4, Zenon
<1>11. \A i \in 1..3 : i = 1 \/ i = 2 \/ i = 3
  OBVIOUS
<1> QED BY <1>2, <1>3, <1>4, <1>5, <1>6, <1>7, <1>8, <1>9, <1>10, <1>11, Zenon

\* The inductive invariant, part by part: the answer that is on its way is its tag and the code.
CodeSent ==
    /\ reply.code \in 0..127
    /\ out = [bytes |-> <<8, reply.code>>, ok |-> TRUE]

\* The struct is as pb_message_set_to_defaults leaves it.
NothingRead ==
    /\ pos = 0
    /\ stack = Opened(buf, Answer)
    /\ dest = Zeros(Answer)
    /\ status = "decoding" \/ (status = "zero tag" /\ buf[1] = 0)

\* The code is in it, or the part of it that arrived.
CodeRead ==
    /\ pos = 2
    /\ buf[1] = 8
    /\ Len(stack) = 1 /\ Top.msg = Answer /\ Top.left = Len(buf) - 2 /\ Top.seen = {1}
    /\ dest = [i \in 0..3 |-> IF i = 0 THEN buf[2] ELSE 0]

\* Of a clear buffer, with perhaps an answer in it.
AnswerRead == buf = Received(got) /\ got \in Nat /\ (NothingRead \/ CodeRead)

\* What execute has returned.
CodeReturned ==
    shown = IF view.crud_operation = CRUD_FIND THEN Word(0) ELSE Bytes(dest, 0, 4)

(***************************************************************************)
(* The inductive invariant of an exchange whose answer is a code.          *)
(***************************************************************************)
AnswerInv ==
    /\ phase \in {"answer", "client", "shown"} /\ ~reply.find => CodeSent
    /\ phase \in {"client", "shown"} /\ ~reply.find /\ fill = 0 => AnswerRead
    /\ phase = "shown" => Decoded /\ CodeReturned

\* What the client's buffer has of it.
LEMMA BufferHas ==
    ASSUME CodeSent, fill = 0, NEW n \in Nat, NEW b, b = Received(n)
    PROVE  /\ b \in Seq(0..255) /\ Len(b) = BufferSize
           /\ b[1] = IF n >= 1 THEN 8 ELSE 0
           /\ b[2] = IF n >= 2 THEN reply.code ELSE 0
           /\ BufferSize >= 3 => b[3] = 0
<1> DEFINE c == reply.code
           bytes == <<8, c>>
<1>1. BufferSize \in Nat /\ BufferSize >= 2
  BY AnswersAssumption
<1>2. out.bytes = bytes /\ c \in 0..127
  BY DEF CodeSent
<1> HIDE DEF c
<1>3. Len(bytes) = 2 /\ bytes[1] = 8 /\ bytes[2] = c
  OBVIOUS
<1> HIDE DEF bytes
<1>4. b = [i \in 1..BufferSize |-> IF i <= n /\ i <= 2 THEN bytes[i] ELSE 0]
  BY <1>2, <1>3, Zenon DEF Received
<1>5. \A i \in 1..BufferSize : (IF i <= n /\ i <= 2 THEN bytes[i] ELSE 0) \in 0..255
  <2> SUFFICES ASSUME NEW i \in 1..BufferSize, i <= n, i <= 2 PROVE bytes[i] \in 0..255
    OBVIOUS
  <2>1. i = 1 \/ i = 2
    BY <1>1
  <2> QED BY <2>1, <1>2, <1>3
<1>6. b \in [1..BufferSize -> 0..255]
  BY <1>4, <1>5, Zenon
<1>7. b \in Seq(0..255) /\ Len(b) = BufferSize
  BY <1>1, <1>6
<1>8. 1 \in 1..BufferSize /\ 2 \in 1..BufferSize /\ (BufferSize >= 3 => 3 \in 1..BufferSize)
  BY <1>1
<1>9. b[1] = IF 1 <= n /\ 1 <= 2 THEN bytes[1] ELSE 0
  BY <1>4, <1>8, Zenon
<1>10. b[2] = IF 2 <= n /\ 2 <= 2 THEN bytes[2] ELSE 0
  BY <1>4, <1>8, Zenon
<1>11. BufferSize >= 3 => b[3] = IF 3 <= n /\ 3 <= 2 THEN bytes[3] ELSE 0
  BY <1>4, <1>8, Zenon
<1>12. b[1] = (IF n >= 1 THEN 8 ELSE 0) /\ b[2] = (IF n >= 2 THEN c ELSE 0)
  BY <1>3, <1>9, <1>10
<1>13. BufferSize >= 3 => b[3] = 0
  BY <1>11
<1> QED BY <1>7, <1>12, <1>13, Zenon DEF c

\* What the decoder is told of an answer.
LEMMA AnswersOnlyField ==
    /\ Descriptor[Answer].fields = {AnswersField} /\ Descriptor[Answer].required = {1}
    /\ Zeros(Answer) = [i \in 0..3 |-> 0]
    /\ AnswersField.rule = "REQUIRED" /\ AnswersField.type = "VARINT" /\ AnswersField.tag = 1
    /\ AnswersField.offset = 0 /\ AnswersField.data_size = 4
<1>1. /\ AnswersField.rule = "REQUIRED" /\ AnswersField.type = "VARINT" /\ AnswersField.tag = 1
      /\ AnswersField.offset = 0 /\ AnswersField.data_size = 4
  BY DEF AnswersField
<1>2. Zeros(Answer) = [i \in 0..3 |-> 0]
  BY AnswersDescriptor, CodecAssumption, Zenon DEF Zeros
<1> QED BY <1>1, <1>2, AnswersDescriptor, CodecAssumption, Zenon

\* Only its tag is read, which is there or is 0.
LEMMA TagOfAnswer ==
    ASSUME NEW x \in 0..127, buf[pos + 1] = x, pos \in Nat, Top.left \in Nat \ {0}
    PROVE  Tags = {1} /\ TagNumber(pos, 1) = x \div 8 /\ WireType(pos, 1) = x % 8
BY OneByte, Zenon DEF Tags

\* Behind the code, and where no code arrived, is a 0.
LEMMA ZeroStops ==
    ASSUME buf[pos + 1] = 0, pos \in Nat, Top.left \in Nat \ {0}, Next
    PROVE  /\ status' = "zero tag"
           /\ UNCHANGED <<buf, pos, stack, dest>>
<1>1. Tags = {1} /\ TagNumber(pos, 1) = 0
  <2>1. 0 \in 0..127 /\ 0 \div 8 = 0
    OBVIOUS
  <2> QED BY <2>1, TagOfAnswer, Zenon
<1>2. ~SkipField
  BY <1>1, Zenon DEF SkipField
<1>3. ASSUME NEW t \in Tags, NEW f \in Fields(t) PROVE ~DecodeField(t, f)
  <2>1. ~KnownField(t, f)
    BY <1>1, Zenon DEF KnownField
  <2> QED BY <2>1, Zenon DEF DecodeField, RefuseField, DecodeVarint, DecodeFixed32, DecodeString,
                            DecodeSubmessage
<1>4. ~EndMessage
  <2>1. Top.left # 0
    OBVIOUS
  <2> QED BY <2>1, Zenon DEF EndMessage
<1>5. BadTag
  BY <1>2, <1>3, <1>4, Zenon DEF Next
<1>6. Fail("zero tag", dest)
  <2>1. Tags # {}
    BY <1>1, Zenon
  <2> QED BY <1>5, <2>1, Zenon DEF BadTag
<1> QED BY <1>6, Zenon DEF Fail

\* A code that arrived is kept.
LEMMA CodeIsDecoded ==
    ASSUME NEW x \in 0..127, buf \in Seq(0..255), Len(buf) >= 2, buf[1] = 8, buf[2] = x,
           NothingRead, Next
    PROVE  CodeRead' /\ buf' = buf
<1> DEFINE F == AnswersField
           L == Len(buf)
           top == Frame(Answer, 0, L, L)
<1>1. L \in Nat /\ L >= 2
  OBVIOUS
<1> HIDE DEF L
<1>2. stack = <<top>> /\ Len(stack) = 1 /\ Top = top
  <2>1. stack = <<top>>
    BY DEF NothingRead, Opened, L
  <2>2. Len(<<top>>) = 1 /\ <<top>>[1] = top
    OBVIOUS
  <2> QED BY <2>1, <2>2, Zenon DEF Top
<1>3. top.msg = Answer /\ top.base = 0 /\ top.left = L /\ top.seen = {}
  BY DEF Frame
<1>4. pos = 0 /\ dest = Zeros(Answer)
  BY DEF NothingRead
<1>5. 8 \in 0..127 /\ 8 \div 8 = 1 /\ 8 % 8 = 0 /\ 0 + 1 = 1 /\ 0 \in Nat /\ 1 # 0 /\ 1 \in Nat
      /\ 1 + 1 = 2
  OBVIOUS
<1>6. Tags = {1} /\ TagNumber(pos, 1) = 1 /\ WireType(pos, 1) = 0
  <2>1. Top.left \in Nat \ {0}
    BY <1>1, <1>2, <1>3
  <2>2. buf[pos + 1] = 8
    BY <1>4, <1>5, Zenon
  <2> QED BY <1>4, <1>5, <2>1, <2>2, TagOfAnswer, Zenon
<1>7. Fields(1) = {F}
  <2>1. Fields(1) = {f \in {F} : f.tag = 1}
    BY <1>2, <1>3, <1>6, AnswersOnlyField, Zenon DEF Fields
  <2> QED BY <2>1, AnswersOnlyField, Zenon
<1>8. ~BadTag
  BY <1>5, <1>6, Zenon DEF BadTag
<1>9. ~SkipField
  BY <1>6, <1>7, Zenon DEF SkipField
<1>10. ~EndMessage
  <2>1. L # 0
    BY <1>1
  <2> QED BY <1>2, <1>3, <2>1, Zenon DEF EndMessage
<1>11. DecodeField(1, F)
  BY <1>6, <1>7, <1>8, <1>9, <1>10, Zenon DEF Next
<1>12. Acceptable(1, F)
  BY <1>6, AnswersOnlyField, Zenon DEF Acceptable, Full, Wire
<1>13. DecodeVarint(1, F)
  <2>1. ~RefuseField(1, F)
    BY <1>12, Zenon DEF RefuseField
  <2>2. ~DecodeFixed32(1, F) /\ ~DecodeString(1, F) /\ ~DecodeSubmessage(1, F)
    BY AnswersOnlyField, Zenon DEF DecodeFixed32, DecodeString, DecodeSubmessage
  <2> QED BY <1>11, <2>1, <2>2, Zenon DEF DecodeField
<1>14. /\ VarintLengths(1, L - 1) = {1} /\ Fits64(1, 1)
       /\ VarintByte(1, 1, 0) = x /\ \A i \in 1..3 : VarintByte(1, 1, i) = 0
  <2>1. L - 1 \in Nat \ {0}
    BY <1>1
  <2>2. buf[1 + 1] = x
    BY <1>5, Zenon
  <2> QED BY <1>5, <2>1, <2>2, OneByte, Zenon
<1> DEFINE lengths == {n \in VarintLengths(pos + 1, Top.left - 1) : Fits64(pos + 1, n)}
           value == [i \in 0..F.data_size - 1 |-> VarintByte(pos + 1, 1, i)]
<1>15. lengths = {1}
  BY <1>2, <1>3, <1>4, <1>5, <1>14, Zenon
<1>16. /\ dest' = Written(Counted(F), Address(F), value)
       /\ Advance(1 + 1, F.tag)
  <2> HIDE DEF F
  <2>1. lengths # {}
    BY <1>15, Zenon
  <2>2. PICK n \in lengths :
            /\ dest' = Written(Counted(F), Address(F),
                               [i \in 0..F.data_size - 1 |-> VarintByte(pos + 1, n, i)])
            /\ Advance(1 + n, F.tag)
    BY <1>13, <2>1, Zenon DEF DecodeVarint
  <2>3. n = 1
    BY <1>15, Zenon
  <2> QED BY <2>2, <2>3, Zenon
<1>17. Counted(F) = dest
  BY AnswersOnlyField, Zenon DEF Counted
<1>18. Address(F) = 0
  <2>1. 0 + 0 + 0 = 0
    OBVIOUS
  <2> QED BY <1>2, <1>3, <2>1, AnswersOnlyField, Zenon DEF Address
<1>19. value = [i \in 0..3 |-> IF i = 0 THEN x ELSE 0]
  <2>1. 4 - 1 = 3
    OBVIOUS
  <2>2. \A i \in 0..3 : VarintByte(pos + 1, 1, i) = IF i = 0 THEN x ELSE 0
    <3>1. \A i \in 0..3 : i = 0 \/ i \in 1..3
      OBVIOUS
    <3> QED BY <1>4, <1>5, <1>14, <3>1, Zenon
  <2> QED BY <2>1, <2>2, AnswersOnlyField, Zenon
<1>20. dest' = [i \in 0..3 |-> IF i = 0 THEN x ELSE 0]
  <2> DEFINE b == [i \in 0..3 |-> IF i = 0 THEN x ELSE 0]
             d == [i \in 0..3 |-> 0]
  <2>1. dest' = Written(d, 0, b)
    BY <1>4, <1>16, <1>17, <1>18, <1>19, AnswersOnlyField, Zenon
  <2>2. DOMAIN d \cup {0 + i : i \in DOMAIN b} = 0..3
    OBVIOUS
  <2>3. \A y \in 0..3 : (IF y - 0 \in DOMAIN b THEN b[y - 0] ELSE d[y]) = b[y]
    OBVIOUS
  <2>4. Written(d, 0, b) = [y \in 0..3 |-> b[y]]
    BY <2>2, <2>3, Zenon DEF Written
  <2> QED BY <2>1, <2>4
<1>21. pos' = 2 /\ buf' = buf /\ status' = status /\ stack' = Taken(2, 1)
  <2>1. 0 + 2 = 2
    OBVIOUS
  <2> QED BY <1>4, <1>5, <1>16, <2>1, AnswersOnlyField, Zenon DEF Advance
<1>22. Len(stack') = 1 /\ Top'.msg = Answer /\ Top'.left = L - 2 /\ Top'.seen = {1}
  <2> DEFINE new == [top EXCEPT !.left = @ - 2, !.seen = @ \cup {1}]
  <2>1. stack' = [<<top>> EXCEPT ![1] = new]
    BY <1>2, <1>21, Zenon DEF Taken
  <2>2. new.msg = Answer /\ new.left = L - 2 /\ new.seen = {1}
    BY DEF Frame
  <2> HIDE DEF new, top
  <2>3. Len(stack') = 1 /\ stack'[1] = new
    BY <2>1
  <2> QED BY <2>2, <2>3, Zenon DEF Top
<1>23. Len(buf') = L /\ buf'[1] = 8 /\ buf'[2] = x
  BY <1>21, Zenon DEF L
<1>24. dest' = [i \in 0..3 |-> IF i = 0 THEN buf'[2] ELSE 0]
  BY <1>20, <1>23, Zenon
<1> QED BY <1>21, <1>22, <1>23, <1>24, Zenon DEF CodeRead

\* When all that arrived was read, or a 0 behind it, decoding stops.
LEMMA CodeStays ==
    ASSUME CodeRead, buf \in Seq(0..255), Len(buf) >= 2, Len(buf) >= 3 => buf[3] = 0, Next
    PROVE  CodeRead' /\ buf' = buf
<1> DEFINE L == Len(buf)
<1>1. L \in Nat /\ L >= 2
  OBVIOUS
<1>2. pos = 2 /\ Len(stack) = 1 /\ Top.msg = Answer /\ Top.left = L - 2 /\ Top.seen = {1}
  BY Zenon DEF CodeRead
<1> HIDE DEF L
<1>5. UNCHANGED <<buf, pos, stack, dest>>
  <2>1. CASE L = 2
    <3>1. ~InField
      <4>1. Top.left = 0
        BY <1>2, <2>1
      <4> QED BY <4>1 DEF InField
    <3>2. ~BadTag /\ ~SkipField
      BY <3>1, Zenon DEF BadTag, SkipField
    <3>3. ASSUME NEW t \in Tags, NEW f \in Fields(t) PROVE ~DecodeField(t, f)
      BY <3>1, Zenon DEF KnownField, DecodeField, RefuseField, DecodeVarint, DecodeFixed32,
                         DecodeString, DecodeSubmessage
    <3>4. EndMessage
      BY <3>2, <3>3, Zenon DEF Next
    <3>5. Descriptor[Top.msg].required \subseteq Top.seen
      BY <1>2, AnswersOnlyField, Zenon
    <3>6. ~(Len(stack) > 1)
      BY <1>2
    <3> QED BY <3>4, <3>5, <3>6, Zenon DEF EndMessage
  <2>2. CASE L # 2
    <3>1. L >= 3 /\ Top.left \in Nat \ {0} /\ pos \in Nat /\ pos + 1 = 3
      BY <1>1, <1>2, <2>2
    <3>2. buf[pos + 1] = 0
      BY <3>1, Zenon DEF L
    <3> QED BY <3>1, <3>2, ZeroStops, Zenon
  <2> QED BY <2>1, <2>2
<1> QED BY <1>5, Zenon DEF CodeRead, Top

\* A step of the client's decoder.
LEMMA AnswerDecoding ==
    ASSUME CodeSent, fill = 0, AnswerRead, Next, UNCHANGED exchange
    PROVE  AnswerRead'
<1>1. got \in Nat /\ buf = Received(got)
  BY DEF AnswerRead
<1>2. /\ buf \in Seq(0..255) /\ Len(buf) = BufferSize
      /\ buf[1] = IF got >= 1 THEN 8 ELSE 0
      /\ buf[2] = IF got >= 2 THEN reply.code ELSE 0
      /\ BufferSize >= 3 => buf[3] = 0
  BY <1>1, BufferHas
<1>3. BufferSize \in Nat /\ BufferSize >= 2 /\ reply.code \in 0..127
  BY AnswersAssumption DEF CodeSent
<1>4. (NothingRead \/ CodeRead)' /\ buf' = buf
  <2>1. CASE CodeRead
    BY <1>2, <1>3, <2>1, CodeStays, Zenon
  <2>2. CASE NothingRead /\ buf[1] = 0
    <3>1. pos = 0 /\ Top.left = BufferSize
      <4> DEFINE top == Frame(Answer, 0, BufferSize, BufferSize)
      <4>1. stack = <<top>> /\ pos = 0
        BY <1>2, <2>2, Zenon DEF NothingRead, Opened
      <4>2. Len(<<top>>) = 1 /\ <<top>>[1] = top /\ top.left = BufferSize
        BY DEF Frame
      <4> HIDE DEF top
      <4> QED BY <4>1, <4>2, Zenon DEF Top
    <3>2. pos \in Nat /\ Top.left \in Nat \ {0} /\ pos + 1 = 1
      BY <1>3, <3>1
    <3>3. buf[pos + 1] = 0
      BY <2>2, <3>2, Zenon
    <3>4. status' = "zero tag" /\ UNCHANGED <<buf, pos, stack, dest>>
      BY <3>2, <3>3, ZeroStops, Zenon
    <3> QED BY <2>2, <3>4, Zenon DEF NothingRead
  <2>3. CASE NothingRead /\ buf[1] # 0
    <3>1. buf[1] = 8
      BY <1>2, <2>3, Zenon
    <3>2. buf[2] \in 0..127
      BY <1>2, <1>3
    <3>3. Len(buf) >= 2
      BY <1>2, <1>3
    <3> QED BY <1>2, <2>3, <3>1, <3>2, <3>3, CodeIsDecoded, Zenon
  <2> QED BY <2>1, <2>2, <2>3, Zenon DEF AnswerRead
<1>5. Received(got)' = Received(got) /\ got' = got
  BY Zenon DEF exchange, Received
<1> QED BY <1>1, <1>4, <1>5, Zenon DEF AnswerRead

-----------------------------------------------------------------------------
(***************************************************************************)
(* Every step of the exchange keeps the invariant.                         *)
(***************************************************************************)
LEMMA AnswerInit == ExchangeInit => AnswerInv
BY Zenon DEF ExchangeInit, AnswerInv

LEMMA AnswerStep == AnswerInv /\ [ExchangeNext]_vars => AnswerInv'
<1> SUFFICES ASSUME AnswerInv, [ExchangeNext]_vars PROVE AnswerInv'
  OBVIOUS
<1>1. CASE Ask
  BY <1>1, Zenon DEF Ask, AnswerInv
<1>2. CASE AskFaults
  BY <1>2, Zenon DEF AskFaults, AnswerInv
<1>3. CASE ServerReceives
  BY <1>3, Zenon DEF ServerReceives, AnswerInv
<1>4. CASE Decoding
  <2>1. phase \in {"server", "client"} /\ Next /\ UNCHANGED exchange
    BY <1>4, Zenon DEF Decoding
  <2>2. phase' = phase /\ reply' = reply /\ out' = out /\ fill' = fill
    BY <2>1, Zenon DEF exchange
  <2>3. CASE phase = "server"
    BY <2>2, <2>3, Zenon DEF AnswerInv
  <2>4. CASE phase = "client"
    <3>1. ~reply.find => CodeSent'
      BY <2>2, <2>4, Zenon DEF AnswerInv, CodeSent
    <3>2. ~reply.find /\ fill = 0 => AnswerRead'
      BY <2>1, <2>4, AnswerDecoding, Zenon DEF AnswerInv
    <3> QED BY <2>2, <2>4, <3>1, <3>2, Zenon DEF AnswerInv
  <2> QED BY <2>1, <2>3, <2>4, Zenon
<1>5. CASE ServerAnswers
  <2>1. phase' = "answer"
    BY <1>5, Zenon DEF ServerAnswers
  <2>2. ASSUME ~reply'.find PROVE CodeSent'
    <3>1. \A found : [find |-> TRUE, found |-> found, code |-> 0].find = TRUE
      OBVIOUS
    <3>2. PICK code \in Codes : /\ reply' = [find |-> FALSE, found |-> <<>>, code |-> code]
                                /\ Send("Return_code", {Member(0, "Return_code", "code", code)})
      BY <1>5, <2>2, <3>1, Zenon DEF ServerAnswers
    <3>3. code \in 0..127 /\ BufferSize \in Nat /\ BufferSize >= 2
      BY AnswersAssumption
    <3>4. out' = Encoded(CodeMemory(code), Answer, BufferSize)
      BY <3>2, Zenon DEF Send, CodeMemory, Answer
    <3>5. out' = [bytes |-> <<8, code>>, ok |-> TRUE]
      BY <3>3, <3>4, EncodedAnswer, Zenon
    <3>6. reply'.code = code
      BY <3>2
    <3> QED BY <3>3, <3>5, <3>6, Zenon DEF CodeSent
  <2> QED BY <2>1, <2>2, Zenon DEF AnswerInv
<1>6. CASE ClientReceives
  <2>1. /\ phase = "answer" /\ phase' = "client" /\ out' = out /\ reply' = reply /\ fill' = fill
    BY <1>6, Zenon DEF ClientReceives
  <2>2. PICK n \in AnswerArrivals : got' = n /\ Decode(n, Answer)
    BY <1>6, Zenon DEF ClientReceives, Answer
  <2>3. n \in Nat
    BY AnswersAssumption
  <2>4. Received(n) = Received(got)'
    BY <2>1, <2>2, Zenon DEF Received
  <2>5. AnswerRead'
    BY <2>2, <2>3, <2>4, Zenon DEF Decode, AnswerRead, NothingRead
  <2>6. ~reply.find => CodeSent'
    BY <2>1, Zenon DEF AnswerInv, CodeSent
  <2> QED BY <2>1, <2>5, <2>6, Zenon DEF AnswerInv
<1>7. CASE ServerFaults
  BY <1>7, Zenon DEF ServerFaults, AnswerInv
<1>8. CASE ClientShows
  <2>1. /\ phase = "client" /\ phase' = "shown" /\ Decoded
        /\ UNCHANGED <<decoder, view, fill, out, got, reply>>
    BY <1>8, Zenon DEF ClientShows
  <2>2. UNCHANGED <<buf, pos, stack, dest, status>>
    BY <2>1, Zenon DEF decoder
  <2>3. CodeReturned'
    BY <1>8, <2>1, <2>2, Zenon DEF ClientShows, CodeReturned
  <2> QED BY <2>1, <2>2, <2>3, Zenon DEF AnswerInv, CodeSent, AnswerRead, NothingRead, CodeRead,
                                   Decoded, Received, Top
<1>9. CASE UNCHANGED vars
  <2>1. UNCHANGED <<buf, pos, stack, dest, status, phase, shown, view, fill, out, got, reply>>
    BY <1>9, Zenon DEF vars, decoder, exchange
  <2> QED BY <2>1, Zenon DEF AnswerInv, CodeSent, CodeReturned, AnswerRead, NothingRead, CodeRead,
                             Decoded, Received, Top
<1> QED BY <1>1, <1>2, <1>3, <1>4, <1>5, <1>6, <1>7, <1>8, <1>9, Zenon DEF ExchangeNext

\* What is decoded is the code, or 0 when it did not all arrive.
LEMMA AnswerDecoded ==
    ASSUME AnswerInv, phase = "shown", fill = 0, ~reply.find
    PROVE  Bytes(dest, 0, 4) = Word(IF got >= Len(out.bytes) THEN reply.code ELSE 0)
<1>1. CodeSent /\ AnswerRead /\ Decoded
  BY Zenon DEF AnswerInv
<1>2. /\ got \in Nat
      /\ buf[1] = IF got >= 1 THEN 8 ELSE 0
      /\ buf[2] = IF got >= 2 THEN reply.code ELSE 0
  BY <1>1, BufferHas DEF AnswerRead
<1>3. reply.code \in 0..127 /\ out.bytes = <<8, reply.code>>
  BY <1>1 DEF CodeSent
<1>4. Len(out.bytes) = 2
  BY <1>3
<1> DEFINE c == IF got >= 2 THEN reply.code ELSE 0
<1>5. dest = [i \in 0..3 |-> IF i = 0 THEN c ELSE 0]
  <2>1. CASE CodeRead
    BY <1>2, <2>1, Zenon DEF CodeRead
  <2>2. CASE NothingRead
    <3>1. buf[1] = 0
      BY <1>1, <2>2, Zenon DEF NothingRead, Decoded
    <3>2. ~(got >= 1)
      BY <1>2, <3>1
    <3>3. c = 0
      BY <1>2, <3>2
    <3>4. dest = [i \in 0..3 |-> 0]
      BY <2>2, AnswersOnlyField, Zenon DEF NothingRead
    <3> QED BY <3>3, <3>4
  <2> QED BY <1>1, <2>1, <2>2, Zenon DEF AnswerRead
<1>6. c \in 0..127 /\ (IF got >= Len(out.bytes) THEN reply.code ELSE 0) = c
  BY <1>3, <1>4
<1> HIDE DEF c
<1>7. Bytes(dest, 0, 4) = [i \in 1..4 |-> IF i = 1 THEN c ELSE 0]
  <2>1. Bytes(dest, 0, 4) = [i \in 1..4 |-> ByteAt(dest, 0 + i - 1)]
    BY Zenon DEF Bytes
  <2>2. \A i \in 1..4 : ByteAt(dest, 0 + i - 1) = IF i = 1 THEN c ELSE 0
    BY <1>5 DEF ByteAt
  <2> QED BY <2>1, <2>2, Zenon
<1>8. Word(c) = [i \in 1..4 |-> IF i = 1 THEN c ELSE 0]
  <2>1. c \in 0..255
    BY <1>6
  <2> QED BY <2>1, SmallWord, Zenon
<1> QED BY <1>6, <1>7, <1>8, Zenon

\* What is shown is that, or 0 when the client had asked for tuples.
LEMMA AnswerShown == AnswerInv => AnswerArrives
<1> SUFFICES ASSUME AnswerInv, phase = "shown", fill = 0, ~reply.find
    PROVE  shown = Word(IF view.crud_operation # CRUD_FIND /\ got >= Len(out.bytes)
                        THEN reply.code ELSE 0)
  BY Zenon DEF AnswerArrives
<1>1. shown = IF view.crud_operation = CRUD_FIND THEN Word(0) ELSE Bytes(dest, 0, 4)
  BY Zenon DEF AnswerInv, CodeReturned
<1>2. CASE view.crud_operation = CRUD_FIND
  BY <1>1, <1>2, Zenon
<1>3. CASE view.crud_operation # CRUD_FIND
  <2>1. shown = Word(IF got >= Len(out.bytes) THEN reply.code ELSE 0)
    BY <1>1, <1>3, AnswerDecoded, Zenon
  <2> QED BY <1>3, <2>1, Zenon
<1> QED BY <1>2, <1>3, Zenon

(***************************************************************************)
(* The client shows the server's code if the answer arrived, and 0 if it   *)
(* did not all arrive or the client asked for tuples (the buffers being    *)
(* clear): for every size of buffer from two bytes up, every code below    *)
(* 128, every view and whatever part of either message arrives             *)
(* (client.c:179-199, server.c:67-80).                                     *)
(***************************************************************************)
THEOREM AnswerIsShown == ExchangeSpec => []AnswerArrives
<1>1. ExchangeSpec => []AnswerInv
  BY AnswerInit, AnswerStep, PTL DEF ExchangeSpec
<1> QED BY <1>1, AnswerShown, PTL
=============================================================================
