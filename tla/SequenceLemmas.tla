--------------------------- MODULE SequenceLemmas ---------------------------
(***************************************************************************)
(* Sequences that are joined to one.  FlattenSeq is a recursive function   *)
(* over the positions; what it makes is shown by induction on how many     *)
(* were joined, with the induction stated of a set of numbers.             *)
(***************************************************************************)
EXTENDS SequencesExt, NaturalsInduction, WellFoundedInduction, SequenceTheorems, TLAPS

\* The numbers' order as a relation, for the library's fact about it.
LEMMA LessThan == OpToRel(<, Nat) = {x \in Nat \X Nat : x[1] < x[2]}
BY Zenon DEF OpToRel

\* Induction over the numbers, with a set for what is shown of them.
LEMMA SetInduction ==
    ASSUME NEW T \in SUBSET Nat, 0 \in T, \A n \in T : n + 1 \in T
    PROVE  T = Nat
<1> DEFINE R == {x \in Nat \X Nat : x[1] < x[2]}
           S == Nat \ T
<1>1. IsWellFoundedOn(R, Nat)
  BY NatLessThanWellFounded, LessThan, Zenon
<1> SUFFICES ASSUME S # {} PROVE FALSE
  OBVIOUS
<1> HIDE DEF R
<1>2. PICK x \in S : \A y \in S : ~ (<<y, x>> \in R)
  BY <1>1, WFMin
<1>3. x # 0 /\ x - 1 \in Nat
  OBVIOUS
<1>4. <<x - 1, x>> \in R
  <2>1. <<x - 1, x>> \in Nat \X Nat
    BY <1>3
  <2> QED BY <1>3, <2>1 DEF R
<1>5. x - 1 \notin S
  BY <1>2, <1>4
<1> QED BY <1>3, <1>5

\* What FlattenSeq computes: its equation.
Flattens(g, ss) ==
    g = [i \in 1..Len(ss) |-> IF i = 1 THEN ss[i] ELSE g[i - 1] \o ss[i]]

\* There is a function with that equation, however many parts there are.
LEMMA FlattensExist ==
    ASSUME NEW S, NEW ss \in Seq(Seq(S))
    PROVE  \E g \in [1..Len(ss) -> Seq(S)] : Flattens(g, ss)
<1> DEFINE Good(g, n) == \A i \in 1..n : g[i] = IF i = 1 THEN ss[i] ELSE g[i - 1] \o ss[i]
           T == {n \in Nat : n <= Len(ss) => \E g \in [1..n -> Seq(S)] : Good(g, n)}
<1>1. 0 \in T
  <2> DEFINE g == [i \in 1..0 |-> <<>>]
  <2>1. g \in [1..0 -> Seq(S)]
    OBVIOUS
  <2>2. Good(g, 0)
    OBVIOUS
  <2> QED BY <2>1, <2>2
<1>2. ASSUME NEW n \in T PROVE n + 1 \in T
  <2> SUFFICES ASSUME n + 1 <= Len(ss)
               PROVE  \E g \in [1..n + 1 -> Seq(S)] : Good(g, n + 1)
    <3> HIDE DEF Good
    <3> QED OBVIOUS
  <2>1. n \in Nat /\ n <= Len(ss) /\ Len(ss) \in Nat
    OBVIOUS
  <2>2. PICK g \in [1..n -> Seq(S)] : Good(g, n)
    BY <2>1
  <2> DEFINE last == IF n = 0 THEN ss[1] ELSE g[n] \o ss[n + 1]
             h == [i \in 1..n + 1 |-> IF i = n + 1 THEN last ELSE g[i]]
  <2>3. last \in Seq(S)
    <3>1. ss[n + 1] \in Seq(S) /\ ss[1] \in Seq(S)
      BY <2>1
    <3> QED BY <2>1, <3>1
  <2>4. h \in [1..n + 1 -> Seq(S)]
    <3> HIDE DEF last
    <3> QED BY <2>1, <2>3
  <2>5. ASSUME NEW i \in 1..n + 1
        PROVE  h[i] = IF i = 1 THEN ss[i] ELSE h[i - 1] \o ss[i]
    <3>1. CASE i = n + 1
      <4>1. h[i] = last
        BY <3>1
      <4>2. n # 0 => h[i - 1] = g[n]
        <5> HIDE DEF last
        <5> QED BY <2>1, <3>1
      <4> HIDE DEF h
      <4> QED BY <2>1, <3>1, <4>1, <4>2
    <3>2. CASE i # n + 1
      <4>1. i \in 1..n /\ (i # 1 => i - 1 \in 1..n)
        BY <2>1, <3>2
      <4>2. h[i] = g[i] /\ (i # 1 => h[i - 1] = g[i - 1])
        <5> HIDE DEF last
        <5> QED BY <2>1, <4>1
      <4> HIDE DEF h
      <4> QED BY <2>2, <4>1, <4>2
    <3> QED BY <3>1, <3>2
  <2> HIDE DEF h
  <2> QED BY <2>4, <2>5
<1>3. T = Nat
  <2> HIDE DEF T
  <2>1. T \in SUBSET Nat
    BY DEF T
  <2> QED BY <1>1, <1>2, <2>1, SetInduction
<1>4. Len(ss) \in Nat
  OBVIOUS
<1>5. PICK g \in [1..Len(ss) -> Seq(S)] : Good(g, Len(ss))
  <2> HIDE DEF Good
  <2>1. Len(ss) \in T
    BY <1>3, <1>4
  <2> QED BY <1>4, <2>1
<1>6. g = [i \in 1..Len(ss) |-> g[i]]
  OBVIOUS
<1> QED BY <1>5, <1>6 DEF Flattens

\* FlattenSeq is its last value.
LEMMA FlattenEquation ==
    ASSUME NEW S, NEW ss \in Seq(Seq(S)), ss # <<>>
    PROVE  \E g : Flattens(g, ss) /\ FlattenSeq(ss) = g[Len(ss)]
<1> DEFINE flatten == CHOOSE g : Flattens(g, ss)
<1>1. Flattens(flatten, ss)
  BY FlattensExist
<1>2. Len(ss) # 0
  OBVIOUS
<1>3. FlattenSeq(ss) = flatten[Len(ss)]
  BY <1>2 DEF FlattenSeq, Flattens
<1> QED BY <1>1, <1>3

LEMMA FlattenEmpty == FlattenSeq(<<>>) = <<>>
BY DEF FlattenSeq

\* Each of its values is a text.
LEMMA FlattensType ==
    ASSUME NEW S, NEW ss \in Seq(Seq(S)), NEW g, Flattens(g, ss)
    PROVE  \A n \in 1..Len(ss) : g[n] \in Seq(S)
<1> DEFINE T == {n \in Nat : n \in 1..Len(ss) => g[n] \in Seq(S)}
<1>1. \A n \in 1..Len(ss) : g[n] = IF n = 1 THEN ss[n] ELSE g[n - 1] \o ss[n]
  BY Zenon DEF Flattens
<1>2. ASSUME NEW n \in T PROVE n + 1 \in T
  <2> SUFFICES ASSUME n + 1 \in 1..Len(ss) PROVE g[n + 1] \in Seq(S)
    OBVIOUS
  <2>1. g[n + 1] = IF n + 1 = 1 THEN ss[n + 1] ELSE g[n + 1 - 1] \o ss[n + 1]
    BY <1>1
  <2>2. ss[n + 1] \in Seq(S)
    OBVIOUS
  <2>3. n + 1 # 1 => g[n + 1 - 1] \in Seq(S)
    OBVIOUS
  <2> QED BY <2>1, <2>2, <2>3
<1>3. 0 \in T
  OBVIOUS
<1>4. T = Nat
  <2>1. T \in SUBSET Nat
    OBVIOUS
  <2> HIDE DEF T
  <2> QED BY <1>2, <1>3, <2>1, SetInduction
<1> QED BY <1>4

\* Its first part, and what follows it.
LEMMA FlattenHead ==
    ASSUME NEW S, NEW ss \in Seq(Seq(S)), ss # <<>>
    PROVE  FlattenSeq(ss) = ss[1] \o FlattenSeq(Tail(ss))
<1> DEFINE tt == Tail(ss)
<1>1. PICK g : Flattens(g, ss) /\ FlattenSeq(ss) = g[Len(ss)]
  BY FlattenEquation
<1>2. /\ Len(ss) \in Nat \ {0} /\ tt \in Seq(Seq(S)) /\ Len(tt) = Len(ss) - 1
      /\ \A n \in 1..Len(tt) : tt[n] = ss[n + 1]
      /\ ss[1] \in Seq(S)
  OBVIOUS
<1>3. \A n \in 1..Len(ss) : g[n] = IF n = 1 THEN ss[n] ELSE g[n - 1] \o ss[n]
  BY <1>1, Zenon DEF Flattens
<1> HIDE DEF tt
<1>4. CASE Len(ss) = 1
  <2>1. tt = <<>>
    BY <1>2, <1>4
  <2>2. g[Len(ss)] = ss[1]
    BY <1>3, <1>4
  <2>3. FlattenSeq(tt) = <<>>
    BY <2>1, FlattenEmpty
  <2> QED BY <1>1, <1>2, <2>2, <2>3 DEF tt
<1>5. CASE Len(ss) # 1
  <2>1. tt # <<>>
    BY <1>2, <1>5
  <2>2. PICK h : Flattens(h, tt) /\ FlattenSeq(tt) = h[Len(tt)]
    BY <1>2, <2>1, FlattenEquation
  <2>3. \A n \in 1..Len(tt) : h[n] = IF n = 1 THEN tt[n] ELSE h[n - 1] \o tt[n]
    BY <2>2, Zenon DEF Flattens
  <2>4. \A n \in 1..Len(tt) : h[n] \in Seq(S)
    BY <1>2, <2>2, FlattensType
  <2> DEFINE T == {n \in Nat : n \in 1..Len(tt) => g[n + 1] = ss[1] \o h[n]}
  <2>5. 0 \in T
    OBVIOUS
  <2>6. ASSUME NEW n \in Nat, NEW m \in Nat, m = n + 1, m \in 1..Len(tt),
               n \in 1..Len(tt) => g[m] = ss[1] \o h[n]
        PROVE  g[m + 1] = ss[1] \o h[m]
    <3> HIDE DEF T
    <3>1. /\ m + 1 \in 1..Len(ss) /\ m + 1 # 1 /\ m + 1 - 1 = m
          /\ m - 1 = n /\ (m # 1 => n \in 1..Len(tt))
      BY <1>2, <2>6
    <3>2. g[m + 1] = g[m] \o ss[m + 1]
      <4> DEFINE i == m + 1
      <4>1. i \in 1..Len(ss) /\ i # 1 /\ i - 1 = m
        BY <3>1
      <4> HIDE DEF i
      <4>2. g[i] = g[i - 1] \o ss[i]
        BY <1>3, <4>1, Zenon
      <4> QED BY <4>1, <4>2, Zenon DEF i
    <3>3. h[m] = IF m = 1 THEN ss[m + 1] ELSE h[n] \o ss[m + 1]
      <4>1. h[m] = IF m = 1 THEN tt[m] ELSE h[m - 1] \o tt[m]
        BY <2>3, <2>6
      <4>2. tt[m] = ss[m + 1]
        BY <1>2, <2>6
      <4> QED BY <3>1, <4>1, <4>2
    <3>5. ss[1] \in Seq(S) /\ ss[m + 1] \in Seq(S)
      BY <1>2, <3>1
    <3>6. CASE m = 1
      <4>1. g[1] = ss[1]
        BY <1>2, <1>3
      <4> QED BY <3>2, <3>3, <3>6, <4>1
    <3>7. CASE m # 1
      <4>1. h[n] \in Seq(S) /\ g[m] = ss[1] \o h[n]
        BY <2>4, <2>6, <3>1, <3>7
      <4>2. (ss[1] \o h[n]) \o ss[m + 1] = ss[1] \o (h[n] \o ss[m + 1])
        <5> DEFINE a == ss[1]
                   b == h[n]
                   c == ss[m + 1]
        <5>1. a \in Seq(S) /\ b \in Seq(S) /\ c \in Seq(S)
          BY <3>5, <4>1
        <5> HIDE DEF a, b, c
        <5>2. (a \o b) \o c = a \o (b \o c)
          BY <5>1, ConcatAssociative
        <5> QED BY <5>2 DEF a, b, c
      <4> QED BY <3>2, <3>3, <3>7, <4>1, <4>2
    <3> QED BY <3>6, <3>7
  <2>7. T = Nat
    <3>1. ASSUME NEW n \in T PROVE n + 1 \in T
      <4>1. n \in Nat /\ n + 1 \in Nat /\ (n \in 1..Len(tt) => g[n + 1] = ss[1] \o h[n])
        <5>1. n \in Nat /\ (n \in 1..Len(tt) => g[n + 1] = ss[1] \o h[n])
          BY Zenon
        <5>2. n + 1 \in Nat
          BY <5>1
        <5> QED BY <5>1, <5>2, Zenon
      <4>2. n + 1 \in 1..Len(tt) => g[n + 1 + 1] = ss[1] \o h[n + 1]
        <5> DEFINE m == n + 1
        <5>1. n \in Nat /\ m \in Nat /\ m = n + 1 /\ (n \in 1..Len(tt) => g[m] = ss[1] \o h[n])
          BY <4>1
        <5> HIDE DEF T, m
        <5>2. m \in 1..Len(tt) => g[m + 1] = ss[1] \o h[m]
          BY <2>6, <5>1
        <5> QED BY <5>2 DEF m
      <4> QED BY <4>1, <4>2
    <3>2. T \in SUBSET Nat
      OBVIOUS
    <3> HIDE DEF T
    <3> QED BY <2>5, <3>1, <3>2, SetInduction
  <2>8. Len(tt) \in T /\ Len(tt) \in 1..Len(tt)
    <3>1. Len(tt) \in Nat /\ Len(tt) \in 1..Len(tt)
      BY <1>2, <1>5
    <3> HIDE DEF T
    <3> QED BY <2>7, <3>1
  <2>9. g[Len(tt) + 1] = ss[1] \o h[Len(tt)]
    BY <2>8
  <2>10. Len(tt) + 1 = Len(ss)
    BY <1>2
  <2> QED BY <1>1, <2>2, <2>9, <2>10 DEF tt
<1> QED BY <1>4, <1>5

\* Texts joined are a text.
LEMMA FlattenType ==
    ASSUME NEW S, NEW ss \in Seq(Seq(S))
    PROVE  FlattenSeq(ss) \in Seq(S)
<1>1. CASE ss = <<>>
  <2>1. <<>> \in Seq(S)
    OBVIOUS
  <2> QED BY <1>1, <2>1, FlattenEmpty
<1>2. CASE ss # <<>>
  <2>1. PICK g : Flattens(g, ss) /\ FlattenSeq(ss) = g[Len(ss)]
    BY <1>2, FlattenEquation
  <2>2. Len(ss) \in 1..Len(ss)
    BY <1>2
  <2> QED BY <2>1, <2>2, FlattensType
<1> QED BY <1>1, <1>2

\* One sequence, joined to nothing.
LEMMA FlattenOne == ASSUME NEW S, NEW s \in Seq(S) PROVE FlattenSeq(<<s>>) = s
<1>1. <<s>> \in Seq(Seq(S)) /\ <<s>> # <<>> /\ <<s>>[1] = s /\ Tail(<<s>>) = <<>>
  OBVIOUS
<1>2. FlattenSeq(<<s>>) = s \o <<>>
  BY <1>1, FlattenHead, FlattenEmpty
<1> QED BY <1>2
=============================================================================
