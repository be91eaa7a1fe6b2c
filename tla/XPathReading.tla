---------------------------- MODULE XPathReading ----------------------------
(***************************************************************************)
(* How far the parser is in the text of a query: what of the text is left, *)
(* and what of the query's view is made.  This is the inductive invariant  *)
(* behind Parsed (XPathQueries): between two steps of parse, the text from *)
(* for_parse on is exactly the text of the parts that are still to come,   *)
(* and the view and the level are those of the parts that were read.       *)
(***************************************************************************)
EXTENDS XPathQueries

\* The parts from the k-th on, one after the other; and the first n things
\* of s, the last of them first.
Joined(parts, k) == FlattenSeq(SubSeq(parts, k, Len(parts)))
FirstReversed(s, n) == [m \in 1..n |-> s[n + 1 - m]]

\* One text and then another: the proofs keep this closed.
Then(s, t) == s \o t

\* What is left of the text from position p on; 0 stands for a slash.
Rest(p) == IF p = 0 THEN <<"/">> \o text ELSE SubSeq(text, p, Len(text))

\* The texts of the parts of a query.
ComparatorTexts(f) ==
    [k \in DOMAIN f.comparators |->
        <<IF k = 1 THEN "[" ELSE "|">> \o ComparatorText(f.comparators[k])]
FilterTexts(l) == [j \in DOMAIN l.filters |-> FilterText(l.filters[j])]
LevelTexts(q) == [i \in DOMAIN q.levels |-> <<"/">> \o LevelText(q.levels[i])]

\* The views of the parts of a query.
PlaceOf(q, i) == IF i > 1 THEN "RELATIVE" ELSE IF q.free THEN "FREE" ELSE "ROOT"
FilterViews(l) == [j \in DOMAIN l.filters |-> FilterOf(l.filters[j])]
LevelViews(q) == [i \in DOMAIN q.levels |-> LevelOf(q.levels[i], PlaceOf(q, i))]

\* Level i with its first j filters, and with k comparators of the next one.
WithFilters(q, i, j) ==
    [LevelViews(q)[i] EXCEPT !.filters = FirstReversed(FilterViews(q.levels[i]), j)]
InFilterWith(q, i, j, k) ==
    LET f == q.levels[i].filters[j + 1]
    IN  [LevelViews(q)[i] EXCEPT !.filters =
            <<[negative |-> f.negative, comparators |-> FirstReversed(f.comparators, k)]>>
            \o FirstReversed(FilterViews(q.levels[i]), j)]

\* What is left of the text from level i, filter j and comparator k on.
FromLevel(q, i) == Joined(LevelTexts(q), i)
FromFilter(q, i, j) == Then(Joined(FilterTexts(q.levels[i]), j), FromLevel(q, i + 1))
FromComparator(q, i, j, k) ==
    Then(Joined(ComparatorTexts(q.levels[i].filters[j]), k),
         Then(<<"]">>, FromFilter(q, i, j + 1)))

\* Where the parser is in the query, in state s and at p with the level as l.
BeforeLevel(i, s, p, l) ==
    /\ s = "NEXT"
    /\ l = Level(PlaceOf(query, i))
    /\ Rest(p) = FromLevel(query, i)

BeforeName(i, s, p, l) ==
    /\ s = "NAME"
    /\ l = Level(PlaceOf(query, i))
    /\ Rest(p) = Then(LevelText(query.levels[i]), FromLevel(query, i + 1))

BeforeFilter(i, j, s, p, l) ==
    /\ s = "ATTRIBUTE"
    /\ l = WithFilters(query, i, j - 1)
    /\ Rest(p) = FromFilter(query, i, j)

BeforeComparator(i, j, k, s, p, l) ==
    /\ s = "FILTER"
    /\ l = InFilterWith(query, i, j - 1, k - 1)
    /\ Rest(p) = FromComparator(query, i, j, k)

AfterLevels(i, s, p, l) ==
    /\ s = "NEXT"
    /\ i = Len(query.levels)
    /\ l = LevelViews(query)[i]
    /\ Rest(p) = <<>>

InLevel(i, s, p, l) ==
    /\ p = 0 => s = "NEXT"
    /\ \/ BeforeLevel(i, s, p, l)
       \/ BeforeName(i, s, p, l)
       \/ \E j \in DOMAIN query.levels[i].filters :
             \/ BeforeFilter(i, j, s, p, l)
             \/ \E k \in 1..Len(query.levels[i].filters[j].comparators) + 1 :
                   BeforeComparator(i, j, k, s, p, l)
       \/ AfterLevels(i, s, p, l)

\* Where the parser is in the query.
BeforeQuery == state = "START" /\ pos = 1 /\ level = Level("ROOT") /\ tree = <<>>

AfterQuery == state = "ERROR" /\ pos = Len(text) + 1 /\ tree = ViewOf(query)

\* The text is the query's, and this is how much of it was read.
Reading(Signs) ==
    query \in EveryQuery(Signs) /\ op = query.op /\ text = TextOf(query)

ReadSoFar(Signs) ==
    /\ Reading(Signs)
    /\ pos \in 0..Len(text) + 1
    /\ ~beyond
    /\ \/ BeforeQuery
       \/ \E i \in DOMAIN query.levels :
             /\ tree = FirstReversed(LevelViews(query), i - 1)
             /\ InLevel(i, state, pos, level)
       \/ AfterQuery
=============================================================================
