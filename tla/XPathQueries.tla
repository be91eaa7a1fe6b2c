---------------------------- MODULE XPathQueries ----------------------------
(***************************************************************************)
(* What a query means, as a value: its levels from the first to the last,  *)
(* each with its filters and their comparators in order; the text that one *)
(* types for it, and the view of it that the rest of the program works on, *)
(* whose lists are the other way round (src/xpath_parser/include/structure *)
(* /view.h).  The parser must make the one from the other.                 *)
(*                                                                         *)
(* The negation of any id is left out: name_do reads it and drops it.      *)
(***************************************************************************)
EXTENDS XPathParser, SequencesExt

CONSTANT MaxFilters   \* filters of a level
VARIABLE query

\* A run of letters or of digits is not a mark, nor is it both.
ASSUME SymbolsAssumption ==
    /\ (Numbers \cup Names) \cap {"!", "*", "[", "]", "|", "@", "'"} = {}
    /\ Numbers \cap Names = {}

-----------------------------------------------------------------------------
(***************************************************************************)
(* The text of a query.                                                    *)
(***************************************************************************)
Mark(negative) == IF negative THEN <<"!">> ELSE <<>>

OperandText(o) ==
    IF o.field \/ o.value \in Numbers THEN <<o.value>> ELSE <<"'", o.value>>

ComparatorText(c) ==
    Mark(c.negative) \o IF c.is_true THEN <<"@">>
                        ELSE OperandText(c.op1) \o <<c.operation>> \o OperandText(c.op2)

FilterText(f) ==
    LET cs == f.comparators
    IN  Mark(f.negative)
        \o FlattenSeq([i \in DOMAIN cs |->
               <<IF i = 1 THEN "[" ELSE "|">> \o ComparatorText(cs[i])])
        \o <<"]">>

LevelText(l) ==
    Mark(l.negative) \o <<IF l.any THEN "*" ELSE l.value>>
    \o FlattenSeq([i \in DOMAIN l.filters |-> FilterText(l.filters[i])])

\* A free query has no slash before its first level.
TextOf(q) ==
    FlattenSeq([i \in DOMAIN q.levels |->
        (IF i = 1 /\ q.free THEN <<>> ELSE <<"/">>) \o LevelText(q.levels[i])])

-----------------------------------------------------------------------------
(***************************************************************************)
(* The view of a query.                                                    *)
(***************************************************************************)
FilterOf(f) == [f EXCEPT !.comparators = Reverse(@)]

LevelOf(l, place) ==
    [place |-> place, negative |-> l.negative, any |-> l.any, value |-> l.value,
     filters |-> Reverse([i \in DOMAIN l.filters |-> FilterOf(l.filters[i])])]

ViewOf(q) ==
    Reverse([i \in DOMAIN q.levels |->
        LevelOf(q.levels[i], IF i > 1 THEN "RELATIVE"
                             ELSE IF q.free THEN "FREE" ELSE "ROOT")])

-----------------------------------------------------------------------------
(***************************************************************************)
(* Every query, of any number of levels, filters and comparators: an id or *)
(* any id, the fields, names and numbers that are compared, and the signs  *)
(* that compare them.                                                      *)
(***************************************************************************)
IsTrue(negative) ==
    [negative |-> negative, is_true |-> TRUE,
     op1 |-> None, operation |-> None, op2 |-> None]

EveryOperand ==
    [field : {TRUE}, value : Names] \cup [field : {FALSE}, value : Names \cup Numbers]

EveryComparator(Signs) ==
    {IsTrue(negative) : negative \in BOOLEAN}
    \cup [negative : BOOLEAN, is_true : {FALSE},
          op1 : EveryOperand, operation : Signs, op2 : EveryOperand]

EveryFilter(Signs) ==
    [negative : BOOLEAN, comparators : Seq(EveryComparator(Signs)) \ {<<>>}]

EveryLevel(Signs) ==
    [any : {TRUE}, value : {None}, negative : {FALSE}, filters : Seq(EveryFilter(Signs))]
    \cup [any : {FALSE}, value : Numbers, negative : BOOLEAN,
          filters : Seq(EveryFilter(Signs))]

EveryQuery(Signs) ==
    [op : Operations, free : BOOLEAN, levels : Seq(EveryLevel(Signs)) \ {<<>>}]

-----------------------------------------------------------------------------
(***************************************************************************)
(* Queries of one level with up to MaxFilters filters, of two levels with  *)
(* up to one each, and of three levels with none; filters have one or two  *)
(* comparators.                                                            *)
(***************************************************************************)
AName == CHOOSE n \in Names : TRUE
ANumber == CHOOSE n \in Numbers : TRUE

Comparison(negative, a, b) ==
    [negative |-> negative, is_true |-> FALSE, op1 |-> a, operation |-> "=", op2 |-> b]

Field == [field |-> TRUE, value |-> AName]
Literal == [field |-> FALSE, value |-> AName]
Number == [field |-> FALSE, value |-> ANumber]

Comparators ==
    {IsTrue(TRUE), Comparison(FALSE, Field, Number), Comparison(TRUE, Number, Literal)}

UpTo(n, S) == UNION {[1..k -> S] : k \in 0..n}

Filters == [negative : BOOLEAN, comparators : UpTo(2, Comparators) \ {<<>>}]

Ids == {[any |-> TRUE, value |-> None, negative |-> FALSE]}
       \cup [any : {FALSE}, value : Numbers, negative : BOOLEAN]

Levels(n) ==
    {[any |-> id.any, value |-> id.value, negative |-> id.negative, filters |-> fs] :
        id \in Ids, fs \in UpTo(n, Filters)}

LevelLists ==
    [1..1 -> Levels(MaxFilters)]
    \cup {<<a, b>> : a \in Levels(1), b \in Levels(1)}
    \cup [1..3 -> Levels(0)]

Queries == [op : {"?"}, free : BOOLEAN, levels : LevelLists]

\* A command that is not the text of a query.
NoQuery == [op |-> None, free |-> FALSE, levels |-> <<>>]

QueryInit(queries) ==
    /\ query \in queries
    /\ InitFor({[op |-> query.op, text |-> TextOf(query)]})

QueryNext == Step /\ UNCHANGED query

QuerySpec(queries) == QueryInit(queries) /\ [][QueryNext]_<<vars, query>>

-----------------------------------------------------------------------------
\* The parser understands what is written as it should be (parser.c,
\* XPParser.c): it ends at the terminator, having made the query's view.
Parsed ==
    query # NoQuery =>
      /\ ~beyond
      /\ Done => /\ pos = Len(text) + 1
                 /\ tree = ViewOf(query)
=============================================================================
