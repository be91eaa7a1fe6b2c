---------------------------- MODULE XPathParser -----------------------------
(***************************************************************************)
(* The query parser (src/xpath_parser): parse reads one command, such as   *)
(* ?/1/!2[a=3|@], and leaves a view of it.  A step is one turn of parse's  *)
(* loop, that is one call through op_table, or one turn of attribute_do's  *)
(* loop over comparators.                                                  *)
(*                                                                         *)
(* A command is a sequence of symbols: a run of letters is one, and so is  *)
(* a run of digits; numbers with a point are left out.  Lists keep the     *)
(* order of the code's: the last one read comes first.                     *)
(***************************************************************************)
EXTENDS Naturals, Sequences

CONSTANTS
    Numbers,       \* runs of digits the first of which is one of 1 to 8
    OtherNumbers,  \* runs of digits that begin with 0 or 9
    Names          \* runs of letters

NUL == "end"
None == "none"

\* A run of digits is neither a mark nor what stands for nothing.
ASSUME NumbersAssumption == Numbers \cap {"/", NUL, None} = {}

Operations == {"-", "+", "?", "="}

VARIABLES
    op,       \* command[0], the operation
    text,     \* what follows it
    pos,      \* for_parse, as a position in text; 0 is command[0]
    state,    \* current_state, or "START", or "FILTER" inside attribute_do
    level,    \* cur_level
    tree,     \* view->tree
    beyond    \* the program went on behind the terminator, or without a view

vars == <<op, text, pos, state, level, tree, beyond>>

\* Once a query begins with a name, command[0] is overwritten.
Char(p) == IF p = 0 THEN "/" ELSE IF p <= Len(text) THEN text[p] ELSE NUL

\* A slip: the text moves on whether the symbol is there or not.
Skip_Always(p, c) == p + 1

\* `if (**string == c && *(*string)++)'
Skip(p, c) == IF Char(p) = c THEN p + 1 ELSE p

Level(place) == [place |-> place, negative |-> FALSE, any |-> FALSE,
                 value |-> None, filters |-> <<>>]

InitFor(commands) ==
    /\ \E c \in commands : op = c.op /\ text = c.text
    /\ pos = 1
    /\ state = "START"
    /\ level = Level("ROOT")
    /\ tree = <<>>
    /\ beyond = FALSE

-----------------------------------------------------------------------------
(***************************************************************************)
(* read_operator and read_filter, from position p: what they make, and     *)
(* where they leave the text.                                              *)
(***************************************************************************)
ReadOperator(p) ==
    LET q == Skip(p, "'")
    IN  IF Char(p) \in Numbers
        THEN [op |-> [field |-> FALSE, value |-> Char(p)], pos |-> p + 1]
        ELSE IF Char(q) \in Names
        THEN [op |-> [field |-> q = p, value |-> Char(q)], pos |-> q + 1]
        ELSE [op |-> [field |-> q = p, value |-> ""], pos |-> q]

\* A slip: the negation is taken for the whole filter's.
ReadFilter_NotNegated(p) ==
    LET q == Skip(p, "!")
        a == ReadOperator(q)
        b == ReadOperator(a.pos + 1)
    IN  IF Char(q) = "@"
        THEN [comp |-> [negative |-> FALSE, is_true |-> TRUE,
                        op1 |-> None, operation |-> None, op2 |-> None],
              pos |-> q + 1]
        ELSE [comp |-> [negative |-> FALSE, is_true |-> FALSE,
                        op1 |-> a.op, operation |-> Char(a.pos), op2 |-> b.op],
              pos |-> b.pos]

\* Any symbol is taken for the comparison, the end of the text too.
ReadFilter(p) ==
    LET q == Skip(p, "!")
        a == ReadOperator(q)
        b == ReadOperator(a.pos + 1)
    IN  IF Char(q) = "@"
        THEN [comp |-> [negative |-> q # p, is_true |-> TRUE,
                        op1 |-> None, operation |-> None, op2 |-> None],
              pos |-> q + 1]
        ELSE [comp |-> [negative |-> q # p, is_true |-> FALSE,
                        op1 |-> a.op, operation |-> Char(a.pos), op2 |-> b.op],
              pos |-> b.pos]

-----------------------------------------------------------------------------
Going == state # "ERROR" /\ ~beyond

\* parse, up to its loop.
Start ==
    /\ Going
    /\ state = "START"
    /\ pos' = IF Char(1) = "/" THEN 1 ELSE 0
    /\ level' = IF Char(1) \in {"/", NUL} THEN level ELSE [level EXCEPT !.place = "FREE"]
    /\ state' = IF Char(1) = NUL THEN "ERROR" ELSE "NEXT"
    /\ tree' = IF Char(1) = NUL THEN <<level>> ELSE <<>>
    /\ beyond' = (Char(1) = NUL /\ op \notin Operations)
    /\ UNCHANGED <<op, text>>

\* A slip: the level is not put away before the next one.
Leave_Overwritten(s, p, l) ==
    IF s = "NEXT" /\ Char(p) # NUL
    THEN /\ state' = s /\ pos' = p
         /\ level' = Level("RELATIVE")
         /\ UNCHANGED <<tree, beyond>>
    ELSE IF s = "ERROR"
    THEN /\ state' = s /\ pos' = p /\ level' = l
         /\ tree' = <<l>> \o tree
         /\ beyond' = (op \notin Operations)
    ELSE /\ state' = s /\ pos' = p /\ level' = l
         /\ UNCHANGED <<tree, beyond>>

(***************************************************************************)
(* What parse does with the state a handler returns, with the text at p    *)
(* and the level as l: it puts the level away when another one follows and *)
(* when it stops.  Without an operation there is no view to put it in.     *)
(***************************************************************************)
Leave(s, p, l) ==
    IF s = "NEXT" /\ Char(p) # NUL
    THEN /\ state' = s /\ pos' = p
         /\ level' = Level("RELATIVE")
         /\ tree' = <<l>> \o tree
         /\ beyond' = (op \notin Operations)
    ELSE IF s = "ERROR"
    THEN /\ state' = s /\ pos' = p /\ level' = l
         /\ tree' = <<l>> \o tree
         /\ beyond' = (op \notin Operations)
    ELSE /\ state' = s /\ pos' = p /\ level' = l
         /\ UNCHANGED <<tree, beyond>>

NextDo ==
    /\ Going
    /\ state = "NEXT"
    /\ IF Char(pos) = "/" THEN Leave("NAME", pos + 1, level)
                          ELSE Leave("ERROR", pos, level)
    /\ UNCHANGED <<op, text>>

\* What may follow a name or a filter.
After(p) == IF Char(p) \in {"[", "!"} THEN "ATTRIBUTE" ELSE "NEXT"

\* A slip: a level that is not there is waited for.
NameDo_Waits ==
    /\ Going
    /\ state = "NAME"
    /\ IF Char(pos) \in Numbers
       THEN Leave(After(pos + 1), pos + 1, [level EXCEPT !.value = Char(pos)])
       ELSE Leave("NAME", pos, level)
    /\ UNCHANGED <<op, text>>

\* The negation of * is read and dropped.
NameDo ==
    /\ Going
    /\ state = "NAME"
    /\ LET p == Skip(pos, "!")
       IN  IF Char(p) = "*"
           THEN Leave(After(p + 1), p + 1, [level EXCEPT !.any = TRUE])
           ELSE IF Char(p) \in Numbers
           THEN Leave(After(p + 1), p + 1, [level EXCEPT !.value = Char(p),
                                                         !.negative = (p # pos)])
           ELSE Leave("ERROR", p, level)
    /\ UNCHANGED <<op, text>>

\* attribute_do, up to its loop.
AttributeDo ==
    /\ Going
    /\ state = "ATTRIBUTE"
    /\ LET p == Skip(pos, "!")
           f == [negative |-> p # pos, comparators |-> <<>>]
       IN  IF Char(p) = "["
           THEN Leave("FILTER", p, [level EXCEPT !.filters = <<f>> \o @])
           ELSE Leave("ERROR", p, level)
    /\ UNCHANGED <<op, text>>

FilterEnd ==
    /\ Going
    /\ state = "FILTER"
    /\ Char(pos) = "]"
    /\ Leave(After(pos + 1), pos + 1, level)
    /\ UNCHANGED <<op, text>>

(***************************************************************************)
(* One comparator: the symbol before it is not looked at.  Where the text  *)
(* ends in it the loop goes on behind the terminator.                      *)
(***************************************************************************)
ReadComparator ==
    /\ Going
    /\ state = "FILTER"
    /\ Char(pos) # "]"
    /\ \E r \in {ReadFilter(pos + 1)} :
       LET l == [level EXCEPT !.filters[1].comparators = <<r.comp>> \o @]
       IN  IF pos > Len(text) \/ r.pos > Len(text)
           THEN beyond' = TRUE /\ UNCHANGED <<pos, state, level, tree>>
           ELSE IF Char(r.pos) \in {"|", "]"}
           THEN Leave("FILTER", r.pos, l)
           ELSE Leave("ERROR", r.pos + 1, l)
    /\ UNCHANGED <<op, text>>

-----------------------------------------------------------------------------
Step == Start \/ NextDo \/ NameDo \/ AttributeDo \/ FilterEnd \/ ReadComparator

Spec(commands) == InitFor(commands) /\ [][Step]_vars

-----------------------------------------------------------------------------
(***************************************************************************)
(* What holds of every command.                                            *)
(***************************************************************************)
Done == state = "ERROR" /\ ~beyond

\* What parse returns (XPParser.c:24-34), of whatever text: the view's
\* levels are all there, the first of the text last and alone not relative;
\* each but the one that parse stopped in has an id or is any id, never
\* both; and no level has a filter without comparators.
Complete ==
    Done =>
       /\ tree # <<>>
       /\ \A i \in DOMAIN tree :
             /\ tree[i].place = "RELATIVE" <=> i < Len(tree)
             /\ i > 1 => (tree[i].any <=> tree[i].value = None)
             /\ \A j \in DOMAIN tree[i].filters :
                    tree[i].filters[j].comparators # <<>>

\* parse, next_do, name_do and attribute_do advance with no test of their
\* own for the end of the text: a command that has an operation and no
\* bracket is never read behind its terminator.
StaysInText ==
    op \in Operations /\ (\A i \in DOMAIN text : text[i] # "[") =>
       ~beyond /\ pos \in 0..Len(text) + 1

\* The loops of parse and attribute_do have no bound: whatever the text,
\* they end, or read behind it.
Ends == <>(Done \/ beyond)
=============================================================================
