----------------------------- MODULE XPathProofs -----------------------------
(***************************************************************************)
(* What the parser keeps to for every text, of whatever symbols and of any *)
(* length, and for every operation, one of the four or not; and that it    *)
(* understands every query that is written as it should be, of any number  *)
(* of levels, filters and comparators.                                     *)
(***************************************************************************)
EXTENDS XPathReading, SequenceLemmas

-----------------------------------------------------------------------------
(***************************************************************************)
(* Types, with the symbols of the texts taken from S.                      *)
(***************************************************************************)
Symbol(S) == S \cup {"/", NUL, None, ""}

Operand(S) == [field : BOOLEAN, value : Symbol(S)]

Comparator(S) ==
    [negative : BOOLEAN, is_true : BOOLEAN, op1 : Operand(S) \cup {None},
     operation : Symbol(S), op2 : Operand(S) \cup {None}]

Filter(S) == [negative : BOOLEAN, comparators : Seq(Comparator(S))]

LevelType(S) ==
    [place : {"ROOT", "FREE", "RELATIVE"}, negative : BOOLEAN, any : BOOLEAN,
     value : Symbol(S), filters : Seq(Filter(S))]

States == {"START", "NEXT", "NAME", "ATTRIBUTE", "FILTER", "ERROR"}

TypeInv(S) ==
    /\ text \in Seq(S)
    /\ pos \in 0..Len(text) + 1
    /\ state \in States
    /\ level \in LevelType(S)
    /\ tree \in Seq(LevelType(S))
    /\ beyond \in BOOLEAN

-----------------------------------------------------------------------------
(***************************************************************************)
(* The operators of the parser.                                            *)
(***************************************************************************)
LEMMA CharType ==
    ASSUME NEW S, text \in Seq(S), NEW p \in Nat
    PROVE  /\ Char(p) \in Symbol(S)
           /\ Char(p) \notin {"/", NUL} => p \in 1..Len(text)
           /\ p \in 1..Len(text) => Char(p) = text[p]
<1>1. CASE p \in 1..Len(text)
  <2>1. Char(p) = text[p] /\ text[p] \in S
    BY <1>1 DEF Char
  <2> QED BY <1>1, <2>1 DEF Symbol
<1>2. CASE p \notin 1..Len(text)
  <2>1. Len(text) \in Nat
    OBVIOUS
  <2>2. Char(p) \in {"/", NUL}
    BY <1>2, <2>1 DEF Char
  <2> QED BY <1>2, <2>2 DEF Symbol
<1> QED BY <1>1, <1>2

LEMMA SkipType ==
    ASSUME NEW S, text \in Seq(S), NEW p \in Nat, NEW c, c \notin {"/", NUL}
    PROVE  /\ Skip(p, c) \in {p, p + 1}
           /\ Skip(p, c) # p => p \in 1..Len(text)
           /\ p <= Len(text) + 1 => Skip(p, c) <= Len(text) + 1
<1>1. Len(text) \in Nat
  OBVIOUS
<1> QED BY <1>1, CharType DEF Skip

LEMMA OperatorType ==
    ASSUME NEW S, text \in Seq(S), NEW p \in Nat
    PROVE  ReadOperator(p).op \in Operand(S) /\ ReadOperator(p).pos \in Nat
<1>1. PICK q \in Nat : q = Skip(p, "'")
  BY SkipType DEF NUL
<1>2. Char(p) \in Symbol(S) /\ Char(q) \in Symbol(S) /\ "" \in Symbol(S)
  BY CharType DEF Symbol
<1>3. ASSUME NEW field \in BOOLEAN, NEW value \in Symbol(S), NEW end \in Nat,
             ReadOperator(p) = [op |-> [field |-> field, value |-> value], pos |-> end]
      PROVE  ReadOperator(p).op \in Operand(S) /\ ReadOperator(p).pos \in Nat
  <2>1. ReadOperator(p).op = [field |-> field, value |-> value] /\ ReadOperator(p).pos = end
    BY <1>3
  <2> QED BY <2>1 DEF Operand
<1>4. CASE Char(p) \in Numbers
  <2>1. ReadOperator(p) = [op |-> [field |-> FALSE, value |-> Char(p)], pos |-> p + 1]
    BY <1>4 DEF ReadOperator
  <2>2. FALSE \in BOOLEAN /\ p + 1 \in Nat
    OBVIOUS
  <2> QED BY <1>2, <1>3, <2>1, <2>2, Zenon
<1>5. CASE Char(p) \notin Numbers /\ Char(q) \in Names
  <2>1. ReadOperator(p) = [op |-> [field |-> q = p, value |-> Char(q)], pos |-> q + 1]
    BY <1>1, <1>5, Zenon DEF ReadOperator
  <2>2. (q = p) \in BOOLEAN /\ q + 1 \in Nat
    OBVIOUS
  <2> QED BY <1>2, <1>3, <2>1, <2>2, Zenon
<1>6. CASE Char(p) \notin Numbers /\ Char(q) \notin Names
  <2>1. ReadOperator(p) = [op |-> [field |-> q = p, value |-> ""], pos |-> q]
    BY <1>1, <1>6, Zenon DEF ReadOperator
  <2>2. (q = p) \in BOOLEAN
    OBVIOUS
  <2> QED BY <1>2, <1>3, <2>1, <2>2, Zenon
<1> QED BY <1>4, <1>5, <1>6

LEMMA FilterType ==
    ASSUME NEW S, text \in Seq(S), NEW p \in Nat
    PROVE  ReadFilter(p).comp \in Comparator(S) /\ ReadFilter(p).pos \in Nat
<1> DEFINE q == Skip(p, "!")
           a == ReadOperator(q)
           b == ReadOperator(a.pos + 1)
<1>1. q \in Nat
  BY SkipType DEF NUL
<1>2. a.op \in Operand(S) /\ a.pos \in Nat
  BY <1>1, OperatorType
<1>3. b.op \in Operand(S) /\ b.pos \in Nat
  <2>1. a.pos + 1 \in Nat
    BY <1>2
  <2> QED BY <2>1, OperatorType
<1>4. Char(a.pos) \in Symbol(S) /\ None \in Symbol(S)
  BY <1>2, CharType DEF Symbol
<1>5. CASE Char(q) = "@"
  <2>1. ReadFilter(p) = [comp |-> [negative |-> q # p, is_true |-> TRUE,
                                   op1 |-> None, operation |-> None, op2 |-> None],
                         pos |-> q + 1]
    BY <1>5 DEF ReadFilter
  <2> HIDE DEF q, a, b
  <2> QED BY <1>1, <1>4, <2>1 DEF Comparator
<1>6. CASE Char(q) # "@"
  <2>1. ReadFilter(p) = [comp |-> [negative |-> q # p, is_true |-> FALSE,
                                   op1 |-> a.op, operation |-> Char(a.pos), op2 |-> b.op],
                         pos |-> b.pos]
    BY <1>6 DEF ReadFilter
  <2> HIDE DEF q, a, b
  <2> QED BY <1>2, <1>3, <1>4, <2>1 DEF Comparator
<1> QED BY <1>5, <1>6

LEMMA PushType ==
    ASSUME NEW T, NEW s \in Seq(T), NEW e \in T
    PROVE  /\ <<e>> \o s \in Seq(T)
           /\ <<e>> \o s # <<>>
           /\ Len(<<e>> \o s) = Len(s) + 1
           /\ DOMAIN (<<e>> \o s) = 1..Len(s) + 1
           /\ (<<e>> \o s)[1] = e
           /\ \A i \in DOMAIN (<<e>> \o s) :
                 i # 1 => i - 1 \in DOMAIN s /\ (<<e>> \o s)[i] = s[i - 1]
<1>1. <<e>> \in Seq(T) /\ Len(<<e>>) = 1
  OBVIOUS
<1> QED BY <1>1

-----------------------------------------------------------------------------
(***************************************************************************)
(* The invariant: what each state may rely on of the level being read, and *)
(* what is true of the levels put away.                                    *)
(***************************************************************************)
AllFull(l) == \A j \in DOMAIN l.filters : l.filters[j].comparators # <<>>
Whole(l) == l.any <=> l.value = None
Fresh(l) == ~l.any /\ l.value = None /\ l.filters = <<>>

\* Only the newest filter may be without comparators, before its first one.
Opened(l, p) ==
    /\ l.filters # <<>>
    /\ \A j \in DOMAIN l.filters :
          j > 1 \/ Char(p) # "[" => l.filters[j].comparators # <<>>

Ready(s, p, l) ==
    /\ s \in {"START", "NAME"} => Fresh(l)
    /\ s = "NEXT" => AllFull(l) /\ (Fresh(l) \/ (Whole(l) /\ Char(p) = NUL))
    /\ s = "ATTRIBUTE" => AllFull(l) /\ Whole(l)
    /\ s = "FILTER" => Opened(l, p) /\ Whole(l)

PutAway ==
    /\ \A i \in DOMAIN tree :
          /\ tree[i].place = "RELATIVE" <=> i < Len(tree)
          /\ AllFull(tree[i])
          /\ i > 1 \/ state # "ERROR" => Whole(tree[i])
    /\ state # "ERROR" => (level.place = "RELATIVE" <=> tree # <<>>)
    /\ state = "ERROR" => tree # <<>>
    /\ state = "START" => tree = <<>>

Unbracketed == op \in Operations /\ \A i \in DOMAIN text : text[i] # "["

Inv(S) ==
    /\ TypeInv(S)
    /\ Ready(state, pos, level)
    /\ PutAway
    /\ Unbracketed => ~beyond /\ state # "FILTER"

LEMMA FreshLevel ==
    ASSUME NEW S, NEW place \in {"ROOT", "FREE", "RELATIVE"}
    PROVE  /\ Level(place) \in LevelType(S) /\ Fresh(Level(place))
           /\ Level(place).place = place
<1>1. <<>> \in Seq(Filter(S)) /\ None \in Symbol(S)
  BY DEF Symbol
<1> QED BY <1>1 DEF Level, LevelType, Fresh

LEMMA InitInv ==
    ASSUME NEW S, NEW commands, \A c \in commands : c.text \in Seq(S),
           InitFor(commands)
    PROVE  Inv(S)
<1>1. TypeInv(S)
  <2>1. text \in Seq(S) /\ pos = 1 /\ state = "START" /\ tree = <<>> /\ beyond = FALSE
    BY DEF InitFor
  <2>2. level \in LevelType(S)
    BY FreshLevel DEF InitFor
  <2>3. pos \in 0..Len(text) + 1
    BY <2>1
  <2>4. <<>> \in Seq(LevelType(S))
    OBVIOUS
  <2> QED BY <2>1, <2>2, <2>3, <2>4 DEF TypeInv, States
<1>2. Ready(state, pos, level) /\ PutAway
  BY FreshLevel DEF InitFor, Ready, PutAway
<1>3. ~beyond /\ state # "FILTER"
  BY DEF InitFor
<1> QED BY <1>1, <1>2, <1>3 DEF Inv

\* What follows a handler, if what it hands on is ready for it.
LEMMA LeaveInv ==
    ASSUME NEW S, Inv(S), Going, NEW s \in States \ {"START"}, NEW p \in 0..Len(text) + 1,
           NEW l \in LevelType(S), l.place = level.place,
           s \in {"NEXT", "ERROR"} => AllFull(l),
           s = "NEXT" => Whole(l),
           s # "NEXT" => Ready(s, p, l),
           Unbracketed => s # "FILTER",
           Leave(s, p, l), UNCHANGED <<op, text>>
    PROVE  Inv(S)'
<1> DEFINE put == <<l>> \o tree
<1>1. /\ put \in Seq(LevelType(S)) /\ put # <<>>
      /\ \A i \in DOMAIN put :
            /\ put[i].place = "RELATIVE" <=> i < Len(put)
            /\ AllFull(l) => AllFull(put[i])
            /\ i > 1 \/ Whole(l) => Whole(put[i])
  <2>1. tree \in Seq(LevelType(S)) /\ Len(tree) \in Nat
    BY DEF Inv, TypeInv
  <2>2. /\ put \in Seq(LevelType(S)) /\ put # <<>> /\ Len(put) = Len(tree) + 1
        /\ DOMAIN put = 1..Len(tree) + 1 /\ put[1] = l
        /\ \A i \in DOMAIN put : i # 1 => i - 1 \in DOMAIN tree /\ put[i] = tree[i - 1]
    BY <2>1, PushType
  <2>3. /\ \A i \in DOMAIN tree : /\ tree[i].place = "RELATIVE" <=> i < Len(tree)
                                  /\ AllFull(tree[i]) /\ Whole(tree[i])
        /\ l.place = "RELATIVE" <=> Len(tree) # 0
    BY <2>1 DEF Inv, PutAway, Going
  <2> HIDE DEF put
  <2> QED BY <2>1, <2>2, <2>3
<1>2. CASE s = "NEXT" /\ Char(p) # NUL
  <2>1. /\ state' = s /\ pos' = p /\ level' = Level("RELATIVE") /\ tree' = put
        /\ beyond' = (op \notin Operations)
    BY <1>2 DEF Leave
  <2> HIDE DEF put
  <2>2. TypeInv(S)'
    BY <1>1, <2>1, FreshLevel DEF Inv, TypeInv
  <2>3. Ready(state, pos, level)'
    BY <1>2, <2>1 DEF Ready, Fresh, AllFull, Level
  <2>4. PutAway'
    BY <1>1, <1>2, <2>1 DEF PutAway, Level, Whole, AllFull
  <2>5. (Unbracketed => ~beyond /\ state # "FILTER")'
    BY <2>1 DEF Unbracketed
  <2> QED BY <2>2, <2>3, <2>4, <2>5 DEF Inv
<1>3. CASE s = "ERROR"
  <2>1. /\ state' = s /\ pos' = p /\ level' = l /\ tree' = put
        /\ beyond' = (op \notin Operations)
    BY <1>3 DEF Leave
  <2> HIDE DEF put
  <2>2. TypeInv(S)'
    BY <1>1, <2>1 DEF Inv, TypeInv
  <2>3. Ready(state, pos, level)'
    BY <1>3, <2>1 DEF Ready
  <2>4. PutAway'
    BY <1>1, <1>3, <2>1 DEF PutAway, Whole, AllFull
  <2>5. (Unbracketed => ~beyond /\ state # "FILTER")'
    BY <2>1 DEF Unbracketed
  <2> QED BY <2>2, <2>3, <2>4, <2>5 DEF Inv
<1>4. CASE s # "ERROR" /\ ~(s = "NEXT" /\ Char(p) # NUL)
  <2>1. state' = s /\ pos' = p /\ level' = l /\ UNCHANGED <<tree, beyond>>
    BY <1>4 DEF Leave
  <2>2. TypeInv(S)'
    BY <2>1 DEF Inv, TypeInv
  <2>3. Ready(s, p, l)
    BY <1>4 DEF Ready
  <2>4. Ready(state, pos, level)'
    BY <2>1, <2>3 DEF Ready, Opened, Fresh, Whole, AllFull, Char
  <2>5. PutAway'
    BY <1>4, <2>1 DEF PutAway, Inv, Going, Whole, AllFull
  <2>6. (Unbracketed => ~beyond /\ state # "FILTER")'
    BY <2>1 DEF Unbracketed, Inv
  <2> QED BY <2>2, <2>4, <2>5, <2>6 DEF Inv
<1> QED BY <1>2, <1>3, <1>4
LEMMA AfterState ==
    ASSUME NEW p
    PROVE  After(p) \in {"ATTRIBUTE", "NEXT"}
BY DEF After

LEMMA StepInv ==
    ASSUME NEW S, Inv(S), [Step]_vars
    PROVE  Inv(S)'
<1>1. text \in Seq(S) /\ Len(text) \in Nat /\ pos \in Nat /\ pos <= Len(text) + 1
  BY DEF Inv, TypeInv
<1>2. CASE Start
  <2>1. TypeInv(S)'
    <3>1. level' \in LevelType(S)
      BY <1>2 DEF Start, Inv, TypeInv, LevelType
    <3>2. tree' \in Seq(LevelType(S))
      BY <1>2 DEF Start, Inv, TypeInv
    <3> QED BY <1>1, <1>2, <3>1, <3>2 DEF Start, Inv, TypeInv, States
  <2>2. Fresh(level) /\ level.place # "RELATIVE"
    BY <1>2 DEF Start, Going, Inv, Ready, PutAway
  <2>3. Fresh(level') /\ level'.place # "RELATIVE"
    BY <1>2, <2>2 DEF Start, Fresh, Inv, TypeInv, LevelType
  <2>4. Ready(state, pos, level)'
    BY <1>2, <2>3 DEF Start, Ready, AllFull, Fresh
  <2>5. PutAway'
    BY <1>2, <2>2, <2>3 DEF Start, PutAway, AllFull, Fresh
  <2>6. (Unbracketed => ~beyond /\ state # "FILTER")'
    BY <1>2 DEF Start, Unbracketed
  <2> QED BY <2>1, <2>4, <2>5, <2>6 DEF Inv
<1>3. CASE NextDo
  <2>1. Going /\ Inv(S) /\ UNCHANGED <<op, text>> /\ level \in LevelType(S) /\ AllFull(level)
    BY <1>3 DEF NextDo, Inv, Ready, TypeInv
  <2>2. CASE Char(pos) = "/"
    <3>1. Leave("NAME", pos + 1, level)
      BY <1>3, <2>2 DEF NextDo
    <3>2. pos + 1 \in 0..Len(text) + 1
      BY <1>1, <2>2 DEF Char, NUL
    <3>3. Ready("NAME", pos + 1, level)
      BY <1>3, <2>2 DEF NextDo, Inv, Ready, NUL
    <3> QED BY <2>1, <3>1, <3>2, <3>3, LeaveInv DEF States
  <2>3. CASE Char(pos) # "/"
    <3>1. Leave("ERROR", pos, level)
      BY <1>3, <2>3 DEF NextDo
    <3>2. pos \in 0..Len(text) + 1 /\ Ready("ERROR", pos, level)
      BY <1>1 DEF Ready
    <3> QED BY <2>1, <3>1, <3>2, LeaveInv DEF States
  <2> QED BY <2>2, <2>3
<1>4. CASE NameDo
  <2>1. Going /\ UNCHANGED <<op, text>> /\ level \in LevelType(S) /\ Fresh(level) /\ AllFull(level)
    BY <1>4 DEF NameDo, Inv, Ready, TypeInv, Fresh, AllFull
  <2>2. PICK p \in Nat : p = Skip(pos, "!") /\ p <= Len(text) + 1
    BY <1>1, SkipType DEF NUL
  <2>3. ASSUME NEW l \in LevelType(S), l.place = level.place, AllFull(l), Whole(l),
               p \in 1..Len(text), Leave(After(p + 1), p + 1, l)
        PROVE  Inv(S)'
    <3>1. After(p + 1) \in {"ATTRIBUTE", "NEXT"}
      BY AfterState
    <3>2. After(p + 1) # "NEXT" => Ready(After(p + 1), p + 1, l)
      BY <2>3, <3>1 DEF Ready
    <3>3. p + 1 \in 0..Len(text) + 1 /\ After(p + 1) \in States \ {"START"}
      BY <2>2, <2>3, <3>1, <1>1 DEF States
    <3> QED BY <2>1, <2>3, <3>1, <3>2, <3>3, LeaveInv
  <2>4. CASE Char(p) = "*"
    <3> DEFINE l == [level EXCEPT !.any = TRUE]
    <3>1. Leave(After(p + 1), p + 1, l)
      BY <1>4, <2>2, <2>4 DEF NameDo
    <3>2. l \in LevelType(S) /\ l.place = level.place /\ AllFull(l) /\ Whole(l)
      BY <2>1 DEF LevelType, Fresh, AllFull, Whole
    <3>3. p \in 1..Len(text)
      BY <1>1, <2>4, CharType DEF NUL
    <3> HIDE DEF l
    <3> QED BY <2>3, <3>1, <3>2, <3>3
  <2>5. CASE Char(p) # "*" /\ Char(p) \in Numbers
    <3> DEFINE l == [level EXCEPT !.value = Char(p), !.negative = (p # pos)]
    <3>1. Leave(After(p + 1), p + 1, l)
      BY <1>4, <2>2, <2>5 DEF NameDo
    <3>2. Char(p) \in Symbol(S) /\ Char(p) \notin {"/", NUL, None}
      BY <1>1, <2>5, CharType, NumbersAssumption
    <3>3. l \in LevelType(S) /\ l.place = level.place /\ AllFull(l) /\ Whole(l)
      BY <2>1, <3>2 DEF LevelType, Fresh, AllFull, Whole
    <3>4. p \in 1..Len(text)
      BY <1>1, <3>2, CharType
    <3> HIDE DEF l
    <3> QED BY <2>3, <3>1, <3>3, <3>4
  <2>6. CASE Char(p) # "*" /\ Char(p) \notin Numbers
    <3>1. Leave("ERROR", p, level)
      BY <1>4, <2>2, <2>6 DEF NameDo
    <3>2. p \in 0..Len(text) + 1 /\ Ready("ERROR", p, level)
      BY <1>1, <2>2 DEF Ready
    <3> QED BY <2>1, <3>1, <3>2, LeaveInv DEF States
  <2> QED BY <2>4, <2>5, <2>6
<1>5. CASE AttributeDo
  <2>1. /\ Going /\ UNCHANGED <<op, text>> /\ level \in LevelType(S)
        /\ AllFull(level) /\ Whole(level)
    BY <1>5 DEF AttributeDo, Inv, Ready, TypeInv
  <2>2. PICK p \in Nat : p = Skip(pos, "!") /\ p <= Len(text) + 1
    BY <1>1, SkipType DEF NUL
  <2>3. CASE Char(p) = "["
    <3> DEFINE f == [negative |-> p # pos, comparators |-> <<>>]
               fs == <<f>> \o level.filters
               l == [level EXCEPT !.filters = fs]
    <3>1. Leave("FILTER", p, l)
      BY <1>5, <2>2, <2>3 DEF AttributeDo
    <3>2. f \in Filter(S)
      BY DEF Filter
    <3>3. level.filters \in Seq(Filter(S))
      BY <2>1 DEF LevelType
    <3>4. /\ fs \in Seq(Filter(S)) /\ fs # <<>>
          /\ \A i \in DOMAIN fs : i # 1 => i - 1 \in DOMAIN level.filters
                                       /\ fs[i] = level.filters[i - 1]
      <4> HIDE DEF f
      <4> QED BY <3>2, <3>3, PushType
    <3> HIDE DEF fs
    <3>5. l \in LevelType(S) /\ l.place = level.place /\ l.filters = fs /\ Whole(l)
      BY <2>1, <3>4 DEF LevelType, Whole
    <3>6. Opened(l, p)
      BY <2>1, <2>3, <3>4, <3>5 DEF Opened, AllFull
    <3>7. p \in 1..Len(text) /\ ~Unbracketed
      BY <1>1, <2>3, CharType DEF NUL, Unbracketed
    <3>8. Ready("FILTER", p, l)
      BY <3>5, <3>6 DEF Ready
    <3> HIDE DEF l
    <3>9. p \in 0..Len(text) + 1
      BY <2>2
    <3> QED BY <2>1, <3>1, <3>5, <3>7, <3>8, <3>9, LeaveInv DEF States
  <2>4. CASE Char(p) # "["
    <3>1. Leave("ERROR", p, level)
      BY <1>5, <2>2, <2>4 DEF AttributeDo
    <3>2. p \in 0..Len(text) + 1 /\ Ready("ERROR", p, level)
      BY <1>1, <2>2 DEF Ready
    <3> QED BY <2>1, <3>1, <3>2, LeaveInv DEF States
  <2> QED BY <2>3, <2>4
<1>6. CASE FilterEnd
  <2>1. /\ Going /\ UNCHANGED <<op, text>> /\ level \in LevelType(S)
        /\ AllFull(level) /\ Whole(level) /\ Leave(After(pos + 1), pos + 1, level)
    BY <1>6 DEF FilterEnd, Inv, Ready, TypeInv, Opened, AllFull
  <2>2. pos \in 1..Len(text)
    BY <1>1, <1>6, CharType DEF FilterEnd, NUL
  <2>3. After(pos + 1) \in {"ATTRIBUTE", "NEXT"}
    BY AfterState
  <2>4. After(pos + 1) # "NEXT" => Ready(After(pos + 1), pos + 1, level)
    BY <2>1, <2>3 DEF Ready
  <2>5. pos + 1 \in 0..Len(text) + 1 /\ After(pos + 1) \in States \ {"START"}
    BY <2>2, <2>3, <1>1 DEF States
  <2> QED BY <2>1, <2>3, <2>4, <2>5, LeaveInv
<1>7. CASE ReadComparator
  <2> DEFINE r == ReadFilter(pos + 1)
             cs == <<r.comp>> \o level.filters[1].comparators
             l == [level EXCEPT !.filters[1].comparators = cs]
  <2>1. /\ Going /\ UNCHANGED <<op, text>> /\ level \in LevelType(S) /\ ~Unbracketed
        /\ Opened(level, pos) /\ Whole(level) /\ state = "FILTER"
    BY <1>7 DEF ReadComparator, Inv, Ready, TypeInv
  <2>2. r.comp \in Comparator(S) /\ r.pos \in Nat
    <3>1. pos + 1 \in Nat
      BY <1>1
    <3> QED BY <1>1, <3>1, FilterType
  <2>3. \/ beyond' = TRUE /\ UNCHANGED <<pos, state, level, tree>>
        \/ r.pos <= Len(text) /\ (Leave("FILTER", r.pos, l) \/ Leave("ERROR", r.pos + 1, l))
    <3>1. r.pos > Len(text) \/ r.pos <= Len(text)
      BY <1>1, <2>2
    <3> QED BY <1>7, <3>1, Zenon DEF ReadComparator
  <2> HIDE DEF r
  <2>4. /\ level.filters \in Seq(Filter(S)) /\ 1 \in DOMAIN level.filters
        /\ level.filters[1] \in Filter(S)
    <3>1. level.filters \in Seq(Filter(S)) /\ level.filters # <<>>
      BY <2>1 DEF LevelType, Opened
    <3> QED BY <3>1
  <2>5. cs \in Seq(Comparator(S)) /\ cs # <<>>
    <3>1. level.filters[1].comparators \in Seq(Comparator(S))
      BY <2>4 DEF Filter
    <3> QED BY <2>2, <3>1, PushType
  <2> HIDE DEF cs
  <2> DEFINE fs == [level.filters EXCEPT ![1].comparators = cs]
  <2>6. /\ fs \in Seq(Filter(S)) /\ fs # <<>>
        /\ \A j \in DOMAIN fs : fs[j].comparators # <<>>
    <3>1. [level.filters[1] EXCEPT !.comparators = cs] \in Filter(S)
      BY <2>4, <2>5 DEF Filter
    <3>2. /\ fs \in Seq(Filter(S)) /\ Len(fs) = Len(level.filters)
          /\ DOMAIN fs = DOMAIN level.filters
      BY <2>4, <3>1
    <3>3. fs[1].comparators = cs
      BY <2>4 DEF Filter
    <3>4. \A j \in DOMAIN fs : j # 1 => fs[j] = level.filters[j] /\ j > 1
      BY <2>4, <3>2
    <3> HIDE DEF fs
    <3> QED BY <2>1, <2>4, <2>5, <3>2, <3>3, <3>4 DEF Opened
  <2>7. l \in LevelType(S) /\ l.place = level.place /\ l.filters = fs /\ Whole(l)
    <3>1. l = [level EXCEPT !.filters = fs]
      BY <2>1 DEF LevelType
    <3> HIDE DEF fs, l
    <3> QED BY <2>1, <2>6, <3>1 DEF LevelType, Whole
  <2> HIDE DEF l, fs
  <2>8. AllFull(l) /\ \A p : Opened(l, p)
    BY <2>6, <2>7 DEF AllFull, Opened
  <2>9. CASE beyond' = TRUE /\ UNCHANGED <<pos, state, level, tree>>
    <3>1. TypeInv(S)'
      BY <2>1, <2>9 DEF Inv, TypeInv
    <3>2. Ready(state, pos, level)' /\ PutAway'
      BY <2>1, <2>9 DEF Inv, Ready, PutAway, Opened, Fresh, Whole, AllFull, Char
    <3>3. ~Unbracketed'
      BY <2>1 DEF Unbracketed
    <3> QED BY <3>1, <3>2, <3>3 DEF Inv
  <2>10. CASE r.pos <= Len(text) /\ Leave("FILTER", r.pos, l)
    <3>1. r.pos \in 0..Len(text) + 1 /\ Ready("FILTER", r.pos, l)
      BY <1>1, <2>2, <2>7, <2>8, <2>10 DEF Ready
    <3> QED BY <2>1, <2>7, <2>8, <2>10, <3>1, LeaveInv DEF States
  <2>11. CASE r.pos <= Len(text) /\ Leave("ERROR", r.pos + 1, l)
    <3>1. r.pos + 1 \in 0..Len(text) + 1 /\ Ready("ERROR", r.pos + 1, l)
      BY <1>1, <2>2, <2>11 DEF Ready
    <3> QED BY <2>1, <2>7, <2>8, <2>11, <3>1, LeaveInv DEF States
  <2> QED BY <2>3, <2>9, <2>10, <2>11
<1>8. CASE UNCHANGED vars
  BY <1>8 DEF vars, Inv, TypeInv, Ready, PutAway, Opened, Fresh, Whole, AllFull, Char, Unbracketed
<1> QED BY <1>2, <1>3, <1>4, <1>5, <1>6, <1>7, <1>8 DEF Step

-----------------------------------------------------------------------------
LEMMA AlwaysInv ==
    ASSUME NEW S, NEW commands, \A c \in commands : c.text \in Seq(S)
    PROVE  Spec(commands) => []Inv(S)
<1>1. InitFor(commands) => Inv(S)
  BY InitInv
<1>2. Inv(S) /\ [Step]_vars => Inv(S)'
  BY StepInv
<1> QED BY <1>1, <1>2, PTL DEF Spec

(***************************************************************************)
(* Whatever texts are given to parse, of whatever symbols and lengths, the *)
(* view that it returns is a whole one: see Complete.                      *)
(***************************************************************************)
THEOREM ViewIsComplete ==
    ASSUME NEW S, NEW commands, \A c \in commands : c.text \in Seq(S)
    PROVE  Spec(commands) => []Complete
<1>1. Inv(S) => Complete
  BY DEF Inv, PutAway, AllFull, Whole, Complete, Done
<1>2. Spec(commands) => []Inv(S)
  BY AlwaysInv
<1> QED BY <1>1, <1>2, PTL

(***************************************************************************)
(* A command with an operation and without a bracket is never read behind  *)
(* its terminator, however long it is: see StaysInText.                    *)
(***************************************************************************)
THEOREM NeverBehindTheText ==
    ASSUME NEW S, NEW commands, \A c \in commands : c.text \in Seq(S)
    PROVE  Spec(commands) => []StaysInText
<1>1. Inv(S) => StaysInText
  BY DEF Inv, TypeInv, Unbracketed, StaysInText
<1>2. Spec(commands) => []Inv(S)
  BY AlwaysInv
<1> QED BY <1>1, <1>2, PTL

-----------------------------------------------------------------------------
\* The parts from the k-th on: the k-th, and the parts after it.
LEMMA JoinedParts ==
    ASSUME NEW S, NEW parts \in Seq(Seq(S)), NEW k \in 1..Len(parts) + 1
    PROVE  /\ Joined(parts, k) \in Seq(S)
           /\ k <= Len(parts) => Joined(parts, k) = Then(parts[k], Joined(parts, k + 1))
           /\ k > Len(parts) => Joined(parts, k) = <<>>
           /\ k = 1 => Joined(parts, k) = FlattenSeq(parts)
<1> DEFINE ss == SubSeq(parts, k, Len(parts))
<1>1. /\ Len(parts) \in Nat /\ ss \in Seq(Seq(S))
      /\ k > Len(parts) => ss = <<>>
      /\ k = 1 => ss = parts
      /\ k <= Len(parts) => /\ ss # <<>> /\ ss[1] = parts[k]
                            /\ Tail(ss) = SubSeq(parts, k + 1, Len(parts))
  <2>1. Len(parts) \in Nat /\ ss \in Seq(Seq(S)) /\ (k > Len(parts) => ss = <<>>)
    OBVIOUS
  <2>2. k = 1 => ss = parts
    BY SubSeqFull
  <2>3. ASSUME k <= Len(parts)
        PROVE  ss # <<>> /\ ss[1] = parts[k] /\ Tail(ss) = SubSeq(parts, k + 1, Len(parts))
    <3>1. k \in 1..Len(parts) /\ Len(parts) \in k..Len(parts)
      BY <2>1, <2>3
    <3>2. ss # <<>> /\ ss[1] = parts[k]
      BY <3>1
    <3>3. Tail(ss) = SubSeq(parts, k + 1, Len(parts))
      BY <3>1, HeadTailOfSubSeq
    <3> QED BY <3>2, <3>3
  <2> QED BY <2>1, <2>2, <2>3
<1> HIDE DEF ss
<1>2. Joined(parts, k) = FlattenSeq(ss)
  BY DEF Joined, ss
<1>3. Joined(parts, k) \in Seq(S)
  BY <1>1, <1>2, FlattenType
<1>4. k <= Len(parts) => Joined(parts, k) = Then(parts[k], Joined(parts, k + 1))
  BY <1>1, <1>2, FlattenHead DEF Joined, Then
<1> QED BY <1>1, <1>2, <1>3, <1>4, FlattenEmpty

-----------------------------------------------------------------------------
(***************************************************************************)
(* Lists that are made from their last element on, one text after another, *)
(* and what is left of the text.                                           *)
(***************************************************************************)
\* One more of the first things of s is put before those there are.
LEMMA ReversedMore ==
    ASSUME NEW T, NEW s \in Seq(T), NEW n \in 0..Len(s)
    PROVE  /\ FirstReversed(s, n) \in Seq(T) /\ Len(FirstReversed(s, n)) = n
           /\ n = 0 => FirstReversed(s, n) = <<>>
           /\ n = Len(s) => FirstReversed(s, n) = Reverse(s)
           /\ n < Len(s) => FirstReversed(s, n + 1) = Then(<<s[n + 1]>>, FirstReversed(s, n))
<1>1. Len(s) \in Nat /\ n \in Nat
  OBVIOUS
<1>2. \A m \in 1..n : s[n + 1 - m] \in T
  BY <1>1
<1>3. FirstReversed(s, n) \in Seq(T) /\ Len(FirstReversed(s, n)) = n
  BY <1>1, <1>2 DEF FirstReversed
<1>4. n = 0 => FirstReversed(s, n) = <<>>
  BY <1>3
<1>5. n = Len(s) => FirstReversed(s, n) = Reverse(s)
  <2> SUFFICES ASSUME n = Len(s) PROVE FirstReversed(s, n) = Reverse(s)
    OBVIOUS
  <2>1. \A m \in 1..n : n + 1 - m = (Len(s) - m) + 1
    BY <1>1
  <2> QED BY <2>1 DEF FirstReversed, Reverse
<1>6. ASSUME n < Len(s)
      PROVE  FirstReversed(s, n + 1) = <<s[n + 1]>> \o FirstReversed(s, n)
  <2> DEFINE old == FirstReversed(s, n)
             new == FirstReversed(s, n + 1)
  <2>1. s[n + 1] \in T /\ <<s[n + 1]>> \in Seq(T) /\ Len(<<s[n + 1]>>) = 1
    BY <1>1, <1>6
  <2>2. new \in Seq(T) /\ Len(new) = n + 1 /\ \A m \in 1..n + 1 : new[m] = s[n + 2 - m]
    <3>1. \A m \in 1..n + 1 : s[n + 2 - m] \in T
      BY <1>1, <1>6
    <3> QED BY <1>1, <3>1 DEF FirstReversed
  <2>3. old \in Seq(T) /\ Len(old) = n /\ \A m \in 1..n : old[m] = s[n + 1 - m]
    BY <1>3 DEF FirstReversed
  <2> HIDE DEF old, new
  <2> DEFINE put == <<s[n + 1]>> \o old
  <2>4. put \in Seq(T) /\ Len(put) = n + 1 /\ put[1] = s[n + 1]
        /\ \A m \in 2..n + 1 : put[m] = old[m - 1]
    BY <1>1, <2>1, <2>3
  <2>5. \A m \in 1..n + 1 : new[m] = put[m]
    <3> HIDE DEF put
    <3> SUFFICES ASSUME NEW m \in 1..n + 1 PROVE new[m] = put[m]
      OBVIOUS
    <3>1. CASE m = 1
      <4>1. n + 2 - m = n + 1
        BY <1>1, <3>1
      <4> QED BY <2>2, <2>4, <3>1, <4>1
    <3>2. CASE m # 1
      <4>1. m \in 2..n + 1 /\ m - 1 \in 1..n /\ n + 1 - (m - 1) = n + 2 - m
        BY <1>1, <3>2
      <4> QED BY <2>2, <2>3, <2>4, <4>1
    <3> QED BY <3>1, <3>2
  <2>6. new = put
    <3> HIDE DEF put
    <3> QED BY <1>1, <2>2, <2>4, <2>5, SeqEqual
  <2> QED BY <2>6 DEF new, put, old
<1>7. n < Len(s) => FirstReversed(s, n + 1) = Then(<<s[n + 1]>>, FirstReversed(s, n))
  BY <1>6, Zenon DEF Then
<1> QED BY <1>1, <1>3, <1>4, <1>5, <1>7

-----------------------------------------------------------------------------
LEMMA ThenType ==
    ASSUME NEW S, NEW s \in Seq(S), NEW t \in Seq(S)
    PROVE  Then(s, t) \in Seq(S)
BY DEF Then

LEMMA ThenThen ==
    ASSUME NEW S, NEW s \in Seq(S), NEW t \in Seq(S), NEW u \in Seq(S)
    PROVE  Then(Then(s, t), u) = Then(s, Then(t, u))
BY ConcatAssociative DEF Then

LEMMA ThenNothing ==
    ASSUME NEW S, NEW s \in Seq(S)
    PROVE  Then(<<>>, s) = s /\ Then(s, <<>>) = s
BY ConcatEmptySeq DEF Then

\* Two texts are the same only when they begin and go on alike.
LEMMA ThenSame ==
    ASSUME NEW S, NEW c \in S, NEW d \in S, NEW s \in Seq(S), NEW t \in Seq(S),
           Then(<<c>>, s) = Then(<<d>>, t)
    PROVE  c = d /\ s = t
<1>1. (<<c>> \o s)[1] = c /\ (<<d>> \o t)[1] = d
  OBVIOUS
<1>2. Tail(<<c>> \o s) = s /\ Tail(<<d>> \o t) = t
  OBVIOUS
<1> QED BY <1>1, <1>2, Zenon DEF Then

LEMMA ThenSome ==
    ASSUME NEW S, NEW c \in S, NEW s \in Seq(S)
    PROVE  Then(<<c>>, s) # <<>>
<1>1. Len(<<c>> \o s) # 0
  OBVIOUS
<1> QED BY <1>1 DEF Then

LEMMA RestType ==
    ASSUME NEW S, text \in Seq(S), "/" \in S, NEW p \in 0..Len(text) + 1
    PROVE  Rest(p) \in Seq(S)
<1>1. CASE p = 0
  BY <1>1 DEF Rest
<1>2. CASE p # 0
  <2>1. SubSeq(text, p, Len(text)) \in Seq(S)
    BY <1>2
  <2> QED BY <1>2, <2>1 DEF Rest
<1> QED BY <1>1, <1>2

\* The next symbol of the text.
LEMMA RestNext ==
    ASSUME NEW S, text \in Seq(S), "/" \in S, NEW p \in 0..Len(text) + 1,
           NEW c \in S, NEW s \in Seq(S), Rest(p) = Then(<<c>>, s)
    PROVE  p <= Len(text) /\ Char(p) = c /\ p + 1 \in 1..Len(text) + 1 /\ Rest(p + 1) = s
<1>1. Len(text) \in Nat
  OBVIOUS
<1>2. CASE p = 0
  <2>1. Rest(p) = Then(<<"/">>, text)
    BY <1>2, Zenon DEF Rest, Then
  <2>2. c = "/" /\ s = text
    BY <2>1, ThenSame
  <2>3. Rest(1) = text
    BY SubSeqFull DEF Rest
  <2> QED BY <1>1, <1>2, <2>2, <2>3 DEF Char
<1>3. CASE p \in 1..Len(text)
  <2>1. Rest(p) = Then(<<text[p]>>, SubSeq(text, p + 1, Len(text)))
    <3>1. Len(text) \in p..Len(text)
      BY <1>1, <1>3
    <3>2. p # 0
      BY <1>3
    <3> QED BY <1>3, <3>1, <3>2, SubSeqRecursiveFirst DEF Rest, Then
  <2>2. text[p] \in S /\ SubSeq(text, p + 1, Len(text)) \in Seq(S)
    BY <1>1, <1>3
  <2>3. c = text[p] /\ s = SubSeq(text, p + 1, Len(text))
    <3> DEFINE d == text[p]
               t == SubSeq(text, p + 1, Len(text))
    <3>1. d \in S /\ t \in Seq(S) /\ Then(<<c>>, s) = Then(<<d>>, t)
      BY <2>1, <2>2, Zenon
    <3> HIDE DEF d, t
    <3>2. c = d /\ s = t
      BY <3>1, ThenSame
    <3> QED BY <3>2, Zenon DEF d, t
  <2>4. Char(p) = text[p] /\ Rest(p + 1) = SubSeq(text, p + 1, Len(text))
    BY <1>1, <1>3 DEF Char, Rest
  <2> QED BY <1>1, <1>3, <2>3, <2>4
<1>4. CASE p = Len(text) + 1
  <2>1. Rest(p) = <<>>
    BY <1>1, <1>4, SubSeqEmpty DEF Rest
  <2> QED BY <2>1, ThenSome
<1> QED BY <1>1, <1>2, <1>3, <1>4

\* Where nothing is left the terminator is next.
LEMMA RestEnd ==
    ASSUME NEW S, text \in Seq(S), "/" \in S, NEW p \in 0..Len(text) + 1, Rest(p) = <<>>
    PROVE  p = Len(text) + 1 /\ Char(p) = NUL
<1>1. Len(text) \in Nat
  OBVIOUS
<1>2. p # 0
  <2>1. Then(<<"/">>, text) # <<>>
    BY ThenSome
  <2> QED BY <2>1, Zenon DEF Rest, Then
<1>3. SubSeq(text, p, Len(text)) = <<>>
  BY <1>2 DEF Rest
<1>4. p > Len(text)
  <2> SUFFICES ASSUME p <= Len(text) PROVE FALSE
    BY <1>1
  <2>1. Len(SubSeq(text, p, Len(text))) = Len(text) - p + 1
    BY <1>1, <1>2
  <2> QED BY <1>1, <1>3, <2>1
<1> QED BY <1>1, <1>2, <1>4 DEF Char

\* A mark that is there, or is not.
LEMMA RestMark ==
    ASSUME NEW S, text \in Seq(S), "/" \in S, "!" \in S, NEW p \in 1..Len(text) + 1,
           NEW b \in BOOLEAN, NEW c \in S, c # "!", NEW s \in Seq(S),
           Rest(p) = Then(Mark(b), Then(<<c>>, s))
    PROVE  /\ Skip(p, "!") \in 1..Len(text)
           /\ Skip(p, "!") # p <=> b
           /\ Char(Skip(p, "!")) = c
           /\ Rest(Skip(p, "!")) = Then(<<c>>, s)
           /\ Rest(Skip(p, "!") + 1) = s
           /\ Char(p) = IF b THEN "!" ELSE c
<1> DEFINE t == Then(<<c>>, s)
<1>1. Len(text) \in Nat /\ p \in 0..Len(text) + 1 /\ t \in Seq(S)
  <2> DEFINE one == <<c>>
  <2>1. one \in Seq(S)
    OBVIOUS
  <2> HIDE DEF one
  <2>2. Then(one, s) \in Seq(S)
    BY <2>1, ThenType
  <2> QED BY <2>2 DEF one
<1> HIDE DEF t
<1>2. CASE b
  <2> DEFINE q == p + 1
  <2>1. Rest(p) = Then(<<"!">>, t)
    BY <1>2 DEF Mark, t
  <2>2. Char(p) = "!" /\ q \in 1..Len(text) + 1 /\ Rest(q) = t
    BY <1>1, <2>1, RestNext
  <2>3. Skip(p, "!") = q
    BY <2>2 DEF Skip
  <2>4. q \in 0..Len(text) + 1
    BY <2>2
  <2>5. q # p
    OBVIOUS
  <2> HIDE DEF q
  <2>6. q <= Len(text) /\ Char(q) = c /\ Rest(q + 1) = s
    BY <2>2, <2>4, RestNext DEF t
  <2> QED BY <1>2, <2>2, <2>3, <2>5, <2>6 DEF t
<1>3. CASE ~b
  <2>1. Rest(p) = t
    BY <1>1, <1>3, ThenNothing DEF Mark, t
  <2>2. p <= Len(text) /\ Char(p) = c /\ Rest(p + 1) = s
    BY <1>1, <2>1, RestNext DEF t
  <2>3. Skip(p, "!") = p
    BY <2>2 DEF Skip
  <2> QED BY <1>3, <2>1, <2>2, <2>3 DEF t
<1> QED BY <1>2, <1>3

-----------------------------------------------------------------------------
(***************************************************************************)
(* An operand and a comparator: their texts, and that read_operator and    *)
(* read_filter make from the text what was written.                        *)
(***************************************************************************)
Written(Signs) ==
    Signs \cup Names \cup Numbers \cup {"/", "!", "*", "[", "]", "|", "@", "'"}

LEMMA WrittenSymbols ==
    ASSUME NEW Signs
    PROVE  /\ \A c \in {"/", "!", "*", "[", "]", "|", "@", "'"} : c \in Written(Signs)
           /\ Signs \subseteq Written(Signs)
           /\ Names \subseteq Written(Signs)
           /\ Numbers \subseteq Written(Signs)
BY DEF Written

LEMMA MarkType ==
    ASSUME NEW Signs, NEW b \in BOOLEAN
    PROVE  Mark(b) \in Seq(Written(Signs))
<1>1. "!" \in Written(Signs)
  BY WrittenSymbols
<1> QED BY <1>1 DEF Mark

LEMMA OperandTextType ==
    ASSUME NEW Signs, NEW o \in EveryOperand
    PROVE  OperandText(o) \in Seq(Written(Signs))
<1>1. o.value \in Written(Signs) /\ "'" \in Written(Signs)
  BY WrittenSymbols DEF EveryOperand
<1> QED BY <1>1 DEF OperandText

\* What is compared, in its three parts.
LEMMA ComparisonText ==
    ASSUME NEW Signs, NEW c \in EveryComparator(Signs), ~c.is_true
    PROVE  /\ c.op1 \in EveryOperand /\ c.op2 \in EveryOperand /\ c.operation \in Signs
           /\ c.negative \in BOOLEAN
           /\ c = [negative |-> c.negative, is_true |-> FALSE,
                   op1 |-> c.op1, operation |-> c.operation, op2 |-> c.op2]
           /\ ComparatorText(c) =
                  Then(Mark(c.negative),
                       Then(OperandText(c.op1), Then(<<c.operation>>, OperandText(c.op2))))
<1>1. c \in [negative : BOOLEAN, is_true : {FALSE},
             op1 : EveryOperand, operation : Signs, op2 : EveryOperand]
  <2>1. \A negative \in BOOLEAN : IsTrue(negative).is_true
    BY DEF IsTrue
  <2>2. c \notin {IsTrue(negative) : negative \in BOOLEAN}
    BY <2>1
  <2> QED BY <2>2 DEF EveryComparator
<1>2. /\ c.op1 \in EveryOperand /\ c.op2 \in EveryOperand /\ c.operation \in Signs
      /\ c.negative \in BOOLEAN
      /\ c = [negative |-> c.negative, is_true |-> FALSE,
              op1 |-> c.op1, operation |-> c.operation, op2 |-> c.op2]
  BY <1>1
<1> DEFINE a == OperandText(c.op1)
           b == <<c.operation>>
           d == OperandText(c.op2)
<1>3. a \in Seq(Written(Signs)) /\ d \in Seq(Written(Signs))
  BY <1>2, OperandTextType
<1>4. b \in Seq(Written(Signs))
  BY <1>2, WrittenSymbols
<1>5. ComparatorText(c) = Then(Mark(c.negative), Then(Then(a, b), d))
  BY Zenon DEF ComparatorText, Then
<1> HIDE DEF a, b, d
<1>6. Then(Then(a, b), d) = Then(a, Then(b, d))
  BY <1>3, <1>4, ThenThen
<1> QED BY <1>2, <1>5, <1>6, Zenon DEF a, b, d

\* Whether anything is there.
LEMMA TrueText ==
    ASSUME NEW Signs, NEW c \in EveryComparator(Signs), c.is_true
    PROVE  /\ c.negative \in BOOLEAN
           /\ c = [negative |-> c.negative, is_true |-> TRUE,
                   op1 |-> None, operation |-> None, op2 |-> None]
           /\ ComparatorText(c) = Then(Mark(c.negative), <<"@">>)
<1>1. PICK n \in BOOLEAN : c = IsTrue(n)
  <2>1. c \notin [negative : BOOLEAN, is_true : {FALSE},
                 op1 : EveryOperand, operation : Signs, op2 : EveryOperand]
    OBVIOUS
  <2> QED BY <2>1 DEF EveryComparator
<1> QED BY <1>1 DEF IsTrue, ComparatorText, Then

LEMMA ComparatorTextType ==
    ASSUME NEW Signs, NEW c \in EveryComparator(Signs)
    PROVE  ComparatorText(c) \in Seq(Written(Signs))
<1>1. Mark(c.negative) \in Seq(Written(Signs))
  BY MarkType, ComparisonText, TrueText
<1>2. CASE ~c.is_true
  <2> DEFINE a == OperandText(c.op1)
             b == <<c.operation>>
             e == OperandText(c.op2)
  <2>1. a \in Seq(Written(Signs)) /\ e \in Seq(Written(Signs)) /\ c.operation \in Written(Signs)
    BY <1>2, ComparisonText, OperandTextType, WrittenSymbols
  <2>2. b \in Seq(Written(Signs))
    BY <2>1
  <2>3. ComparatorText(c) = Then(Mark(c.negative), Then(a, Then(b, e)))
    BY <1>2, ComparisonText
  <2> HIDE DEF a, b, e
  <2> QED BY <1>1, <2>1, <2>2, <2>3, ThenType
<1>3. CASE c.is_true
  <2> DEFINE a == <<"@">>
  <2>1. a \in Seq(Written(Signs))
    BY WrittenSymbols
  <2>2. ComparatorText(c) = Then(Mark(c.negative), a)
    BY <1>3, TrueText
  <2> HIDE DEF a
  <2> QED BY <1>1, <2>1, <2>2, ThenType
<1> QED BY <1>2, <1>3

-----------------------------------------------------------------------------
(***************************************************************************)
(* read_operator and read_filter make what was written.                    *)
(***************************************************************************)
LEMMA OperandRead ==
    ASSUME NEW Signs, text \in Seq(Written(Signs)), NEW p \in 0..Len(text) + 1,
           NEW o \in EveryOperand, NEW s \in Seq(Written(Signs)),
           Rest(p) = Then(OperandText(o), s)
    PROVE  /\ ReadOperator(p).op = o
           /\ ReadOperator(p).pos \in 0..Len(text) + 1
           /\ Rest(ReadOperator(p).pos) = s
<1> DEFINE W == Written(Signs)
           q == p + 1
<1>1. o.value \in W /\ "'" \in W /\ "/" \in W
  BY WrittenSymbols DEF EveryOperand
<1>2. o = [field |-> o.field, value |-> o.value]
  BY DEF EveryOperand
<1>3. CASE o.field \/ o.value \in Numbers
  <2>1. Rest(p) = Then(<<o.value>>, s)
    BY <1>3 DEF OperandText
  <2>2. Char(p) = o.value /\ q \in 1..Len(text) + 1 /\ Rest(q) = s
    BY <1>1, <2>1, RestNext
  <2>3. q \in 0..Len(text) + 1
    BY <2>2
  <2>4. CASE o.field
    <3>1. o.value \in Names /\ o.value \notin Numbers /\ o.value # "'"
      BY <2>4, SymbolsAssumption DEF EveryOperand
    <3>2. Skip(p, "'") = p
      BY <2>2, <3>1 DEF Skip
    <3>3. ReadOperator(p) = [op |-> [field |-> TRUE, value |-> o.value], pos |-> q]
      BY <2>2, <3>1, <3>2 DEF ReadOperator
    <3> HIDE DEF q
    <3> QED BY <1>2, <2>2, <2>3, <2>4, <3>3 DEF EveryOperand
  <2>5. CASE ~o.field
    <3>1. ReadOperator(p) = [op |-> [field |-> FALSE, value |-> o.value], pos |-> q]
      BY <1>3, <2>2, <2>5 DEF ReadOperator
    <3> HIDE DEF q
    <3> QED BY <1>2, <2>2, <2>3, <2>5, <3>1 DEF EveryOperand
  <2> QED BY <2>4, <2>5
<1>4. CASE ~o.field /\ o.value \notin Numbers
  <2> DEFINE t == Then(<<o.value>>, s)
  <2>1. Rest(p) = Then(<<"'">>, t) /\ t \in Seq(W)
    <3> DEFINE a == <<"'">>
               b == <<o.value>>
    <3>1. a \in Seq(W) /\ b \in Seq(W)
      BY <1>1
    <3>2. OperandText(o) = Then(a, b)
      BY <1>4 DEF OperandText, Then
    <3> HIDE DEF a, b
    <3>3. Then(Then(a, b), s) = Then(a, Then(b, s)) /\ Then(b, s) \in Seq(W)
      BY <3>1, ThenThen, ThenType
    <3> QED BY <3>2, <3>3, Zenon DEF a, b
  <2>2. Char(p) = "'" /\ q \in 1..Len(text) + 1 /\ Rest(q) = t
    BY <1>1, <2>1, RestNext
  <2>3. Skip(p, "'") = q
    BY <2>2 DEF Skip
  <2>4. Char(q) = o.value /\ q + 1 \in 0..Len(text) + 1 /\ Rest(q + 1) = s
    <3>1. Rest(q) = Then(<<o.value>>, s)
      BY <2>2, Zenon DEF t
    <3>2. q \in 0..Len(text) + 1
      BY <2>2
    <3> HIDE DEF q
    <3>3. q + 1 \in 1..Len(text) + 1 /\ Char(q) = o.value /\ Rest(q + 1) = s
      BY <1>1, <3>1, <3>2, RestNext
    <3> QED BY <3>3
  <2>5. "'" \notin Numbers /\ o.value \in Names
    BY <1>4, SymbolsAssumption DEF EveryOperand
  <2>6. q # p
    OBVIOUS
  <2> HIDE DEF q
  <2>7. ReadOperator(p) = [op |-> [field |-> FALSE, value |-> o.value], pos |-> q + 1]
    BY <2>2, <2>3, <2>4, <2>5, <2>6 DEF ReadOperator
  <2> QED BY <1>2, <1>4, <2>4, <2>7 DEF EveryOperand
<1> QED BY <1>3, <1>4

\* An operand begins with a symbol that is neither ! nor @.
Unmarked(z, S) ==
    \E c \in S, t \in Seq(S) : c \notin {"!", "@"} /\ z = Then(<<c>>, t)

LEMMA OperandBegins ==
    ASSUME NEW Signs, NEW o \in EveryOperand, NEW s \in Seq(Written(Signs))
    PROVE  Unmarked(Then(OperandText(o), s), Written(Signs))
<1> DEFINE W == Written(Signs)
<1> USE DEF Unmarked
<1>1. \A c \in Names \cup Numbers \cup {"'"} : c \in W /\ c \notin {"!", "@"}
  BY WrittenSymbols, SymbolsAssumption
<1>2. o.value \in Names \cup Numbers
  BY DEF EveryOperand
<1>3. CASE o.field \/ o.value \in Numbers
  <2>1. OperandText(o) = <<o.value>>
    BY <1>3 DEF OperandText
  <2> QED BY <1>1, <1>2, <2>1, Zenon
<1>4. CASE ~(o.field \/ o.value \in Numbers)
  <2> DEFINE a == <<"'">>
             b == <<o.value>>
  <2>1. a \in Seq(W) /\ b \in Seq(W)
    BY <1>1, <1>2
  <2>2. OperandText(o) = Then(a, b)
    BY <1>4 DEF OperandText, Then
  <2> HIDE DEF a, b
  <2>3. Then(Then(a, b), s) = Then(a, Then(b, s)) /\ Then(b, s) \in Seq(W)
    BY <2>1, ThenThen, ThenType
  <2>4. "'" \in W /\ "'" \notin {"!", "@"}
    BY <1>1
  <2> QED BY <2>2, <2>3, <2>4, Zenon DEF a
<1> QED BY <1>3, <1>4

\* read_filter makes of a comparator's text that comparator, and stops behind it.
LEMMA ComparatorRead ==
    ASSUME NEW Signs, text \in Seq(Written(Signs)), NEW p \in 1..Len(text) + 1,
           NEW c \in EveryComparator(Signs), NEW s \in Seq(Written(Signs)),
           Rest(p) = Then(ComparatorText(c), s)
    PROVE  /\ ReadFilter(p).comp = c
           /\ ReadFilter(p).pos \in 0..Len(text) + 1
           /\ Rest(ReadFilter(p).pos) = s
<1> DEFINE W == Written(Signs)
           q == Skip(p, "!")
           m == Mark(c.negative)
<1>1. "/" \in W /\ "!" \in W /\ "@" \in W /\ Len(text) \in Nat
  BY WrittenSymbols
<1>2. c.negative \in BOOLEAN /\ m \in Seq(W)
  BY ComparisonText, TrueText, MarkType
<1>3. CASE c.is_true
  <2> DEFINE a == <<"@">>
  <2>1. a \in Seq(W)
    BY <1>1
  <2>2. Rest(p) = Then(m, Then(a, s))
    <3>1. ComparatorText(c) = Then(m, a)
      BY <1>3, TrueText
    <3> HIDE DEF a, m
    <3>2. Then(Then(m, a), s) = Then(m, Then(a, s))
      BY <1>2, <2>1, ThenThen
    <3> QED BY <3>1, <3>2, Zenon
  <2>3. /\ q \in 1..Len(text) /\ (q # p <=> c.negative) /\ Char(q) = "@"
        /\ Rest(q + 1) = s
    BY <1>1, <1>2, <2>2, RestMark
  <2>4. ReadFilter(p) = [comp |-> [negative |-> q # p, is_true |-> TRUE,
                                   op1 |-> None, operation |-> None, op2 |-> None],
                         pos |-> q + 1]
    BY <2>3 DEF ReadFilter
  <2>5. c = [negative |-> c.negative, is_true |-> TRUE,
             op1 |-> None, operation |-> None, op2 |-> None]
    BY <1>3, TrueText
  <2>6. (q # p) = c.negative
    BY <1>2, <2>3
  <2> HIDE DEF q
  <2>7. q + 1 \in 0..Len(text) + 1
    BY <1>1, <2>3
  <2>8. ReadFilter(p).comp = c /\ ReadFilter(p).pos = q + 1
    BY <2>4, <2>5, <2>6
  <2> QED BY <2>3, <2>7, <2>8
<1>4. CASE ~c.is_true
  <2> DEFINE a == OperandText(c.op1)
             b == <<c.operation>>
             d == OperandText(c.op2)
             x == ReadOperator(q)
             y == ReadOperator(x.pos + 1)
             u == Then(d, s)
             t == Then(b, u)
  <2>1. /\ c.op1 \in EveryOperand /\ c.op2 \in EveryOperand /\ c.operation \in W
        /\ ComparatorText(c) = Then(m, Then(a, Then(b, d)))
    BY <1>4, ComparisonText, WrittenSymbols
  <2>2. a \in Seq(W) /\ b \in Seq(W) /\ d \in Seq(W)
    <3>1. a \in Seq(W) /\ d \in Seq(W)
      BY <2>1, OperandTextType
    <3>2. b \in Seq(W)
      BY <2>1
    <3> QED BY <3>1, <3>2, Zenon
  <2> HIDE DEF a, b, d, m
  <2>3. u \in Seq(W) /\ t \in Seq(W) /\ Rest(p) = Then(m, Then(a, t))
    <3>1. u \in Seq(W) /\ t \in Seq(W) /\ Then(b, d) \in Seq(W) /\ Then(a, Then(b, d)) \in Seq(W)
      BY <2>2, ThenType
    <3>2. Then(Then(m, Then(a, Then(b, d))), s) = Then(m, Then(Then(a, Then(b, d)), s))
      BY <1>2, <3>1, ThenThen
    <3>3. Then(Then(a, Then(b, d)), s) = Then(a, Then(Then(b, d), s))
      BY <2>2, <3>1, ThenThen
    <3>4. Then(Then(b, d), s) = t
      BY <2>2, ThenThen
    <3> QED BY <2>1, <3>1, <3>2, <3>3, <3>4, Zenon
  <2> HIDE DEF t, u
  <2>4. PICK v \in W, w \in Seq(W) : v \notin {"!", "@"} /\ Then(a, t) = Then(<<v>>, w)
    <3>1. c.op1 \in EveryOperand /\ t \in Seq(Written(Signs))
      BY <2>1, <2>3
    <3> HIDE DEF x, y, q
    <3>2. Unmarked(Then(OperandText(c.op1), t), W)
      BY <3>1, OperandBegins
    <3> QED BY <3>2, Zenon DEF a, Unmarked
  <2>5. /\ q \in 1..Len(text) /\ (q # p <=> c.negative) /\ Char(q) = v
        /\ Rest(q) = Then(a, t)
    <3>1. Rest(p) = Then(Mark(c.negative), Then(<<v>>, w)) /\ v # "!"
      BY <2>3, <2>4 DEF m
    <3>2. /\ q \in 1..Len(text) /\ (q # p <=> c.negative) /\ Char(q) = v
          /\ Rest(q) = Then(<<v>>, w)
      BY <1>1, <1>2, <3>1, RestMark
    <3> QED BY <2>4, <3>2, Zenon
  <2> HIDE DEF q
  <2>6. x.op = c.op1 /\ x.pos \in 0..Len(text) + 1 /\ Rest(x.pos) = t
    <3>1. q \in 0..Len(text) + 1
      BY <2>5
    <3> QED BY <2>1, <2>3, <2>5, <3>1, OperandRead DEF a
  <2> HIDE DEF x
  <2>7. Char(x.pos) = c.operation /\ x.pos + 1 \in 0..Len(text) + 1 /\ Rest(x.pos + 1) = u
    <3>1. Rest(x.pos) = Then(<<c.operation>>, u)
      BY <2>6, Zenon DEF t, b
    <3>2. x.pos + 1 \in 1..Len(text) + 1 /\ Char(x.pos) = c.operation /\ Rest(x.pos + 1) = u
      BY <1>1, <2>1, <2>3, <2>6, <3>1, RestNext
    <3> QED BY <3>2
  <2>8. y.op = c.op2 /\ y.pos \in 0..Len(text) + 1 /\ Rest(y.pos) = s
    <3>1. Rest(x.pos + 1) = Then(OperandText(c.op2), s)
      BY <2>7, Zenon DEF u, d
    <3> QED BY <2>1, <2>7, <3>1, OperandRead
  <2>9. ReadFilter(p) = [comp |-> [negative |-> q # p, is_true |-> FALSE,
                                   op1 |-> x.op, operation |-> Char(x.pos), op2 |-> y.op],
                         pos |-> y.pos]
    BY <2>4, <2>5, Zenon DEF ReadFilter, q, x
  <2> HIDE DEF y
  <2>10. c = [negative |-> c.negative, is_true |-> FALSE,
              op1 |-> c.op1, operation |-> c.operation, op2 |-> c.op2]
    BY <1>4, ComparisonText
  <2>11. (q # p) = c.negative
    BY <1>2, <2>5
  <2>12. ReadFilter(p).comp = c /\ ReadFilter(p).pos = y.pos
    BY <2>6, <2>7, <2>8, <2>9, <2>10, <2>11
  <2> QED BY <2>8, <2>12
<1> QED BY <1>3, <1>4

-----------------------------------------------------------------------------
(***************************************************************************)
(* The texts of filters, levels and queries, as one part after another.    *)
(***************************************************************************)
\* A function on the positions of a sequence is a sequence.
LEMMA Mapped ==
    ASSUME NEW S, NEW T, NEW s \in Seq(T), NEW t, DOMAIN t = DOMAIN s,
           t = [i \in DOMAIN s |-> t[i]], \A i \in DOMAIN s : t[i] \in S
    PROVE  t \in Seq(S) /\ Len(t) = Len(s)
<1>1. DOMAIN s = 1..Len(s) /\ Len(s) \in Nat
  OBVIOUS
<1> QED BY <1>1

LEMMA FilterParts ==
    ASSUME NEW Signs, NEW f \in EveryFilter(Signs)
    PROVE  /\ f.negative \in BOOLEAN
           /\ f.comparators \in Seq(EveryComparator(Signs)) /\ f.comparators # <<>>
           /\ f = [negative |-> f.negative, comparators |-> f.comparators]
BY DEF EveryFilter

LEMMA LevelParts ==
    ASSUME NEW Signs, NEW l \in EveryLevel(Signs)
    PROVE  /\ l.any \in BOOLEAN /\ l.negative \in BOOLEAN
           /\ l.filters \in Seq(EveryFilter(Signs))
           /\ l.any => ~l.negative /\ l.value = None
           /\ ~l.any => l.value \in Numbers
BY DEF EveryLevel

LEMMA QueryParts ==
    ASSUME NEW Signs, NEW q \in EveryQuery(Signs)
    PROVE  /\ q.op \in Operations /\ q.free \in BOOLEAN
           /\ q.levels \in Seq(EveryLevel(Signs)) /\ q.levels # <<>>
BY DEF EveryQuery

LEMMA OneSymbol ==
    ASSUME NEW Signs, NEW c \in {"/", "!", "*", "[", "]", "|", "@", "'"} \cup Numbers
    PROVE  c \in Written(Signs) /\ <<c>> \in Seq(Written(Signs))
BY WrittenSymbols

\* The parts that the text of a filter is made of; and so for a level and a query.
LEMMA ComparatorTextsType ==
    ASSUME NEW Signs, NEW f \in EveryFilter(Signs)
    PROVE  /\ ComparatorTexts(f) \in Seq(Seq(Written(Signs)))
           /\ Len(ComparatorTexts(f)) = Len(f.comparators)
           /\ \A k \in DOMAIN f.comparators :
                 /\ f.comparators[k] \in EveryComparator(Signs)
                 /\ ComparatorTexts(f)[k] =
                        Then(<<IF k = 1 THEN "[" ELSE "|">>, ComparatorText(f.comparators[k]))
<1> DEFINE cs == f.comparators
           ct == ComparatorTexts(f)
           bar(k) == <<IF k = 1 THEN "[" ELSE "|">>
<1>1. cs \in Seq(EveryComparator(Signs))
  BY FilterParts
<1>2. \A k \in DOMAIN cs : cs[k] \in EveryComparator(Signs)
  BY <1>1
<1>3. \A k \in DOMAIN cs : bar(k) \in Seq(Written(Signs))
  BY OneSymbol
<1>4. DOMAIN ct = DOMAIN cs /\ ct = [k \in DOMAIN cs |-> Then(bar(k), ComparatorText(cs[k]))]
  BY Zenon DEF ComparatorTexts, Then
<1> HIDE DEF cs, ct, bar
<1>5. \A k \in DOMAIN cs : Then(bar(k), ComparatorText(cs[k])) \in Seq(Written(Signs))
  BY <1>2, <1>3, ComparatorTextType, ThenType
<1>6. \A k \in DOMAIN cs : ct[k] = Then(bar(k), ComparatorText(cs[k]))
  BY <1>4, Zenon
<1>7. ct \in Seq(Seq(Written(Signs))) /\ Len(ct) = Len(cs)
  <2>1. \A k \in DOMAIN cs : ct[k] \in Seq(Written(Signs))
    BY <1>5, <1>6
  <2>2. ct = [k \in DOMAIN cs |-> ct[k]]
    BY <1>4, Zenon
  <2> QED BY <1>1, <1>4, <2>1, <2>2, Mapped
<1> QED BY <1>2, <1>6, <1>7 DEF cs, ct, bar

LEMMA FilterTextParts ==
    ASSUME NEW Signs, NEW f \in EveryFilter(Signs)
    PROVE  /\ FilterText(f) = Then(Mark(f.negative), Then(Joined(ComparatorTexts(f), 1), <<"]">>))
           /\ FilterText(f) \in Seq(Written(Signs))
<1> DEFINE m == Mark(f.negative)
           ct == ComparatorTexts(f)
           j == Joined(ct, 1)
           e == <<"]">>
<1>1. m \in Seq(Written(Signs)) /\ ct \in Seq(Seq(Written(Signs))) /\ e \in Seq(Written(Signs))
  BY FilterParts, MarkType, ComparatorTextsType, OneSymbol
<1>2. FilterText(f) = Then(Then(m, FlattenSeq(ct)), e)
  BY Zenon DEF FilterText, Then, ComparatorTexts
<1> HIDE DEF m, ct, e
<1>3. 1 \in 1..Len(ct) + 1
  BY <1>1
<1>4. j \in Seq(Written(Signs)) /\ j = FlattenSeq(ct)
  BY <1>1, <1>3, JoinedParts
<1> HIDE DEF j
<1>5. Then(Then(m, j), e) = Then(m, Then(j, e)) /\ Then(m, Then(j, e)) \in Seq(Written(Signs))
  BY <1>1, <1>4, ThenThen, ThenType
<1> QED BY <1>2, <1>4, <1>5, Zenon DEF m, ct, e, j

LEMMA FilterTextsType ==
    ASSUME NEW Signs, NEW l \in EveryLevel(Signs)
    PROVE  /\ FilterTexts(l) \in Seq(Seq(Written(Signs)))
           /\ Len(FilterTexts(l)) = Len(l.filters)
           /\ \A j \in DOMAIN l.filters : /\ l.filters[j] \in EveryFilter(Signs)
                                          /\ FilterTexts(l)[j] = FilterText(l.filters[j])
<1> DEFINE fs == l.filters
           ft == FilterTexts(l)
<1>1. fs \in Seq(EveryFilter(Signs))
  BY LevelParts
<1>2. \A j \in DOMAIN fs : fs[j] \in EveryFilter(Signs)
  BY <1>1
<1>3. DOMAIN ft = DOMAIN fs /\ ft = [j \in DOMAIN fs |-> FilterText(fs[j])]
  BY Zenon DEF FilterTexts
<1> HIDE DEF fs, ft
<1>4. \A j \in DOMAIN fs : ft[j] = FilterText(fs[j]) /\ ft[j] \in Seq(Written(Signs))
  BY <1>2, <1>3, FilterTextParts
<1>5. ft \in Seq(Seq(Written(Signs))) /\ Len(ft) = Len(fs)
  <2>1. ft = [j \in DOMAIN fs |-> ft[j]]
    BY <1>3, Zenon
  <2> QED BY <1>1, <1>3, <1>4, <2>1, Mapped
<1> QED BY <1>2, <1>4, <1>5 DEF fs, ft

IdText(l) == <<IF l.any THEN "*" ELSE l.value>>

LEMMA LevelTextParts ==
    ASSUME NEW Signs, NEW l \in EveryLevel(Signs)
    PROVE  /\ LevelText(l) = Then(Mark(l.negative), Then(IdText(l), Joined(FilterTexts(l), 1)))
           /\ LevelText(l) \in Seq(Written(Signs))
           /\ Mark(l.negative) \in Seq(Written(Signs)) /\ IdText(l) \in Seq(Written(Signs))
           /\ Joined(FilterTexts(l), 1) \in Seq(Written(Signs))
<1> DEFINE m == Mark(l.negative)
           ft == FilterTexts(l)
           j == Joined(ft, 1)
           e == IdText(l)
<1>1. m \in Seq(Written(Signs)) /\ ft \in Seq(Seq(Written(Signs)))
  BY LevelParts, MarkType, FilterTextsType
<1>2. LevelText(l) = Then(Then(m, e), FlattenSeq(ft))
  BY Zenon DEF LevelText, Then, FilterTexts, IdText
<1>3. e \in Seq(Written(Signs))
  BY LevelParts, OneSymbol DEF IdText
<1> HIDE DEF m, ft, e
<1>4. 1 \in 1..Len(ft) + 1
  BY <1>1
<1>5. j \in Seq(Written(Signs)) /\ j = FlattenSeq(ft)
  BY <1>1, <1>4, JoinedParts
<1> HIDE DEF j
<1>6. Then(Then(m, e), j) = Then(m, Then(e, j)) /\ Then(m, Then(e, j)) \in Seq(Written(Signs))
  BY <1>1, <1>3, <1>5, ThenThen, ThenType
<1> QED BY <1>1, <1>2, <1>3, <1>5, <1>6, Zenon DEF m, ft, e, j

LEMMA LevelTextsType ==
    ASSUME NEW Signs, NEW q \in EveryQuery(Signs)
    PROVE  /\ LevelTexts(q) \in Seq(Seq(Written(Signs)))
           /\ Len(LevelTexts(q)) = Len(q.levels)
           /\ \A i \in DOMAIN q.levels :
                 /\ q.levels[i] \in EveryLevel(Signs)
                 /\ LevelTexts(q)[i] = Then(<<"/">>, LevelText(q.levels[i]))
<1> DEFINE ls == q.levels
           lt == LevelTexts(q)
           e == <<"/">>
<1>1. ls \in Seq(EveryLevel(Signs)) /\ e \in Seq(Written(Signs))
  BY QueryParts, OneSymbol
<1>2. \A i \in DOMAIN ls : ls[i] \in EveryLevel(Signs)
  BY <1>1
<1>3. DOMAIN lt = DOMAIN ls /\ lt = [i \in DOMAIN ls |-> Then(e, LevelText(ls[i]))]
  BY Zenon DEF LevelTexts, Then
<1> HIDE DEF ls, lt, e
<1>4. \A i \in DOMAIN ls : lt[i] = Then(e, LevelText(ls[i]))
  BY <1>3, Zenon
<1>5. \A i \in DOMAIN ls : lt[i] \in Seq(Written(Signs))
  BY <1>1, <1>2, <1>4, LevelTextParts, ThenType
<1>6. lt \in Seq(Seq(Written(Signs))) /\ Len(lt) = Len(ls)
  <2>1. lt = [i \in DOMAIN ls |-> lt[i]]
    BY <1>3, Zenon
  <2> QED BY <1>1, <1>3, <1>5, <2>1, Mapped
<1> QED BY <1>2, <1>4, <1>6 DEF ls, lt, e

\* The text of a query is its first level's and what follows, without the
\* slash when it is free.
LEMMA QueryText ==
    ASSUME NEW Signs, NEW q \in EveryQuery(Signs)
    PROVE  /\ TextOf(q) \in Seq(Written(Signs))
           /\ FromLevel(q, 1) = IF q.free THEN Then(<<"/">>, TextOf(q)) ELSE TextOf(q)
           /\ FromLevel(q, 1) = Then(<<"/">>, Then(LevelText(q.levels[1]), FromLevel(q, 2)))
<1> DEFINE ls == q.levels
           lt == LevelTexts(q)
           pt == [i \in DOMAIN ls |->
                     (IF i = 1 /\ q.free THEN <<>> ELSE <<"/">>) \o LevelText(ls[i])]
           a == LevelText(ls[1])
           e == <<"/">>
           W == Written(Signs)
<1>1. Len(ls) \in Nat \ {0} /\ DOMAIN ls = 1..Len(ls) /\ 1 \in DOMAIN ls /\ q.free \in BOOLEAN
  BY QueryParts
<1>2. /\ lt \in Seq(Seq(W)) /\ Len(lt) = Len(ls)
      /\ \A i \in DOMAIN ls : ls[i] \in EveryLevel(Signs) /\ lt[i] = Then(e, LevelText(ls[i]))
  BY LevelTextsType
<1>3. e \in Seq(W) /\ \A i \in DOMAIN ls : LevelText(ls[i]) \in Seq(W)
  BY <1>2, OneSymbol, LevelTextParts
<1>4. a \in Seq(W)
  BY <1>1, <1>3
<1>5. 1 \in 1..Len(lt) + 1 /\ 2 \in 1..Len(lt) + 1 /\ 1 <= Len(lt)
  BY <1>1, <1>2
<1> DEFINE rest == Joined(lt, 2)
<1>6. rest \in Seq(W) /\ Joined(lt, 1) = Then(lt[1], rest) /\ Joined(lt, 1) = FlattenSeq(lt)
  <2> HIDE DEF lt, W
  <2>1. Joined(lt, 1) = Then(lt[1], Joined(lt, 1 + 1)) /\ Joined(lt, 1) = FlattenSeq(lt)
    BY <1>2, <1>5, JoinedParts
  <2>2. rest \in Seq(W)
    BY <1>2, <1>5, JoinedParts
  <2>3. 1 + 1 = 2
    OBVIOUS
  <2> QED BY <2>1, <2>2, <2>3
<1>7. Joined(lt, 1) = Then(e, Then(a, rest)) /\ Then(a, rest) \in Seq(W)
  <2> HIDE DEF lt, W, a, e, rest
  <2>1. Then(Then(e, a), rest) = Then(e, Then(a, rest)) /\ Then(a, rest) \in Seq(W)
    BY <1>3, <1>4, <1>6, ThenThen, ThenType
  <2>2. lt[1] = Then(e, a)
    BY <1>1, <1>2 DEF a
  <2> QED BY <1>6, <2>1, <2>2
<1>8. TextOf(q) = FlattenSeq(pt)
  BY Zenon DEF TextOf
<1>9. FromLevel(q, 1) = Joined(lt, 1) /\ FromLevel(q, 2) = rest
  BY DEF FromLevel
<1>10. CASE ~q.free
  <2>1. \A i \in DOMAIN ls : pt[i] = lt[i]
    <3>1. \A i \in DOMAIN ls : pt[i] = e \o LevelText(ls[i])
      BY <1>10
    <3> HIDE DEF pt, ls, lt, e
    <3> QED BY <1>2, <3>1, Zenon DEF Then
  <2>2. pt = lt
    <3>1. DOMAIN pt = DOMAIN ls /\ pt = [i \in DOMAIN ls |-> pt[i]]
      BY Zenon
    <3>2. DOMAIN lt = DOMAIN ls /\ lt = [i \in DOMAIN ls |-> lt[i]]
      BY Zenon DEF LevelTexts
    <3> HIDE DEF pt, lt
    <3> QED BY <2>1, <3>1, <3>2
  <2>3. TextOf(q) = Joined(lt, 1)
    BY <1>6, <1>8, <2>2, Zenon
  <2>4. Then(e, Then(a, rest)) \in Seq(W)
    <3> HIDE DEF e, a, rest, W
    <3> QED BY <1>3, <1>7, ThenType
  <2> HIDE DEF lt, e, a, rest
  <2> QED BY <1>7, <1>9, <1>10, <2>3, <2>4 DEF a, e
<1>11. CASE q.free
  <2>1. pt[1] = a
    <3>1. pt[1] = <<>> \o a
      BY <1>1, <1>11
    <3> HIDE DEF pt, a
    <3> QED BY <1>4, <3>1, ConcatEmptySeq
  <2>2. \A i \in DOMAIN ls : i # 1 => pt[i] = lt[i]
    <3>1. \A i \in DOMAIN ls : i # 1 => pt[i] = e \o LevelText(ls[i])
      OBVIOUS
    <3> HIDE DEF pt, ls, lt, e
    <3> QED BY <1>2, <3>1, Zenon DEF Then
  <2>3. pt \in Seq(Seq(W)) /\ Len(pt) = Len(ls)
    <3>1. DOMAIN pt = DOMAIN ls /\ pt = [i \in DOMAIN ls |-> pt[i]]
      BY Zenon
    <3>2. \A i \in DOMAIN ls : pt[i] \in Seq(W)
      <4> HIDE DEF pt, lt, a, W, ls
      <4>1. \A i \in DOMAIN ls : lt[i] \in Seq(W)
        BY <1>1, <1>2
      <4> QED BY <1>4, <2>1, <2>2, <4>1
    <3>3. ls \in Seq(EveryLevel(Signs))
      BY QueryParts
    <3> HIDE DEF pt, W, ls
    <3> QED BY <3>1, <3>2, <3>3, Mapped
  <2> HIDE DEF pt, lt, a, W, ls
  <2>4. Tail(pt) = Tail(lt)
    <3>1. /\ Tail(pt) \in Seq(Seq(W)) /\ Tail(lt) \in Seq(Seq(W))
          /\ Len(Tail(pt)) = Len(ls) - 1 /\ Len(Tail(lt)) = Len(ls) - 1
          /\ \A i \in 1..Len(ls) - 1 : Tail(pt)[i] = pt[i + 1] /\ Tail(lt)[i] = lt[i + 1]
      BY <1>1, <1>2, <2>3
    <3>2. \A i \in 1..Len(ls) - 1 : pt[i + 1] = lt[i + 1]
      BY <1>1, <2>2
    <3>3. \A i \in 1..Len(ls) - 1 : Tail(pt)[i] = Tail(lt)[i]
      BY <3>1, <3>2
    <3> QED BY <3>1, <3>3, SeqEqual
  <2>5. pt # <<>> /\ lt # <<>>
    BY <1>1, <1>2, <2>3
  <2>6. FlattenSeq(pt) = pt[1] \o FlattenSeq(Tail(pt))
    BY <2>3, <2>5, FlattenHead
  <2>7. rest = FlattenSeq(Tail(lt))
    <3>1. Tail(lt) = SubSeq(lt, 2, Len(lt))
      BY <1>2, <2>5, TailIsSubSeq
    <3> QED BY <3>1, Zenon DEF Joined
  <2>8. TextOf(q) = Then(a, rest)
    BY <1>8, <2>1, <2>4, <2>6, <2>7, Zenon DEF Then
  <2> HIDE DEF rest, e
  <2> QED BY <1>7, <1>9, <1>11, <2>8 DEF a, e, ls, W
<1> QED BY <1>1, <1>10, <1>11

-----------------------------------------------------------------------------
(***************************************************************************)
(* The views of filters and levels, with some of their parts.              *)
(***************************************************************************)
\* The record that each stage of a level is.
ViewWith(q, i, fs) ==
    [place |-> PlaceOf(q, i), negative |-> q.levels[i].negative, any |-> q.levels[i].any,
     value |-> q.levels[i].value, filters |-> fs]

\* The elements of a sequence are what it is a sequence of.
LEMMA OfItsElements ==
    ASSUME NEW T, NEW s \in Seq(T), NEW t, DOMAIN t = DOMAIN s, t = [i \in DOMAIN s |-> t[i]]
    PROVE  t \in Seq({t[i] : i \in DOMAIN s}) /\ Len(t) = Len(s)
<1> DEFINE S == {t[i] : i \in DOMAIN s}
<1>1. \A i \in DOMAIN s : t[i] \in S
  OBVIOUS
<1> HIDE DEF S
<1>2. t \in Seq(S) /\ Len(t) = Len(s)
  BY <1>1, Mapped
<1> QED BY <1>2 DEF S

LEMMA FilterViewsType ==
    ASSUME NEW Signs, NEW l \in EveryLevel(Signs)
    PROVE  /\ FilterViews(l) \in Seq({FilterViews(l)[j] : j \in DOMAIN l.filters})
           /\ Len(FilterViews(l)) = Len(l.filters)
           /\ \A j \in DOMAIN l.filters : FilterViews(l)[j] = FilterOf(l.filters[j])
<1> DEFINE fs == l.filters
           fv == FilterViews(l)
<1>1. fs \in Seq(EveryFilter(Signs))
  BY LevelParts
<1>2. /\ DOMAIN fv = DOMAIN fs
      /\ fv = [j \in DOMAIN fs |-> fv[j]]
      /\ \A j \in DOMAIN fs : fv[j] = FilterOf(fs[j])
  BY Zenon DEF FilterViews
<1> HIDE DEF fs, fv
<1>3. fv \in Seq({fv[j] : j \in DOMAIN fs}) /\ Len(fv) = Len(fs)
  BY <1>1, <1>2, OfItsElements
<1> QED BY <1>2, <1>3, Zenon DEF fs, fv

LEMMA LevelViewsType ==
    ASSUME NEW Signs, NEW q \in EveryQuery(Signs)
    PROVE  /\ LevelViews(q) \in Seq({LevelViews(q)[i] : i \in DOMAIN q.levels})
           /\ Len(LevelViews(q)) = Len(q.levels)
           /\ ViewOf(q) = FirstReversed(LevelViews(q), Len(q.levels))
<1>1. q.levels \in Seq(EveryLevel(Signs))
  BY QueryParts
<1>2. /\ DOMAIN LevelViews(q) = DOMAIN q.levels
      /\ LevelViews(q) = [i \in DOMAIN q.levels |-> LevelViews(q)[i]]
  BY DEF LevelViews
<1>4. /\ LevelViews(q) \in Seq({LevelViews(q)[i] : i \in DOMAIN q.levels})
      /\ Len(LevelViews(q)) = Len(q.levels)
  <2> DEFINE ls == q.levels
             lv == LevelViews(q)
  <2>1. ls \in Seq(EveryLevel(Signs)) /\ DOMAIN lv = DOMAIN ls /\ lv = [i \in DOMAIN ls |-> lv[i]]
    BY <1>1, <1>2, Zenon
  <2> HIDE DEF ls, lv
  <2>2. lv \in Seq({lv[i] : i \in DOMAIN ls}) /\ Len(lv) = Len(ls)
    BY <2>1, OfItsElements
  <2> QED BY <2>2, Zenon DEF ls, lv
<1>5. Len(q.levels) \in 0..Len(LevelViews(q))
  BY <1>1, <1>4
<1>6. FirstReversed(LevelViews(q), Len(q.levels)) = Reverse(LevelViews(q))
  BY <1>4, <1>5, ReversedMore
<1>7. ViewOf(q) = Reverse(LevelViews(q))
  BY Zenon DEF ViewOf, LevelViews, PlaceOf
<1> QED BY <1>4, <1>6, <1>7

\* The view of a level is the one with all its filters.
LEMMA LevelView ==
    ASSUME NEW Signs, NEW q \in EveryQuery(Signs), NEW i \in DOMAIN q.levels
    PROVE  /\ LevelViews(q)[i] = WithFilters(q, i, Len(q.levels[i].filters))
           /\ \A j : WithFilters(q, i, j) =
                        ViewWith(q, i, FirstReversed(FilterViews(q.levels[i]), j))
           /\ WithFilters(q, i, 0) = ViewWith(q, i, <<>>)
<1> DEFINE l == q.levels[i]
           fv == FilterViews(l)
<1>1. l \in EveryLevel(Signs)
  BY QueryParts
<1>2. LevelViews(q)[i] = LevelOf(l, PlaceOf(q, i))
  BY Zenon DEF LevelViews
<1>3. LevelViews(q)[i] = ViewWith(q, i, Reverse(fv))
  BY <1>2, Zenon DEF LevelOf, ViewWith, FilterViews
<1>4. ASSUME NEW j PROVE WithFilters(q, i, j) = ViewWith(q, i, FirstReversed(fv, j))
  BY <1>3 DEF WithFilters, ViewWith
<1>5. /\ Len(l.filters) \in 0..Len(fv) /\ 0 \in 0..Len(fv) /\ Len(fv) = Len(l.filters)
      /\ fv \in Seq({fv[j] : j \in DOMAIN l.filters})
  <2>1. l.filters \in Seq(EveryFilter(Signs))
    BY <1>1, LevelParts
  <2>2. Len(l.filters) \in Nat
    BY <2>1
  <2> HIDE DEF l
  <2>3. fv \in Seq({fv[j] : j \in DOMAIN l.filters}) /\ Len(fv) = Len(l.filters)
    BY <1>1, FilterViewsType, Zenon
  <2> HIDE DEF fv
  <2> QED BY <2>2, <2>3
<1>6. FirstReversed(fv, 0) = <<>> /\ FirstReversed(fv, Len(l.filters)) = Reverse(fv)
  <2> HIDE DEF fv
  <2> QED BY <1>5, ReversedMore
<1> HIDE DEF fv
<1>7. WithFilters(q, i, 0) = ViewWith(q, i, <<>>)
  BY <1>4, <1>6, Zenon
<1>8. LevelViews(q)[i] = WithFilters(q, i, Len(l.filters))
  BY <1>3, <1>4, <1>6, Zenon
<1> QED BY <1>4, <1>7, <1>8, Zenon DEF fv, l

\* The view of a filter of which k comparators are read.
FilterWith(f, k) == [negative |-> f.negative, comparators |-> FirstReversed(f.comparators, k)]

\* A filter of which all comparators are read is one more of the level's.
LEMMA FilterView ==
    ASSUME NEW Signs, NEW q \in EveryQuery(Signs), NEW i \in DOMAIN q.levels,
           NEW j \in DOMAIN q.levels[i].filters
    PROVE  /\ \A k : InFilterWith(q, i, j - 1, k) =
                        ViewWith(q, i, <<FilterWith(q.levels[i].filters[j], k)>>
                                       \o FirstReversed(FilterViews(q.levels[i]), j - 1))
           /\ FirstReversed(q.levels[i].filters[j].comparators, 0) = <<>>
           /\ InFilterWith(q, i, j - 1, Len(q.levels[i].filters[j].comparators))
                = WithFilters(q, i, j)
<1> DEFINE l == q.levels[i]
           f == l.filters[j]
           fv == FilterViews(l)
<1>1. l \in EveryLevel(Signs)
  BY QueryParts
<1>2. f \in EveryFilter(Signs) /\ j \in 1..Len(l.filters) /\ Len(l.filters) \in Nat
  <2>1. l.filters \in Seq(EveryFilter(Signs))
    BY <1>1, LevelParts
  <2> QED BY <2>1
<1>3. /\ f.comparators \in Seq(EveryComparator(Signs))
      /\ f = [negative |-> f.negative, comparators |-> f.comparators]
  BY <1>2, FilterParts
<1>4. LevelViews(q)[i] = ViewWith(q, i, FirstReversed(fv, Len(l.filters)))
  BY LevelView
<1>5. j - 1 + 1 = j
  BY <1>2
<1>6. ASSUME NEW k
      PROVE  InFilterWith(q, i, j - 1, k) =
                ViewWith(q, i, <<FilterWith(f, k)>> \o FirstReversed(fv, j - 1))
  <2>1. InFilterWith(q, i, j - 1, k) =
           [LevelViews(q)[i] EXCEPT !.filters =
               <<FilterWith(f, k)>> \o FirstReversed(fv, j - 1)]
    BY <1>5, Zenon DEF InFilterWith, FilterWith
  <2> DEFINE put == <<FilterWith(f, k)>> \o FirstReversed(fv, j - 1)
  <2> HIDE DEF put, fv
  <2>2. [LevelViews(q)[i] EXCEPT !.filters = put] = ViewWith(q, i, put)
    BY <1>4 DEF ViewWith
  <2> QED BY <2>1, <2>2, Zenon DEF put, fv
<1>7. /\ FirstReversed(f.comparators, 0) = <<>>
      /\ FirstReversed(f.comparators, Len(f.comparators)) = Reverse(f.comparators)
  <2>1. 0 \in 0..Len(f.comparators) /\ Len(f.comparators) \in 0..Len(f.comparators)
    BY <1>3
  <2> QED BY <1>3, <2>1, ReversedMore
<1>8. FilterWith(f, Len(f.comparators)) = fv[j]
  <2>1. fv[j] = FilterOf(f)
    BY <1>1, FilterViewsType
  <2>2. FilterOf(f) = [negative |-> f.negative, comparators |-> Reverse(f.comparators)]
    BY <1>3 DEF FilterOf
  <2> QED BY <1>7, <2>1, <2>2, Zenon DEF FilterWith
<1>9. FirstReversed(fv, j) = <<fv[j]>> \o FirstReversed(fv, j - 1)
  <2>1. fv \in Seq({fv[m] : m \in DOMAIN l.filters}) /\ Len(fv) = Len(l.filters)
    BY <1>1, FilterViewsType
  <2>2. j - 1 \in 0..Len(fv) /\ j - 1 < Len(fv)
    BY <1>2, <2>1
  <2> HIDE DEF fv
  <2>3. FirstReversed(fv, j - 1 + 1) = Then(<<fv[j - 1 + 1]>>, FirstReversed(fv, j - 1))
    BY <2>1, <2>2, ReversedMore
  <2> QED BY <1>5, <2>3, Zenon DEF Then
<1>10. WithFilters(q, i, j) = ViewWith(q, i, FirstReversed(fv, j))
  BY LevelView
<1>11. InFilterWith(q, i, j - 1, Len(f.comparators)) = WithFilters(q, i, j)
  BY <1>6, <1>8, <1>9, <1>10, Zenon
<1> QED BY <1>6, <1>7, <1>11, Zenon

-----------------------------------------------------------------------------
(***************************************************************************)
(* What is left of the text at a level, at a filter and at a comparator    *)
(* begins with that part, and what is left after it follows.               *)
(***************************************************************************)
\* At a level: its slash, its text, and the levels after it.
LEMMA FromLevelOn ==
    ASSUME NEW Signs, NEW q \in EveryQuery(Signs), NEW i \in 1..Len(q.levels) + 1
    PROVE  /\ FromLevel(q, i) \in Seq(Written(Signs))
           /\ i <= Len(q.levels) =>
                FromLevel(q, i) = Then(<<"/">>, Then(LevelText(q.levels[i]), FromLevel(q, i + 1)))
           /\ i > Len(q.levels) => FromLevel(q, i) = <<>>
<1> DEFINE ls == q.levels
           lt == LevelTexts(q)
           e == <<"/">>
           a == LevelText(ls[i])
           n == i + 1
           W == Written(Signs)
<1>1. ls \in Seq(EveryLevel(Signs)) /\ e \in Seq(W)
  BY QueryParts, OneSymbol
<1>2. /\ lt \in Seq(Seq(W)) /\ Len(lt) = Len(ls)
      /\ \A m \in DOMAIN ls : ls[m] \in EveryLevel(Signs) /\ lt[m] = Then(e, LevelText(ls[m]))
  BY LevelTextsType
<1>3. /\ Joined(lt, i) \in Seq(W)
      /\ i <= Len(lt) => Joined(lt, i) = Then(lt[i], Joined(lt, n))
      /\ i > Len(lt) => Joined(lt, i) = <<>>
  <2> HIDE DEF lt, W
  <2> QED BY <1>2, JoinedParts
<1>4. ASSUME i <= Len(ls)
      PROVE  Joined(lt, i) = Then(e, Then(a, Joined(lt, n)))
  <2>1. i \in DOMAIN ls /\ n \in 1..Len(lt) + 1
    BY <1>1, <1>2, <1>4
  <2>2. a \in Seq(W)
    BY <1>2, <2>1, LevelTextParts
  <2>3. Joined(lt, n) \in Seq(W)
    <3> HIDE DEF lt, W, n
    <3> QED BY <1>2, <2>1, JoinedParts
  <2>4. lt[i] = Then(e, a)
    BY <1>2, <2>1
  <2> DEFINE r == Joined(lt, n)
  <2>5. Then(Then(e, a), r) = Then(e, Then(a, r))
    <3> HIDE DEF e, a, r, W
    <3> QED BY <1>1, <2>2, <2>3, ThenThen DEF r
  <2>6. Joined(lt, i) = Then(lt[i], r)
    BY <1>2, <1>3, <1>4
  <2> HIDE DEF e, a, r, lt
  <2> QED BY <2>4, <2>5, <2>6 DEF r
<1>5. FromLevel(q, i) = Joined(lt, i) /\ FromLevel(q, i + 1) = Joined(lt, n)
  BY DEF FromLevel
<1> HIDE DEF lt, W, n
<1>6. FromLevel(q, i) \in Seq(W) /\ (i > Len(ls) => FromLevel(q, i) = <<>>)
  BY <1>2, <1>3, <1>5
<1> HIDE DEF e, a, ls
<1>7. i <= Len(ls) => FromLevel(q, i) = Then(e, Then(a, FromLevel(q, i + 1)))
  BY <1>4, <1>5, Zenon
<1> QED BY <1>6, <1>7, Zenon DEF W, e, a, ls

\* What follows an id, and what follows the last filter of a level.
LEMMA FromFilterType ==
    ASSUME NEW Signs, NEW q \in EveryQuery(Signs), NEW i \in DOMAIN q.levels,
           NEW j \in 1..Len(q.levels[i].filters) + 1
    PROVE  /\ FromFilter(q, i, j) \in Seq(Written(Signs))
           /\ j > Len(q.levels[i].filters) => FromFilter(q, i, j) = FromLevel(q, i + 1)
           /\ Then(LevelText(q.levels[i]), FromLevel(q, i + 1)) =
                Then(Mark(q.levels[i].negative),
                     Then(IdText(q.levels[i]), FromFilter(q, i, 1)))
<1> DEFINE l == q.levels[i]
           ft == FilterTexts(l)
           r == FromLevel(q, i + 1)
           h == Joined(ft, 1)
           m == Mark(l.negative)
           e == IdText(l)
           W == Written(Signs)
<1>1. l \in EveryLevel(Signs) /\ i \in 1..Len(q.levels) /\ Len(q.levels) \in Nat
  BY QueryParts
<1>2. ft \in Seq(Seq(W)) /\ Len(ft) = Len(l.filters)
  BY <1>1, FilterTextsType
<1>3. r \in Seq(W)
  <2> DEFINE n == i + 1
  <2>1. n \in 1..Len(q.levels) + 1
    BY <1>1
  <2> HIDE DEF n
  <2>2. FromLevel(q, n) \in Seq(W)
    BY <2>1, FromLevelOn
  <2> QED BY <2>2 DEF n
<1>4. Joined(ft, j) \in Seq(W) /\ (j > Len(ft) => Joined(ft, j) = <<>>)
  <2> HIDE DEF ft, W
  <2> QED BY <1>2, JoinedParts
<1>5. FromFilter(q, i, j) = Then(Joined(ft, j), r) /\ FromFilter(q, i, 1) = Then(h, r)
  BY Zenon DEF FromFilter
<1>6. /\ LevelText(l) = Then(m, Then(e, h))
      /\ m \in Seq(W) /\ e \in Seq(W) /\ h \in Seq(W)
  BY <1>1, LevelTextParts
<1> HIDE DEF W, r, h, m, e, ft, l
<1>7. FromFilter(q, i, j) \in Seq(W) /\ (j > Len(l.filters) => FromFilter(q, i, j) = r)
  BY <1>2, <1>3, <1>4, <1>5, ThenType, ThenNothing
<1>8. Then(Then(m, Then(e, h)), r) = Then(m, Then(e, Then(h, r)))
  <2>1. Then(e, h) \in Seq(W)
    BY <1>6, ThenType
  <2>2. Then(Then(m, Then(e, h)), r) = Then(m, Then(Then(e, h), r))
    BY <1>3, <1>6, <2>1, ThenThen
  <2>3. Then(Then(e, h), r) = Then(e, Then(h, r))
    BY <1>3, <1>6, ThenThen
  <2> QED BY <2>2, <2>3
<1>9. Then(LevelText(l), r) = Then(m, Then(e, FromFilter(q, i, 1)))
  BY <1>5, <1>6, <1>8
<1> QED BY <1>7, <1>9, Zenon DEF W, r, m, e, l

\* At a comparator: its bracket or bar, its text, and what follows; behind
\* the last one the bracket that closes the filter.
LEMMA FromComparatorOn ==
    ASSUME NEW Signs, NEW q \in EveryQuery(Signs), NEW i \in DOMAIN q.levels,
           NEW j \in DOMAIN q.levels[i].filters,
           NEW k \in 1..Len(q.levels[i].filters[j].comparators) + 1
    PROVE  LET cs == q.levels[i].filters[j].comparators
           IN  /\ FromComparator(q, i, j, k) \in Seq(Written(Signs))
               /\ k <= Len(cs) =>
                    FromComparator(q, i, j, k) =
                        Then(<<IF k = 1 THEN "[" ELSE "|">>,
                             Then(ComparatorText(cs[k]), FromComparator(q, i, j, k + 1)))
               /\ k > Len(cs) =>
                    FromComparator(q, i, j, k) = Then(<<"]">>, FromFilter(q, i, j + 1))
               /\ FromFilter(q, i, j) =
                    Then(Mark(q.levels[i].filters[j].negative), FromComparator(q, i, j, 1))
<1> DEFINE l == q.levels[i]
           f == l.filters[j]
           cs == f.comparators
           ct == ComparatorTexts(f)
           r == FromFilter(q, i, j + 1)
           e == <<"]">>
           b == <<IF k = 1 THEN "[" ELSE "|">>
           t == ComparatorText(cs[k])
           n == k + 1
           z == Then(e, r)
           W == Written(Signs)
<1>1. l \in EveryLevel(Signs)
  BY QueryParts
<1>2. f \in EveryFilter(Signs) /\ j \in 1..Len(l.filters) /\ Len(l.filters) \in Nat
  <2>1. l.filters \in Seq(EveryFilter(Signs))
    BY <1>1, LevelParts
  <2> QED BY <2>1
<1>3. cs \in Seq(EveryComparator(Signs)) /\ e \in Seq(W) /\ b \in Seq(W)
  BY <1>2, FilterParts, OneSymbol
<1>4. /\ ct \in Seq(Seq(W)) /\ Len(ct) = Len(cs)
      /\ \A m \in DOMAIN cs : /\ cs[m] \in EveryComparator(Signs)
                              /\ ct[m] = Then(<<IF m = 1 THEN "[" ELSE "|">>, ComparatorText(cs[m]))
  BY <1>2, ComparatorTextsType
<1>5. r \in Seq(W)
  <2> DEFINE m == j + 1
  <2>1. m \in 1..Len(l.filters) + 1
    BY <1>2
  <2> HIDE DEF m
  <2>2. FromFilter(q, i, m) \in Seq(W)
    BY <2>1, FromFilterType
  <2> QED BY <2>2 DEF m
<1>6. z \in Seq(W)
  <2> HIDE DEF e, r, W
  <2> QED BY <1>3, <1>5, ThenType
<1>7. /\ Joined(ct, k) \in Seq(W)
      /\ k <= Len(ct) => Joined(ct, k) = Then(ct[k], Joined(ct, n))
      /\ k > Len(ct) => Joined(ct, k) = <<>>
  <2> HIDE DEF ct, W
  <2> QED BY <1>4, JoinedParts
<1>8. \A m : FromComparator(q, i, j, m) = Then(Joined(ct, m), z)
  BY Zenon DEF FromComparator
<1>9. ASSUME k <= Len(cs)
      PROVE  FromComparator(q, i, j, k) = Then(b, Then(t, FromComparator(q, i, j, n)))
  <2>1. k \in DOMAIN cs /\ n \in 1..Len(ct) + 1
    BY <1>3, <1>4, <1>9
  <2>2. t \in Seq(W) /\ ct[k] = Then(b, t)
    BY <1>4, <2>1, ComparatorTextType
  <2> DEFINE h == Joined(ct, n)
  <2> HIDE DEF ct, W, n, b, t, z, e, cs
  <2>3. h \in Seq(W)
    BY <1>4, <2>1, JoinedParts
  <2>4. Joined(ct, k) = Then(Then(b, t), h)
    BY <1>4, <1>7, <1>9, <2>2
  <2> HIDE DEF h
  <2>5. Then(Then(b, t), h) = Then(b, Then(t, h)) /\ Then(t, h) \in Seq(W)
    BY <1>3, <2>2, <2>3, ThenThen, ThenType
  <2>6. Then(Then(b, Then(t, h)), z) = Then(b, Then(Then(t, h), z))
    BY <1>3, <1>6, <2>5, ThenThen
  <2>7. Then(Then(t, h), z) = Then(t, Then(h, z))
    BY <1>6, <2>2, <2>3, ThenThen
  <2> QED BY <1>8, <2>4, <2>5, <2>6, <2>7, Zenon DEF h
<1>10. k > Len(cs) => FromComparator(q, i, j, k) = z
  <2> HIDE DEF ct, W, z, cs
  <2> QED BY <1>4, <1>6, <1>7, <1>8, ThenNothing
<1>11. FromFilter(q, i, j) = Then(Mark(f.negative), FromComparator(q, i, j, 1))
  <2> DEFINE ft == FilterTexts(l)
             m == Mark(f.negative)
             p == j + 1
             h == Joined(ft, p)
             g == Joined(ct, 1)
             s == FromLevel(q, i + 1)
  <2>1. /\ ft \in Seq(Seq(W)) /\ Len(ft) = Len(l.filters)
        /\ ft[j] = Then(m, Then(g, e))
    BY <1>1, <1>2, FilterTextsType, FilterTextParts
  <2>2. m \in Seq(W)
    BY <1>2, FilterParts, MarkType
  <2>3. g \in Seq(W)
    <3>1. 1 \in 1..Len(ct) + 1
      BY <1>4
    <3> HIDE DEF ct, W
    <3> QED BY <1>4, <3>1, JoinedParts
  <2>4. j <= Len(ft) /\ j \in 1..Len(ft) + 1 /\ p \in 1..Len(ft) + 1
    BY <1>2, <2>1
  <2>5. Joined(ft, j) = Then(ft[j], h) /\ h \in Seq(W)
    <3> HIDE DEF ft, W
    <3>1. Joined(ft, j) = Then(ft[j], Joined(ft, j + 1))
      BY <2>1, <2>4, JoinedParts
    <3> HIDE DEF p
    <3>2. h \in Seq(W)
      BY <2>1, <2>4, JoinedParts
    <3> QED BY <3>1, <3>2, Zenon DEF p
  <2>6. s \in Seq(W)
    <3> DEFINE o == i + 1
    <3>1. o \in 1..Len(q.levels) + 1
      BY QueryParts
    <3> HIDE DEF o
    <3>2. FromLevel(q, o) \in Seq(W)
      BY <3>1, FromLevelOn
    <3> QED BY <3>2 DEF o
  <2>7. FromFilter(q, i, j) = Then(Joined(ft, j), s) /\ r = Then(h, s)
    BY Zenon DEF FromFilter
  <2> HIDE DEF W, ft, h, g, s, m, e, r, p, ct
  <2>8. Then(g, e) \in Seq(W) /\ Then(m, Then(g, e)) \in Seq(W) /\ Then(h, s) \in Seq(W)
    BY <1>3, <2>2, <2>3, <2>5, <2>6, ThenType
  <2>9. Then(Then(Then(m, Then(g, e)), h), s) = Then(Then(m, Then(g, e)), Then(h, s))
    BY <2>5, <2>6, <2>8, ThenThen
  <2>10. Then(Then(m, Then(g, e)), Then(h, s)) = Then(m, Then(Then(g, e), Then(h, s)))
    BY <2>2, <2>8, ThenThen
  <2>11. Then(Then(g, e), Then(h, s)) = Then(g, Then(e, Then(h, s)))
    BY <1>3, <2>3, <2>8, ThenThen
  <2>12. FromFilter(q, i, j) = Then(m, Then(g, Then(e, r)))
    BY <2>1, <2>5, <2>7, <2>9, <2>10, <2>11, Zenon
  <2> QED BY <1>8, <2>12, Zenon DEF m, g
<1>12. FromComparator(q, i, j, k) \in Seq(W)
  <2> HIDE DEF ct, W, z
  <2> QED BY <1>6, <1>7, <1>8, ThenType
<1> HIDE DEF cs, b, t, n, e, r, W, f
<1> QED BY <1>9, <1>10, <1>11, <1>12, Zenon DEF cs, b, t, n, e, r, W, z, f, l

-----------------------------------------------------------------------------
(***************************************************************************)
(* A step that stays in the query: what it has to leave, and what comes    *)
(* after an id or a filter.                                                *)
(***************************************************************************)
\* What the text of a query is made of.
LEMMA ReadingText ==
    ASSUME NEW Signs, Reading(Signs)
    PROVE  /\ text \in Seq(Written(Signs)) /\ Len(text) \in Nat
           /\ "/" \in Written(Signs) /\ "!" \in Written(Signs)
           /\ op \in Operations
           /\ query.levels \in Seq(EveryLevel(Signs)) /\ query.levels # <<>>
           /\ Len(query.levels) \in Nat /\ DOMAIN query.levels = 1..Len(query.levels)
<1>1. query \in EveryQuery(Signs) /\ op = query.op /\ text = TextOf(query)
  BY DEF Reading
<1>2. text \in Seq(Written(Signs))
  BY <1>1, QueryText
<1> QED BY <1>1, <1>2, QueryParts, WrittenSymbols

\* What a step has to leave to be in level i.
LEMMA KeepReading ==
    ASSUME NEW Signs, Reading(Signs), UNCHANGED <<op, text, query>>,
           NEW i \in DOMAIN query.levels,
           tree' = FirstReversed(LevelViews(query), i - 1),
           InLevel(i, state', pos', level'),
           pos' \in 0..Len(text) + 1, ~beyond'
    PROVE  ReadSoFar(Signs)'
<1>1. Reading(Signs)' /\ (pos \in 0..Len(text) + 1)' /\ (~beyond)'
  BY DEF Reading
<1>2. Rest(pos)' = Rest(pos')
  BY DEF Rest
<1>3. InLevel(i, state, pos, level)'
  BY <1>2, Zenon DEF InLevel, BeforeLevel, BeforeName, BeforeFilter, BeforeComparator, AfterLevels
<1>4. i \in DOMAIN query'.levels /\ tree' = FirstReversed(LevelViews(query'), i - 1)
  BY Zenon
<1> QED BY <1>1, <1>3, <1>4, Zenon DEF ReadSoFar

\* The first filter or level to come tells which.
LEMMA ReadOn ==
    ASSUME NEW Signs, Reading(Signs), UNCHANGED <<op, text, query>>, ~beyond,
           NEW i \in DOMAIN query.levels,
           NEW j \in 0..Len(query.levels[i].filters),
           tree = FirstReversed(LevelViews(query), i - 1),
           NEW p \in 1..Len(text) + 1, NEW l,
           l = WithFilters(query, i, j),
           Rest(p) = FromFilter(query, i, j + 1),
           Leave(After(p), p, l)
    PROVE  ReadSoFar(Signs)'
<1> DEFINE n == j + 1
           fs == query.levels[i].filters
           W == Written(Signs)
<1>0. query \in EveryQuery(Signs)
  BY DEF Reading
<1>1. /\ text \in Seq(W) /\ "/" \in W /\ "!" \in W /\ op \in Operations
      /\ i \in 1..Len(query.levels) /\ Len(query.levels) \in Nat
      /\ p \in 0..Len(text) + 1 /\ p # 0
      /\ query \in EveryQuery(Signs)
      /\ "[" \in W
  BY ReadingText, WrittenSymbols DEF Reading
<1>2. fs \in Seq(EveryFilter(Signs)) /\ query.levels[i] \in EveryLevel(Signs)
  <2>1. query.levels[i] \in EveryLevel(Signs)
    BY ReadingText
  <2> QED BY <2>1, LevelParts
<1>3. n \in 1..Len(fs) + 1 /\ Len(fs) \in Nat /\ n - 1 = j
  BY <1>2
<1>4. CASE n <= Len(fs)
  <2> DEFINE f == fs[n]
             cs == f.comparators
             t == Then(ComparatorText(cs[1]), FromComparator(query, i, n, 2))
  <2>1. n \in DOMAIN fs /\ f \in EveryFilter(Signs)
    BY <1>2, <1>3, <1>4
  <2>2. /\ f.negative \in BOOLEAN /\ 1 \in DOMAIN cs
        /\ 1 \in 1..Len(cs) + 1 /\ 1 <= Len(cs) /\ 2 \in 1..Len(cs) + 1
        /\ cs[1] \in EveryComparator(Signs)
    <3>1. f.negative \in BOOLEAN /\ cs \in Seq(EveryComparator(Signs)) /\ cs # <<>>
      BY <2>1, FilterParts
    <3> HIDE DEF cs, f
    <3> QED BY <3>1
  <2> HIDE DEF n, fs, W
  <2>3. /\ FromComparator(query, i, n, 1) = Then(<<"[">>, t)
        /\ FromFilter(query, i, n) = Then(Mark(f.negative), FromComparator(query, i, n, 1))
    <3>1. 1 + 1 = 2 /\ (IF 1 = 1 THEN "[" ELSE "|") = "["
      OBVIOUS
    <3> QED BY <1>0, <2>1, <2>2, <3>1, FromComparatorOn DEF fs
  <2>4. t \in Seq(W)
    <3>1. FromComparator(query, i, n, 2) \in Seq(W)
      BY <1>0, <2>1, <2>2, FromComparatorOn DEF fs, W
    <3>2. ComparatorText(cs[1]) \in Seq(W)
      BY <2>2, ComparatorTextType DEF W
    <3> QED BY <3>1, <3>2, ThenType
  <2>5. Rest(p) = Then(Mark(f.negative), Then(<<"[">>, t))
    BY <2>3, Zenon DEF n
  <2> HIDE DEF t, f
  <2>6. Char(p) = IF f.negative THEN "!" ELSE "["
    <3> DEFINE b == f.negative
               c == "["
    <3>1. b \in BOOLEAN /\ c \in W /\ c # "!" /\ Rest(p) = Then(Mark(b), Then(<<c>>, t))
      BY <1>1, <2>2, <2>5
    <3> HIDE DEF b, c
    <3>2. Char(p) = IF b THEN "!" ELSE c
      BY <1>1, <2>4, <3>1, RestMark
    <3> QED BY <3>2 DEF b, c
  <2>7. After(p) = "ATTRIBUTE"
    BY <2>6 DEF After
  <2>8. state' = "ATTRIBUTE" /\ pos' = p /\ level' = l /\ tree' = tree /\ beyond' = beyond
    BY <2>7 DEF Leave
  <2>9. BeforeFilter(i, n, state', pos', level')
    BY <1>3, <2>8, Zenon DEF BeforeFilter, n
  <2>10. InLevel(i, state', pos', level')
    BY <1>1, <2>1, <2>8, <2>9, Zenon DEF InLevel, fs
  <2> QED BY <1>1, <2>8, <2>10, KeepReading
<1>5. CASE n > Len(fs)
  <2>1. j = Len(fs)
    BY <1>3, <1>5
  <2>2. FromFilter(query, i, n) = FromLevel(query, i + 1)
    <3> HIDE DEF n
    <3> QED BY <1>1, <1>3, <1>5, FromFilterType DEF fs
  <2>3. Rest(p) = FromLevel(query, i + 1)
    BY <2>2, Zenon DEF n
  <2>4. l = LevelViews(query)[i]
    BY <1>1, <2>1, LevelView, Zenon
  <2> DEFINE lv == LevelViews(query)
             m == i + 1
  <2>5. /\ lv \in Seq({lv[o] : o \in DOMAIN query.levels})
        /\ Len(lv) = Len(query.levels)
    BY <1>1, LevelViewsType
  <2>6. CASE i < Len(query.levels)
    <3>1. /\ m \in 1..Len(query.levels) + 1 /\ m <= Len(query.levels)
          /\ m \in DOMAIN query.levels /\ m > 1
      BY <1>1, <2>6
    <3> DEFINE t == Then(LevelText(query.levels[m]), FromLevel(query, m + 1))
    <3>2. FromLevel(query, m) = Then(<<"/">>, t)
      <4> HIDE DEF m
      <4> QED BY <1>1, <3>1, FromLevelOn
    <3>3. t \in Seq(W)
      <4>1. LevelText(query.levels[m]) \in Seq(W)
        <5> HIDE DEF m
        <5>1. query.levels[m] \in EveryLevel(Signs)
          BY <3>1, ReadingText
        <5> QED BY <5>1, LevelTextParts
      <4>2. FromLevel(query, m + 1) \in Seq(W)
        <5> DEFINE o == m + 1
        <5>1. o \in 1..Len(query.levels) + 1
          BY <1>1, <3>1
        <5> HIDE DEF o, W
        <5>2. FromLevel(query, o) \in Seq(W)
          BY <1>1, <5>1, FromLevelOn DEF W
        <5> QED BY <5>2 DEF o
      <4> HIDE DEF W, m
      <4> QED BY <4>1, <4>2, ThenType
    <3>4. Rest(p) = Then(<<"/">>, t)
      BY <2>3, <3>2, Zenon
    <3>5. Char(p) = "/"
      <4> HIDE DEF t, W
      <4> QED BY <1>1, <3>3, <3>4, RestNext
    <3>6. After(p) = "NEXT" /\ Char(p) # NUL
      BY <3>5 DEF After, NUL
    <3>7. /\ state' = "NEXT" /\ pos' = p /\ level' = Level("RELATIVE")
          /\ tree' = <<l>> \o tree /\ beyond' = (op \notin Operations)
      BY <3>6, Zenon DEF Leave
    <3>8. tree' = FirstReversed(lv, m - 1)
      <4> DEFINE k == i - 1
      <4>1. k \in 0..Len(lv) /\ k < Len(lv) /\ k + 1 = i /\ m - 1 = i
        BY <1>1, <2>5, <2>6
      <4> HIDE DEF k, lv, m
      <4>2. FirstReversed(lv, k + 1) = Then(<<lv[k + 1]>>, FirstReversed(lv, k))
        BY <2>5, <4>1, ReversedMore
      <4>3. tree = FirstReversed(lv, k) /\ l = lv[i]
        BY <2>4, Zenon DEF k, lv
      <4> QED BY <3>7, <4>1, <4>2, <4>3, Zenon DEF Then
    <3>9. PlaceOf(query, m) = "RELATIVE"
      BY <3>1 DEF PlaceOf
    <3> HIDE DEF m, lv, t
    <3>10. BeforeLevel(m, state', pos', level')
      BY <2>3, <3>7, <3>9, Zenon DEF BeforeLevel, m
    <3>11. InLevel(m, state', pos', level')
      BY <3>7, <3>10, Zenon DEF InLevel
    <3>12. ~beyond' /\ pos' \in 0..Len(text) + 1
      BY <1>1, <3>7
    <3>13. tree' = FirstReversed(LevelViews(query), m - 1)
      BY <3>8, Zenon DEF lv
    <3> QED BY <3>1, <3>11, <3>12, <3>13, KeepReading
  <2>7. CASE i >= Len(query.levels)
    <3>1. i = Len(query.levels) /\ m \in 1..Len(query.levels) + 1 /\ m > Len(query.levels)
      BY <1>1, <2>7
    <3>2. FromLevel(query, m) = <<>>
      <4> HIDE DEF m
      <4> QED BY <1>1, <3>1, FromLevelOn
    <3>3. Rest(p) = <<>>
      BY <2>3, <3>2, Zenon
    <3>4. Char(p) = NUL
      <4> HIDE DEF W
      <4> QED BY <1>1, <3>3, RestEnd
    <3>5. After(p) = "NEXT"
      BY <3>4 DEF After, NUL
    <3>6. state' = "NEXT" /\ pos' = p /\ level' = l /\ tree' = tree /\ beyond' = beyond
      BY <3>4, <3>5 DEF Leave
    <3>7. AfterLevels(i, state', pos', level')
      BY <2>4, <3>1, <3>3, <3>6, Zenon DEF AfterLevels
    <3>8. InLevel(i, state', pos', level')
      BY <3>6, <3>7, Zenon DEF InLevel
    <3> QED BY <1>1, <3>6, <3>8, KeepReading
  <2> QED BY <1>1, <2>6, <2>7
<1> QED BY <1>3, <1>4, <1>5

-----------------------------------------------------------------------------
(***************************************************************************)
(* The steps of the parser in the text of a query.                         *)
(***************************************************************************)
\* An id is one symbol, a star or a number, and no mark.
LEMMA IdWritten ==
    ASSUME NEW Signs, NEW l \in EveryLevel(Signs)
    PROVE  \E c \in Numbers \cup {"*"} :
              /\ IdText(l) = <<c>> /\ c \in Written(Signs)
              /\ c \notin {"!", "/", NUL}
              /\ l.any <=> c = "*"
              /\ ~l.any => c = l.value
<1> DEFINE c == IF l.any THEN "*" ELSE l.value
<1>1. l.any \in BOOLEAN /\ (~l.any => l.value \in Numbers)
  BY LevelParts
<1>2. c \in Numbers \cup {"*"}
  BY <1>1
<1>3. c \in Written(Signs) /\ IdText(l) = <<c>>
  BY <1>2, WrittenSymbols DEF IdText
<1>4. c \notin {"!", "/", NUL} /\ (l.any <=> c = "*") /\ (~l.any => c = l.value)
  BY <1>1, SymbolsAssumption, NumbersAssumption DEF NUL
<1> QED BY <1>2, <1>3, <1>4

\* A level put elsewhere.
LEMMA Placed == [Level("ROOT") EXCEPT !.place = "FREE"] = Level("FREE")
<1> DEFINE no == FALSE
           none == <<>>
           at(a) == [place |-> a, negative |-> no, any |-> no, value |-> None, filters |-> none]
<1>1. \A a : Level(a) = at(a)
  BY Zenon DEF Level
<1> HIDE DEF no, none
<1>2. [at("ROOT") EXCEPT !.place = "FREE"] = at("FREE")
  OBVIOUS
<1> HIDE DEF at
<1> QED BY <1>1, <1>2, Zenon

\* Start: a slash is put before the first level of a free query.
LEMMA StartRead ==
    ASSUME NEW Signs, ReadSoFar(Signs), Start, UNCHANGED query, BeforeQuery
    PROVE  ReadSoFar(Signs)'
<1> DEFINE W == Written(Signs)
           l == query.levels[1]
           r == FromLevel(query, 2)
           m == Mark(l.negative)
<1>1. /\ Reading(Signs) /\ query \in EveryQuery(Signs) /\ text = TextOf(query) /\ pos = 1
      /\ query.free \in BOOLEAN
      /\ text \in Seq(W) /\ Len(text) \in Nat /\ "/" \in W /\ "!" \in W
      /\ 1 \in DOMAIN query.levels /\ 2 \in 1..Len(query.levels) + 1
      /\ l \in EveryLevel(Signs)
  <2>1. Reading(Signs) /\ query \in EveryQuery(Signs) /\ text = TextOf(query) /\ pos = 1
    BY DEF ReadSoFar, Reading, BeforeQuery
  <2>2. query.free \in BOOLEAN /\ query.levels \in Seq(EveryLevel(Signs)) /\ query.levels # <<>>
    BY <2>1, QueryParts
  <2> QED BY <2>1, <2>2, ReadingText
<1>2. 1 \in 0..Len(text) + 1 /\ 0 \in 0..Len(text) + 1 /\ 1 \in 1..Len(text) + 1
  BY <1>1
<1>3. Rest(1) = text
  <2>1. Rest(1) = SubSeq(text, 1, Len(text))
    BY DEF Rest
  <2> QED BY <1>1, <2>1
<1>4. r \in Seq(W)
  <2> DEFINE n == 2
  <2> HIDE DEF n
  <2>1. n \in 1..Len(query.levels) + 1
    BY <1>1 DEF n
  <2>2. FromLevel(query, n) \in Seq(W)
    BY <1>1, <2>1, FromLevelOn
  <2> QED BY <2>2 DEF n
<1>5. /\ FromLevel(query, 1) = IF query.free THEN Then(<<"/">>, text) ELSE text
      /\ FromLevel(query, 1) = Then(<<"/">>, Then(LevelText(l), r))
  BY <1>1, QueryText, Zenon
<1>6. LevelText(l) \in Seq(W) /\ Then(LevelText(l), r) \in Seq(W)
  <2>1. LevelText(l) \in Seq(W)
    BY <1>1, LevelTextParts
  <2> HIDE DEF W, l, r
  <2> QED BY <1>4, <2>1, ThenType
<1>7. /\ tree = FirstReversed(LevelViews(query), 1 - 1)
      /\ FirstReversed(LevelViews(query), 1 - 1) = <<>>
  <2> DEFINE lv == LevelViews(query)
             n == 1 - 1
  <2>1. lv \in Seq({lv[o] : o \in DOMAIN query.levels})
    BY <1>1, LevelViewsType
  <2>2. n \in 0..Len(lv) /\ n = 0
    BY <2>1
  <2> HIDE DEF lv, n
  <2>3. FirstReversed(lv, n) = <<>>
    BY <2>1, <2>2, ReversedMore
  <2>4. tree = <<>>
    BY DEF BeforeQuery
  <2> QED BY <2>3, <2>4 DEF lv, n
<1>8. CASE query.free
  <2>1. text = Then(LevelText(l), r)
    <3> DEFINE c == "/"
               t == Then(LevelText(l), r)
    <3>1. Then(<<c>>, text) = Then(<<c>>, t) /\ c \in W /\ t \in Seq(W)
      BY <1>1, <1>5, <1>6, <1>8
    <3> HIDE DEF c, t, W
    <3>2. text = t
      BY <1>1, <3>1, ThenSame
    <3> QED BY <3>2 DEF t
  <2>2. PICK c \in Numbers \cup {"*"} :
             IdText(l) = <<c>> /\ c \in W /\ c \notin {"!", "/", NUL}
    BY <1>1, IdWritten
  <2>3. Then(LevelText(l), r) = Then(m, Then(<<c>>, FromFilter(query, 1, 1)))
        /\ FromFilter(query, 1, 1) \in Seq(W)
    <3>1. 1 \in 1..Len(l.filters) + 1
      <4>1. l.filters \in Seq(EveryFilter(Signs))
        BY <1>1, LevelParts
      <4> QED BY <4>1
    <3> DEFINE i == 1
    <3>2. 1 + 1 = 2 /\ i \in DOMAIN query.levels /\ i = 1
      BY <1>1
    <3> HIDE DEF i
    <3>3. /\ FromFilter(query, i, 1) \in Seq(W)
          /\ Then(LevelText(query.levels[i]), FromLevel(query, i + 1)) =
                Then(Mark(query.levels[i].negative),
                     Then(IdText(query.levels[i]), FromFilter(query, i, 1)))
      BY <1>1, <3>1, <3>2, FromFilterType
    <3> QED BY <2>2, <3>2, <3>3, Zenon
  <2> DEFINE s == FromFilter(query, 1, 1)
             b == l.negative
             p == 1
  <2>4. b \in BOOLEAN
    BY <1>1, LevelParts
  <2>5. Rest(p) = Then(Mark(b), Then(<<c>>, s)) /\ p \in 1..Len(text) + 1
    BY <1>2, <1>3, <2>1, <2>3, Zenon
  <2>6. Char(p) = IF b THEN "!" ELSE c
    <3> HIDE DEF s, b, p, W
    <3> QED BY <1>1, <2>2, <2>3, <2>4, <2>5, RestMark DEF s
  <2>7. Char(1) \notin {"/", NUL}
    BY <2>2, <2>4, <2>6 DEF NUL
  <2>8. /\ pos' = 0 /\ state' = "NEXT" /\ tree' = <<>> /\ ~beyond'
        /\ level' = [level EXCEPT !.place = "FREE"] /\ UNCHANGED <<op, text>>
    BY <2>7 DEF Start
  <2>9. level' = Level("FREE") /\ PlaceOf(query, 1) = "FREE"
    <3>1. level = Level("ROOT")
      BY DEF BeforeQuery
    <3>2. [level EXCEPT !.place = "FREE"] = Level("FREE")
      BY <3>1, Placed, Zenon
    <3>3. PlaceOf(query, 1) = "FREE"
      BY <1>8 DEF PlaceOf
    <3> QED BY <2>8, <3>2, <3>3, Zenon
  <2>10. Rest(0) = FromLevel(query, 1)
    BY <1>5, <1>8, Zenon DEF Rest, Then
  <2>11. BeforeLevel(1, state', pos', level')
    BY <2>8, <2>9, <2>10, Zenon DEF BeforeLevel
  <2>12. InLevel(1, state', pos', level')
    BY <2>8, <2>11, Zenon DEF InLevel
  <2> DEFINE i == 1
  <2>13. /\ i \in DOMAIN query.levels /\ InLevel(i, state', pos', level')
         /\ tree' = FirstReversed(LevelViews(query), i - 1)
         /\ pos' \in 0..Len(text) + 1
    BY <1>1, <1>2, <1>7, <2>8, <2>12
  <2> HIDE DEF i
  <2> QED BY <1>1, <2>8, <2>13, KeepReading
<1>9. CASE ~query.free
  <2>1. text = Then(<<"/">>, Then(LevelText(l), r)) /\ text = FromLevel(query, 1)
    BY <1>5, <1>9
  <2>2. Char(1) = "/"
    <3> DEFINE c == "/"
               t == Then(LevelText(l), r)
               p == 1
    <3>1. Rest(p) = Then(<<c>>, t) /\ c \in W /\ t \in Seq(W) /\ p \in 0..Len(text) + 1
      BY <1>1, <1>2, <1>3, <1>6, <2>1
    <3> HIDE DEF c, t, W, p
    <3>2. Char(p) = c
      BY <1>1, <3>1, RestNext
    <3> QED BY <3>2 DEF p, c
  <2>3. /\ pos' = 1 /\ state' = "NEXT" /\ tree' = <<>> /\ ~beyond'
        /\ level' = level /\ UNCHANGED <<op, text>>
    BY <2>2 DEF Start, NUL
  <2>4. level' = Level("ROOT") /\ PlaceOf(query, 1) = "ROOT"
    BY <1>9, <2>3 DEF BeforeQuery, PlaceOf
  <2>5. BeforeLevel(1, state', pos', level')
    BY <1>3, <2>1, <2>3, <2>4, Zenon DEF BeforeLevel
  <2>6. InLevel(1, state', pos', level')
    BY <2>3, <2>5, Zenon DEF InLevel
  <2> DEFINE i == 1
  <2>7. /\ i \in DOMAIN query.levels /\ InLevel(i, state', pos', level')
        /\ tree' = FirstReversed(LevelViews(query), i - 1)
        /\ pos' \in 0..Len(text) + 1
    BY <1>1, <1>2, <1>7, <2>3, <2>6
  <2> HIDE DEF i
  <2> QED BY <1>1, <2>3, <2>7, KeepReading
<1> QED BY <1>1, <1>8, <1>9

\* NextDo: a slash is read, or the query is over.
LEMMA NextRead ==
    ASSUME NEW Signs, ReadSoFar(Signs), NextDo, UNCHANGED query,
           NEW i \in DOMAIN query.levels,
           tree = FirstReversed(LevelViews(query), i - 1),
           InLevel(i, state, pos, level)
    PROVE  ReadSoFar(Signs)'
<1> DEFINE W == Written(Signs)
           n == i + 1
           l == query.levels[i]
           t == Then(LevelText(l), FromLevel(query, i + 1))
<1>1. /\ Reading(Signs) /\ query \in EveryQuery(Signs)
      /\ text \in Seq(W) /\ Len(text) \in Nat /\ "/" \in W /\ op \in Operations
      /\ pos \in 0..Len(text) + 1 /\ ~beyond
      /\ i \in 1..Len(query.levels) /\ Len(query.levels) \in Nat
      /\ l \in EveryLevel(Signs)
      /\ state = "NEXT" /\ UNCHANGED <<op, text>>
  <2>1. Reading(Signs) /\ query \in EveryQuery(Signs) /\ pos \in 0..Len(text) + 1 /\ ~beyond
    BY DEF ReadSoFar, Reading
  <2>2. state = "NEXT" /\ UNCHANGED <<op, text>>
    BY DEF NextDo
  <2> QED BY <2>1, <2>2, ReadingText
<1>2. CASE BeforeLevel(i, state, pos, level)
  <2>1. Rest(pos) = FromLevel(query, i) /\ level = Level(PlaceOf(query, i))
    BY <1>2 DEF BeforeLevel
  <2>2. i \in 1..Len(query.levels) + 1 /\ i <= Len(query.levels) /\ n \in 1..Len(query.levels) + 1
    BY <1>1
  <2>3. FromLevel(query, i) = Then(<<"/">>, t)
    BY <1>1, <2>2, FromLevelOn
  <2>4. t \in Seq(W)
    <3>1. LevelText(l) \in Seq(W)
      BY <1>1, LevelTextParts
    <3> HIDE DEF n, W
    <3>2. FromLevel(query, n) \in Seq(W)
      BY <1>1, <2>2, FromLevelOn DEF W
    <3> QED BY <3>1, <3>2, ThenType DEF n
  <2>5. Char(pos) = "/" /\ pos + 1 \in 1..Len(text) + 1 /\ Rest(pos + 1) = t
    <3> DEFINE c == "/"
    <3>1. Rest(pos) = Then(<<c>>, t) /\ c \in W
      BY <1>1, <2>1, <2>3, Zenon
    <3> HIDE DEF c, t, W
    <3>2. Char(pos) = c /\ pos + 1 \in 1..Len(text) + 1 /\ Rest(pos + 1) = t
      BY <1>1, <2>4, <3>1, RestNext
    <3> QED BY <3>2 DEF c
  <2>6. Leave("NAME", pos + 1, level)
    BY <2>5 DEF NextDo
  <2>7. state' = "NAME" /\ pos' = pos + 1 /\ level' = level /\ tree' = tree /\ beyond' = beyond
    BY <2>6 DEF Leave
  <2>8. BeforeName(i, state', pos', level')
    BY <2>1, <2>5, <2>7, Zenon DEF BeforeName
  <2>9. pos' \in 0..Len(text) + 1 /\ pos' # 0
    BY <1>1, <2>5, <2>7
  <2>10. InLevel(i, state', pos', level')
    BY <2>8, <2>9, Zenon DEF InLevel
  <2> QED BY <1>1, <2>7, <2>9, <2>10, KeepReading
<1>3. CASE AfterLevels(i, state, pos, level)
  <2>1. i = Len(query.levels) /\ level = LevelViews(query)[i] /\ Rest(pos) = <<>>
    BY <1>3 DEF AfterLevels
  <2>2. pos = Len(text) + 1 /\ Char(pos) = NUL
    <3> HIDE DEF W
    <3> QED BY <1>1, <2>1, RestEnd
  <2>3. Leave("ERROR", pos, level)
    BY <2>2 DEF NextDo, NUL
  <2>4. /\ state' = "ERROR" /\ pos' = pos /\ tree' = <<level>> \o tree
        /\ beyond' = (op \notin Operations)
    BY <2>3, Zenon DEF Leave
  <2>5. tree' = ViewOf(query)
    <3> DEFINE lv == LevelViews(query)
               k == i - 1
    <3>1. /\ lv \in Seq({lv[o] : o \in DOMAIN query.levels})
          /\ Len(lv) = Len(query.levels)
          /\ ViewOf(query) = FirstReversed(lv, Len(query.levels))
      BY <1>1, LevelViewsType
    <3>2. k \in 0..Len(lv) /\ k < Len(lv) /\ k + 1 = i
      BY <1>1, <3>1
    <3>3. tree = FirstReversed(lv, k)
      OBVIOUS
    <3> HIDE DEF k, lv
    <3>4. FirstReversed(lv, k + 1) = Then(<<lv[k + 1]>>, FirstReversed(lv, k))
      BY <3>1, <3>2, ReversedMore
    <3>5. level = lv[i]
      BY <2>1 DEF lv
    <3> QED BY <2>1, <2>4, <3>1, <3>2, <3>3, <3>4, <3>5, Zenon DEF Then
  <2>6. AfterQuery'
    <3>1. query' = query /\ text' = text
      BY <1>1
    <3> QED BY <2>2, <2>4, <2>5, <3>1 DEF AfterQuery
  <2>7. Reading(Signs)'
    BY <1>1 DEF Reading
  <2>8. (pos \in 0..Len(text) + 1)' /\ ~beyond'
    BY <1>1, <2>4
  <2> QED BY <2>6, <2>7, <2>8, Zenon DEF ReadSoFar
<1>4. BeforeLevel(i, state, pos, level) \/ AfterLevels(i, state, pos, level)
  <2>1. state = "NEXT" /\ "NEXT" # "NAME" /\ "NEXT" # "ATTRIBUTE" /\ "NEXT" # "FILTER"
    BY <1>1
  <2> QED BY <2>1, Zenon DEF InLevel, BeforeName, BeforeFilter, BeforeComparator
<1> QED BY <1>2, <1>3, <1>4

\* What each of the remaining steps is taken from.
LEMMA InLevelFacts ==
    ASSUME NEW Signs, ReadSoFar(Signs), NEW i \in DOMAIN query.levels
    PROVE  /\ Reading(Signs) /\ query \in EveryQuery(Signs)
           /\ text \in Seq(Written(Signs)) /\ Len(text) \in Nat
           /\ {"/", "!", "[", "]", "|"} \subseteq Written(Signs)
           /\ op \in Operations
           /\ pos \in 0..Len(text) + 1 /\ ~beyond
           /\ i \in 1..Len(query.levels) /\ Len(query.levels) \in Nat
           /\ query.levels[i] \in EveryLevel(Signs)
           /\ query.levels[i].filters \in Seq(EveryFilter(Signs))
           /\ Len(query.levels[i].filters) \in Nat
<1>1. Reading(Signs) /\ query \in EveryQuery(Signs) /\ pos \in 0..Len(text) + 1 /\ ~beyond
  BY DEF ReadSoFar, Reading
<1>2. query.levels[i] \in EveryLevel(Signs)
  BY <1>1, ReadingText
<1>3. query.levels[i].filters \in Seq(EveryFilter(Signs))
  BY <1>2, LevelParts
<1> DEFINE l == query.levels[i]
<1>4. Len(l.filters) \in Nat
  BY <1>3
<1> QED BY <1>1, <1>2, <1>3, <1>4, ReadingText, WrittenSymbols

\* NameDo: the id is read, with its mark.
LEMMA NameRead ==
    ASSUME NEW Signs, ReadSoFar(Signs), NameDo, UNCHANGED query,
           NEW i \in DOMAIN query.levels,
           tree = FirstReversed(LevelViews(query), i - 1),
           InLevel(i, state, pos, level)
    PROVE  ReadSoFar(Signs)'
<1> DEFINE W == Written(Signs)
           l == query.levels[i]
           s == FromFilter(query, i, 1)
           b == l.negative
           p == Skip(pos, "!")
<1>1. /\ Reading(Signs) /\ query \in EveryQuery(Signs)
      /\ text \in Seq(W) /\ "/" \in W /\ "!" \in W
      /\ ~beyond
      /\ l \in EveryLevel(Signs) /\ 1 \in 1..Len(l.filters) + 1
      /\ state = "NAME" /\ UNCHANGED <<op, text>>
  <2>1. state = "NAME" /\ UNCHANGED <<op, text>>
    BY Zenon DEF NameDo
  <2> QED BY <2>1, InLevelFacts
<1>2. pos \in 1..Len(text) + 1
  <2>1. pos = 0 => state = "NEXT"
    BY Zenon DEF InLevel
  <2> QED BY <1>1, <2>1, InLevelFacts
<1>3. BeforeName(i, state, pos, level)
  <2>1. "NAME" # "NEXT" /\ "NAME" # "ATTRIBUTE" /\ "NAME" # "FILTER"
    OBVIOUS
  <2> QED BY <1>1, <2>1, Zenon DEF InLevel, BeforeLevel, BeforeFilter, BeforeComparator, AfterLevels
<1>4. PICK c \in Numbers \cup {"*"} :
         /\ IdText(l) = <<c>> /\ c \in W /\ c \notin {"!", "/", NUL}
         /\ l.any <=> c = "*"
         /\ ~l.any => c = l.value
  BY <1>1, IdWritten
<1>5. Rest(pos) = Then(Mark(b), Then(<<c>>, s)) /\ s \in Seq(W) /\ b \in BOOLEAN
  <2>1. /\ s \in Seq(W)
        /\ Then(LevelText(l), FromLevel(query, i + 1)) = Then(Mark(b), Then(IdText(l), s))
    BY <1>1, FromFilterType
  <2>2. Rest(pos) = Then(LevelText(l), FromLevel(query, i + 1))
    BY <1>3 DEF BeforeName
  <2>3. b \in BOOLEAN
    BY <1>1, LevelParts
  <2> QED BY <1>4, <2>1, <2>2, <2>3, Zenon
<1>6. p \in 1..Len(text) /\ (p # pos <=> b) /\ Char(p) = c /\ Rest(p + 1) = s
  <2> HIDE DEF s, b, W
  <2> QED BY <1>1, <1>2, <1>4, <1>5, RestMark
<1> DEFINE n == p + 1
           a == IF l.any THEN [level EXCEPT !.any = TRUE]
                ELSE [level EXCEPT !.value = c, !.negative = b]
<1>7. n \in 1..Len(text) + 1
  BY <1>1, <1>6
<1>8. Leave(After(n), n, a)
  <2>1. CASE l.any
    <3>1. Char(p) = "*" /\ a = [level EXCEPT !.any = TRUE]
      BY <1>4, <1>6, <2>1
    <3> HIDE DEF a, p
    <3> QED BY <3>1, Zenon DEF NameDo, p
  <2>2. CASE ~l.any
    <3>1. Char(p) # "*" /\ Char(p) \in Numbers /\ Char(p) = c
      BY <1>4, <1>6, <2>2
    <3>2. (p # pos) = b
      BY <1>5, <1>6
    <3>3. a = [level EXCEPT !.value = c, !.negative = b]
      BY <2>2, Zenon
    <3>4. Leave(After(p + 1), p + 1, [level EXCEPT !.value = Char(p), !.negative = (p # pos)])
      <4> HIDE DEF p
      <4> QED BY <3>1, Zenon DEF NameDo, p
    <3> HIDE DEF a, p, b
    <3> QED BY <3>1, <3>2, <3>3, <3>4, Zenon
  <2>3. l.any \in BOOLEAN
    BY <1>1, LevelParts
  <2> QED BY <2>1, <2>2, <2>3
<1>9. a = WithFilters(query, i, 0)
  <2>1. WithFilters(query, i, 0) = ViewWith(query, i, <<>>)
    BY <1>1, LevelView
  <2>2. level = Level(PlaceOf(query, i))
    BY <1>3 DEF BeforeName
  <2> DEFINE no == FALSE
             none == <<>>
             place == PlaceOf(query, i)
  <2>3. /\ ViewWith(query, i, <<>>) =
              [place |-> place, negative |-> b, any |-> l.any, value |-> l.value, filters |-> none]
        /\ level = [place |-> place, negative |-> no, any |-> no, value |-> None, filters |-> none]
    BY <2>2, Zenon DEF ViewWith, Level
  <2> DEFINE yes == TRUE
  <2>4. /\ l.any => (l.any = yes /\ b = no /\ l.value = None)
        /\ ~l.any => (l.any = no /\ l.value = c)
        /\ l.any => a = [level EXCEPT !.any = yes]
        /\ ~l.any => a = [level EXCEPT !.value = c, !.negative = b]
    <3>1. l.any \in BOOLEAN /\ b \in BOOLEAN /\ (l.any => ~b /\ l.value = None)
      BY <1>1, LevelParts
    <3>2. /\ l.any => (l.any = yes /\ b = no /\ l.value = None)
          /\ ~l.any => (l.any = no /\ l.value = c)
      BY <1>4, <3>1
    <3> QED BY <3>2, Zenon
  <2> HIDE DEF no, none, place, b, a, yes
  <2>5. a = [place |-> place, negative |-> b, any |-> l.any, value |-> l.value, filters |-> none]
    <3>1. CASE l.any
      <4>1. a = [place |-> place, negative |-> no, any |-> yes, value |-> None, filters |-> none]
        BY <2>3, <2>4, <3>1
      <4> QED BY <2>4, <3>1, <4>1, Zenon
    <3>2. CASE ~l.any
      <4>1. a = [place |-> place, negative |-> b, any |-> no, value |-> c, filters |-> none]
        BY <2>3, <2>4, <3>2
      <4> QED BY <2>4, <3>2, <4>1, Zenon
    <3> QED BY <3>1, <3>2
  <2> QED BY <2>1, <2>3, <2>5, Zenon
<1>10. 0 + 1 = 1 /\ 0 \in 0..Len(l.filters)
  BY InLevelFacts
<1> DEFINE j == 0
<1>11. /\ Rest(n) = FromFilter(query, i, j + 1)
       /\ a = WithFilters(query, i, j) /\ j \in 0..Len(l.filters)
  BY <1>6, <1>9, <1>10, Zenon
<1> HIDE DEF a, n, j, s, b, p
<1> QED BY <1>1, <1>7, <1>8, <1>11, ReadOn

\* The comparators of a filter begin with a bracket.
LEMMA FilterBegins ==
    ASSUME NEW Signs, NEW q \in EveryQuery(Signs), NEW i \in DOMAIN q.levels,
           NEW j \in DOMAIN q.levels[i].filters
    PROVE  \E t \in Seq(Written(Signs)) : FromComparator(q, i, j, 1) = Then(<<"[">>, t)
<1> DEFINE f == q.levels[i].filters[j]
           cs == f.comparators
           t == Then(ComparatorText(cs[1]), FromComparator(q, i, j, 2))
           W == Written(Signs)
<1>1. q.levels[i] \in EveryLevel(Signs)
  BY QueryParts
<1>2. f \in EveryFilter(Signs)
  <2>1. q.levels[i].filters \in Seq(EveryFilter(Signs))
    BY <1>1, LevelParts
  <2> QED BY <2>1
<1>3. /\ 1 \in 1..Len(cs) + 1 /\ 1 <= Len(cs) /\ 2 \in 1..Len(cs) + 1
      /\ cs[1] \in EveryComparator(Signs)
  <2>1. cs \in Seq(EveryComparator(Signs)) /\ cs # <<>>
    BY <1>2, FilterParts
  <2> HIDE DEF cs
  <2> QED BY <2>1
<1>4. FromComparator(q, i, j, 1) = Then(<<"[">>, t)
  <2>1. 1 + 1 = 2 /\ (IF 1 = 1 THEN "[" ELSE "|") = "["
    OBVIOUS
  <2> QED BY <1>3, <2>1, FromComparatorOn
<1>5. FromComparator(q, i, j, 2) \in Seq(W)
  <2> HIDE DEF W
  <2> QED BY <1>3, FromComparatorOn DEF W
<1>6. t \in Seq(W)
  <2>1. ComparatorText(cs[1]) \in Seq(W)
    BY <1>3, ComparatorTextType
  <2> HIDE DEF W, cs
  <2> QED BY <1>5, <2>1, ThenType
<1> HIDE DEF t
<1> QED BY <1>4, <1>6

\* AttributeDo: a filter is begun, with its mark.
LEMMA AttributeRead ==
    ASSUME NEW Signs, ReadSoFar(Signs), AttributeDo, UNCHANGED query,
           NEW i \in DOMAIN query.levels,
           tree = FirstReversed(LevelViews(query), i - 1),
           InLevel(i, state, pos, level)
    PROVE  ReadSoFar(Signs)'
<1> DEFINE W == Written(Signs)
           l == query.levels[i]
           p == Skip(pos, "!")
<1>1. /\ Reading(Signs) /\ query \in EveryQuery(Signs)
      /\ text \in Seq(W) /\ "/" \in W /\ "!" \in W /\ "[" \in W
      /\ ~beyond
      /\ l \in EveryLevel(Signs)
      /\ state = "ATTRIBUTE" /\ UNCHANGED <<op, text>>
  <2>1. state = "ATTRIBUTE" /\ UNCHANGED <<op, text>>
    BY Zenon DEF AttributeDo
  <2> QED BY <2>1, InLevelFacts
<1>2. pos \in 1..Len(text) + 1
  <2>1. pos = 0 => state = "NEXT"
    BY Zenon DEF InLevel
  <2> QED BY <1>1, <2>1, InLevelFacts
<1>3. PICK j \in DOMAIN l.filters : BeforeFilter(i, j, state, pos, level)
  <2>1. "ATTRIBUTE" # "NEXT" /\ "ATTRIBUTE" # "NAME" /\ "ATTRIBUTE" # "FILTER"
    OBVIOUS
  <2> QED BY <1>1, <2>1, Zenon DEF InLevel, BeforeLevel, BeforeName, BeforeComparator, AfterLevels
<1> DEFINE f == l.filters[j]
           b == f.negative
           fv == FilterViews(l)
<1>4. b \in BOOLEAN /\ 1 \in 1..Len(f.comparators) + 1 /\ f \in EveryFilter(Signs)
  <2>1. f \in EveryFilter(Signs)
    BY InLevelFacts
  <2>2. f.comparators \in Seq(EveryComparator(Signs)) /\ b \in BOOLEAN
    BY <2>1, FilterParts
  <2> QED BY <2>1, <2>2
<1>5. PICK t \in Seq(W) : FromComparator(query, i, j, 1) = Then(<<"[">>, t)
  BY <1>1, FilterBegins
<1>6. Rest(pos) = Then(Mark(b), Then(<<"[">>, t))
  <2>1. FromFilter(query, i, j) = Then(Mark(b), FromComparator(query, i, j, 1))
    <3> DEFINE k == 1
    <3>1. k \in 1..Len(f.comparators) + 1
      BY <1>4
    <3> HIDE DEF k
    <3> QED BY <1>1, <3>1, FromComparatorOn
  <2>2. Rest(pos) = FromFilter(query, i, j)
    BY <1>3 DEF BeforeFilter
  <2> QED BY <1>5, <2>1, <2>2, Zenon
<1>7. /\ p \in 1..Len(text) /\ (p # pos <=> b) /\ Char(p) = "["
      /\ Rest(p) = FromComparator(query, i, j, 1)
  <2> DEFINE c == "["
  <2>1. c \in W /\ c # "!" /\ Rest(pos) = Then(Mark(b), Then(<<c>>, t))
    BY <1>1, <1>6
  <2> HIDE DEF c, b, W
  <2>2. p \in 1..Len(text) /\ (p # pos <=> b) /\ Char(p) = c /\ Rest(p) = Then(<<c>>, t)
    BY <1>1, <1>2, <1>4, <2>1, RestMark
  <2> QED BY <1>5, <2>2 DEF c
<1> DEFINE g == [negative |-> b, comparators |-> <<>>]
<1>8. Leave("FILTER", p, [level EXCEPT !.filters = <<g>> \o @])
  <2>1. (p # pos) = b
    BY <1>4, <1>7
  <2>2. Leave("FILTER", p, [level EXCEPT !.filters =
                               <<[negative |-> (p # pos), comparators |-> <<>>]>> \o @])
    <3> HIDE DEF p
    <3> QED BY <1>7, Zenon DEF AttributeDo, p
  <2> HIDE DEF p, b
  <2> QED BY <2>1, <2>2, Zenon
<1>9. [level EXCEPT !.filters = <<g>> \o @] = InFilterWith(query, i, j - 1, 0)
  <2>1. /\ InFilterWith(query, i, j - 1, 0) =
              ViewWith(query, i, <<FilterWith(f, 0)>> \o FirstReversed(fv, j - 1))
        /\ FirstReversed(f.comparators, 0) = <<>>
    BY <1>1, FilterView
  <2>2. level = ViewWith(query, i, FirstReversed(fv, j - 1))
    <3>1. level = WithFilters(query, i, j - 1)
      BY <1>3 DEF BeforeFilter
    <3> QED BY <1>1, <3>1, LevelView, Zenon
  <2>3. FilterWith(f, 0) = g
    BY <2>1, Zenon DEF FilterWith
  <2> DEFINE old == FirstReversed(fv, j - 1)
             put == <<g>> \o old
  <2>4. level.filters = old
    BY <2>2 DEF ViewWith
  <2>5. [level EXCEPT !.filters = <<g>> \o @] = [level EXCEPT !.filters = put]
    BY <2>4, Zenon
  <2>6. InFilterWith(query, i, j - 1, 0) = ViewWith(query, i, put)
    BY <2>1, <2>3, Zenon
  <2>7. level = ViewWith(query, i, old)
    BY <2>2, Zenon
  <2> HIDE DEF put, old, g
  <2>8. [level EXCEPT !.filters = put] = ViewWith(query, i, put)
    BY <2>7 DEF ViewWith
  <2> QED BY <2>5, <2>6, <2>8, Zenon
<1>10. /\ state' = "FILTER" /\ pos' = p /\ level' = InFilterWith(query, i, j - 1, 0)
       /\ tree' = tree /\ beyond' = beyond
  <2> HIDE DEF p, g
  <2> QED BY <1>8, <1>9 DEF Leave
<1>11. BeforeComparator(i, j, 1, state', pos', level')
  <2>1. 1 - 1 = 0
    OBVIOUS
  <2> QED BY <1>7, <1>10, <2>1, Zenon DEF BeforeComparator
<1>12. pos' # 0 /\ pos' \in 0..Len(text) + 1
  BY <1>1, <1>7, <1>10
<1>13. InLevel(i, state', pos', level')
  <2>1. 1 \in 1..Len(query.levels[i].filters[j].comparators) + 1
    BY <1>4
  <2> QED BY <1>11, <1>12, <2>1, Zenon DEF InLevel
<1> QED BY <1>1, <1>10, <1>12, <1>13, KeepReading

\* The first of some filters, replaced.
LEMMA FirstReplaced ==
    ASSUME NEW T, NEW s \in Seq(T), NEW x, NEW y
    PROVE  [(<<x>> \o s) EXCEPT ![1] = y] = <<y>> \o s /\ (<<x>> \o s)[1] = x
<1> DEFINE S == T \cup {x, y}
           a == <<x>> \o s
           b == <<y>> \o s
           c == [a EXCEPT ![1] = y]
<1>1. /\ a \in Seq(S) /\ b \in Seq(S) /\ Len(a) = Len(s) + 1 /\ Len(b) = Len(s) + 1
      /\ a[1] = x /\ b[1] = y
      /\ \A m \in 1..Len(s) + 1 : m # 1 => a[m] = s[m - 1] /\ b[m] = s[m - 1]
  <2>1. s \in Seq(S) /\ <<x>> \in Seq(S) /\ <<y>> \in Seq(S)
    OBVIOUS
  <2> HIDE DEF S
  <2> QED BY <2>1
<1> HIDE DEF a, b
<1>2. y \in S
  OBVIOUS
<1> HIDE DEF S
<1>3. c \in Seq(S) /\ Len(c) = Len(a) /\ c[1] = y
      /\ \A m \in 1..Len(a) : m # 1 => c[m] = a[m]
  <2>1. 1 \in DOMAIN a
    BY <1>1
  <2> QED BY <1>1, <1>2, <2>1
<1> HIDE DEF c
<1>4. c = b
  BY <1>1, <1>3, SeqEqual
<1> QED BY <1>1, <1>4 DEF a, b, c

\* A filter that is being read, and its comparators.
LEMMA ComparatorPlace ==
    ASSUME NEW Signs, ReadSoFar(Signs), state = "FILTER", NEW i \in DOMAIN query.levels,
           InLevel(i, state, pos, level)
    PROVE  \E j \in DOMAIN query.levels[i].filters :
              \E k \in 1..Len(query.levels[i].filters[j].comparators) + 1 :
                 /\ BeforeComparator(i, j, k, state, pos, level)
                 /\ query.levels[i].filters[j] \in EveryFilter(Signs)
                 /\ query.levels[i].filters[j].comparators \in Seq(EveryComparator(Signs))
                 /\ Len(query.levels[i].filters[j].comparators) \in Nat
                 /\ j \in 1..Len(query.levels[i].filters)
<1>1. PICK j \in DOMAIN query.levels[i].filters :
         \E k \in 1..Len(query.levels[i].filters[j].comparators) + 1 :
            BeforeComparator(i, j, k, state, pos, level)
  <2>1. "FILTER" # "NEXT" /\ "FILTER" # "NAME" /\ "FILTER" # "ATTRIBUTE"
    OBVIOUS
  <2> QED BY <2>1, Zenon DEF InLevel, BeforeLevel, BeforeName, BeforeFilter, AfterLevels
<1> DEFINE f == query.levels[i].filters[j]
           cs == f.comparators
<1>2. f \in EveryFilter(Signs) /\ j \in 1..Len(query.levels[i].filters)
  BY InLevelFacts
<1>3. cs \in Seq(EveryComparator(Signs))
  BY <1>2, FilterParts
<1>4. Len(cs) \in Nat
  BY <1>3
<1> QED BY <1>1, <1>2, <1>3, <1>4

\* FilterEnd: the bracket closes a filter whose comparators are all read.
LEMMA FilterEndRead ==
    ASSUME NEW Signs, ReadSoFar(Signs), FilterEnd, UNCHANGED query,
           NEW i \in DOMAIN query.levels,
           tree = FirstReversed(LevelViews(query), i - 1),
           InLevel(i, state, pos, level)
    PROVE  ReadSoFar(Signs)'
<1> DEFINE W == Written(Signs)
           l == query.levels[i]
           p == pos + 1
<1>0. query \in EveryQuery(Signs)
  BY DEF ReadSoFar, Reading
<1>1. /\ Reading(Signs) /\ query \in EveryQuery(Signs)
      /\ text \in Seq(W) /\ Len(text) \in Nat
      /\ "/" \in W /\ "[" \in W /\ "|" \in W /\ "]" \in W
      /\ ~beyond /\ pos \in 0..Len(text) + 1
      /\ Len(l.filters) \in Nat
      /\ state = "FILTER" /\ UNCHANGED <<op, text>>
      /\ Char(pos) = "]" /\ Leave(After(p), p, level)
  <2>1. /\ state = "FILTER" /\ UNCHANGED <<op, text>>
        /\ Char(pos) = "]" /\ Leave(After(p), p, level)
    BY Zenon DEF FilterEnd
  <2> QED BY <2>1, InLevelFacts
<1> PICK j \in DOMAIN l.filters :
         \E k \in 1..Len(l.filters[j].comparators) + 1 :
            /\ BeforeComparator(i, j, k, state, pos, level)
            /\ l.filters[j].comparators \in Seq(EveryComparator(Signs))
            /\ Len(l.filters[j].comparators) \in Nat
            /\ j \in 1..Len(l.filters)
  BY <1>1, ComparatorPlace
<1>2. PICK k \in 1..Len(l.filters[j].comparators) + 1 :
         /\ BeforeComparator(i, j, k, state, pos, level)
         /\ l.filters[j].comparators \in Seq(EveryComparator(Signs))
         /\ Len(l.filters[j].comparators) \in Nat
         /\ j \in 1..Len(l.filters)
  OBVIOUS
<1> DEFINE cs == l.filters[j].comparators
           n == k + 1
<1>3. /\ level = InFilterWith(query, i, j - 1, k - 1)
      /\ Rest(pos) = FromComparator(query, i, j, k)
  BY <1>2 DEF BeforeComparator
<1>4. k > Len(cs)
  <2> SUFFICES ASSUME k <= Len(cs) PROVE FALSE
    BY <1>2
  <2> DEFINE c == IF k = 1 THEN "[" ELSE "|"
             t == Then(ComparatorText(cs[k]), FromComparator(query, i, j, n))
  <2>1. FromComparator(query, i, j, k) = Then(<<c>>, t)
    BY <1>0, FromComparatorOn
  <2>2. n \in 1..Len(cs) + 1 /\ cs[k] \in EveryComparator(Signs)
    BY <1>2
  <2>3. t \in Seq(W)
    <3>1. ComparatorText(cs[k]) \in Seq(W)
      BY <2>2, ComparatorTextType
    <3> HIDE DEF n, W
    <3>2. FromComparator(query, i, j, n) \in Seq(W)
      BY <1>0, <2>2, FromComparatorOn DEF W
    <3> QED BY <3>1, <3>2, ThenType
  <2>4. c \in W /\ c # "]"
    BY <1>1
  <2>5. Rest(pos) = Then(<<c>>, t)
    BY <1>3, <2>1, Zenon
  <2> HIDE DEF c, t, W
  <2>6. Char(pos) = c
    BY <1>1, <2>3, <2>4, <2>5, RestNext
  <2> QED BY <1>1, <2>4, <2>6
<1>5. FromComparator(query, i, j, k) = Then(<<"]">>, FromFilter(query, i, j + 1))
  BY <1>0, <1>4, FromComparatorOn
<1>6. k - 1 = Len(cs)
  <2>1. \A m \in Nat : k \in 1..m + 1 /\ k > m => k - 1 = m
    OBVIOUS
  <2> HIDE DEF l
  <2> QED BY <1>2, <1>4, <2>1, Zenon
<1>7. FromFilter(query, i, j + 1) \in Seq(W)
  <2> DEFINE m == j + 1
  <2>1. m \in 1..Len(l.filters) + 1
    BY <1>1, <1>2
  <2> HIDE DEF m
  <2>2. FromFilter(query, i, m) \in Seq(W)
    BY <1>1, <2>1, FromFilterType
  <2> QED BY <2>2 DEF m
<1>8. p \in 1..Len(text) + 1 /\ Rest(p) = FromFilter(query, i, j + 1)
  <2> DEFINE c == "]"
             t == FromFilter(query, i, j + 1)
  <2>1. c \in W /\ t \in Seq(W) /\ Rest(pos) = Then(<<c>>, t)
    BY <1>1, <1>3, <1>5, <1>7
  <2> HIDE DEF c, t, W
  <2>2. pos + 1 \in 1..Len(text) + 1 /\ Rest(pos + 1) = t
    BY <1>1, <2>1, RestNext
  <2> QED BY <2>2 DEF t
<1>9. level = WithFilters(query, i, j)
  <2>1. InFilterWith(query, i, j - 1, Len(cs)) = WithFilters(query, i, j)
    BY <1>1, FilterView
  <2> QED BY <1>3, <1>6, <2>1, Zenon
<1>10. j \in 0..Len(l.filters)
  BY <1>1, <1>2
<1> HIDE DEF p
<1> QED BY <1>1, <1>8, <1>9, <1>10, ReadOn

\* A level of whose first filter one more comparator is read.
Added(l, c) == [l EXCEPT !.filters[1].comparators = <<c>> \o @]

\* One more comparator in the filter that is read.
LEMMA ComparatorAdded ==
    ASSUME NEW Signs, NEW q \in EveryQuery(Signs), NEW i \in DOMAIN q.levels,
           NEW j \in DOMAIN q.levels[i].filters,
           NEW k \in DOMAIN q.levels[i].filters[j].comparators,
           NEW l, l = InFilterWith(q, i, j - 1, k - 1)
    PROVE  Added(l, q.levels[i].filters[j].comparators[k]) = InFilterWith(q, i, j - 1, k)
<1> DEFINE v == q.levels[i]
           f == v.filters[j]
           cs == f.comparators
           fv == FilterViews(v)
           old == FirstReversed(fv, j - 1)
           x == FilterWith(f, k - 1)
           y == FilterWith(f, k)
           T == {fv[m] : m \in DOMAIN v.filters}
<1>1. v \in EveryLevel(Signs)
  BY QueryParts
<1>2. f \in EveryFilter(Signs) /\ j \in 1..Len(v.filters) /\ Len(v.filters) \in Nat
  <2>1. v.filters \in Seq(EveryFilter(Signs))
    BY <1>1, LevelParts
  <2> QED BY <2>1
<1>3. cs \in Seq(EveryComparator(Signs)) /\ k \in 1..Len(cs) /\ Len(cs) \in Nat
  <2>1. cs \in Seq(EveryComparator(Signs))
    BY <1>2, FilterParts
  <2> QED BY <2>1
<1>4. \A m : InFilterWith(q, i, j - 1, m) = ViewWith(q, i, <<FilterWith(f, m)>> \o old)
  BY FilterView
<1>5. old \in Seq(T)
  <2>1. fv \in Seq(T) /\ Len(fv) = Len(v.filters)
    <3> HIDE DEF v
    <3> QED BY <1>1, FilterViewsType, Zenon
  <2> DEFINE m == j - 1
  <2>2. m \in 0..Len(fv)
    BY <1>2, <2>1
  <2> HIDE DEF fv, T, m
  <2>3. FirstReversed(fv, m) \in Seq(T)
    BY <2>1, <2>2, ReversedMore
  <2> QED BY <2>3 DEF m
<1>6. FirstReversed(cs, k) = <<cs[k]>> \o FirstReversed(cs, k - 1)
  <2> DEFINE m == k - 1
  <2>1. m \in 0..Len(cs) /\ m < Len(cs) /\ m + 1 = k
    BY <1>3
  <2> HIDE DEF m, cs
  <2>2. FirstReversed(cs, m + 1) = Then(<<cs[m + 1]>>, FirstReversed(cs, m))
    BY <1>3, <2>1, ReversedMore
  <2> QED BY <2>1, <2>2, Zenon DEF m, Then
<1> DEFINE new == <<cs[k]>> \o FirstReversed(cs, k - 1)
<1>7. /\ x.comparators = FirstReversed(cs, k - 1)
      /\ y = [x EXCEPT !.comparators = new]
  <2> DEFINE g == FirstReversed(cs, k - 1)
             h == FirstReversed(cs, k)
             b == f.negative
  <2>1. x = [negative |-> b, comparators |-> g] /\ y = [negative |-> b, comparators |-> h]
    BY Zenon DEF FilterWith
  <2>2. h = new
    BY <1>6
  <2> HIDE DEF x, y, g, h, b, new
  <2> QED BY <2>1, <2>2 DEF g
<1>8. l = ViewWith(q, i, <<x>> \o old)
  BY <1>4, Zenon
<1> DEFINE put == <<x>> \o old
           got == <<y>> \o old
<1>9. [put EXCEPT ![1] = y] = got /\ put[1] = x
  <2> HIDE DEF x, y, old, T
  <2> QED BY <1>5, FirstReplaced
<1>10. l.filters = put
  <2>1. l = ViewWith(q, i, put)
    BY <1>8
  <2> HIDE DEF put
  <2> QED BY <2>1 DEF ViewWith
<1>11. Added(l, cs[k]) = [l EXCEPT !.filters = got]
  <2>1. [l EXCEPT !.filters[1].comparators = <<cs[k]>> \o @] =
           [l EXCEPT !.filters[1].comparators = new]
    <3> DEFINE g == FirstReversed(cs, k - 1)
               c == cs[k]
    <3>1. l.filters[1].comparators = g
      BY <1>7, <1>9, <1>10, Zenon
    <3> HIDE DEF g, c
    <3>2. [l EXCEPT !.filters[1].comparators = <<c>> \o @] =
             [l EXCEPT !.filters[1].comparators = <<c>> \o l.filters[1].comparators]
      OBVIOUS
    <3>3. [l EXCEPT !.filters[1].comparators = <<c>> \o @] =
             [l EXCEPT !.filters[1].comparators = <<c>> \o g]
      BY <3>1, <3>2, Zenon
    <3> QED BY <3>3, Zenon DEF c, g
  <2>2. [l EXCEPT !.filters[1].comparators = new] =
           [l EXCEPT !.filters =
               [l.filters EXCEPT ![1] = [l.filters[1] EXCEPT !.comparators = new]]]
    <3> HIDE DEF new
    <3> QED OBVIOUS
  <2>3. [l.filters[1] EXCEPT !.comparators = new] = y
    BY <1>7, <1>9, <1>10, Zenon
  <2>4. [l.filters EXCEPT ![1] = y] = got
    BY <1>9, <1>10, Zenon
  <2>5. Added(l, cs[k]) = [l EXCEPT !.filters[1].comparators = <<cs[k]>> \o @]
    BY Zenon DEF Added
  <2> HIDE DEF new, y, got
  <2> QED BY <2>1, <2>2, <2>3, <2>4, <2>5, Zenon
<1>12. [l EXCEPT !.filters = got] = ViewWith(q, i, got)
  <2> HIDE DEF got, put
  <2> QED BY <1>8 DEF ViewWith, put
<1> QED BY <1>4, <1>11, <1>12, Zenon

\* ReadComparator: the next comparator is read, never the end of the text.
LEMMA ComparatorStep ==
    ASSUME NEW Signs, ReadSoFar(Signs), ReadComparator, UNCHANGED query,
           NEW i \in DOMAIN query.levels,
           tree = FirstReversed(LevelViews(query), i - 1),
           InLevel(i, state, pos, level)
    PROVE  ReadSoFar(Signs)'
<1> DEFINE W == Written(Signs)
           v == query.levels[i]
           r == ReadFilter(pos + 1)
           a == [level EXCEPT !.filters[1].comparators = <<r.comp>> \o @]
<1>0. query \in EveryQuery(Signs)
  BY DEF ReadSoFar, Reading
<1>1. /\ Reading(Signs) /\ query \in EveryQuery(Signs)
      /\ text \in Seq(W) /\ Len(text) \in Nat
      /\ "/" \in W /\ "[" \in W /\ "|" \in W /\ "]" \in W
      /\ ~beyond /\ pos \in 0..Len(text) + 1
      /\ Len(v.filters) \in Nat
      /\ state = "FILTER" /\ UNCHANGED <<op, text>>
      /\ Char(pos) # "]"
      /\ IF pos > Len(text) \/ r.pos > Len(text)
         THEN beyond' = TRUE /\ UNCHANGED <<pos, state, level, tree>>
         ELSE IF Char(r.pos) \in {"|", "]"}
         THEN Leave("FILTER", r.pos, a)
         ELSE Leave("ERROR", r.pos + 1, a)
  <2>1. /\ state = "FILTER" /\ UNCHANGED <<op, text>> /\ Char(pos) # "]"
        /\ IF pos > Len(text) \/ r.pos > Len(text)
           THEN beyond' = TRUE /\ UNCHANGED <<pos, state, level, tree>>
           ELSE IF Char(r.pos) \in {"|", "]"}
           THEN Leave("FILTER", r.pos, a)
           ELSE Leave("ERROR", r.pos + 1, a)
    <3> HIDE DEF r
    <3> QED BY Zenon DEF ReadComparator, r
  <2> HIDE DEF r, a
  <2> QED BY <2>1, InLevelFacts
<1> PICK j \in DOMAIN v.filters :
         \E k \in 1..Len(v.filters[j].comparators) + 1 :
            /\ BeforeComparator(i, j, k, state, pos, level)
            /\ v.filters[j].comparators \in Seq(EveryComparator(Signs))
            /\ Len(v.filters[j].comparators) \in Nat
            /\ j \in 1..Len(v.filters)
  <2> HIDE DEF r, a
  <2> QED BY <1>1, ComparatorPlace
<1>2. PICK k \in 1..Len(v.filters[j].comparators) + 1 :
         /\ BeforeComparator(i, j, k, state, pos, level)
         /\ v.filters[j].comparators \in Seq(EveryComparator(Signs))
         /\ Len(v.filters[j].comparators) \in Nat
         /\ j \in 1..Len(v.filters)
  OBVIOUS
<1> DEFINE cs == v.filters[j].comparators
           n == k + 1
           c == cs[k]
           more == FromComparator(query, i, j, n)
<1> HIDE DEF r, a
<1>3. /\ level = InFilterWith(query, i, j - 1, k - 1)
      /\ Rest(pos) = FromComparator(query, i, j, k)
  BY <1>2 DEF BeforeComparator
<1>4. FromFilter(query, i, j + 1) \in Seq(W)
  <2> DEFINE m == j + 1
  <2>1. m \in 1..Len(v.filters) + 1
    BY <1>1, <1>2
  <2> HIDE DEF m
  <2>2. FromFilter(query, i, m) \in Seq(W)
    BY <1>1, <2>1, FromFilterType
  <2> QED BY <2>2 DEF m
<1>5. k \in DOMAIN cs
  <2>0. DOMAIN cs = 1..Len(cs) /\ Len(cs) \in Nat /\ k \in 1..Len(cs) + 1
    BY <1>2
  <2> SUFFICES ASSUME k > Len(cs) PROVE FALSE
    <3> HIDE DEF cs
    <3> QED BY <2>0
  <2> DEFINE e == "]"
             t == FromFilter(query, i, j + 1)
  <2>1. FromComparator(query, i, j, k) = Then(<<e>>, t)
    BY <1>0, FromComparatorOn
  <2>2. Rest(pos) = Then(<<e>>, t) /\ e \in W /\ t \in Seq(W)
    BY <1>1, <1>3, <1>4, <2>1
  <2> HIDE DEF e, t, W
  <2>3. Char(pos) = e
    BY <1>1, <2>2, RestNext
  <2> QED BY <1>1, <2>3 DEF e
<1>6. n \in 1..Len(cs) + 1 /\ n # 1 /\ c \in EveryComparator(Signs) /\ k <= Len(cs)
  BY <1>2, <1>5
<1>7. more \in Seq(W)
  <2> HIDE DEF n, W
  <2> QED BY <1>0, <1>6, FromComparatorOn DEF W
<1>8. ComparatorText(c) \in Seq(W) /\ Then(ComparatorText(c), more) \in Seq(W)
  <2>1. ComparatorText(c) \in Seq(W)
    BY <1>6, ComparatorTextType
  <2> HIDE DEF more, W, c
  <2> QED BY <1>7, <2>1, ThenType
<1>9. /\ pos <= Len(text) /\ pos + 1 \in 1..Len(text) + 1
      /\ Rest(pos + 1) = Then(ComparatorText(c), more)
  <2> DEFINE e == IF k = 1 THEN "[" ELSE "|"
             t == Then(ComparatorText(c), more)
  <2>1. FromComparator(query, i, j, k) = Then(<<e>>, t)
    BY <1>0, <1>6, FromComparatorOn
  <2>2. Rest(pos) = Then(<<e>>, t)
    BY <1>3, <2>1, Zenon
  <2>3. e \in W
    BY <1>1
  <2> HIDE DEF e, t, W
  <2>4. pos <= Len(text) /\ pos + 1 \in 1..Len(text) + 1 /\ Rest(pos + 1) = t
    BY <1>1, <1>8, <2>2, <2>3, RestNext DEF t
  <2> QED BY <2>4 DEF t
<1>10. r.comp = c /\ r.pos \in 0..Len(text) + 1 /\ Rest(r.pos) = more
  <2> DEFINE p == pos + 1
  <2>1. p \in 1..Len(text) + 1 /\ Rest(p) = Then(ComparatorText(c), more)
    BY <1>9
  <2>2. text \in Seq(Written(Signs)) /\ more \in Seq(Written(Signs))
    BY <1>1, <1>7
  <2> HIDE DEF p, more, c, W
  <2>3. /\ ReadFilter(p).comp = c /\ ReadFilter(p).pos \in 0..Len(text) + 1
        /\ Rest(ReadFilter(p).pos) = more
    BY <1>6, <2>1, <2>2, ComparatorRead
  <2> QED BY <2>3 DEF p, r
<1>11. r.pos <= Len(text) /\ Char(r.pos) \in {"|", "]"} /\ r.pos # 0
  <2>1. \E e \in {"|", "]"}, t \in Seq(W) : more = Then(<<e>>, t)
    <3>1. CASE n <= Len(cs)
      <4> DEFINE m == n + 1
                 t == Then(ComparatorText(cs[n]), FromComparator(query, i, j, m))
      <4>1. m \in 1..Len(cs) + 1 /\ cs[n] \in EveryComparator(Signs)
        BY <1>2, <1>6, <3>1
      <4>2. t \in Seq(W)
        <5>1. ComparatorText(cs[n]) \in Seq(W)
          BY <4>1, ComparatorTextType
        <5> HIDE DEF W, m, n
        <5>2. FromComparator(query, i, j, m) \in Seq(W)
          BY <1>0, <4>1, FromComparatorOn DEF W
        <5> QED BY <5>1, <5>2, ThenType
      <4>3. more = Then(<<"|">>, t)
        <5>1. (IF n = 1 THEN "[" ELSE "|") = "|"
          BY <1>6
        <5> HIDE DEF n
        <5>2. more = Then(<<IF n = 1 THEN "[" ELSE "|">>, t)
          BY <1>0, <1>6, <3>1, FromComparatorOn
        <5> QED BY <5>1, <5>2, Zenon
      <4> HIDE DEF t, more, W
      <4> QED BY <4>2, <4>3
    <3>2. CASE n > Len(cs)
      <4>1. more = Then(<<"]">>, FromFilter(query, i, j + 1))
        <5> HIDE DEF n
        <5> QED BY <1>0, <1>6, <3>2, FromComparatorOn
      <4> HIDE DEF more, W
      <4> QED BY <1>4, <4>1
    <3> QED BY <1>2, <3>1, <3>2
  <2>2. PICK e \in {"|", "]"}, t \in Seq(W) : more = Then(<<e>>, t)
    BY <2>1
  <2>3. e \in W /\ Rest(r.pos) = Then(<<e>>, t)
    BY <1>1, <1>10, <2>2, Zenon
  <2> HIDE DEF W, more
  <2>4. r.pos <= Len(text) /\ Char(r.pos) = e
    BY <1>1, <1>10, <2>3, RestNext
  <2>5. r.pos # 0
    BY <2>4 DEF Char
  <2> QED BY <2>4, <2>5
<1>12. Leave("FILTER", r.pos, a)
  <2> HIDE DEF more, W, cs
  <2> QED BY <1>1, <1>9, <1>10, <1>11
<1>13. a = InFilterWith(query, i, j - 1, k)
  <2>1. a = Added(level, c)
    BY <1>10, Zenon DEF a, Added
  <2>2. query \in EveryQuery(Signs)
    BY <1>1
  <2> QED BY <1>3, <1>5, <2>1, <2>2, ComparatorAdded, Zenon
<1>14. /\ state' = "FILTER" /\ pos' = r.pos /\ level' = InFilterWith(query, i, j - 1, k)
       /\ tree' = tree /\ beyond' = beyond
  BY <1>12, <1>13 DEF Leave
<1>15. BeforeComparator(i, j, n, state', pos', level')
  <2>1. n - 1 = k
    BY <1>2
  <2> HIDE DEF n
  <2> QED BY <1>10, <1>14, <2>1, Zenon DEF BeforeComparator, more
<1>16. pos' # 0 /\ pos' \in 0..Len(text) + 1
  BY <1>10, <1>11, <1>14
<1>17. InLevel(i, state', pos', level')
  <2> HIDE DEF n
  <2> QED BY <1>6, <1>15, <1>16, Zenon DEF InLevel
<1> QED BY <1>1, <1>14, <1>16, <1>17, KeepReading

\* What is read of a query before the first step.
LEMMA ReadingBegins ==
    ASSUME NEW Signs, NEW queries \in SUBSET EveryQuery(Signs), QueryInit(queries)
    PROVE  ReadSoFar(Signs)
<1>1. /\ query \in EveryQuery(Signs) /\ op = query.op /\ text = TextOf(query)
      /\ pos = 1 /\ state = "START" /\ level = Level("ROOT") /\ tree = <<>> /\ ~beyond
  BY DEF QueryInit, InitFor
<1>2. Reading(Signs) /\ BeforeQuery
  BY <1>1 DEF Reading, BeforeQuery
<1>3. Len(text) \in Nat
  BY <1>2, ReadingText
<1> QED BY <1>1, <1>2, <1>3 DEF ReadSoFar

\* No step leaves the query.
LEMMA ReadingGoesOn ==
    ASSUME NEW Signs, ReadSoFar(Signs), [QueryNext]_<<vars, query>>
    PROVE  ReadSoFar(Signs)'
<1>1. CASE UNCHANGED <<vars, query>>
  <2>1. UNCHANGED <<op, text, pos, state, level, tree, beyond, query>>
    BY <1>1 DEF vars
  <2> QED BY <2>1, Zenon DEF ReadSoFar, Reading, BeforeQuery, AfterQuery, InLevel, BeforeLevel,
         BeforeName, BeforeFilter, BeforeComparator, AfterLevels, Rest
<1>2. CASE QueryNext
  <2>1. Step /\ UNCHANGED query
    BY <1>2 DEF QueryNext
  <2>2. state # "ERROR"
    BY <2>1, Zenon DEF Step, Start, NextDo, NameDo, AttributeDo, FilterEnd, ReadComparator, Going
  <2>3. CASE BeforeQuery
    <3>1. state = "START"
      BY <2>3 DEF BeforeQuery
    <3>2. Start
      <4>1. "START" # "NEXT" /\ "START" # "NAME" /\ "START" # "ATTRIBUTE" /\ "START" # "FILTER"
        OBVIOUS
      <4> QED BY <2>1, <3>1, <4>1, Zenon
            DEF Step, NextDo, NameDo, AttributeDo, FilterEnd, ReadComparator
    <3> QED BY <2>1, <2>3, <3>2, StartRead
  <2>4. ASSUME NEW i \in DOMAIN query.levels,
               tree = FirstReversed(LevelViews(query), i - 1),
               InLevel(i, state, pos, level)
        PROVE  ReadSoFar(Signs)'
    <3>1. state # "START"
      <4>1. "START" # "NEXT" /\ "START" # "NAME" /\ "START" # "ATTRIBUTE" /\ "START" # "FILTER"
        OBVIOUS
      <4> QED BY <2>4, <4>1, Zenon DEF InLevel, BeforeLevel, BeforeName, BeforeFilter,
                                         BeforeComparator, AfterLevels
    <3>2. NextDo \/ NameDo \/ AttributeDo \/ FilterEnd \/ ReadComparator
      BY <2>1, <3>1, Zenon DEF Step, Start
    <3> QED BY <2>1, <2>4, <3>2, NextRead, NameRead, AttributeRead, FilterEndRead, ComparatorStep
  <2>5. ~AfterQuery
    BY <2>2 DEF AfterQuery
  <2> QED BY <2>3, <2>4, <2>5, Zenon DEF ReadSoFar
<1> QED BY <1>1, <1>2

\* What is read of a query when the parser stops is all of it.
LEMMA ReadMeansParsed ==
    ASSUME NEW Signs, ReadSoFar(Signs)
    PROVE  Parsed
<1>1. ~beyond
  BY DEF ReadSoFar
<1>2. ASSUME Done PROVE pos = Len(text) + 1 /\ tree = ViewOf(query)
  <2>1. state = "ERROR"
    BY <1>2 DEF Done
  <2>2. "ERROR" \notin {"START", "NEXT", "NAME", "ATTRIBUTE", "FILTER"}
    OBVIOUS
  <2>3. ~BeforeQuery
    BY <2>1 DEF BeforeQuery
  <2>4. \A i : ~InLevel(i, state, pos, level)
    BY <2>1 DEF InLevel, BeforeLevel, BeforeName, BeforeFilter, BeforeComparator, AfterLevels
  <2> QED BY <2>3, <2>4, Zenon DEF ReadSoFar, AfterQuery
<1> QED BY <1>1, <1>2 DEF Parsed

-----------------------------------------------------------------------------
(***************************************************************************)
(* Every query is parsed to what it means (see Parsed): one of the four    *)
(* operations, any number of levels, each with any number of filters of    *)
(* any number of comparators, negated or not, with whatever signs between  *)
(* the operands.  The parser stops only at the terminator, never reads     *)
(* behind it, and the view is the query's.                                 *)
(***************************************************************************)
THEOREM QueriesAreParsed ==
    ASSUME NEW Signs, NEW queries \in SUBSET EveryQuery(Signs)
    PROVE  QuerySpec(queries) => []Parsed
<1>1. QueryInit(queries) => ReadSoFar(Signs)
  BY ReadingBegins
<1>2. ReadSoFar(Signs) /\ [QueryNext]_<<vars, query>> => ReadSoFar(Signs)'
  BY ReadingGoesOn
<1>3. ReadSoFar(Signs) => Parsed
  BY ReadMeansParsed
<1> QED BY <1>1, <1>2, <1>3, PTL DEF QuerySpec

-----------------------------------------------------------------------------
\* Lists of some of S are lists of S.
LEMMA UpToType ==
    ASSUME NEW S, NEW n \in Nat
    PROVE  UpTo(n, S) \subseteq Seq(S)
<1>1. ASSUME NEW f \in UpTo(n, S) PROVE f \in Seq(S)
  <2>1. PICK k \in 0..n : f \in [1..k -> S]
    BY DEF UpTo
  <2> QED BY <2>1
<1> QED BY <1>1

(***************************************************************************)
(* The queries that the runs parse are some of every query.                *)
(***************************************************************************)
LEMMA QueriesAreQueries ==
    ASSUME Names # {}, Numbers # {}, MaxFilters \in Nat
    PROVE  Queries \subseteq EveryQuery({"="})
<1> DEFINE Signs == {"="}
<1>1. AName \in Names /\ ANumber \in Numbers
  BY DEF AName, ANumber
<1>2. Field \in EveryOperand /\ Number \in EveryOperand /\ Literal \in EveryOperand
  BY <1>1 DEF Field, Number, Literal, EveryOperand
<1>3. Comparators \subseteq EveryComparator(Signs)
  <2>1. IsTrue(TRUE) \in EveryComparator(Signs)
    BY DEF EveryComparator
  <2>2. ASSUME NEW b \in BOOLEAN, NEW x \in EveryOperand, NEW y \in EveryOperand
        PROVE  Comparison(b, x, y) \in EveryComparator(Signs)
    BY DEF Comparison, EveryComparator
  <2> HIDE DEF Signs
  <2>3. /\ Comparison(FALSE, Field, Number) \in EveryComparator(Signs)
        /\ Comparison(TRUE, Number, Literal) \in EveryComparator(Signs)
    BY <1>2, <2>2
  <2> QED BY <2>1, <2>3 DEF Comparators
<1> HIDE DEF Signs
<1>4. Filters \subseteq EveryFilter(Signs)
  <2>1. \A cs \in UpTo(2, Comparators) : cs \in Seq(EveryComparator(Signs))
    <3>1. \A cs \in UpTo(2, Comparators) : cs \in Seq(Comparators)
      BY UpToType
    <3> QED BY <1>3, <3>1
  <2> QED BY <2>1 DEF Filters, EveryFilter
<1>5. ASSUME NEW n \in Nat PROVE Levels(n) \subseteq EveryLevel(Signs)
  <2>1. \A fs \in UpTo(n, Filters) : fs \in Seq(EveryFilter(Signs))
    <3>1. \A fs \in UpTo(n, Filters) : fs \in Seq(Filters)
      BY UpToType
    <3> QED BY <1>4, <3>1
  <2>2. ASSUME NEW id \in Ids, NEW fs \in Seq(EveryFilter(Signs))
        PROVE  [any |-> id.any, value |-> id.value, negative |-> id.negative, filters |-> fs]
                 \in EveryLevel(Signs)
    <3>1. CASE id = [any |-> TRUE, value |-> None, negative |-> FALSE]
      <4>1. id.any = TRUE /\ id.value = None /\ id.negative = FALSE
        BY <3>1
      <4>2. [any |-> TRUE, value |-> None, negative |-> FALSE, filters |-> fs] \in EveryLevel(Signs)
        BY DEF EveryLevel
      <4> QED BY <4>1, <4>2, Zenon
    <3>2. CASE id \in [any : {FALSE}, value : Numbers, negative : BOOLEAN]
      <4>1. id.any = FALSE /\ id.value \in Numbers /\ id.negative \in BOOLEAN
        BY <3>2
      <4>2. \A v \in Numbers, b \in BOOLEAN :
               [any |-> FALSE, value |-> v, negative |-> b, filters |-> fs] \in EveryLevel(Signs)
        BY DEF EveryLevel
      <4> QED BY <4>1, <4>2, Zenon
    <3> QED BY <3>1, <3>2 DEF Ids
  <2> QED BY <2>1, <2>2 DEF Levels
<1>6. LevelLists \subseteq Seq(EveryLevel(Signs)) \ {<<>>}
  <2> DEFINE L == EveryLevel(Signs)
  <2>1. Levels(MaxFilters) \subseteq L /\ Levels(0) \subseteq L /\ Levels(1) \subseteq L
    BY <1>5
  <2> HIDE DEF L
  <2>2. ASSUME NEW n \in Nat \ {0}, NEW A \in SUBSET L, NEW f \in [1..n -> A]
        PROVE  f \in Seq(L) \ {<<>>}
    <3>1. f \in Seq(L) /\ Len(f) = n
      BY <2>2
    <3> QED BY <3>1
  <2>3. /\ [1..1 -> Levels(MaxFilters)] \subseteq Seq(L) \ {<<>>}
        /\ [1..3 -> Levels(0)] \subseteq Seq(L) \ {<<>>}
    <3> DEFINE one == 1
               three == 3
    <3>1. one \in Nat \ {0} /\ three \in Nat \ {0}
      OBVIOUS
    <3> HIDE DEF one, three
    <3>2. /\ [1..one -> Levels(MaxFilters)] \subseteq Seq(L) \ {<<>>}
          /\ [1..three -> Levels(0)] \subseteq Seq(L) \ {<<>>}
      BY <2>1, <2>2, <3>1
    <3> QED BY <3>2 DEF one, three
  <2>4. \A a \in Levels(1), b \in Levels(1) : <<a, b>> \in Seq(L) \ {<<>>}
    <3>1. \A a \in L, b \in L : <<a, b>> \in Seq(L) /\ <<a, b>> # <<>>
      OBVIOUS
    <3> QED BY <2>1, <3>1
  <2>5. \A x \in LevelLists : x \in Seq(L) \ {<<>>}
    <3> DEFINE P == [1..1 -> Levels(MaxFilters)]
               Q == [1..3 -> Levels(0)]
               R == {<<a, b>> : a \in Levels(1), b \in Levels(1)}
               T == Seq(L) \ {<<>>}
    <3>1. P \subseteq T /\ Q \subseteq T
      BY <2>3
    <3>2. ASSUME NEW x \in R PROVE x \in T
      <4>1. PICK a \in Levels(1), b \in Levels(1) : x = <<a, b>>
        OBVIOUS
      <4>2. <<a, b>> \in T
        <5> HIDE DEF T
        <5> QED BY <2>4 DEF T
      <4> HIDE DEF T
      <4> QED BY <4>1, <4>2
    <3>3. ASSUME NEW x \in LevelLists PROVE x \in P \/ x \in R \/ x \in Q
      BY DEF LevelLists
    <3> HIDE DEF P, Q, R, T
    <3>4. \A x \in LevelLists : x \in T
      BY <3>1, <3>2, <3>3
    <3> QED BY <3>4 DEF T
  <2> QED BY <2>5 DEF L
<1>7. "?" \in Operations
  BY DEF Operations
<1> QED BY <1>6, <1>7 DEF Queries, EveryQuery, Signs
=============================================================================
