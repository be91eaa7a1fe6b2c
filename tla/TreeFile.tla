------------------------------ MODULE TreeFile ------------------------------
(***************************************************************************)
(* One process that keeps a tree of tuples in one file                     *)
(* (db/src/crud_tools/crud.c).  A call of the storage interface is a run   *)
(* of steps, one per iteration of the code's loops and one per entry to or *)
(* return from remove_recursive_tuple_with_values; the file after each     *)
(* step is the file the next one finds, and the file a crash would leave.  *)
(***************************************************************************)
EXTENDS TupleFile

CONSTANTS
    MaxIds,     \* bound: ids 0 .. MaxIds - 1 are given out, and asked for
    MaxSlots,   \* bound: no tuple is added to a file of so many slots
    Parents,    \* the ids tuples name as their parents
    Ints,       \* the values of INTEGER fields
    Strings,    \* the values of STRING fields, as sequences of pieces
    MaxSeek     \* the largest offset the cast to int32_t leaves as it is

ASSUME MaxIdsAssumption  == MaxIds \in Nat /\ MaxIds < FirstOffset
ASSUME MaxSlotsAssumption == MaxSlots \in Nat
ASSUME ParentsAssumption == Parents \subseteq 0..FirstOffset - 1
ASSUME IntsAssumption    == Ints \subseteq Nat
ASSUME StringsAssumption == Strings \subseteq Seq(Nat) \ {<<>>}
ASSUME MaxSeekAssumption == MaxSeek \in Nat

VARIABLES
    file,    \* the file
    op,      \* the call in progress: "none", "add" or "remove"
    new,     \* add_tuple's locals
    stack,   \* the activations of remove_recursive_tuple_with_values
    before   \* history: the tuples in the file when the call in progress began

vars == <<file, op, new, stack, before>>

AllIds == 0..MaxIds - 1

\* A field value is a sequence of words: an integer is one, a string its pieces.
Values(n) == IF Types[n] = "STRING" THEN Strings ELSE {<<i>> : i \in Ints}
FieldValues == {v \in [Fields -> UNION {Values(n) : n \in Fields}] :
                  \A n \in Fields : v[n] \in Values(n)}

(***************************************************************************)
(* add_tuple's locals: par_pos, the slot being filled, the field values,   *)
(* iter, and the file position that insert_string_tuple will find.         *)
(***************************************************************************)
NoTuple == [at |-> NullValue, slot |-> <<>>, fields |-> <<>>,
            n |-> 1, pos |-> NullValue]

Nothing == <<>>   \* no tuples at all

(***************************************************************************)
(* An activation: its id, the offset it read for it at entry, the childs   *)
(* still to be removed, whether the tuple has been read, and for each      *)
(* field the offset of the string piece still to be removed, if any.       *)
(***************************************************************************)
NoLinks == [n \in Fields |-> NullValue]

Frame(id, offset, childs) ==
    [id |-> id, offset |-> offset, childs |-> childs,
     loaded |-> FALSE, links |-> NoLinks]

Init == /\ file = EmptyFile
        /\ op = "none"
        /\ new = NoTuple
        /\ stack = <<>>
        /\ before = Nothing

Idle == op = "none" /\ ~file.lost
Top  == stack[Len(stack)]

-----------------------------------------------------------------------------
(***************************************************************************)
(* add_tuple(file, fields, parent).  Nothing checks that the parent is     *)
(* there.                                                                  *)
(***************************************************************************)
AddTuple(fields, parent) ==
    /\ Idle
    /\ CurId(file) < MaxIds
    /\ Len(file.blk) < MaxSlots
    /\ op' = "add"
    /\ before' = Contents(file)
    /\ file' = ReserveTuple(file, parent)
    /\ new' = [at |-> End(file), slot |-> NewSlot(file, parent),
               fields |-> fields, n |-> 1, pos |-> FirstOffset]
    /\ UNCHANGED stack

AddStep == op = "add" /\ ~file.lost

\* A STRING field: its pieces go to the end of the file, the field links them.
AddString ==
    /\ AddStep
    /\ new.n \in StringFields
    /\ file' = InsertString(file, new.fields[new.n], new.at, new.pos)
    /\ new' = [new EXCEPT !.slot[FieldWord(new.n)] = End(file),
                          !.n = @ + 1,
                          !.pos = End(file')]
    /\ UNCHANGED <<op, stack, before>>

AddInteger ==
    /\ AddStep
    /\ new.n \in Fields \ StringFields
    /\ new' = [new EXCEPT !.slot[FieldWord(new.n)] = new.fields[new.n][1],
                          !.n = @ + 1]
    /\ UNCHANGED <<file, op, stack, before>>

\* A slip: the second write is left out.
AddWrite_Forgotten ==
    /\ AddStep
    /\ new.n = PatternSize + 1
    /\ op' = "none"
    /\ new' = NoTuple
    /\ before' = Nothing
    /\ UNCHANGED <<file, stack>>

\* The second write of the tuple, with its fields.
AddWrite ==
    /\ AddStep
    /\ new.n = PatternSize + 1
    /\ file' = WriteTuple(file, new.at, new.slot)
    /\ op' = "none"
    /\ new' = NoTuple
    /\ before' = Nothing
    /\ UNCHANGED stack

-----------------------------------------------------------------------------
(***************************************************************************)
(* update_tuple(file, n, value, id)                                        *)
(***************************************************************************)
Update(n, value, id) ==
    /\ Idle
    /\ file' = UpdateTuple(file, n, value, id)
    /\ UNCHANGED <<op, new, stack, before>>

-----------------------------------------------------------------------------
(***************************************************************************)
(* Entry to remove_recursive_tuple_with_values: the id is forgotten, and   *)
(* when it had a tuple its childs are looked up.  Otherwise it returns     *)
(* CRUD_INVALID, with the id given back if it was the last one.            *)
(***************************************************************************)
Enter(id, callers) ==
    LET offset == Entry(file, id)
        g      == RemoveFromIdArray(file, id)
    IN  IF ~HasEntry(file, id)
        THEN file' = Lost(file) /\ stack' = callers
        ELSE IF offset = NullValue
        THEN file' = g /\ stack' = callers
        ELSE IF ~ChildsReadable(g)
        THEN file' = Lost(g) /\ stack' = callers
        ELSE /\ file' = g
             /\ stack' = Append(callers, Frame(id, offset, ChildsById(g, id)))

(***************************************************************************)
(* remove_tuple(file, id)                                                  *)
(***************************************************************************)
RemoveTuple(id) ==
    /\ Idle
    /\ Enter(id, <<>>)
    /\ op' = IF stack' = <<>> THEN "none" ELSE "remove"
    /\ before' = IF stack' = <<>> THEN Nothing ELSE Contents(file)
    /\ UNCHANGED new

RemoveStep == op = "remove" /\ ~file.lost

\* The strings' offsets of the tuple at offset o.
LinksOf(o) == [n \in Fields |-> IF n \in StringFields
                                THEN ReadTuple(file, o)[FieldWord(n)]
                                ELSE NullValue]

\* The child the list of childs begins with: its ids go down.
NextChild(c) == c \in Top.childs /\ \A d \in Top.childs : d <= c

\* A slip: the loop does not go on to the next child.
RemoveChild_SameAgain ==
    /\ RemoveStep
    /\ \E c \in Top.childs : NextChild(c) /\ Enter(c, stack)
    /\ UNCHANGED <<op, new, before>>

\* The loop over childs.  What the inner activation returns is ignored.
RemoveChild ==
    /\ RemoveStep
    /\ \E c \in Top.childs :
          /\ NextChild(c)
          /\ Enter(c, [stack EXCEPT ![Len(stack)].childs = @ \ {c}])
    /\ UNCHANGED <<op, new, before>>

\* read_tuple at the offset found at entry, cut to 32 bits.  Of a read that
\* falls behind the end of the file only the strings' offsets would be used.
RemoveRead ==
    /\ RemoveStep
    /\ Top.childs = {}
    /\ ~Top.loaded
    /\ IF \/ StringFields = {}
          \/ Inside(file, Top.offset) /\ Top.offset <= MaxSeek
       THEN /\ stack' = [stack EXCEPT ![Len(stack)].loaded = TRUE,
                                     ![Len(stack)].links = LinksOf(Top.offset)]
            /\ UNCHANGED file
       ELSE file' = Lost(file) /\ UNCHANGED stack
    /\ UNCHANGED <<op, new, before>>

\* One turn of remove_string_from_file's loop: the piece's own slot goes, and
\* what was read in it is the offset of the piece to remove after it.
RemovePiece ==
    /\ RemoveStep
    /\ Top.loaded
    /\ \E n \in Fields :
          /\ Top.links[n] # NullValue
          /\ \A m \in 1..n - 1 : Top.links[m] = NullValue
          /\ LET o == Top.links[n]
             IN  IF Inside(file, o)
                 THEN /\ stack' = [stack EXCEPT ![Len(stack)].links[n] =
                                      ReadTuple(file, o)[1]]
                      /\ file' = SwapWithLast(file, o)
                 ELSE file' = Lost(file) /\ UNCHANGED stack
    /\ UNCHANGED <<op, new, before>>

\* The slot itself goes, and the activation returns.
RemoveSlot ==
    /\ RemoveStep
    /\ Top.loaded
    /\ Top.links = NoLinks
    /\ file' = SwapWithLast(file, Top.offset)
    /\ stack' = SubSeq(stack, 1, Len(stack) - 1)
    /\ op' = IF Len(stack) = 1 THEN "none" ELSE "remove"
    /\ before' = IF Len(stack) = 1 THEN Nothing ELSE before
    /\ UNCHANGED new

-----------------------------------------------------------------------------
Inner == \/ AddString \/ AddInteger \/ AddWrite
         \/ RemoveChild \/ RemoveRead \/ RemovePiece \/ RemoveSlot

Next == \/ \E v \in FieldValues, p \in Parents : AddTuple(v, p)
        \/ \E n \in Fields : \E v \in Values(n), id \in AllIds : Update(n, v, id)
        \/ \E id \in AllIds : RemoveTuple(id)
        \/ Inner

Spec == Init /\ [][Next]_vars

(***************************************************************************)
(* A call that has begun runs to its end: the server's child does nothing  *)
(* else meanwhile.  Nothing obliges a client to make a call.               *)
(***************************************************************************)
FairSpec == Spec /\ WF_vars(Inner)

-----------------------------------------------------------------------------
(***************************************************************************)
(* The type of the state: every word of the file is one, and ids are given *)
(* back no more often than they are given out.                             *)
(***************************************************************************)
WordBlock == [Words -> Nat]

FileType == [sub : [0..5 -> Nat], blk : Seq(WordBlock), lost : BOOLEAN]

FrameType == [id : Nat, offset : Nat, childs : SUBSET Nat,
              loaded : BOOLEAN, links : [Fields -> Nat]]

NewType == [at : Nat, slot : WordBlock \cup {<<>>},
            fields : FieldValues \cup {<<>>}, n : Nat, pos : Nat]

TypeOK ==
    /\ file \in FileType
    /\ op \in {"none", "add", "remove"}
    /\ new \in NewType
    /\ op = "add" => /\ new.slot \in WordBlock
                     /\ new.fields \in FieldValues
    /\ stack \in Seq(FrameType)
    /\ op = "remove" => stack # <<>>
=============================================================================
