-------------------------- MODULE GrowingInvariant --------------------------
(***************************************************************************)
(* Why tuples keep their strings while the id array grows over them: an    *)
(* invariant of GrowingSpec, for patterns with any number of string fields *)
(* and strings of one piece.                                               *)
(***************************************************************************)
EXTENDS ShallowInvariant

\* Texts fit into one slot, and no integer is as large as an offset.
OnePieceTexts ==
    /\ \A i \in Ints : i < FirstOffset
    /\ \A s \in Strings : Len(s) = 1

\* Every id that was given out has a tuple, in a slot of its own.
Grown(f) ==
    /\ ~f.lost
    /\ CurId(f) <= MaxIds
    /\ LastArraySlot(f) <= Len(f.blk)
    /\ Live(f) = Ids(f)
    /\ EntriesLead(f)

\* The string at offset o is one piece, and says it belongs to the tuple at holder.
StringAt(f, o, holder) ==
    /\ Pos(o) \in TuplePositions(f)
    /\ f.blk[Pos(o)][0] = holder
    /\ f.blk[Pos(o)][1] = NullValue

(***************************************************************************)
(* In b, the words of tuple id, the fields S have strings of their own, in *)
(* slots that are no tuple's; nothing else in b is as large as an offset.  *)
(***************************************************************************)
HasStrings(f, id, b, S) ==
    /\ \A n \in S : /\ StringAt(f, b[FieldWord(n)], Entry(f, id))
                    /\ \A i \in Live(f) : Entry(f, i) # b[FieldWord(n)]
                    /\ \A m \in S \ {n} : b[FieldWord(m)] # b[FieldWord(n)]
    /\ \A w \in Words : b[w] >= FirstOffset => \E n \in S : w = FieldWord(n)

\* A slot is a tuple's or a string's.
UsedBy(f, p, id, b, S) ==
    \/ Entry(f, id) = Off(p)
    \/ \E n \in S : b[FieldWord(n)] = Off(p)

(***************************************************************************)
(* The words of tuple id and the fields that have their strings by now:    *)
(* while the last tuple is being added they are in add_tuple's locals, and *)
(* its slot in the file has nothing yet but its parent and its id.         *)
(***************************************************************************)
Adding(id) == op = "add" /\ id = CurId(file) - 1

TupleWords(id) == IF Adding(id) THEN new.slot ELSE file.blk[Pos(Entry(file, id))]

FieldsWritten(id) == IF Adding(id) THEN {n \in StringFields : n < new.n} ELSE StringFields

NewTupleSound ==
    op = "add" => /\ CurId(file) > 0
                  /\ new.at = Entry(file, CurId(file) - 1)
                  /\ new.slot[1] = CurId(file) - 1

(***************************************************************************)
(* All of it together.  The slot that the id array grows over              *)
(* (append_to_id_array) is a tuple's or a string's, one that is complete;  *)
(* swap_tuple_to can tell which, and finds the one reference to it.        *)
(***************************************************************************)
GrowingInv ==
    /\ Grown(file)
    /\ \A id \in Live(file) : HasStrings(file, id, TupleWords(id), FieldsWritten(id))
    /\ \A p \in TuplePositions(file) : \E id \in Live(file) :
          UsedBy(file, p, id, TupleWords(id), FieldsWritten(id))
    /\ NewTupleSound
    /\ op # "remove" /\ stack = <<>>

-----------------------------------------------------------------------------
(***************************************************************************)
(* What the words of a tuple and its strings mean.                         *)
(***************************************************************************)
TextAt(f, o) == <<f.blk[Pos(o)][HeaderWords]>>

FieldIn(f, b, n) ==
    IF Types[n] = "STRING" THEN TextAt(f, b[FieldWord(n)]) ELSE <<b[FieldWord(n)]>>

(***************************************************************************)
(* While a tuple is being added the others are as they were, and so are    *)
(* those of its fields that have been written.                             *)
(***************************************************************************)
GrowingTraced ==
    op = "add" =>
      LET id == CurId(file) - 1
      IN  /\ DOMAIN before = Live(file) \ {id}
          /\ SameAsBefore(DOMAIN before)
          /\ new.slot[0] \in Parents
          /\ \A n \in Fields : n < new.n => FieldIn(file, new.slot, n) = new.fields[n]
=============================================================================
