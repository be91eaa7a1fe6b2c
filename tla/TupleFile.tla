----------------------------- MODULE TupleFile ------------------------------
(***************************************************************************)
(* The database file and the operations the storage code composes on it    *)
(* (db/src/types, db/src/basic_types, the bodies of db/src/crud_tools).    *)
(*                                                                         *)
(* A file value is a record                                                *)
(*   sub   the six words of struct tree_subheader                          *)
(*   blk   everything after the key pattern, cut into slots of SlotWords   *)
(*         words; the first ones are the id array, the rest hold a tuple   *)
(*         or one piece of a string each                                   *)
(*   lost  what the program does next depends on a value it never read     *)
(*         from the file, or on freed memory, or it wrote into the middle  *)
(*         of a slot: nothing is said of what follows                      *)
(* A tuple's slot is <<parent, alloc = its id, fields, padding>>, a        *)
(* string's is <<prev, next, text>> (union tuple_header overlays the two). *)
(*                                                                         *)
(* A position p in blk has the file offset Off(p); every offset the code   *)
(* stores is the offset of a slot, or 0.  Ids and the integers that fields *)
(* hold are smaller than an offset unless a configuration chooses one that *)
(* is not.  A piece of text is one word, larger than any offset.           *)
(***************************************************************************)
EXTENDS Layout, Sequences, FiniteSets

CONSTANTS
    Types,        \* the type of each field: the pattern the file was made with
    FirstOffset,  \* where the id array begins (the code's array_pos, fpos)
    Signature     \* BIG_ENDIAN_SIGNATURE

ASSUME TypesAssumption == Types \in [1..PatternSize -> {"INTEGER", "STRING"}]
ASSUME OffsetAssumption == FirstOffset \in Nat /\ FirstOffset > 5
ASSUME SignatureAssumption == Signature \in Nat

NullValue == 0

\* Word numbers of struct tree_subheader.
SIGNATURE    == 0
CUR_ID       == 4
PATTERN_SIZE == 5

Words == 0..SlotWords - 1
Fields == 1..PatternSize
StringFields == {n \in Fields : Types[n] = "STRING"}

\* The word of a slot that field n is in.
FieldWord(n) == HeaderWords + n - 1

Off(p) == FirstOffset + p - 1
Pos(o) == o - FirstOffset + 1
Inside(f, o) == Pos(o) \in 1..Len(f.blk)
End(f) == Off(Len(f.blk) + 1)

Lost(f) == [f EXCEPT !.lost = TRUE]

CurId(f) == f.sub[CUR_ID]

(***************************************************************************)
(* What a read of one slot at offset o returns: the slot, or the header    *)
(* for the offset 0 of an id that has no tuple.                            *)
(***************************************************************************)
HeaderView(f) == [w \in Words |-> IF w \in DOMAIN f.sub THEN f.sub[w] ELSE 0]

ReadTuple(f, o) == IF Inside(f, o) THEN f.blk[Pos(o)] ELSE HeaderView(f)

ZeroSlot == [w \in Words |-> 0]

(***************************************************************************)
(* A write of word w of the slot at offset o, and of the whole slot; a     *)
(* write of a slot behind the end of the file makes the file longer, with  *)
(* zeros up to it.                                                         *)
(***************************************************************************)
WriteWord(f, o, w, v) ==
    IF Inside(f, o) THEN [f EXCEPT !.blk[Pos(o)][w] = v] ELSE Lost(f)

WriteTuple(f, o, b) ==
    IF Inside(f, o)   THEN [f EXCEPT !.blk[Pos(o)] = b]
    ELSE IF Pos(o) > 0 THEN [f EXCEPT !.blk = [p \in 1..Pos(o) |->
                                                 IF p = Pos(o) THEN b
                                                 ELSE IF p <= Len(f.blk) THEN @[p]
                                                 ELSE ZeroSlot]]
    ELSE Lost(f)

\* insert_new_tuple, which reports End(f) as the tuple's offset.
InsertNewTuple(f, slot) == [f EXCEPT !.blk = Append(@, slot)]

\* A slip: the file is not cut.
DropLast_NotCut(f) == f

DropLast(f) == [f EXCEPT !.blk = SubSeq(@, 1, Len(@) - 1)]

(***************************************************************************)
(* init_empty_file: the file a database starts as.                         *)
(***************************************************************************)
EmptySubheader == [w \in 0..5 |-> CASE w = SIGNATURE    -> Signature
                                    [] w = PATTERN_SIZE -> PatternSize
                                    [] OTHER            -> NullValue]

EmptyFile == [sub  |-> EmptySubheader,
              blk  |-> [p \in 1..RealIdArraySize(0) \div SlotWords |-> ZeroSlot],
              lost |-> FALSE]

-----------------------------------------------------------------------------
(***************************************************************************)
(* The id array.  Entry id is a word of the file wherever the array is     *)
(* thought to end: nothing checks id against the array's size.             *)
(***************************************************************************)
EntryPos(id)  == id \div SlotWords + 1
EntryWord(id) == id % SlotWords

HasEntry(f, id) == id >= 0 /\ EntryPos(id) <= Len(f.blk)

\* id_to_offset
Entry(f, id) == f.blk[EntryPos(id)][EntryWord(id)]

\* write_id_value
WriteIdValue(f, id, o) ==
    IF HasEntry(f, id) THEN [f EXCEPT !.blk[EntryPos(id)][EntryWord(id)] = o]
                       ELSE Lost(f)

\* valid_offset_id, where the entry can be read.
ValidOffsetId(f, id, o) == Entry(f, id) = o

\* The ids find_all, get_childs_by_id and offset_to_id go through.
Ids(f) == 0..CurId(f) - 1
Live(f) == {id \in Ids(f) : HasEntry(f, id) /\ Entry(f, id) # NullValue}

(***************************************************************************)
(* get_childs_by_id, as a set: its list has the higher ids first.          *)
(* An id without a tuple is looked up too, at offset 0, where the first    *)
(* word is the signature.  Defined where every entry can be read.          *)
(***************************************************************************)
ChildsReadable(f) ==
    \A i \in Ids(f) : /\ HasEntry(f, i)
                      /\ Entry(f, i) = NullValue \/ Inside(f, Entry(f, i))

ChildsById(f, id) == {i \in Ids(f) : ReadTuple(f, Entry(f, i))[0] = id}

-----------------------------------------------------------------------------
(***************************************************************************)
(* swap_tuple_to: copy the slot at from over the slot at to, and let the   *)
(* one reference to the copied slot follow.  When the second word is no id *)
(* that has an entry in the file, valid_offset_id compares a value that    *)
(* was not read.                                                           *)
(***************************************************************************)

\* A slip: the strings are left as they are.
RelinkStrings_Forgotten(f, b, to) == f

\* A tuple was copied: the first piece of each of its strings points to it.
RelinkStrings(f, b, to) ==
    LET links == {b[FieldWord(n)] : n \in StringFields}
        lost  == \E o \in links : ~Inside(f, o)
    IN  [f EXCEPT !.blk = [p \in 1..Len(f.blk) |->
                             IF Off(p) \in links THEN [@[p] EXCEPT ![0] = to]
                                                 ELSE @[p]],
                  !.lost = @ \/ lost]

\* A slip: only the next word of the slot is looked at.
RelinkHolder_NextOnly(f, holder, from, to) ==
    IF Inside(f, holder) /\ f.blk[Pos(holder)][1] = from
    THEN WriteWord(f, holder, 1, to) ELSE f

\* A piece of a string was copied: the slot at holder (the tuple it belongs
\* to, or the piece before it) points to it, as its next word or as the first
\* of its other words that does.  The header holds no such word.
RelinkHolder(f, holder, from, to) ==
    LET b    == f.blk[Pos(holder)]
        hits == {w \in HeaderWords..SlotWords - 1 : b[w] = from}
    IN  IF ~Inside(f, holder) THEN [f EXCEPT !.lost = @ \/ holder > FirstOffset]
        ELSE IF b[1] = from THEN WriteWord(f, holder, 1, to)
        ELSE IF hits = {} THEN f
        ELSE WriteWord(f, holder,
                       CHOOSE w \in hits : \A v \in hits : w <= v, to)

\* A slip: the entry of the copied tuple is left as it is.
SwapTupleTo_EntryKept(f, from, to) ==
    LET b == ReadTuple(f, from)
        g == WriteTuple(f, to, b)
    IN  IF from = to THEN f
        ELSE IF ~HasEntry(g, b[1]) THEN Lost(g)
        ELSE IF ValidOffsetId(g, b[1], from) THEN RelinkStrings(g, b, to)
        ELSE RelinkHolder(g, b[0], from, to)

SwapTupleTo(f, from, to) ==
    LET b == ReadTuple(f, from)
        g == WriteTuple(f, to, b)
    IN  IF from = to THEN f
        ELSE IF ~HasEntry(g, b[1]) THEN Lost(g)
        ELSE IF ValidOffsetId(g, b[1], from)
             THEN WriteIdValue(RelinkStrings(g, b, to), b[1], to)
             ELSE RelinkHolder(g, b[0], from, to)

(***************************************************************************)
(* swap_with_last: fill the slot at offset o with the last slot of the     *)
(* file and cut one slot off the end.                                      *)
(***************************************************************************)
SwapWithLast(f, o) == DropLast(SwapTupleTo(f, Off(Len(f.blk)), o))

\* A slip: the entry is read but not cleared.
RemoveFromIdArray_EntryKept(f, id) ==
    IF CurId(f) - 1 = id THEN [f EXCEPT !.sub[CUR_ID] = @ - 1] ELSE f

\* A slip: an id that was never given out is given back too.
RemoveFromIdArray_AnyId(f, id) ==
    WriteIdValue(IF CurId(f) - 1 <= id THEN [f EXCEPT !.sub[CUR_ID] = @ - 1]
                                       ELSE f, id, NullValue)

(***************************************************************************)
(* remove_from_id_array: forget id's offset, and give the id back when it  *)
(* was the last one given out.  Entry(f, id) is the value returned.        *)
(***************************************************************************)
RemoveFromIdArray(f, id) ==
    LET g == IF CurId(f) - 1 = id THEN [f EXCEPT !.sub[CUR_ID] = @ - 1] ELSE f
    IN  WriteIdValue(g, id, NullValue)

\* A slip: the array is taken to be one slot longer than it is.
GrowIdArray_OneFurther(f) ==
    LET from == Off(RealIdArraySize(CurId(f)) \div SlotWords + 2)
    IN  SwapTupleTo(InsertNewTuple(f, ZeroSlot), from, End(f))

(***************************************************************************)
(* append_to_id_array: the offset o becomes the entry of the next id.  The *)
(* slot just behind the array is first copied to the end of the file when  *)
(* the array is about to need it.                                          *)
(***************************************************************************)
GrowIdArray(f) ==
    LET from == Off(RealIdArraySize(CurId(f)) \div SlotWords + 1)
    IN  SwapTupleTo(InsertNewTuple(f, ZeroSlot), from, End(f))

AppendToIdArray(f, o) ==
    LET g == IF GrowthDue(CurId(f)) THEN GrowIdArray(f) ELSE f
    IN  [WriteIdValue(g, CurId(f), o) EXCEPT !.sub[CUR_ID] = @ + 1]

-----------------------------------------------------------------------------
(***************************************************************************)
(* Strings.  A string value is the sequence of its pieces, each as long as *)
(* the data part of a slot, and there is at least one: the commands read   *)
(* strings with scanf, and the server adds tuples with "null" in them.     *)
(***************************************************************************)
StringSlot(prev, next, text) ==
    [w \in Words |-> CASE w = 0 -> prev [] w = 1 -> next [] OTHER -> text]

(***************************************************************************)
(* insert_string_tuple: one slot per piece at the end of the file.  The    *)
(* pieces are linked by offsets counted from pos, where the file position  *)
(* was when it was called, and not from the end of the file.  The offset   *)
(* it reports for the string is the end of the file before the insertion.  *)
(***************************************************************************)
InsertString(f, s, holder, pos) ==
    [f EXCEPT !.blk = @ \o
       [k \in 1..Len(s) |->
          StringSlot(IF k = 1 THEN holder ELSE pos + (k - 2),
                     IF k = Len(s) THEN NullValue ELSE pos + k,
                     s[k])]]

(***************************************************************************)
(* change_string_tuple on the string at offset o.  It takes the pieces one *)
(* after the other for as long as both the new string and the old one have *)
(* some left: its second turn frees the caller's string.  What the old     *)
(* string has more is left where it is.                                    *)
(***************************************************************************)
ChangeString(f, o, s) ==
    LET old  == ReadTuple(f, o)
        one  == WriteTuple(f, o, StringSlot(old[0], old[1], s[1]))
        two  == InsertString(one, Tail(s), o, o + 1)
    IN  IF ~Inside(f, o) THEN Lost(f)
        ELSE IF Len(s) = 1 THEN one
        ELSE IF old[1] # NullValue THEN Lost(f)
        ELSE WriteWord(two, o, 1, End(one))

(***************************************************************************)
(* The offsets of the pieces of the string at offset o, as                 *)
(* read_string_from_tuple comes to them, and the string it returns; the    *)
(* chain is given up after as many steps as the file has slots.            *)
(***************************************************************************)
Pieces(f, o) ==
    LET from[n \in Nat] ==
          [x \in Int |-> IF n = 0 \/ ~Inside(f, x) THEN <<>>
                         ELSE <<x>> \o from[n - 1][f.blk[Pos(x)][1]]]
    IN  from[Len(f.blk)][o]

ReadString(f, o) ==
    [k \in 1..Len(Pieces(f, o)) |-> f.blk[Pos(Pieces(f, o)[k])][HeaderWords]]

-----------------------------------------------------------------------------
(***************************************************************************)
(* add_tuple as far as its loop over the fields: insert_new_tuple reserves *)
(* a slot at the end of the file and append_to_id_array gives it an id.    *)
(***************************************************************************)
NewSlot(f, parent) == [w \in Words |-> CASE w = 0 -> parent
                                          [] w = 1 -> CurId(f)
                                          [] OTHER -> 0]

ReserveTuple(f, parent) ==
    AppendToIdArray(InsertNewTuple(f, NewSlot(f, parent)), End(f))

(***************************************************************************)
(* update_tuple.  For an id that has no tuple the offset is 0, and what is *)
(* read, changed and written back is the start of the file.                *)
(***************************************************************************)
UpdateTuple(f, n, value, id) ==
    LET o == Entry(f, id)
    IN  IF ~HasEntry(f, id) THEN Lost(f)
        ELSE IF o # NullValue /\ ~Inside(f, o) THEN Lost(f)
        ELSE IF Types[n] = "STRING"
             THEN ChangeString(f, ReadTuple(f, o)[FieldWord(n)], value)
        ELSE IF o # NullValue THEN WriteWord(f, o, FieldWord(n), value[1])
        ELSE IF FieldWord(n) \in DOMAIN f.sub
             THEN [f EXCEPT !.sub[FieldWord(n)] = value[1]]
        ELSE Lost(f)

(***************************************************************************)
(* find_all, with the strings of each tuple read: the tuples of the file.  *)
(***************************************************************************)
Contents(f) ==
    [id \in Live(f) |->
       LET t == ReadTuple(f, Entry(f, id))
       IN  [parent |-> t[0],
            fields |-> [n \in Fields |->
                          IF Types[n] = "STRING"
                          THEN ReadString(f, t[FieldWord(n)])
                          ELSE <<t[FieldWord(n)]>>]]]
=============================================================================
