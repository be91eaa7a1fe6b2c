----------------------------- MODULE Workloads ------------------------------
(***************************************************************************)
(* Clients of TreeFile that keep to a discipline, and the properties the   *)
(* file has under each.  TreeFile!Spec lets a client make any call; the    *)
(* code has no guard that enforces a discipline, and outside of it the     *)
(* properties fail.                                                        *)
(***************************************************************************)
EXTENDS TreeFile

LiveUpdate == \E n \in Fields : \E v \in Values(n), id \in AllIds :
                 Idle /\ id \in Live(file) /\ Update(n, v, id)

(***************************************************************************)
(* Tuples that are added have a parent, the first one itself; calls are    *)
(* made on tuples that exist.                                              *)
(***************************************************************************)
TreeNext ==
    \/ \E v \in FieldValues, p \in Parents :
          /\ Idle
          /\ \/ p \in Live(file)
             \/ Live(file) = {} /\ p = CurId(file)
          /\ AddTuple(v, p)
    \/ LiveUpdate
    \/ \E id \in AllIds : Idle /\ id \in Live(file) /\ RemoveTuple(id)
    \/ Inner

TreeSpec == Init /\ [][TreeNext]_vars /\ WF_vars(Inner)

\* The live tuples that name id as their parent, itself excepted.
Childs(id) == {c \in Live(file) \ {id} : ReadTuple(file, Entry(file, c))[0] = id}

(***************************************************************************)
(* A tuple whose removal moves no tuple that still is to be removed: it    *)
(* has childs only, no grandchilds, and they lie behind it in the file.    *)
(***************************************************************************)
Shallow(id) ==
    /\ id \in Live(file)
    /\ \A c \in Childs(id) : /\ Childs(c) \subseteq {id}
                             /\ Entry(file, c) > Entry(file, id)

\* Calls on tuples that exist, removals of shallow ones.
ShallowNext ==
    \/ \E v \in FieldValues, p \in Parents : AddTuple(v, p)
    \/ LiveUpdate
    \/ \E id \in AllIds : Idle /\ Shallow(id) /\ RemoveTuple(id)
    \/ Inner

ShallowSpec == Init /\ [][ShallowNext]_vars /\ WF_vars(Inner)

\* Tuples are added and updated, never removed.
GrowingNext ==
    \/ \E v \in FieldValues, p \in Parents : AddTuple(v, p)
    \/ LiveUpdate
    \/ Inner

GrowingSpec == Init /\ [][GrowingNext]_vars /\ WF_vars(Inner)

-----------------------------------------------------------------------------
(***************************************************************************)
(* The program never depends on what is not in the file, and no offset an  *)
(* activation keeps while slots are moved comes to lie behind the end.     *)
(***************************************************************************)
StaysInside ==
    /\ ~file.lost
    /\ \A k \in 1..Len(stack) : Inside(file, stack[k].offset)

(***************************************************************************)
(* The slots in use: a live tuple's, and the pieces of its strings.        *)
(***************************************************************************)
PiecesOf(o) == {Pieces(file, o)[k] : k \in 1..Len(Pieces(file, o))}

SlotsOf(id) ==
    LET o == Entry(file, id)
    IN  {o} \cup UNION {PiecesOf(file.blk[Pos(o)][FieldWord(n)]) :
                          n \in StringFields}

(***************************************************************************)
(* The entry of a live tuple leads to the slot that says it is its tuple,  *)
(* at every step, whatever has been moved into the place of what.          *)
(***************************************************************************)
EntriesReachTuples ==
    ~file.lost =>
      \A id \in Live(file) : /\ Inside(file, Entry(file, id))
                             /\ ReadTuple(file, Entry(file, id))[1] = id

(***************************************************************************)
(* The array, and the entry the next tuple will get, lie before every slot *)
(* in use: a write to the array never lands in a tuple or a string.        *)
(***************************************************************************)
ArrayApart ==
    ~file.lost =>
      \A id \in Live(file) : Pos(Entry(file, id)) > EntryPos(CurId(file))

(***************************************************************************)
(* Between calls, no slot is in use for two tuples or two strings, and the *)
(* first piece of a string leads back to its tuple.                        *)
(***************************************************************************)
StringsBelong ==
    Idle =>
      \A id \in Live(file) : \A n \in StringFields :
        LET o == ReadTuple(file, Entry(file, id))[FieldWord(n)]
        IN  /\ Inside(file, o)
            /\ ReadTuple(file, o)[0] = Entry(file, id)
            /\ \A other \in Live(file) : \A m \in StringFields :
                 ReadTuple(file, Entry(file, other))[FieldWord(m)] = o
                   => other = id /\ m = n

(***************************************************************************)
(* Between calls, every slot behind the array is in use: removals leave no *)
(* hole and the file ends with its last slot in use.                       *)
(***************************************************************************)
NoSlotWasted ==
    Idle => UNION {SlotsOf(id) : id \in Live(file)}
              = {Off(p) : p \in EntryPos(CurId(file)) + 1..Len(file.blk)}

(***************************************************************************)
(* The activations of a removal are of different tuples with different     *)
(* slots, and none of these tuples can be found by its id any more, though *)
(* a tuple may be its own ancestor: no slot is given up twice.             *)
(***************************************************************************)
RemovedOnce ==
    op = "remove" /\ ~file.lost =>
      \A i \in 1..Len(stack) :
        /\ stack[i].id \notin Live(file)
        /\ \A j \in 1..Len(stack) : i # j =>
             stack[i].id # stack[j].id /\ stack[i].offset # stack[j].offset

(***************************************************************************)
(* At every step of a call, and so after a crash at any of them, a tuple   *)
(* that was there when the call began and still is reads as it did then.   *)
(***************************************************************************)
OthersReadable ==
    op # "none" /\ ~file.lost =>
      \A id \in DOMAIN before \cap Live(file) : Contents(file)[id] = before[id]

(***************************************************************************)
(* A call comes to its end, or has left the file.                          *)
(***************************************************************************)
CallsEnd == (op # "none") ~> (op = "none" \/ file.lost)

(***************************************************************************)
(* What a caller is promised: each call has its effect at its last step.   *)
(***************************************************************************)
Store == INSTANCE TreeStore
           WITH TupleIds <- AllIds, ParentIds <- Parents, FieldNames <- Fields,
                nodes <- IF op = "none" THEN Contents(file) ELSE before

KeepsPromise == Store!Spec
=============================================================================
