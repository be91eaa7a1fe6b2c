-------------------------- MODULE ShallowInvariant --------------------------
(***************************************************************************)
(* Why a file of integer tuples stays sound while shallow tuples are       *)
(* removed and the id array grows: an invariant of ShallowSpec that each   *)
(* step preserves by itself, and what it adds to be the link between the   *)
(* file and what callers are promised.                                     *)
(***************************************************************************)
EXTENDS Workloads

\* The pattern has no string field, and nothing but an offset is as large as one.
OnlyIntegers ==
    /\ StringFields = {}
    /\ \A i \in Ints : i < FirstOffset
    /\ Signature \notin AllIds

\* The last slot of the array, the one the next id's entry is in.
LastArraySlot(f) == EntryPos(CurId(f))
TuplePositions(f) == LastArraySlot(f) + 1..Len(f.blk)

(***************************************************************************)
(* Only an entry of an id that was given out is as large as an offset:     *)
(* nothing else in the file can be taken for a reference to a slot.        *)
(***************************************************************************)
OffsetsAreEntries(f) ==
    \A p \in 1..Len(f.blk) : \A w \in Words :
        f.blk[p][w] >= FirstOffset =>
            \E id \in Ids(f) : p = EntryPos(id) /\ w = EntryWord(id)

\* Every live id leads to a slot behind the array that is its tuple's.
EntriesLead(f) ==
    \A id \in Live(f) : /\ Pos(Entry(f, id)) \in TuplePositions(f)
                        /\ f.blk[Pos(Entry(f, id))][1] = id

Sound(f) ==
    /\ ~f.lost
    /\ f.sub[SIGNATURE] = Signature
    /\ CurId(f) <= MaxIds
    /\ LastArraySlot(f) <= Len(f.blk)
    /\ OffsetsAreEntries(f)
    /\ EntriesLead(f)

SmallWords(b) == \A w \in Words : b[w] < FirstOffset

\* The tuple being added keeps the slot it was given.
AddSound ==
    op = "add" => /\ Pos(new.at) \in TuplePositions(file)
                  /\ file.blk[Pos(new.at)][1] = new.slot[1]
                  /\ SmallWords(new.slot)

\* A tuple being removed keeps its slot until it gives it up.
FrameSound(f, t) ==
    /\ t.links = NoLinks
    /\ t.loaded => t.childs = {}
    /\ t.id \notin Live(f)
    /\ Pos(t.offset) \in TuplePositions(f)
    /\ f.blk[Pos(t.offset)][1] = t.id

(***************************************************************************)
(* At most a tuple and one of its childs are being removed.  The childs    *)
(* that still are to be, and the one that is, lie behind the tuple, and    *)
(* nothing in the file names one of them as its parent.                    *)
(***************************************************************************)
RemoveSound ==
    IF op = "remove"
    THEN /\ Len(stack) \in {1, 2}
         /\ \A k \in 1..Len(stack) : FrameSound(file, stack[k])
         /\ \A c \in stack[1].childs : /\ c \in Live(file)
                                       /\ Entry(file, c) > stack[1].offset
                                       /\ Childs(c) = {}
         /\ Len(stack) = 2 => /\ stack[2].childs = {}
                              /\ stack[1].offset < stack[2].offset
                              /\ stack[1].id # stack[2].id
    ELSE stack = <<>>

(***************************************************************************)
(* When the next tuple will have the array grow, the slot it grows over is *)
(* never that of the tuple itself: the last id is in use, or there is a    *)
(* slot that belongs to nothing, neither to a live id nor to one in taken. *)
(* The array has been longer once, and gave that slot back as it was.      *)
(***************************************************************************)
Spare(f, taken) ==
    {p \in TuplePositions(f) \ taken : \A id \in Live(f) : Pos(Entry(f, id)) # p}

GrowthCovered(f, taken) ==
    GrowthDue(CurId(f)) => CurId(f) - 1 \in Live(f) \/ Spare(f, taken) # {}

\* The slots of the tuples being removed.
Taken(s) == {Pos(s[k].offset) : k \in 1..Len(s)}

GrowthSound == GrowthCovered(file, Taken(stack))

(***************************************************************************)
(* swap_tuple_to looks up the id it finds in the slot it copies.  That the *)
(* entry can be read does not follow from the array's size now: tuples     *)
(* being removed, and slots the array gave back, may name ids behind its   *)
(* end.  But the array has reached no further than some slot m, no slot    *)
(* names an entry behind that one, and every slot in use lies behind it.   *)
(***************************************************************************)
NamesWithin(f, m) ==
    \A p \in 1..Len(f.blk) :
        f.blk[p][1] < FirstOffset => EntryPos(f.blk[p][1]) <= m

SlotsInUse(f, taken) == {Pos(Entry(f, id)) : id \in Live(f)} \cup taken

NamesCovered(f, taken) ==
    \E m \in LastArraySlot(f)..Len(f.blk) :
        NamesWithin(f, m) /\ \A p \in SlotsInUse(f, taken) : p > m

NamesSound == NamesCovered(file, Taken(stack))

(***************************************************************************)
(* All of it together.  While only shallow tuples are removed, no removal  *)
(* and no growth of the id array (remove_tuple, append_to_id_array with    *)
(* the slots they move) leaves an entry, an activation or the tuple being  *)
(* added with a slot that is not its own.                                  *)
(***************************************************************************)
ShallowInv ==
    Sound(file) /\ AddSound /\ RemoveSound /\ GrowthSound /\ NamesSound

-----------------------------------------------------------------------------
(***************************************************************************)
(* A call in progress and the tuples there were when it began.             *)
(***************************************************************************)
SameAsBefore(S) == \A id \in S : Contents(file)[id] = before[id]

\* One tuple more, which the call knows the slot and the fields of.
AddTraced ==
    op = "add" =>
      LET id == CurId(file) - 1
      IN  /\ id \in Live(file)
          /\ Entry(file, id) = new.at
          /\ DOMAIN before = Live(file) \ {id}
          /\ SameAsBefore(DOMAIN before)
          /\ new.slot[0] \in Parents
          /\ \A n \in Fields : n < new.n => new.slot[FieldWord(n)] = new.fields[n][1]

ChildsBefore(id) == {c \in DOMAIN before \ {id} : before[c].parent = id}

\* Without the tuple, and without those of its childs that are gone by now.
RemoveTraced ==
    op = "remove" =>
      LET id == stack[1].id
      IN  /\ id \in AllIds \cap DOMAIN before
          /\ stack[1].childs \subseteq ChildsBefore(id)
          /\ Live(file) = DOMAIN before
                            \ ({id} \cup (ChildsBefore(id) \ stack[1].childs))
          /\ SameAsBefore(Live(file))
          /\ \A i \in DOMAIN before \ {id} : before[i].parent \notin ChildsBefore(id)

(***************************************************************************)
(* Between the steps of a call the file holds what it held, but for what   *)
(* the call has done so far; at its last step the promise is fulfilled.    *)
(***************************************************************************)
CallTraced == AddTraced /\ RemoveTraced
=============================================================================
