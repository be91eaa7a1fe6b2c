------------------------------ MODULE AnyCalls ------------------------------
(***************************************************************************)
(* Clients that make any calls: they add tuples under parents that are not *)
(* there or are childs of the tuple itself, and remove and update ids that *)
(* have no tuple.  Nothing in the code refuses such a call, and three of   *)
(* its steps can damage other tuples without a trace.  A history variable  *)
(* remembers that one was taken; the properties say that until then        *)
(* nothing is damaged, so that these three are all there are.              *)
(***************************************************************************)
EXTENDS Workloads

VARIABLE astray   \* history: a step went on with a place that is no tuple's

anyVars == <<vars, astray>>

(***************************************************************************)
(* remove_recursive_tuple_with_values gives up the slot at the offset it   *)
(* read before its childs were removed, when the file ends before it now.  *)
(***************************************************************************)
GivesUpStale == /\ op = "remove" /\ Top.loaded /\ Top.links = NoLinks
                /\ ~Inside(file, Top.offset)

\* remove_tuple takes another word for the entry of an id never given out.
NoEntryOf(id) == /\ id \notin Ids(file)
                 /\ HasEntry(file, id)
                 /\ Entry(file, id) # NullValue

\* update_tuple rewrites the header, or what another word leads to, as a tuple.
NoTupleOf(id) == id \notin Live(file)

AnyAdd == \E v \in FieldValues, p \in Parents :
             AddTuple(v, p) /\ UNCHANGED astray

AnyUpdate == \E n \in Fields : \E v \in Values(n), id \in AllIds :
                Update(n, v, id) /\ astray' = NoTupleOf(id)

AnyRemoval == \E id \in AllIds :
                 RemoveTuple(id) /\ astray' = NoEntryOf(id)

\* The call in progress goes on.
AnyStep == Inner /\ astray' = (astray \/ GivesUpStale)

(***************************************************************************)
(* A call that has gone astray still comes to its end; there is nothing to *)
(* be said of the calls after it.                                          *)
(***************************************************************************)
AnyNext == \/ ~astray /\ (AnyAdd \/ AnyUpdate \/ AnyRemoval)
           \/ AnyStep

AnyInit == Init /\ astray = FALSE

AnySpec == AnyInit /\ [][AnyNext]_anyVars /\ WF_anyVars(AnyStep)

-----------------------------------------------------------------------------
(***************************************************************************)
(* Whatever is added and removed, with cycles of parents, ids that are     *)
(* removed again and an array that grows and is given back, every live id  *)
(* leads to its tuple until a call goes astray (swap_tuple_to,             *)
(* append_to_id_array, remove_from_id_array).                              *)
(***************************************************************************)
EntriesReachUntilAstray == ~astray => EntriesReachTuples

(***************************************************************************)
(* At every step of any call, and so after a crash at any of them, the     *)
(* tuples that are still there read as they did when it began, until it    *)
(* goes astray.                                                            *)
(***************************************************************************)
OthersReadableUntilAstray == ~astray => OthersReadable

(***************************************************************************)
(* However its parents are linked, a tuple is removed once and its slot    *)
(* given up once, until a call goes astray.                                *)
(***************************************************************************)
RemovedOnceUntilAstray == ~astray => RemovedOnce
=============================================================================
