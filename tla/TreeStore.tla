----------------------------- MODULE TreeStore ------------------------------
(***************************************************************************)
(* What the storage interface (db/include/crud_tools/crud.h) promises its  *)
(* callers: a set of tuples, each with an id that no other tuple has, a    *)
(* parent id and a value for each field.  Every call takes effect at once. *)
(* Nothing is said of files, offsets, slots or pieces of strings.          *)
(***************************************************************************)
EXTENDS Integers

CONSTANTS TupleIds,        \* ids a tuple may get
          ParentIds,       \* ids a tuple may name as its parent
          FieldNames,
          FieldValues      \* the values a tuple's fields may have together

VARIABLE nodes             \* the tuples: a function from their ids

TupleType == [parent : ParentIds, fields : FieldValues]

Init == nodes = [id \in {} |-> <<>>]

(***************************************************************************)
(* A new tuple gets an id that is not in use; its parent need not exist.   *)
(***************************************************************************)
Add(id, t) ==
    /\ id \notin DOMAIN nodes
    /\ nodes' = [i \in DOMAIN nodes \cup {id} |->
                   IF i = id THEN t ELSE nodes[i]]

Update(id, n, v) ==
    /\ id \in DOMAIN nodes
    /\ nodes' = [nodes EXCEPT ![id].fields[n] = v]

(***************************************************************************)
(* A tuple is removed with everything below it: the smallest set that has  *)
(* the tuple, and has the childs of each tuple it has.                     *)
(***************************************************************************)
Closed(S) == \A i \in DOMAIN nodes : nodes[i].parent \in S => i \in S

Below(id) == {i \in DOMAIN nodes :
                \A S \in SUBSET DOMAIN nodes : id \in S /\ Closed(S) => i \in S}

Remove(id) ==
    /\ id \in DOMAIN nodes
    /\ nodes' = [i \in DOMAIN nodes \ Below(id) |-> nodes[i]]

Next == \/ \E id \in TupleIds, t \in TupleType : Add(id, t)
        \/ \E id \in TupleIds, n \in FieldNames :
              \E v \in {w[n] : w \in FieldValues} : Update(id, n, v)
        \/ \E id \in TupleIds : Remove(id)

Spec == Init /\ [][Next]_nodes
=============================================================================
