------------------------------- MODULE Layout -------------------------------
(***************************************************************************)
(* The arithmetic that places things in the database file                  *)
(* (db/src/basic_tools/basic_convert.c).  The file is a header, an array   *)
(* of tuple offsets indexed by tuple id, and a run of slots of one size.   *)
(* A size is counted here in words of SINGLE_TUPLE_VALUE_SIZE =            *)
(* OFFSET_VALUE_SIZE = 8 bytes: every size the code computes for the array *)
(* and for a slot is a whole number of them.                               *)
(***************************************************************************)
EXTENDS Integers

CONSTANTS
    PatternSize,     \* number of fields of a tuple (tree_subheader.pattern_size)
    MinimalWords     \* MINIMAL_TUPLE_SIZE in words: 32 in configuration.h

ASSUME PatternAssumption == PatternSize \in Nat \ {0}
ASSUME MinimalAssumption == MinimalWords \in Nat \ {0}

HeaderWords    == 2      \* sizeof(union tuple_header): two 64-bit words
MinIdArraySize == 1      \* MIN_ID_ARRAY_SIZE, in slots
FileGranularity == 4     \* FILE_GRANULARITY, in bytes

(***************************************************************************)
(* get_real_tuple_size: the data part of a slot.                           *)
(***************************************************************************)
RealTupleWords == IF PatternSize < MinimalWords THEN MinimalWords
                                                ELSE PatternSize

SlotWords == RealTupleWords + HeaderWords

CeilDiv(n, d) == n \div d + (IF n % d # 0 THEN 1 ELSE 0)

Larger(a, b) == IF a > b THEN a ELSE b

(***************************************************************************)
(* get_real_id_array_size: how many entries the id array is taken to have  *)
(* when ids 0 .. curId-1 have been given out: whole slots, at least one.   *)
(***************************************************************************)
RealIdArraySize(curId) ==
    LET n == IF curId = 0 THEN 1 ELSE curId
    IN  Larger(CeilDiv(n, SlotWords) * SlotWords, MinIdArraySize * SlotWords)

\* A plausible slip: the array grows one entry too late.
GrowthDue_Late(curId) == curId > 0 /\ curId % RealIdArraySize(curId) = 0

(***************************************************************************)
(* The condition under which append_to_id_array takes the slot after the   *)
(* array into the array, before it writes entry curId.                     *)
(***************************************************************************)
GrowthDue(curId) == (curId + 1) % RealIdArraySize(curId) = 0

(***************************************************************************)
(* get_real_string_size: key names are padded to FILE_GRANULARITY bytes.   *)
(***************************************************************************)
RealStringSize(len) == CeilDiv(len, FileGranularity) * FileGranularity

(***************************************************************************)
(* The number of slots insert_string_tuple cuts a string of len bytes      *)
(* into, where tupleSize is the data part of a slot in bytes.              *)
(***************************************************************************)
StringChunks(len, tupleSize) == CeilDiv(len, tupleSize)
=============================================================================
