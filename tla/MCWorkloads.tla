---------------------------- MODULE MCWorkloads -----------------------------
(* Values for the constants of Workloads. *)
EXTENDS GrowingInvariant

IntegerOnly   == <<"INTEGER">>
StringOnly    == <<"STRING">>
IntegerString == <<"INTEGER", "STRING">>
ThreeIntegers == <<"INTEGER", "INTEGER", "INTEGER">>

\* Pieces of text are words larger than any offset.
TwoTexts == {<<1001>>, <<1002>>}
UpToTwo  == {<<1001>>, <<1001, 1002>>}
=============================================================================
