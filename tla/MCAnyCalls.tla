----------------------------- MODULE MCAnyCalls -----------------------------
(* Values for the constants of AnyCalls. *)
EXTENDS AnyCalls

IntegerOnly == <<"INTEGER">>
=============================================================================
