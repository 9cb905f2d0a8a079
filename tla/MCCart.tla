------------------------------- MODULE MCCart -------------------------------
(* Small instances of Cart for TLC. *)
EXTENDS Cart

TwoUnits == [p \in Products |-> 2]
=============================================================================
