----------------------------- MODULE MCCheckout -----------------------------
(* Small instances of Checkout for TLC. *)
EXTENDS Checkout, TLC

FourUnits == [p \in Products |-> 4]
TwoUnits == [p \in Products |-> 2]

Symmetry == Permutations(Calls)
=============================================================================
