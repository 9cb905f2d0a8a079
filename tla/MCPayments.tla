----------------------------- MODULE MCPayments -----------------------------
(* Small instances of Payments for TLC. *)
EXTENDS Payments, TLC

OneUnit == {[q \in Products |-> 1]}
One == {1}
NoMovements == {}
OnePurchase == {[tipo |-> "COMPRA", delta |-> 1]}

\* Payments, and the calls, are interchangeable.
Symmetry == Permutations(Payments) \cup Permutations(Calls)
=============================================================================
