------------------------------ MODULE MCOrders ------------------------------
(* Small instances of Orders for TLC. *)
EXTENDS Orders, TLC

\* every product alone and all products together, one unit of each
OneEach == {[q \in Products |-> IF q = p THEN 1 ELSE 0] : p \in Products}
             \cup {[q \in Products |-> 1]}

\* one unit or two of each product
OneOrTwo == {[q \in Products |-> n] : n \in {1, 2}}

BuyAndLose == {[tipo |-> "COMPRA", delta |-> 1], [tipo |-> "PERDA", delta |-> -1]}
LoseTwo == {[tipo |-> "PERDA", delta |-> -2]}
NoMovements == {}

Two == {2}
OneOrTwoUnits == {1, 2}

Symmetry == Permutations(Orders) \cup Permutations(Requests)
=============================================================================
