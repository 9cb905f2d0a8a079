----------------------------- MODULE MCPlacement -----------------------------
(* Small instances of Placement for TLC. *)
EXTENDS Placement, TLC

OneEach == {b \in [Products -> {0, 1}] : \E p \in Products : b[p] > 0}
TwoUnits == [p \in Products |-> 2]
LastUnit == [p \in Products |-> IF p = CHOOSE q \in Products : TRUE THEN 1 ELSE 2]
OneUnit == [p \in Products |-> 1]
=============================================================================
