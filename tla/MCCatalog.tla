------------------------------ MODULE MCCatalog ------------------------------
(* Small instances of Catalog for TLC. *)
EXTENDS Catalog, TLC

\* SKU 1 is the slug, 2 the slug with the suffix -2, which may also be asked for.
TwoAttempts == [b \in Bases |-> <<b, b + 1>>]
Removal == {[active |-> FALSE]}
First == [p \in {CHOOSE q \in Products : TRUE} |-> 1]
=============================================================================
