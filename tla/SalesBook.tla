----------------------------- MODULE SalesBook -----------------------------
(***************************************************************************)
(* What OrdersService.create promises to whoever sees only committed rows: *)
(* an order comes into being at one moment and as a whole, with its units, *)
(* its use of the coupon and its idempotency key.  Nothing here knows of   *)
(* requests, row locks, retries, errors or a transaction; Placement is     *)
(* shown to implement it.                                                  *)
(***************************************************************************)
EXTENDS Integers

CONSTANTS Products,      \* produto_id values
          Orders,        \* order_id values
          NoOrder,       \* a NULL order_id
          Keys,          \* idempotency keys
          NoKey,         \* an order without a key
          Baskets,       \* what can be ordered
          InitialUnits,  \* units of each product on the shelf
          UsageLimit     \* usage_limit of the coupon

VARIABLES left,   \* units of each product that no order has
          uses,   \* uses of the coupon that no order has
          keys,   \* the order each key stands for
          order   \* pedidos

Free == [order |-> NoOrder, expired |-> FALSE]

NotPlaced == [status |-> "none", key |-> NoKey,
              items |-> [p \in Products |-> 0], coupon |-> FALSE]

Init == /\ left = InitialUnits
        /\ uses = UsageLimit
        /\ keys = [k \in Keys |-> Free]
        /\ order = [o \in Orders |-> NotPlaced]

\* A sale over the counter has a key and is delivered, any other order has none
\* and is to be paid.
Place(o, key, items, coupon) ==
  /\ order[o] = NotPlaced
  /\ key # NoKey => keys[key].order = NoOrder \/ keys[key].expired
  /\ \A p \in Products : items[p] <= left[p]
  /\ coupon => uses > 0
  /\ order' = [order EXCEPT ![o] =
       [status |-> IF key # NoKey THEN "entregue" ELSE "pendente_pagamento",
        key |-> key, items |-> items, coupon |-> coupon]]
  /\ left' = [p \in Products |-> left[p] - items[p]]
  /\ uses' = IF coupon THEN uses - 1 ELSE uses
  /\ keys' = IF key # NoKey
             THEN [keys EXCEPT ![key] = [order |-> o, expired |-> FALSE]] ELSE keys

Lapse(k) ==
  /\ keys[k].order # NoOrder /\ ~keys[k].expired
  /\ keys' = [keys EXCEPT ![k].expired = TRUE]
  /\ UNCHANGED <<left, uses, order>>

Next ==
  \/ \E o \in Orders, key \in Keys \cup {NoKey}, items \in Baskets, coupon \in BOOLEAN :
       Place(o, key, items, coupon)
  \/ \E k \in Keys : Lapse(k)

vars == <<left, uses, keys, order>>

Spec == Init /\ [][Next]_vars
=============================================================================
