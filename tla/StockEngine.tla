----------------------------- MODULE StockEngine -----------------------------
(***************************************************************************)
(* StockEngineService: the four guarded updates through which every stock  *)
(* change of the platform goes, as functions of the stock table and of the *)
(* ledger.  A basket maps every product to the quantity asked for, 0 when  *)
(* the product is not in it; a transaction applies a whole basket or, when *)
(* one guarded UPDATE affects no row, throws and changes nothing.          *)
(***************************************************************************)
EXTENDS Integers, Sequences, FiniteSets, FiniteSetsExt

CONSTANTS Products,   \* produto_id values
          Orders,     \* order_id values
          NoOrder,    \* a NULL order_id
          MaxUnits,   \* bound: units of a product a manual movement may build up to
          MaxRows     \* bound: ledger length beyond which no manual movement is made

ASSUME EngineAssumption == /\ NoOrder \notin Orders
                           /\ MaxUnits \in Nat
                           /\ MaxRows \in Nat

VARIABLES stock,   \* movimentacoes_estoque: current_stock and reserved_stock
          ledger   \* movimentacoes_estoque_historico, one sequence per product

Ledger == INSTANCE StockLedger WITH book <- ledger

StockRow == [current : Nat, reserved : Nat]
Basket == [Products -> Nat]
EmptyBasket == [p \in Products |-> 0]

\* what the members of S have together
Total(units, S) == MapThenSumSet(LAMBDA x : units[x], S)

Available(p) == stock[p].current - stock[p].reserved

\* Mutant: the GREATEST(0, ...) clamp is forgotten.
Unclamped(n) == n

Greatest0(n) == IF n < 0 THEN 0 ELSE n

\* ------------------------------------------------------------------ reserve
\* Mutant: the UPDATE loses its guard.
CanReserveUnguarded(basket) == TRUE

CanReserve(basket) == \A p \in Products : basket[p] > 0 => Available(p) >= basket[p]

Reserved(st, basket) ==
  [p \in Products |-> [st[p] EXCEPT !.reserved = @ + basket[p]]]

\* ------------------------------------------------------------------ release
Released(st, basket) ==
  [p \in Products |-> [st[p] EXCEPT !.reserved = Greatest0(@ - basket[p])]]

\* --------------------------------------------------------------- commitSale
Sold(o, p) == Ledger!HasVenda(ledger[p], o)

\* Mutant: the sale is not gated by the unique index.
ToSellUngated(o, basket) == {p \in Products : basket[p] > 0}

\* Mutant: an item with too few units on the shelf is skipped, not refused.
ToSellSkipping(o, basket) ==
  {p \in Products : basket[p] > 0 /\ ~Sold(o, p) /\ stock[p].current >= basket[p]}

\* the items whose VENDA insert does not hit the unique index
ToSell(o, basket) == {p \in Products : basket[p] > 0 /\ ~Sold(o, p)}

CanSell(o, basket) == \A p \in ToSell(o, basket) : stock[p].current >= basket[p]

\* Mutant: the units leave the shelf but stay reserved.
AfterSaleStillReserved(st, o, basket) ==
  [p \in Products |->
     [st[p] EXCEPT !.current = IF p \in ToSell(o, basket) THEN @ - basket[p] ELSE @]]

AfterSale(st, o, basket) ==
  [p \in Products |->
     IF p \in ToSell(o, basket)
     THEN [current |-> st[p].current - basket[p],
           reserved |-> Greatest0(st[p].reserved - basket[p])]
     ELSE st[p]]

\* Mutant: saldo_resultante is the balance read before the update.
LedgerAfterSaleStale(o, basket) ==
  [p \in Products |->
     IF p \in ToSell(o, basket)
     THEN Append(ledger[p], [tipo |-> "VENDA", delta |-> -basket[p],
                             saldo |-> stock[p].current, order |-> o])
     ELSE ledger[p]]

LedgerAfterSale(o, basket) ==
  [p \in Products |->
     IF p \in ToSell(o, basket)
     THEN Append(ledger[p], [tipo |-> "VENDA", delta |-> -basket[p],
                             saldo |-> stock[p].current - basket[p], order |-> o])
     ELSE ledger[p]]

\* ------------------------------------------------------ recordManualMovement
\* The guard is on current_stock alone: a PERDA may leave fewer units on the
\* shelf than are reserved.
RecordManualMovement(p, tipo, delta) ==
  /\ Ledger!SignAllowed(tipo, delta)
  /\ stock[p].current + delta >= 0
  /\ stock[p].current + delta <= MaxUnits
  /\ Len(ledger[p]) < MaxRows
  /\ stock' = [stock EXCEPT ![p].current = @ + delta]
  /\ ledger' = [ledger EXCEPT ![p] =
                  Append(@, [tipo |-> tipo, delta |-> delta,
                             saldo |-> stock[p].current + delta, order |-> NoOrder])]

\* A product row is created with current_stock = 0, and a positive initial
\* stock is booked as INVENTARIO_INICIAL (so does the backfill migration).
Opening(n) ==
  IF n = 0 THEN <<>>
  ELSE <<[tipo |-> "INVENTARIO_INICIAL", delta |-> n, saldo |-> n, order |-> NoOrder]>>

EngineInit(initial) ==
  /\ stock = [p \in Products |-> [current |-> initial[p], reserved |-> 0]]
  /\ ledger = [p \in Products |-> Opening(initial[p])]

-----------------------------------------------------------------------------
EngineTypeOK == /\ stock \in [Products -> StockRow]
                /\ Ledger!TypeOK

\* current_stock is the projection of the ledger: it equals the balance of the
\* last row, in every state other transactions can see.
ProjectsLedger == \A p \in Products : stock[p].current = Ledger!Balance(ledger[p])
=============================================================================
