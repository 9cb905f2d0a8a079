------------------------------- MODULE Orders -------------------------------
(***************************************************************************)
(* OrdersService over the stock engine.  Creating an order, changing its   *)
(* status, the TTL sweeper and the manual movements of the inventory page  *)
(* run concurrently, each transaction atomic under its row locks.  A       *)
(* status change is two steps: updateStatus reads the order and checks the *)
(* transition before it opens the transaction that locks the row.          *)
(***************************************************************************)
EXTENDS StockEngine

CONSTANTS Requests,     \* updateStatus calls that can be in flight at a time
          Sweepers,     \* sweeper ticks that can overlap (cron ticks, instances)
          Baskets,      \* the item lists an order may be created with
          InitialStock, \* the units a product may start with
          Movements,    \* the manual movements made, as [tipo, delta] records
          BatchLimit    \* LIMIT of the sweeper's id queries (500 in the code)

ASSUME OrdersAssumption ==
  /\ Baskets \subseteq Basket
  /\ \A b \in Baskets : \E p \in Products : b[p] > 0
  /\ InitialStock \subseteq Nat
  /\ Movements \subseteq [tipo : {"COMPRA", "PERDA", "DEVOLUCAO", "AJUSTE"}, delta : Int]
  /\ BatchLimit \in Nat \ {0}

VARIABLES order,    \* pedidos: status, items and whether stock_released_at is set
          req,      \* what each updateStatus call holds between its two steps
          sweep,    \* the ids a sweeper tick has listed and not yet handled
          overdue,  \* orders older than ORDER_PAYMENT_TTL_MINUTES
          freed     \* history: how often an order's reservation was released

vars == <<stock, ledger, order, req, sweep, overdue, freed>>

Status == {"pendente_pagamento", "confirmado", "em_producao", "pronto",
           "em_transito", "entregue", "cancelado"}

OrderRow == [status : Status \cup {"none"}, items : Basket, released : BOOLEAN]
NoRow == [status |-> "none", items |-> EmptyBasket, released |-> FALSE]

RequestState == [order : Orders \cup {NoOrder},
                 from : Status \cup {"none"}, to : Status \cup {"none"}]
Idle == [order |-> NoOrder, from |-> "none", to |-> "none"]

Placed(o) == order[o].status # "none"

-----------------------------------------------------------------------------
(* The transition policy, per actor. *)

Actors == {"payment", "admin", "customer"}

\* Mutant: an order in production may be handed over directly.
AllowedByAdminShortcut(from) ==
  CASE from = "pendente_pagamento" -> {"cancelado"}
    [] from = "confirmado" -> {"em_producao", "cancelado"}
    [] from = "em_producao" -> {"pronto", "entregue", "cancelado"}
    [] from = "pronto" -> {"em_transito", "entregue"}
    [] from = "em_transito" -> {"entregue"}
    [] OTHER -> {}

\* Mutant: the merchant may confirm an order by hand.
AllowedByAdminConfirming(from) ==
  CASE from = "pendente_pagamento" -> {"confirmado", "cancelado"}
    [] from = "confirmado" -> {"em_producao", "cancelado"}
    [] from = "em_producao" -> {"pronto", "cancelado"}
    [] from = "pronto" -> {"em_transito", "entregue"}
    [] from = "em_transito" -> {"entregue"}
    [] OTHER -> {}

AllowedByAdmin(from) ==
  CASE from = "pendente_pagamento" -> {"cancelado"}
    [] from = "confirmado" -> {"em_producao", "cancelado"}
    [] from = "em_producao" -> {"pronto", "cancelado"}
    [] from = "pronto" -> {"em_transito", "entregue"}
    [] from = "em_transito" -> {"entregue"}
    [] OTHER -> {}

AllowedStatusTransitions(actor, from) ==
  CASE actor = "admin" -> AllowedByAdmin(from)
    [] actor = "payment" /\ from = "pendente_pagamento" -> {"confirmado"}
    [] actor = "customer" /\ from = "pendente_pagamento" -> {"cancelado"}
    [] OTHER -> {}

-----------------------------------------------------------------------------
Init ==
  /\ \E initial \in [Products -> InitialStock] : EngineInit(initial)
  /\ order = [o \in Orders |-> NoRow]
  /\ req = [r \in Requests |-> Idle]
  /\ sweep = [s \in Sweepers |-> {}]
  /\ overdue = {}
  /\ freed = [o \in Orders |-> 0]

\* create for the ecommerce and whatsapp channels: the stock rows are locked,
\* every item is reserved and the order waits for its payment.
CreateOrder(o, basket) ==
  /\ ~Placed(o)
  /\ CanReserve(basket)
  /\ stock' = Reserved(stock, basket)
  /\ order' = [order EXCEPT ![o] =
                 [status |-> "pendente_pagamento", items |-> basket, released |-> FALSE]]
  /\ UNCHANGED <<ledger, req, sweep, overdue, freed>>

\* create for the pdv channel: reserve, then commitSale, in the same
\* transaction; the order is born delivered.
CreatePdvOrder(o, basket) ==
  /\ ~Placed(o)
  /\ CanReserve(basket)
  /\ CanSell(o, basket)
  /\ stock' = AfterSale(Reserved(stock, basket), o, basket)
  /\ ledger' = LedgerAfterSale(o, basket)
  /\ order' = [order EXCEPT ![o] =
                 [status |-> "entregue", items |-> basket, released |-> FALSE]]
  /\ UNCHANGED <<req, sweep, overdue, freed>>

\* updateStatus up to assertStatusTransition: the order is read without a
\* lock, and the transition is judged on what was read.
ReadStatus(r, o, actor, to) ==
  /\ req[r] = Idle
  /\ Placed(o)
  /\ to \in AllowedStatusTransitions(actor, order[o].status)
  /\ req' = [req EXCEPT ![r] = [order |-> o, from |-> order[o].status, to |-> to]]
  /\ UNCHANGED <<stock, ledger, order, sweep, overdue, freed>>

\* The locked part of updateStatus.  The row is re-read under its lock, but
\* only equality with the target is tested on it, not the transition.
Locked(r) ==
  /\ req[r] # Idle
  /\ req' = [req EXCEPT ![r] = Idle]
  /\ UNCHANGED <<sweep, overdue>>

SetStatus(o, to) == order' = [order EXCEPT ![o].status = to]

ReleaseAndCancel(o) ==
  /\ stock' = Released(stock, order[o].items)
  /\ order' = [order EXCEPT ![o].status = "cancelado", ![o].released = TRUE]
  /\ freed' = [freed EXCEPT ![o] = @ + 1]
  /\ UNCHANGED ledger

\* another request already applied the same transition
ApplyNothing(r) ==
  /\ Locked(r)
  /\ order[req[r].order].status = req[r].to
  /\ UNCHANGED <<stock, ledger, order, freed>>

\* entering PRONTO commits the sale
ApplyPronto(r) ==
  LET o == req[r].order IN
  /\ Locked(r)
  /\ req[r].to = "pronto"
  /\ order[o].status # "pronto"
  /\ CanSell(o, order[o].items)
  /\ stock' = AfterSale(stock, o, order[o].items)
  /\ ledger' = LedgerAfterSale(o, order[o].items)
  /\ SetStatus(o, "pronto")
  /\ UNCHANGED freed

\* cancelling releases the reservation unless stock_released_at is set
ApplyCancel(r) ==
  LET o == req[r].order IN
  /\ Locked(r)
  /\ req[r].to = "cancelado"
  /\ order[o].status # "cancelado"
  /\ IF order[o].released
     THEN SetStatus(o, "cancelado") /\ UNCHANGED <<stock, ledger, freed>>
     ELSE ReleaseAndCancel(o)

\* every other target only rewrites the status
ApplyPlain(r) ==
  LET o == req[r].order IN
  /\ Locked(r)
  /\ req[r].to \notin {"pronto", "cancelado", order[o].status}
  /\ SetStatus(o, req[r].to)
  /\ UNCHANGED <<stock, ledger, freed>>

\* The transaction rolls back: commitSale finds too few units, the statement
\* times out, or the process dies.
AbortRequest(r) ==
  /\ Locked(r)
  /\ UNCHANGED <<stock, ledger, order, freed>>

-----------------------------------------------------------------------------
(* Expiry: the sweeper lists ids in one transaction and handles each of     *)
(* them in another, so the list may be stale when it is used.               *)

\* a pending order passes its payment TTL
TtlPasses(o) ==
  /\ order[o].status = "pendente_pagamento"
  /\ o \notin overdue
  /\ overdue' = overdue \cup {o}
  /\ UNCHANGED <<stock, ledger, order, req, sweep, freed>>

\* Mutant: the test for stock_released_at is inverted.
SweepableInverted ==
  {o \in overdue : order[o].status = "pendente_pagamento" /\ order[o].released}

Sweepable == {o \in overdue : order[o].status = "pendente_pagamento" /\ ~order[o].released}

ListExpired(s) ==
  /\ sweep[s] = {}
  /\ \E ids \in SUBSET Sweepable :
       /\ ids # {}
       /\ Cardinality(ids) <= BatchLimit
       /\ ids = Sweepable \/ Cardinality(ids) = BatchLimit
       /\ sweep' = [sweep EXCEPT ![s] = ids]
  /\ UNCHANGED <<stock, ledger, order, req, overdue, freed>>

\* Mutant: the listed status is trusted and the row updated without a test.
ReleaseExpiredUnconditionally(o) == ReleaseAndCancel(o)

\* The compare-and-set of releaseExpiredPendingOrder: only who flips the row
\* releases, everyone else does nothing.
ReleaseExpiredPendingOrder(o) ==
  IF order[o].status = "pendente_pagamento" /\ ~order[o].released
  THEN ReleaseAndCancel(o)
  ELSE UNCHANGED <<stock, ledger, order, freed>>

SweepOne(s, o) ==
  /\ o \in sweep[s]
  /\ sweep' = [sweep EXCEPT ![s] = @ \ {o}]
  /\ ReleaseExpiredPendingOrder(o)
  /\ UNCHANGED <<req, overdue>>

\* one id fails: the error is logged and the loop goes on
SweepOneFails(s, o) ==
  /\ o \in sweep[s]
  /\ sweep' = [sweep EXCEPT ![s] = @ \ {o}]
  /\ UNCHANGED <<stock, ledger, order, req, overdue, freed>>

\* the webhook of an expired or cancelled PIX takes the same routine
PixExpired(o) ==
  /\ order[o].status = "pendente_pagamento"
  /\ ReleaseExpiredPendingOrder(o)
  /\ UNCHANGED <<req, sweep, overdue>>

\* adjust-stock of the inventory page
AdjustStock(p, m) ==
  /\ RecordManualMovement(p, m.tipo, m.delta)
  /\ UNCHANGED <<order, req, sweep, overdue, freed>>

-----------------------------------------------------------------------------
UpdateStatus(r) ==
  \/ \E o \in Orders, actor \in Actors, to \in Status : ReadStatus(r, o, actor, to)
  \/ ApplyNothing(r)
  \/ ApplyPronto(r)
  \/ ApplyCancel(r)
  \/ ApplyPlain(r)
  \/ AbortRequest(r)

Sweep(s) ==
  \/ ListExpired(s)
  \/ \E o \in Orders : SweepOne(s, o)
  \/ \E o \in Orders : SweepOneFails(s, o)

Next ==
  \/ \E o \in Orders, b \in Baskets : CreateOrder(o, b)
  \/ \E o \in Orders, b \in Baskets : CreatePdvOrder(o, b)
  \/ \E r \in Requests : UpdateStatus(r)
  \/ \E o \in Orders : TtlPasses(o)
  \/ \E s \in Sweepers : Sweep(s)
  \/ \E o \in Orders : PixExpired(o)
  \/ \E p \in Products, m \in Movements : AdjustStock(p, m)

Spec == Init /\ [][Next]_vars

\* The cron fires every minute, so listing is weakly fair; a release fails
\* only for transient reasons, so one that is attempted again and again
\* eventually succeeds.
SweepFairness ==
  \A s \in Sweepers :
    /\ WF_vars(ListExpired(s))
    /\ \A o \in Orders : SF_vars(SweepOne(s, o))

FairSpec == Spec /\ SweepFairness

-----------------------------------------------------------------------------
(* Correctness *)

TypeOK ==
  /\ EngineTypeOK
  /\ order \in [Orders -> OrderRow]
  /\ req \in [Requests -> RequestState]
  /\ sweep \in [Sweepers -> SUBSET Orders]
  /\ overdue \subseteq Orders
  /\ freed \in [Orders -> Nat]

\* Every saldo_resultante is the one before it plus its delta, across sales,
\* retries and manual movements in any order, and current_stock is the last.
LedgerBalances == Ledger!BookAddsUp /\ ProjectsLedger

\* Even when a stale request takes an order back and it is marked PRONTO a
\* second time, commitSale books each of its products once.
VendaOnce == Ledger!VendaOnce

\* What was sold to an order is what it asked for, and all of it: a VENDA has
\* the order's quantity, and an order with one VENDA has one for every item.
SoldAsOrdered ==
  \A p \in Products : \A i \in 1..Len(ledger[p]) :
    ledger[p][i].tipo = "VENDA" =>
      LET o == ledger[p][i].order IN
      /\ ledger[p][i].delta = -order[o].items[p]
      /\ \A q \in Products : order[o].items[q] > 0 => Sold(o, q)

\* Nobody hands a reservation back that is gone, and no cancelled order has one.
ReleasedOnce == \A o \in Orders : freed[o] = (IF order[o].released THEN 1 ELSE 0)
CancelledIsReleased ==
  \A o \in Orders : order[o].status = "cancelado" => order[o].released

\* The reservation of a cancelled order is handed back, and just once, whoever
\* races to do it (admin, customer, webhook, sweeper); stock_released_at says
\* whether it was.
ReservationsEndOnce == ReleasedOnce /\ CancelledIsReleased

\* No order is ready, in transit or delivered without its stock having left
\* the shelf, also when its status was written from a stale read.
DeliveredIsSold ==
  \A o \in Orders : order[o].status \in {"pronto", "em_transito", "entregue"} =>
    \A p \in Products : order[o].items[p] > 0 => Sold(o, p)

\* Orders whose reservation is neither handed back nor turned into a sale.
WasSold(o) == \E p \in Products : Sold(o, p)
Holding == {o \in Orders : Placed(o) /\ ~order[o].released /\ ~WasSold(o)}
HeldUnits(p) == Total([o \in Orders |-> order[o].items[p]], Holding)

\* The aggregate counter reserved_stock is exactly the sum of the holdings, as
\* long as no order was both released and sold (which only two updateStatus
\* calls racing on one order bring about).
ReservedIsHeld ==
  (\A o \in Orders : ~(order[o].released /\ WasSold(o)))
    => \A p \in Products : stock[p].reserved = HeldUnits(p)

\* Implements the ledger contract.
LedgerContract == Ledger!Spec

\* An order left unpaid past its TTL does not stay pending, although the
\* sweeper works from stale lists and single releases fail.
OverdueIsSettled ==
  \A o \in Orders :
    (o \in overdue /\ order[o].status = "pendente_pagamento")
      ~> order[o].status # "pendente_pagamento"
=============================================================================
