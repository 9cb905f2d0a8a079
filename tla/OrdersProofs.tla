---------------------------- MODULE OrdersProofs ----------------------------
(***************************************************************************)
(* Theorems about Orders, for any number of products, orders, concurrent   *)
(* requests and sweepers.  The inductive invariant adds to the properties  *)
(* what makes them survive stale requests: a request that will write       *)
(* em_transito or entregue read a status that is only reached after the    *)
(* sale, and a sale is never taken back.                                   *)
(***************************************************************************)
EXTENDS Orders, StockEngineProofs

LedgerFacts == INSTANCE StockLedgerProofs WITH book <- ledger

SoldOut(o) == \A p \in Products : order[o].items[p] > 0 => Sold(o, p)

\* An order id not used yet has no trace anywhere.
UnplacedIsFresh ==
  \A o \in Orders : ~Placed(o) => /\ order[o] = NoRow
                                  /\ \A p \in Products : ~Sold(o, p)

\* What a request in flight may rely on.
RequestsSound ==
  \A r \in Requests : req[r] # Idle =>
    /\ req[r].order \in Orders
    /\ req[r].to \in Status
    /\ Placed(req[r].order)
    /\ req[r].to \in {"em_transito", "entregue"} => SoldOut(req[r].order)

IInv == /\ TypeOK
        /\ ProjectsLedger
        /\ UnplacedIsFresh
        /\ RequestsSound
        /\ ReleasedOnce
        /\ DeliveredIsSold
        /\ CancelledIsReleased

\* The policy lets only a sold order move on to em_transito or entregue, for
\* every actor.
LEMMA PolicyAfterSale ==
  ASSUME NEW actor \in Actors, NEW from, NEW to \in AllowedStatusTransitions(actor, from)
  PROVE  /\ to \in Status
         /\ to \in {"em_transito", "entregue"} => from \in {"pronto", "em_transito"}
BY DEF AllowedStatusTransitions, AllowedByAdmin, Actors, Status

\* Everything IInv says of orders and requests, from what a step does to the
\* one order it writes and to the sales.
LEMMA OrderWrite ==
  ASSUME IInv,
         EngineTypeOK', ProjectsLedger',
         NEW o \in Orders, NEW row \in OrderRow, NEW n \in Nat,
         order' = [order EXCEPT ![o] = row],
         freed' = [freed EXCEPT ![o] = n],
         req' \in [Requests -> RequestState],
         \A r \in Requests : req'[r] = req[r] \/ req'[r] = Idle,
         sweep' \in [Sweepers -> SUBSET Orders],
         overdue' \subseteq Orders,
         \A x \in Orders, p \in Products : Sold(x, p) => Sold(x, p)',
         \A x \in Orders \ {o}, p \in Products : Sold(x, p)' => Sold(x, p),
         row.status # "none",
         Placed(o) => row.items = order[o].items,
         n = (IF row.released THEN 1 ELSE 0),
         row.status \in {"pronto", "em_transito", "entregue"}
           => \A p \in Products : row.items[p] > 0 => Sold(o, p)',
         row.status = "cancelado" => row.released
  PROVE  IInv'
<1>1. /\ order \in [Orders -> OrderRow]
      /\ freed \in [Orders -> Nat]
      /\ req \in [Requests -> RequestState]
  BY DEF IInv, TypeOK
<1>2. /\ order' \in [Orders -> OrderRow]
      /\ order'[o] = row
      /\ \A x \in Orders \ {o} : order'[x] = order[x]
      /\ freed' \in [Orders -> Nat]
      /\ freed'[o] = n
      /\ \A x \in Orders \ {o} : freed'[x] = freed[x]
  BY <1>1
<1>3. TypeOK'
  BY <1>2 DEF TypeOK
<1>4. UnplacedIsFresh'
  BY <1>2 DEF IInv, UnplacedIsFresh, Placed
<1>5. RequestsSound'
  <2> SUFFICES ASSUME NEW r \in Requests, req'[r] # Idle
               PROVE  (/\ req[r].order \in Orders
                       /\ req[r].to \in Status
                       /\ Placed(req[r].order)
                       /\ req[r].to \in {"em_transito", "entregue"}
                            => SoldOut(req[r].order))'
    BY DEF RequestsSound
  <2>1. req'[r] = req[r]
    OBVIOUS
  <2> DEFINE x == req[r].order
  <2>2. /\ x \in Orders
        /\ req[r].to \in Status
        /\ Placed(x)
        /\ req[r].to \in {"em_transito", "entregue"} => SoldOut(x)
    BY <2>1 DEF IInv, RequestsSound
  <2>3. order'[x].status # "none" /\ order'[x].items = order[x].items
    BY <1>2, <2>2 DEF Placed
  <2>4. SoldOut(x) => \A p \in Products : order'[x].items[p] > 0 => Sold(x, p)'
    BY <2>2, <2>3 DEF SoldOut
  <2>5. Placed(req[r].order)'
    BY <2>1, <2>3 DEF Placed
  <2>6. req[r].to \in {"em_transito", "entregue"} => SoldOut(req[r].order)'
    BY <2>1, <2>2, <2>4 DEF SoldOut
  <2> QED BY <2>1, <2>2, <2>5, <2>6
<1>6. ReleasedOnce'
  BY <1>2 DEF IInv, ReleasedOnce
<1>7. DeliveredIsSold'
  BY <1>2 DEF IInv, DeliveredIsSold
<1>8. CancelledIsReleased'
  BY <1>2 DEF IInv, CancelledIsReleased
<1> QED BY <1>3, <1>4, <1>5, <1>6, <1>7, <1>8 DEF IInv

\* A step that writes no order and records no sale.
LEMMA QuietStep ==
  ASSUME IInv,
         EngineTypeOK', ProjectsLedger',
         UNCHANGED <<order, freed>>,
         req' \in [Requests -> RequestState],
         \A r \in Requests : req'[r] = req[r] \/ req'[r] = Idle,
         sweep' \in [Sweepers -> SUBSET Orders],
         overdue' \subseteq Orders,
         \A x \in Orders, p \in Products : Sold(x, p)' <=> Sold(x, p)
  PROVE  IInv'
<1>1. TypeOK'
  BY DEF IInv, TypeOK
<1>2. UnplacedIsFresh'
  BY DEF IInv, UnplacedIsFresh, Placed
<1>3. RequestsSound'
  <2> SUFFICES ASSUME NEW r \in Requests, req'[r] # Idle
               PROVE  (/\ req[r].order \in Orders
                       /\ req[r].to \in Status
                       /\ Placed(req[r].order)
                       /\ req[r].to \in {"em_transito", "entregue"}
                            => SoldOut(req[r].order))'
    BY DEF RequestsSound
  <2>1. /\ req'[r] = req[r]
        /\ req[r].order \in Orders
        /\ req[r].to \in Status
        /\ Placed(req[r].order)
        /\ req[r].to \in {"em_transito", "entregue"} => SoldOut(req[r].order)
    BY DEF IInv, RequestsSound
  <2> QED BY <2>1 DEF Placed, SoldOut
<1>4. ReleasedOnce' /\ DeliveredIsSold' /\ CancelledIsReleased'
  BY DEF IInv, ReleasedOnce, DeliveredIsSold, CancelledIsReleased
<1> QED BY <1>1, <1>2, <1>3, <1>4 DEF IInv

\* The stock table and books of a step that only reserves or releases.
LEMMA ReservationStep ==
  ASSUME EngineTypeOK, ProjectsLedger, UNCHANGED ledger,
         stock' \in [Products -> StockRow],
         \A p \in Products : stock'[p].current = stock[p].current
  PROVE  /\ EngineTypeOK' /\ ProjectsLedger'
         /\ \A x \in Orders, p \in Products : Sold(x, p)' <=> Sold(x, p)
<1>1. Ledger!TypeOK' /\ \A x \in Orders, p \in Products : Sold(x, p)' <=> Sold(x, p)
  BY BooksUntouched DEF EngineTypeOK
<1>2. ProjectsLedger'
  BY DEF ProjectsLedger, Ledger!Balance
<1> QED BY <1>1, <1>2 DEF EngineTypeOK

\* The program starts in the invariant, with an empty ledger.
LEMMA InitStep == Init => IInv /\ Ledger!Init
<1> SUFFICES ASSUME Init PROVE IInv /\ Ledger!Init
  OBVIOUS
<1>1. /\ EngineTypeOK /\ ProjectsLedger /\ Ledger!Init
      /\ \A o \in Orders, p \in Products : ~Sold(o, p)
  <2>1. PICK initial \in [Products -> InitialStock] : EngineInit(initial)
    BY DEF Init
  <2>2. initial \in [Products -> Nat]
    BY OrdersAssumption
  <2> QED BY <2>1, <2>2, EngineStarts
<1>2. NoRow \in OrderRow /\ Idle \in RequestState
  BY DEF NoRow, OrderRow, Idle, RequestState, EmptyBasket, Basket
<1>3. TypeOK
  BY <1>1, <1>2 DEF Init, TypeOK
<1>4. UnplacedIsFresh /\ RequestsSound /\ ReleasedOnce /\ DeliveredIsSold /\ CancelledIsReleased
  BY <1>1 DEF Init, UnplacedIsFresh, RequestsSound, ReleasedOnce, DeliveredIsSold,
              CancelledIsReleased, NoRow
<1> QED BY <1>1, <1>3, <1>4 DEF IInv

-----------------------------------------------------------------------------
(* One lemma per action that writes an order. *)

Keeps == IInv' /\ [Ledger!Post]_ledger

\* A web or WhatsApp order is a new row with its units reserved.
LEMMA CreateOrderStep ==
  ASSUME IInv, NEW o \in Orders, NEW b \in Baskets, CreateOrder(o, b)
  PROVE  Keeps
<1> DEFINE row == [status |-> "pendente_pagamento", items |-> b, released |-> FALSE]
<1>1. b \in Basket
  BY OrdersAssumption
<1>2. stock \in [Products -> StockRow] /\ EngineTypeOK /\ ProjectsLedger
  BY DEF IInv, TypeOK, EngineTypeOK
<1>3. /\ stock' \in [Products -> StockRow]
      /\ \A p \in Products : stock'[p].current = stock[p].current
  BY <1>1, <1>2, ReserveKeeps DEF CreateOrder
<1>4. UNCHANGED ledger
  BY DEF CreateOrder
<1>5. /\ EngineTypeOK' /\ ProjectsLedger'
      /\ \A x \in Orders, p \in Products : Sold(x, p)' <=> Sold(x, p)
  BY <1>2, <1>3, <1>4, ReservationStep
<1>6. row \in OrderRow
  BY <1>1 DEF OrderRow, Status
<1>7. freed \in [Orders -> Nat] /\ freed[o] = 0
  BY DEF IInv, TypeOK, ReleasedOnce, UnplacedIsFresh, CreateOrder, NoRow
<1>8. freed' = [freed EXCEPT ![o] = 0]
  BY <1>7 DEF CreateOrder
<1>9. /\ req' \in [Requests -> RequestState] /\ req' = req
      /\ sweep' \in [Sweepers -> SUBSET Orders]
      /\ overdue' \subseteq Orders
      /\ order' = [order EXCEPT ![o] = row]
      /\ ~Placed(o)
  BY DEF CreateOrder, IInv, TypeOK
<1> HIDE DEF row
<1>10. row.status = "pendente_pagamento" /\ ~row.released
  BY DEF row
<1>11. IInv'
  BY <1>5, <1>6, <1>8, <1>9, <1>10, OrderWrite
<1> QED BY <1>4, <1>11 DEF Keeps

\* A counter sale reserves and sells in one transaction.
LEMMA CreatePdvOrderStep ==
  ASSUME IInv, NEW o \in Orders, NEW b \in Baskets, CreatePdvOrder(o, b)
  PROVE  Keeps
<1> DEFINE row == [status |-> "entregue", items |-> b, released |-> FALSE]
           st == Reserved(stock, b)
<1>1. b \in Basket
  BY OrdersAssumption
<1>2. stock \in [Products -> StockRow] /\ EngineTypeOK /\ ProjectsLedger
  BY DEF IInv, TypeOK, EngineTypeOK
<1>3. /\ st \in [Products -> StockRow]
      /\ \A p \in Products : st[p].current = stock[p].current
  BY <1>1, <1>2, ReserveKeeps
<1>4. CanSell(o, b) /\ stock' = AfterSale(st, o, b) /\ ledger' = LedgerAfterSale(o, b)
  BY DEF CreatePdvOrder
<1> HIDE DEF st
<1>5. /\ EngineTypeOK' /\ ProjectsLedger' /\ Ledger!Post
      /\ \A p \in Products : b[p] > 0 => Sold(o, p)'
      /\ \A x \in Orders, p \in Products : Sold(x, p)' <=> Sold(x, p) \/ (x = o /\ b[p] > 0)
  BY <1>1, <1>2, <1>3, <1>4, SaleKeeps
<1>6. row \in OrderRow
  BY <1>1 DEF OrderRow, Status
<1>7. freed \in [Orders -> Nat] /\ freed[o] = 0
  BY DEF IInv, TypeOK, ReleasedOnce, UnplacedIsFresh, CreatePdvOrder, NoRow
<1>8. freed' = [freed EXCEPT ![o] = 0]
  BY <1>7 DEF CreatePdvOrder
<1>9. /\ req' \in [Requests -> RequestState] /\ req' = req
      /\ sweep' \in [Sweepers -> SUBSET Orders]
      /\ overdue' \subseteq Orders
      /\ order' = [order EXCEPT ![o] = row]
      /\ ~Placed(o)
  BY DEF CreatePdvOrder, IInv, TypeOK
<1> HIDE DEF row
<1>10. row.status = "entregue" /\ ~row.released /\ row.items = b
  BY DEF row
<1>11. IInv'
  BY <1>5, <1>6, <1>8, <1>9, <1>10, OrderWrite
<1> QED BY <1>5, <1>11 DEF Keeps

\* Releasing one order's reservation and cancelling it, whoever does it.
LEMMA ReleaseAndCancelStep ==
  ASSUME IInv, NEW o \in Orders, Placed(o), ~order[o].released, ReleaseAndCancel(o),
         req' \in [Requests -> RequestState],
         \A r \in Requests : req'[r] = req[r] \/ req'[r] = Idle,
         sweep' \in [Sweepers -> SUBSET Orders],
         overdue' \subseteq Orders
  PROVE  Keeps
<1> DEFINE row == [order[o] EXCEPT !.status = "cancelado", !.released = TRUE]
<1>1. /\ order \in [Orders -> OrderRow] /\ freed \in [Orders -> Nat]
      /\ stock \in [Products -> StockRow] /\ EngineTypeOK /\ ProjectsLedger
      /\ order[o].items \in Basket
  BY DEF IInv, TypeOK, EngineTypeOK, OrderRow
<1>2. /\ stock' \in [Products -> StockRow]
      /\ \A p \in Products : stock'[p].current = stock[p].current
  BY <1>1, ReleaseKeeps DEF ReleaseAndCancel
<1>3. UNCHANGED ledger
  BY DEF ReleaseAndCancel
<1>4. /\ EngineTypeOK' /\ ProjectsLedger'
      /\ \A x \in Orders, p \in Products : Sold(x, p)' <=> Sold(x, p)
  BY <1>1, <1>2, <1>3, ReservationStep
<1>5. row \in OrderRow /\ row.items = order[o].items /\ row.status = "cancelado" /\ row.released
  BY <1>1 DEF OrderRow, Status
<1>6. order' = [order EXCEPT ![o] = row]
  BY <1>1 DEF ReleaseAndCancel, OrderRow
<1>7. freed' = [freed EXCEPT ![o] = 1]
  <2>1. freed[o] = 0
    BY DEF IInv, ReleasedOnce
  <2> QED BY <2>1 DEF ReleaseAndCancel
<1> HIDE DEF row
<1>8. IInv'
  BY <1>4, <1>5, <1>6, <1>7, OrderWrite
<1> QED BY <1>3, <1>8 DEF Keeps

\* A request that finds its row locked and free: what the three locked
\* branches of updateStatus share.
LEMMA LockedRequest ==
  ASSUME IInv, NEW r \in Requests, Locked(r)
  PROVE  /\ req[r].order \in Orders /\ req[r].to \in Status
         /\ Placed(req[r].order)
         /\ req[r].to \in {"em_transito", "entregue"} => SoldOut(req[r].order)
         /\ req' \in [Requests -> RequestState]
         /\ \A x \in Requests : req'[x] = req[x] \/ req'[x] = Idle
         /\ sweep' \in [Sweepers -> SUBSET Orders]
         /\ overdue' \subseteq Orders
<1>1. Idle \in RequestState
  BY DEF Idle, RequestState
<1> QED BY <1>1 DEF IInv, TypeOK, RequestsSound, Locked

\* PRONTO books the sale of every item before it writes the status.
LEMMA ApplyProntoStep ==
  ASSUME IInv, NEW r \in Requests, ApplyPronto(r)
  PROVE  Keeps
<1>1. PICK o \in Orders : o = req[r].order
  BY LockedRequest DEF ApplyPronto
<1>2. PICK b : b = order[o].items
  OBVIOUS
<1>3. /\ Placed(o)
      /\ req' \in [Requests -> RequestState]
      /\ \A x \in Requests : req'[x] = req[x] \/ req'[x] = Idle
      /\ sweep' \in [Sweepers -> SUBSET Orders]
      /\ overdue' \subseteq Orders
  BY <1>1, LockedRequest DEF ApplyPronto
<1>4. /\ CanSell(o, b) /\ stock' = AfterSale(stock, o, b) /\ ledger' = LedgerAfterSale(o, b)
      /\ order' = [order EXCEPT ![o].status = "pronto"]
      /\ UNCHANGED freed
  BY <1>1, <1>2 DEF ApplyPronto, SetStatus
<1>5. /\ order \in [Orders -> OrderRow] /\ freed \in [Orders -> Nat]
      /\ stock \in [Products -> StockRow] /\ EngineTypeOK /\ ProjectsLedger
      /\ b \in Basket
  BY <1>2 DEF IInv, TypeOK, EngineTypeOK, OrderRow
<1>6. /\ EngineTypeOK' /\ ProjectsLedger' /\ Ledger!Post
      /\ \A p \in Products : b[p] > 0 => Sold(o, p)'
      /\ \A x \in Orders, p \in Products : Sold(x, p)' <=> Sold(x, p) \/ (x = o /\ b[p] > 0)
  BY <1>4, <1>5, SaleKeeps
<1> DEFINE row == [order[o] EXCEPT !.status = "pronto"]
           n == freed[o]
<1>7. /\ row \in OrderRow /\ row.items = b /\ row.status = "pronto"
      /\ row.released = order[o].released
  BY <1>2, <1>5 DEF OrderRow, Status
<1>8. order' = [order EXCEPT ![o] = row]
  BY <1>4, <1>5 DEF OrderRow
<1>9. n \in Nat /\ freed' = [freed EXCEPT ![o] = n] /\ n = (IF row.released THEN 1 ELSE 0)
  BY <1>4, <1>5, <1>7 DEF IInv, ReleasedOnce
<1> HIDE DEF row, n
<1>10. \A p \in Products : row.items[p] > 0 => Sold(o, p)'
  BY <1>6, <1>7
<1>11. IInv'
  BY <1>2, <1>3, <1>6, <1>7, <1>8, <1>9, <1>10, OrderWrite
<1> QED BY <1>6, <1>11 DEF Keeps

\* A write of the status alone, to one that needs no stock movement.
LEMMA StatusStep ==
  ASSUME IInv, NEW o \in Orders, Placed(o), NEW to \in Status,
         to # "pronto",
         to \in {"em_transito", "entregue"} => SoldOut(o),
         to = "cancelado" => order[o].released,
         SetStatus(o, to), UNCHANGED <<stock, ledger, freed>>,
         req' \in [Requests -> RequestState],
         \A x \in Requests : req'[x] = req[x] \/ req'[x] = Idle,
         sweep' \in [Sweepers -> SUBSET Orders],
         overdue' \subseteq Orders
  PROVE  Keeps
<1> DEFINE row == [order[o] EXCEPT !.status = to]
           n == freed[o]
<1>1. /\ order \in [Orders -> OrderRow] /\ freed \in [Orders -> Nat]
      /\ stock \in [Products -> StockRow] /\ EngineTypeOK /\ ProjectsLedger
  BY DEF IInv, TypeOK, EngineTypeOK
<1>2. /\ EngineTypeOK' /\ ProjectsLedger'
      /\ \A x \in Orders, p \in Products : Sold(x, p)' <=> Sold(x, p)
  BY <1>1, ReservationStep
<1>3. /\ row \in OrderRow /\ row.items = order[o].items /\ row.status = to
      /\ row.released = order[o].released
  BY <1>1 DEF OrderRow
<1>4. order' = [order EXCEPT ![o] = row]
  BY <1>1 DEF SetStatus, OrderRow
<1>5. n \in Nat /\ freed' = [freed EXCEPT ![o] = n] /\ n = (IF row.released THEN 1 ELSE 0)
  BY <1>1, <1>3 DEF IInv, ReleasedOnce
<1>6. row.status \in {"pronto", "em_transito", "entregue"}
        => \A p \in Products : row.items[p] > 0 => Sold(o, p)'
  BY <1>2, <1>3 DEF SoldOut
<1>7. row.status # "none" /\ (row.status = "cancelado" => row.released)
  BY <1>3 DEF Status
<1> HIDE DEF row, n
<1>8. IInv'
  BY <1>2, <1>3, <1>4, <1>5, <1>6, <1>7, OrderWrite
<1> QED BY <1>8 DEF Keeps

\* A cancellation by updateStatus releases at most once.
LEMMA ApplyCancelStep ==
  ASSUME IInv, NEW r \in Requests, ApplyCancel(r)
  PROVE  Keeps
<1> DEFINE o == req[r].order
<1>1. /\ o \in Orders /\ Placed(o)
      /\ req' \in [Requests -> RequestState]
      /\ \A x \in Requests : req'[x] = req[x] \/ req'[x] = Idle
      /\ sweep' \in [Sweepers -> SUBSET Orders]
      /\ overdue' \subseteq Orders
  BY LockedRequest DEF ApplyCancel
<1>2. CASE order[o].released
  <2>1. SetStatus(o, "cancelado") /\ UNCHANGED <<stock, ledger, freed>>
    BY <1>2 DEF ApplyCancel
  <2>2. "cancelado" \in Status
    BY DEF Status
  <2> QED BY <1>1, <1>2, <2>1, <2>2, StatusStep
<1>3. CASE ~order[o].released
  <2>1. ReleaseAndCancel(o)
    BY <1>3 DEF ApplyCancel
  <2> QED BY <1>1, <1>3, <2>1, ReleaseAndCancelStep
<1> QED BY <1>2, <1>3

\* Any other status is written on a row the request read sold or unsold.
LEMMA ApplyPlainStep ==
  ASSUME IInv, NEW r \in Requests, ApplyPlain(r)
  PROVE  Keeps
<1> DEFINE o == req[r].order
           to == req[r].to
<1>1. /\ o \in Orders /\ Placed(o) /\ to \in Status
      /\ to \in {"em_transito", "entregue"} => SoldOut(o)
      /\ req' \in [Requests -> RequestState]
      /\ \A x \in Requests : req'[x] = req[x] \/ req'[x] = Idle
      /\ sweep' \in [Sweepers -> SUBSET Orders]
      /\ overdue' \subseteq Orders
  BY LockedRequest DEF ApplyPlain
<1>2. /\ to # "pronto" /\ to # "cancelado"
      /\ SetStatus(o, to) /\ UNCHANGED <<stock, ledger, freed>>
  BY DEF ApplyPlain
<1> QED BY <1>1, <1>2, StatusStep

\* The unlocked read: what the policy allows, the row supports.
LEMMA ReadStatusStep ==
  ASSUME IInv, NEW r \in Requests, NEW o \in Orders, NEW actor \in Actors, NEW to \in Status,
         ReadStatus(r, o, actor, to)
  PROVE  Keeps
<1> DEFINE q == [order |-> o, from |-> order[o].status, to |-> to]
<1>1. /\ EngineTypeOK' /\ ProjectsLedger'
      /\ \A x \in Orders, p \in Products : Sold(x, p)' <=> Sold(x, p)
  BY ReservationStep DEF IInv, TypeOK, EngineTypeOK, ReadStatus
<1>2. /\ order \in [Orders -> OrderRow] /\ req \in [Requests -> RequestState]
      /\ UNCHANGED <<stock, ledger, order, sweep, overdue, freed>>
      /\ req' = [req EXCEPT ![r] = q]
      /\ Placed(o)
  BY DEF IInv, TypeOK, ReadStatus
<1>3. q \in RequestState
  BY <1>2 DEF RequestState, OrderRow
<1>4. TypeOK'
  BY <1>1, <1>2, <1>3 DEF IInv, TypeOK
<1>5. to \in {"em_transito", "entregue"} => SoldOut(o)
  <2>1. to \in {"em_transito", "entregue"} => order[o].status \in {"pronto", "em_transito"}
    BY PolicyAfterSale DEF ReadStatus
  <2> QED BY <2>1 DEF IInv, DeliveredIsSold, SoldOut
<1>6. RequestsSound'
  <2> SUFFICES ASSUME NEW x \in Requests, req'[x] # Idle
               PROVE  (/\ req[x].order \in Orders
                       /\ req[x].to \in Status
                       /\ Placed(req[x].order)
                       /\ req[x].to \in {"em_transito", "entregue"}
                            => SoldOut(req[x].order))'
    BY DEF RequestsSound
  <2>1. SoldOut(o) => SoldOut(o)'
    BY <1>1, <1>2 DEF SoldOut
  <2>2. CASE x = r
    BY <2>2, <1>1, <1>2, <1>5 DEF Placed, SoldOut
  <2>3. CASE x # r
    <3>1. /\ req'[x] = req[x]
          /\ req[x].order \in Orders
          /\ req[x].to \in Status
          /\ Placed(req[x].order)
          /\ req[x].to \in {"em_transito", "entregue"} => SoldOut(req[x].order)
      BY <2>3, <1>2 DEF IInv, RequestsSound
    <3> QED BY <3>1, <1>1, <1>2 DEF Placed, SoldOut
  <2> QED BY <2>2, <2>3
<1>7. UnplacedIsFresh' /\ ReleasedOnce' /\ DeliveredIsSold' /\ CancelledIsReleased'
  BY <1>1, <1>2
     DEF IInv, UnplacedIsFresh, Placed, ReleasedOnce, DeliveredIsSold, CancelledIsReleased
<1> QED BY <1>1, <1>2, <1>4, <1>6, <1>7 DEF IInv, Keeps

\* releaseExpiredPendingOrder, inside whichever step calls it.
LEMMA ReleaseExpiredStep ==
  ASSUME IInv, NEW o \in Orders, ReleaseExpiredPendingOrder(o),
         UNCHANGED <<req, overdue>>, sweep' \in [Sweepers -> SUBSET Orders]
  PROVE  Keeps
<1>1. /\ req' \in [Requests -> RequestState] /\ overdue' \subseteq Orders
      /\ stock \in [Products -> StockRow] /\ EngineTypeOK /\ ProjectsLedger
  BY DEF IInv, TypeOK, EngineTypeOK
<1>2. CASE order[o].status = "pendente_pagamento" /\ ~order[o].released
  <2>1. ReleaseAndCancel(o) /\ Placed(o)
    BY <1>2 DEF ReleaseExpiredPendingOrder, Placed
  <2> QED BY <1>1, <1>2, <2>1, ReleaseAndCancelStep
<1>3. CASE ~(order[o].status = "pendente_pagamento" /\ ~order[o].released)
  <2>1. UNCHANGED <<stock, ledger, order, freed>>
    BY <1>3 DEF ReleaseExpiredPendingOrder
  <2>2. /\ EngineTypeOK' /\ ProjectsLedger'
        /\ \A x \in Orders, p \in Products : Sold(x, p)' <=> Sold(x, p)
    BY <1>1, <2>1, ReservationStep
  <2> QED BY <1>1, <2>1, <2>2, QuietStep DEF Keeps
<1> QED BY <1>2, <1>3

\* The actions that touch neither an order nor the stock.
LEMMA IdleStep ==
  ASSUME IInv, UNCHANGED <<stock, ledger, order, freed>>,
         req' \in [Requests -> RequestState],
         \A x \in Requests : req'[x] = req[x] \/ req'[x] = Idle,
         sweep' \in [Sweepers -> SUBSET Orders],
         overdue' \subseteq Orders
  PROVE  Keeps
<1>1. stock \in [Products -> StockRow] /\ EngineTypeOK /\ ProjectsLedger
  BY DEF IInv, TypeOK, EngineTypeOK
<1>2. /\ EngineTypeOK' /\ ProjectsLedger'
      /\ \A x \in Orders, p \in Products : Sold(x, p)' <=> Sold(x, p)
  BY <1>1, ReservationStep
<1> QED BY <1>2, QuietStep DEF Keeps

\* A manual movement books no sale and touches no order.
LEMMA AdjustStockStep ==
  ASSUME IInv, NEW p \in Products, NEW m \in Movements, AdjustStock(p, m)
  PROVE  Keeps
<1>1. m.tipo \in {"COMPRA", "PERDA", "DEVOLUCAO", "AJUSTE"} /\ m.delta \in Int
  BY OrdersAssumption
<1>2. /\ EngineTypeOK' /\ ProjectsLedger' /\ Ledger!Post
      /\ \A x \in Orders, q \in Products : Sold(x, q)' <=> Sold(x, q)
  <2>1. EngineTypeOK /\ ProjectsLedger /\ RecordManualMovement(p, m.tipo, m.delta)
    BY DEF IInv, TypeOK, AdjustStock
  <2> QED BY <1>1, <2>1, MovementKeeps
<1>3. /\ UNCHANGED <<order, req, sweep, overdue, freed>>
      /\ req' \in [Requests -> RequestState]
      /\ sweep' \in [Sweepers -> SUBSET Orders]
      /\ overdue' \subseteq Orders
  BY DEF AdjustStock, IInv, TypeOK
<1> QED BY <1>2, <1>3, QuietStep DEF Keeps

\* Both steps of updateStatus.
LEMMA UpdateStatusStep ==
  ASSUME IInv, NEW r \in Requests, UpdateStatus(r)
  PROVE  Keeps
<1>1. CASE \E o \in Orders, actor \in Actors, to \in Status : ReadStatus(r, o, actor, to)
  BY <1>1, ReadStatusStep
<1>2. CASE ApplyNothing(r)
  BY <1>2, LockedRequest, IdleStep DEF ApplyNothing
<1>3. CASE ApplyPronto(r)
  BY <1>3, ApplyProntoStep
<1>4. CASE ApplyCancel(r)
  BY <1>4, ApplyCancelStep
<1>5. CASE ApplyPlain(r)
  BY <1>5, ApplyPlainStep
<1>6. CASE AbortRequest(r)
  BY <1>6, LockedRequest, IdleStep DEF AbortRequest
<1> QED BY <1>1, <1>2, <1>3, <1>4, <1>5, <1>6 DEF UpdateStatus

\* Listing, releasing and failing to release, by any tick.
LEMMA SweepStep ==
  ASSUME IInv, NEW s \in Sweepers, Sweep(s)
  PROVE  Keeps
<1>1. /\ req \in [Requests -> RequestState] /\ overdue \subseteq Orders
      /\ sweep \in [Sweepers -> SUBSET Orders]
  BY DEF IInv, TypeOK
<1>2. CASE ListExpired(s)
  <2>1. PICK ids \in SUBSET Sweepable : sweep' = [sweep EXCEPT ![s] = ids]
    BY <1>2 DEF ListExpired
  <2>2. ids \subseteq Orders
    BY <1>1 DEF Sweepable
  <2>3. sweep' \in [Sweepers -> SUBSET Orders]
    BY <1>1, <2>1, <2>2
  <2> QED BY <1>1, <1>2, <2>3, IdleStep DEF ListExpired
<1>3. ASSUME NEW o \in Orders, SweepOne(s, o) PROVE Keeps
  <2>1. sweep' \in [Sweepers -> SUBSET Orders]
    BY <1>1, <1>3 DEF SweepOne
  <2> QED BY <1>3, <2>1, ReleaseExpiredStep DEF SweepOne
<1>4. ASSUME NEW o \in Orders, SweepOneFails(s, o) PROVE Keeps
  <2>1. sweep' \in [Sweepers -> SUBSET Orders]
    BY <1>1, <1>4 DEF SweepOneFails
  <2> QED BY <1>1, <1>4, <2>1, IdleStep DEF SweepOneFails
<1> QED BY <1>2, <1>3, <1>4 DEF Sweep

\* Every step keeps the invariant and is a step of the ledger.
LEMMA NextStep == IInv /\ [Next]_vars => Keeps
<1> SUFFICES ASSUME IInv, [Next]_vars PROVE Keeps
  OBVIOUS
<1>1. /\ req \in [Requests -> RequestState] /\ overdue \subseteq Orders
      /\ sweep \in [Sweepers -> SUBSET Orders]
  BY DEF IInv, TypeOK
<1>2. CASE \E o \in Orders, b \in Baskets : CreateOrder(o, b)
  BY <1>2, CreateOrderStep
<1>3. CASE \E o \in Orders, b \in Baskets : CreatePdvOrder(o, b)
  BY <1>3, CreatePdvOrderStep
<1>4. CASE \E r \in Requests : UpdateStatus(r)
  BY <1>4, UpdateStatusStep
<1>5. CASE \E o \in Orders : TtlPasses(o)
  BY <1>1, <1>5, IdleStep DEF TtlPasses
<1>6. CASE \E s \in Sweepers : Sweep(s)
  BY <1>6, SweepStep
<1>7. CASE \E o \in Orders : PixExpired(o)
  BY <1>1, <1>7, ReleaseExpiredStep DEF PixExpired
<1>8. CASE \E p \in Products, m \in Movements : AdjustStock(p, m)
  BY <1>8, AdjustStockStep
<1>9. CASE UNCHANGED vars
  BY <1>1, <1>9, IdleStep DEF vars
<1> QED BY <1>2, <1>3, <1>4, <1>5, <1>6, <1>7, <1>8, <1>9 DEF Next

-----------------------------------------------------------------------------
\* The inductive invariant.
THEOREM Inductive == Spec => []IInv
<1>1. Init => IInv
  BY InitStep
<1>2. IInv /\ [Next]_vars => IInv'
  BY NextStep DEF Keeps
<1> QED BY <1>1, <1>2, PTL DEF Spec

\* Type correctness; in particular neither counter of a stock row is ever
\* negative.
THEOREM TypeCorrect == Spec => []TypeOK
<1>1. IInv => TypeOK
  BY DEF IInv
<1> QED BY <1>1, Inductive, PTL

\* The orders, the sweeper, the webhook and the inventory page together
\* implement the ledger contract: they only ever append, one row per product
\* and transaction, and the row follows from the balance before it.
THEOREM ImplementsLedger == Spec => LedgerContract
<1>1. Init => Ledger!Init
  BY InitStep
<1>2. IInv /\ [Next]_vars => [Ledger!Post]_ledger
  BY NextStep DEF Keeps
<1> QED BY <1>1, <1>2, Inductive, PTL DEF Spec, LedgerContract, Ledger!Spec

\* A reservation is released at most once, whoever races to release it, and that
\* of a cancelled order is.
THEOREM NeverReleasedTwice == Spec => []ReservationsEndOnce
<1>1. IInv => ReservationsEndOnce
  BY DEF IInv, ReservationsEndOnce
<1> QED BY <1>1, Inductive, PTL

\* No order is ready or on its way without its stock having left the shelf.
THEOREM NothingDeliveredUnsold == Spec => []DeliveredIsSold
<1>1. IInv => DeliveredIsSold
  BY DEF IInv
<1> QED BY <1>1, Inductive, PTL

\* Ledger and LedgerFacts instantiate the same definitions.
LEMMA SameContract == LedgerContract => [](LedgerFacts!LedgerInv)
<1>1. Ledger!Init => LedgerFacts!Init
  BY DEF Ledger!Init, LedgerFacts!Init, Ledger!Opens, LedgerFacts!Opens,
         Ledger!MayFollow, LedgerFacts!MayFollow, Ledger!LedgerRow, LedgerFacts!LedgerRow,
         Ledger!LedgerTipo, LedgerFacts!LedgerTipo, Ledger!Balance, LedgerFacts!Balance,
         Ledger!SignAllowed, LedgerFacts!SignAllowed, Ledger!HasVenda, LedgerFacts!HasVenda
<1>2. [Ledger!Post]_ledger => [LedgerFacts!Post]_ledger
  BY DEF Ledger!Post, LedgerFacts!Post, Ledger!Extends, LedgerFacts!Extends,
         Ledger!MayFollow, LedgerFacts!MayFollow, Ledger!LedgerRow, LedgerFacts!LedgerRow,
         Ledger!LedgerTipo, LedgerFacts!LedgerTipo, Ledger!Balance, LedgerFacts!Balance,
         Ledger!SignAllowed, LedgerFacts!SignAllowed, Ledger!HasVenda, LedgerFacts!HasVenda
<1> QED BY <1>1, <1>2, LedgerFacts!LedgerSafe, PTL DEF LedgerContract, Ledger!Spec, LedgerFacts!Spec

\* The books add up and end at current_stock: what the ledger contract gives
\* any implementation, with the projection of the inductive invariant.
THEOREM BooksBalance == Spec => []LedgerBalances
<1>1. LedgerFacts!LedgerInv /\ IInv => LedgerBalances
  BY DEF LedgerFacts!LedgerInv, LedgerFacts!BookAddsUp, LedgerFacts!Chained,
         Ledger!BookAddsUp, Ledger!Chained, IInv, LedgerBalances
<1> QED BY <1>1, SameContract, ImplementsLedger, Inductive, PTL

\* No order is charged twice for a product, even one that is taken back and
\* marked PRONTO again.
THEOREM NothingSoldTwice == Spec => []VendaOnce
<1>1. LedgerFacts!LedgerInv => VendaOnce
  BY DEF LedgerFacts!LedgerInv, LedgerFacts!VendaOnce, Ledger!VendaOnce, VendaOnce
<1> QED BY <1>1, SameContract, ImplementsLedger, PTL

-----------------------------------------------------------------------------
(* What is sold and what is reserved, order by order.  The second invariant  *)
(* rests on the first: that the books record whole orders is what makes a    *)
(* second PRONTO move nothing.                                               *)

PlacedOrders == {o \in Orders : Placed(o)}

\* Every VENDA row belongs to an order and has its quantity; all of the order
\* is sold.
RowsAsOrdered ==
  \A p \in Products : \A i \in 1..Len(ledger[p]) :
    ledger[p][i].tipo = "VENDA" =>
      /\ ledger[p][i].order \in Orders
      /\ ledger[p][i].delta = -order[ledger[p][i].order].items[p]
      /\ SoldOut(ledger[p][i].order)

\* An order is never empty, so selling one leaves a row.
ListsSomething == \A o \in Orders : Placed(o) => \E p \in Products : order[o].items[p] > 0

\* No order was both released and sold.
NotBoth == \A o \in Orders : ~(order[o].released /\ WasSold(o))

HInv == /\ IInv
        /\ IsFiniteSet(PlacedOrders)
        /\ ListsSomething
        /\ RowsAsOrdered
        /\ NotBoth => \A p \in Products : stock[p].reserved = HeldUnits(p)

\* An order with one VENDA has one for every item.
LEMMA SoldIsSoldOut ==
  ASSUME RowsAsOrdered, NEW o \in Orders, WasSold(o)
  PROVE  SoldOut(o)
BY DEF RowsAsOrdered, WasSold, Sold, Ledger!HasVenda

\* What one order holds is part of what all of them hold.
LEMMA HeldUnitsType ==
  ASSUME TypeOK, IsFiniteSet(PlacedOrders), NEW p \in Products
  PROVE  /\ IsFiniteSet(Holding)
         /\ HeldUnits(p) \in Nat
         /\ \A o \in Orders : order[o].items[p] \in Nat
         /\ \A o \in Holding : order[o].items[p] <= HeldUnits(p)
<1>1. Holding \in SUBSET PlacedOrders
  BY DEF Holding, PlacedOrders
<1>2. IsFiniteSet(Holding)
  BY <1>1, FS_Subset
<1>3. \A o \in Orders : order[o].items[p] \in Nat
  BY DEF TypeOK, OrderRow, Basket
<1> DEFINE u == [o \in Orders |-> order[o].items[p]]
<1>4. \A o \in Holding : u[o] \in Int /\ u[o] >= 0
  BY <1>3 DEF Holding
<1> HIDE DEF u
<1>5. Total(u, Holding) \in Int /\ Total(u, Holding) >= 0
  BY <1>2, <1>4, TotalType
<1>6. ASSUME NEW o \in Holding PROVE u[o] <= Total(u, Holding)
  <2>1. IsFiniteSet(Holding \ {o})
    BY <1>2, FS_RemoveElement
  <2>2. Total(u, Holding) = u[o] + Total(u, Holding \ {o})
    BY <1>2, <1>4, TotalTakes
  <2>3. Total(u, Holding \ {o}) \in Int /\ Total(u, Holding \ {o}) >= 0
    BY <1>4, <2>1, TotalType
  <2> QED BY <1>4, <2>2, <2>3
<1>7. \A o \in Holding : u[o] = order[o].items[p]
  BY DEF Holding, u
<1> QED BY <1>2, <1>3, <1>5, <1>6, <1>7 DEF HeldUnits, u

\* One order is written; no other order's sales change.
LEMMA HeldUnitsAfterWrite ==
  ASSUME TypeOK, TypeOK', IsFiniteSet(PlacedOrders),
         NEW o \in Orders, NEW row \in OrderRow,
         order' = [order EXCEPT ![o] = row],
         Placed(o) => row.items = order[o].items,
         row.status # "none",
         \A x \in Orders \ {o}, p \in Products : Sold(x, p)' <=> Sold(x, p)
  PROVE  /\ IsFiniteSet(PlacedOrders')
         /\ \A p \in Products :
              HeldUnits(p)' = HeldUnits(p)
                                + (IF o \in Holding' THEN row.items[p] ELSE 0)
                                - (IF o \in Holding THEN order[o].items[p] ELSE 0)
<1>1. order \in [Orders -> OrderRow]
  BY DEF TypeOK
<1>2. /\ order'[o] = row
      /\ \A x \in Orders \ {o} : order'[x] = order[x]
  BY <1>1
<1>3. PlacedOrders' = PlacedOrders \cup {o}
  BY <1>2 DEF PlacedOrders, Placed
<1>4. IsFiniteSet(PlacedOrders')
  BY <1>3, FS_AddElement
<1>5. \A x \in Orders \ {o} : x \in Holding' <=> x \in Holding
  BY <1>2 DEF Holding, Placed, WasSold
<1>6. Holding \subseteq Orders /\ Holding' \subseteq Orders
  BY DEF Holding
<1>7. ASSUME NEW p \in Products
      PROVE  HeldUnits(p)' = HeldUnits(p)
                               + (IF o \in Holding' THEN row.items[p] ELSE 0)
                               - (IF o \in Holding THEN order[o].items[p] ELSE 0)
  <2> DEFINE u == [x \in Orders |-> order[x].items[p]]
             v == [x \in Orders |-> order'[x].items[p]]
             H == Holding
             G == Holding'
             R == Holding \ {o}
  <2>1. HeldUnits(p) = Total(u, H) /\ HeldUnits(p)' = Total(v, G)
    BY DEF HeldUnits
  <2>2. \A x \in Orders : u[x] = order[x].items[p] /\ v[x] = order'[x].items[p]
    OBVIOUS
  <2>3. \A x \in Orders : u[x] \in Int /\ v[x] \in Int
    BY <2>2 DEF TypeOK, OrderRow, Basket
  <2>4. IsFiniteSet(R) /\ o \notin R /\ R \subseteq Orders
    BY HeldUnitsType, FS_RemoveElement, <1>6
  <2>5. \A x \in R : u[x] = v[x]
    BY <1>2, <1>6, <2>2
  <2>6. H = (IF o \in H THEN R \cup {o} ELSE R) /\ G = (IF o \in G THEN R \cup {o} ELSE R)
    BY <1>5, <1>6
  <2>7. u[o] = order[o].items[p] /\ v[o] = row.items[p]
    BY <1>2, <2>2
  <2> HIDE DEF u, v, H, G, R
  <2>8. Total(u, R) = Total(v, R)
    BY <2>4, <2>5, TotalSame
  <2>9. Total(u, R) \in Int
    BY <2>3, <2>4, TotalType
  <2>10. /\ u[o] \in Int /\ \A x \in R : u[x] \in Int
         /\ v[o] \in Int /\ \A x \in R : v[x] \in Int
    BY <2>3, <2>4
  <2>11. Total(u, R \cup {o}) = Total(u, R) + u[o]
    <3>1. u[o] \in Int /\ \A x \in R : u[x] \in Int
      BY <2>10
    <3>2. IsFiniteSet(R) /\ o \notin R
      BY <2>4
    <3> QED BY ONLY <3>1, <3>2, TotalGrows
  <2>12. Total(v, R \cup {o}) = Total(v, R) + v[o]
    <3>1. v[o] \in Int /\ \A x \in R : v[x] \in Int
      BY <2>10
    <3>2. IsFiniteSet(R) /\ o \notin R
      BY <2>4
    <3> QED BY ONLY <3>1, <3>2, TotalGrows
  <2>13. Total(u, H) = Total(u, R) + (IF o \in H THEN u[o] ELSE 0)
    BY <2>6, <2>9, <2>11
  <2>14. Total(v, G) = Total(u, R) + (IF o \in G THEN v[o] ELSE 0)
    BY <2>6, <2>8, <2>9, <2>12
  <2>15. Total(v, G) = Total(u, H) + (IF o \in G THEN v[o] ELSE 0) - (IF o \in H THEN u[o] ELSE 0)
    BY <2>3, <2>9, <2>13, <2>14
  <2> QED BY <2>1, <2>7, <2>15 DEF H, G
<1> QED BY <1>4, <1>7

\* Everything HInv says, from what a step does to the one order it writes, to
\* the counters and to the books.
LEMMA HoldingWrite ==
  ASSUME HInv, IInv',
         NEW o \in Orders, NEW row \in OrderRow,
         order' = [order EXCEPT ![o] = row],
         Placed(o) => row.items = order[o].items,
         row.status # "none",
         \E p \in Products : row.items[p] > 0,
         order[o].released => row.released,
         \A p \in Products : Sold(o, p) => Sold(o, p)',
         \A x \in Orders \ {o}, p \in Products : Sold(x, p)' <=> Sold(x, p),
         \A p \in Products : \A i \in 1..Len(ledger'[p]) : ledger'[p][i].tipo = "VENDA" =>
           \/ \E j \in 1..Len(ledger[p]) : ledger[p][j] = ledger'[p][i]
           \/ /\ ledger'[p][i].order = o
              /\ ledger'[p][i].delta = -row.items[p]
              /\ \A q \in Products : row.items[q] > 0 => Sold(o, q)',
         NotBoth /\ NotBoth' => \A p \in Products :
           stock'[p].reserved = Greatest0(stock[p].reserved
                                  + (IF o \in Holding' THEN row.items[p] ELSE 0)
                                  - (IF o \in Holding THEN order[o].items[p] ELSE 0))
  PROVE  HInv'
<1>1. TypeOK /\ TypeOK' /\ order \in [Orders -> OrderRow]
  BY DEF HInv, IInv, TypeOK
<1>2. /\ order'[o] = row
      /\ \A x \in Orders \ {o} : order'[x] = order[x]
  BY <1>1
<1>3. /\ IsFiniteSet(PlacedOrders')
      /\ \A p \in Products :
           HeldUnits(p)' = HeldUnits(p)
                             + (IF o \in Holding' THEN row.items[p] ELSE 0)
                             - (IF o \in Holding THEN order[o].items[p] ELSE 0)
  BY <1>1, HeldUnitsAfterWrite DEF HInv
<1>4. ListsSomething'
  BY <1>2 DEF HInv, ListsSomething, Placed
<1>5. NotBoth' => NotBoth
  BY <1>2 DEF NotBoth, WasSold
<1>6. RowsAsOrdered'
  <2> SUFFICES ASSUME NEW p \in Products, NEW i \in 1..Len(ledger'[p]),
                      ledger'[p][i].tipo = "VENDA"
               PROVE  (/\ ledger[p][i].order \in Orders
                       /\ ledger[p][i].delta = -order[ledger[p][i].order].items[p]
                       /\ SoldOut(ledger[p][i].order))'
    BY DEF RowsAsOrdered
  <2>1. CASE \E j \in 1..Len(ledger[p]) : ledger[p][j] = ledger'[p][i]
    <3>1. PICK j \in 1..Len(ledger[p]) : ledger[p][j] = ledger'[p][i]
      BY <2>1
    <3>2. PICK x \in Orders : /\ x = ledger'[p][i].order
                              /\ ledger'[p][i].delta = -order[x].items[p]
                              /\ SoldOut(x)
                              /\ Sold(x, p)
      BY <3>1 DEF HInv, RowsAsOrdered, Sold, Ledger!HasVenda
    <3>3. Placed(x)
      BY <3>2 DEF HInv, IInv, UnplacedIsFresh
    <3>4. order'[x].items = order[x].items
      BY <1>2, <3>2, <3>3
    <3>5. \A q \in Products : Sold(x, q) => Sold(x, q)'
      <4>1. CASE x = o
        BY <4>1
      <4>2. CASE x # o
        BY <4>2
      <4> QED BY <4>1, <4>2
    <3>6. SoldOut(x)'
      BY <3>2, <3>4, <3>5 DEF SoldOut
    <3> QED BY <3>2, <3>4, <3>6 DEF SoldOut
  <2>2. CASE /\ ledger'[p][i].order = o
             /\ ledger'[p][i].delta = -row.items[p]
             /\ \A q \in Products : row.items[q] > 0 => Sold(o, q)'
    <3>1. SoldOut(o)'
      BY <1>2, <2>2 DEF SoldOut
    <3> QED BY <1>2, <2>2, <3>1 DEF SoldOut
  <2> QED BY <2>1, <2>2
<1>7. ASSUME NotBoth', NEW p \in Products PROVE stock'[p].reserved = HeldUnits(p)'
  <2>1. stock[p].reserved = HeldUnits(p)
    BY <1>5, <1>7 DEF HInv
  <2>2. HeldUnits(p)' \in Nat
    <3>1. /\ HeldUnits(p) \in Nat /\ order[o].items[p] \in Nat /\ row.items[p] \in Nat
          /\ o \in Holding => order[o].items[p] <= HeldUnits(p)
      BY <1>1, HeldUnitsType DEF HInv, OrderRow, Basket
    <3>2. HeldUnits(p)' = HeldUnits(p)
                            + (IF o \in Holding' THEN row.items[p] ELSE 0)
                            - (IF o \in Holding THEN order[o].items[p] ELSE 0)
      BY <1>3
    <3> QED BY <3>1, <3>2
  <2>3. stock'[p].reserved = Greatest0(HeldUnits(p)')
    BY <1>3, <1>5, <1>7, <2>1
  <2> QED BY <2>2, <2>3, ClampOfNat
<1> QED BY <1>3, <1>4, <1>6, <1>7 DEF HInv

\* A step that writes no order and sells and reserves nothing.
LEMMA HoldingQuiet ==
  ASSUME HInv, IInv',
         UNCHANGED order,
         \A x \in Orders, p \in Products : Sold(x, p)' <=> Sold(x, p),
         \A p \in Products : \A i \in 1..Len(ledger'[p]) : ledger'[p][i].tipo = "VENDA" =>
           \E j \in 1..Len(ledger[p]) : ledger[p][j] = ledger'[p][i],
         \A p \in Products : stock'[p].reserved = stock[p].reserved
  PROVE  HInv'
<1>1. IsFiniteSet(PlacedOrders') /\ ListsSomething'
  BY DEF HInv, PlacedOrders, ListsSomething, Placed
<1>2. NotBoth' => NotBoth
  BY DEF NotBoth, WasSold
<1>3. Holding' = Holding
  BY DEF Holding, Placed, WasSold
<1>4. \A p \in Products : HeldUnits(p)' = HeldUnits(p)
  BY <1>3 DEF HeldUnits
<1>5. RowsAsOrdered'
  BY DEF HInv, RowsAsOrdered, SoldOut
<1> QED BY <1>1, <1>2, <1>4, <1>5 DEF HInv

\* A new order adds to reserved_stock what it holds.
LEMMA CreateOrderHolds ==
  ASSUME HInv, IInv', NEW o \in Orders, NEW b \in Baskets, CreateOrder(o, b)
  PROVE  HInv'
<1> DEFINE row == [status |-> "pendente_pagamento", items |-> b, released |-> FALSE]
<1>1. b \in Basket /\ \E p \in Products : b[p] > 0
  BY OrdersAssumption
<1>2. /\ order \in [Orders -> OrderRow] /\ stock \in [Products -> StockRow]
      /\ ~Placed(o) /\ UNCHANGED ledger
      /\ order' = [order EXCEPT ![o] = row]
      /\ stock' = Reserved(stock, b)
  BY DEF HInv, IInv, TypeOK, EngineTypeOK, CreateOrder
<1>3. row \in OrderRow
  BY <1>1 DEF OrderRow, Status
<1>4. \A x \in Orders, p \in Products : Sold(x, p)' <=> Sold(x, p)
  BY <1>2, BooksUntouched
<1>5. ~order[o].released /\ \A p \in Products : ~Sold(o, p)
  BY <1>2 DEF HInv, IInv, UnplacedIsFresh, NoRow
<1>6. /\ row.items = b /\ row.status = "pendente_pagamento" /\ ~row.released
      /\ order'[o] = row
  BY <1>2
<1> HIDE DEF row
<1>7. o \in Holding' /\ o \notin Holding
  BY <1>2, <1>4, <1>5, <1>6 DEF Holding, Placed, WasSold
<1>8. \A p \in Products : stock'[p].reserved = Greatest0(stock[p].reserved + b[p] - 0)
  BY <1>1, <1>2, ClampOfNat DEF Reserved, StockRow, Basket
<1> QED BY <1>1, <1>2, <1>3, <1>4, <1>5, <1>6, <1>7, <1>8, HoldingWrite

\* A sale over the counter is reserved and sold at once.
LEMMA CreatePdvOrderHolds ==
  ASSUME HInv, IInv', NEW o \in Orders, NEW b \in Baskets, CreatePdvOrder(o, b)
  PROVE  HInv'
<1> DEFINE row == [status |-> "entregue", items |-> b, released |-> FALSE]
           st == Reserved(stock, b)
<1>1. b \in Basket /\ \E p \in Products : b[p] > 0
  BY OrdersAssumption
<1>2. /\ order \in [Orders -> OrderRow] /\ stock \in [Products -> StockRow]
      /\ EngineTypeOK /\ ProjectsLedger
      /\ ~Placed(o) /\ CanSell(o, b)
      /\ order' = [order EXCEPT ![o] = row]
      /\ stock' = AfterSale(st, o, b)
      /\ ledger' = LedgerAfterSale(o, b)
  BY DEF HInv, IInv, TypeOK, EngineTypeOK, CreatePdvOrder
<1>3. /\ st \in [Products -> StockRow]
      /\ \A p \in Products : st[p].current = stock[p].current
      /\ \A p \in Products : st[p].reserved = stock[p].reserved + b[p]
  <2>1. \A p \in Products : st[p].reserved = stock[p].reserved + b[p]
    BY <1>2 DEF Reserved, StockRow
  <2> HIDE DEF st
  <2> QED BY <1>1, <1>2, <2>1, ReserveKeeps DEF st
<1>4. row \in OrderRow
  BY <1>1 DEF OrderRow, Status
<1> HIDE DEF st
<1>5. /\ \A p \in Products : b[p] > 0 => Sold(o, p)'
      /\ \A x \in Orders, p \in Products : Sold(x, p)' <=> Sold(x, p) \/ (x = o /\ b[p] > 0)
  BY <1>1, <1>2, <1>3, SaleKeeps
<1>6. ~order[o].released /\ \A p \in Products : ~Sold(o, p)
  BY <1>2 DEF HInv, IInv, UnplacedIsFresh, NoRow
<1>7. /\ row.items = b /\ row.status = "entregue" /\ ~row.released
      /\ order'[o] = row
  BY <1>2
<1> HIDE DEF row
<1>8. o \notin Holding' /\ o \notin Holding
  BY <1>1, <1>2, <1>5 DEF Holding, Placed, WasSold
<1>9. \A p \in Products : stock'[p].reserved = Greatest0(stock[p].reserved + 0 - 0)
  <2> SUFFICES ASSUME NEW p \in Products
               PROVE  stock'[p].reserved = Greatest0(stock[p].reserved)
    BY <1>2 DEF StockRow
  <2>1. stock[p].reserved \in Nat /\ b[p] \in Nat /\ st[p].reserved = stock[p].reserved + b[p]
    BY <1>1, <1>2, <1>3 DEF StockRow, Basket
  <2>2. CASE b[p] > 0
    <3>1. stock'[p].reserved = Greatest0(st[p].reserved - b[p])
      BY <1>2, <1>6, <2>2 DEF AfterSale, ToSell
    <3> QED BY <2>1, <3>1, ClampOfNat
  <2>3. CASE ~(b[p] > 0)
    <3>1. stock'[p].reserved = st[p].reserved
      BY <1>2, <2>3 DEF AfterSale, ToSell
    <3> QED BY <2>1, <2>3, <3>1, ClampOfNat
  <2> QED BY <2>2, <2>3
<1>10. \A p \in Products : \A i \in 1..Len(ledger'[p]) : ledger'[p][i].tipo = "VENDA" =>
         \/ \E j \in 1..Len(ledger[p]) : ledger[p][j] = ledger'[p][i]
         \/ /\ ledger'[p][i].order = o
            /\ ledger'[p][i].delta = -row.items[p]
            /\ \A q \in Products : row.items[q] > 0 => Sold(o, q)'
  BY <1>1, <1>2, <1>5, <1>7, SaleRows
<1>11. \A p \in Products :
         stock'[p].reserved = Greatest0(stock[p].reserved
                                + (IF o \in Holding' THEN row.items[p] ELSE 0)
                                - (IF o \in Holding THEN order[o].items[p] ELSE 0))
  BY <1>8, <1>9
<1>12. \A x \in Orders \ {o}, p \in Products : Sold(x, p)' <=> Sold(x, p)
  BY <1>5
<1>13. \E p \in Products : row.items[p] > 0
  BY <1>1, <1>7
<1>14. /\ row.status # "none" /\ (order[o].released => row.released)
       /\ (Placed(o) => row.items = order[o].items)
       /\ \A p \in Products : Sold(o, p) => Sold(o, p)'
  BY <1>2, <1>6, <1>7
<1> QED BY <1>2, <1>4, <1>10, <1>11, <1>12, <1>13, <1>14, HoldingWrite

\* Whoever releases an order's reservation takes it out of the counter.
LEMMA ReleaseAndCancelHolds ==
  ASSUME HInv, IInv', NEW o \in Orders, Placed(o), ~order[o].released, ReleaseAndCancel(o)
  PROVE  HInv'
<1> DEFINE row == [order[o] EXCEPT !.status = "cancelado", !.released = TRUE]
<1>1. /\ order \in [Orders -> OrderRow] /\ stock \in [Products -> StockRow]
      /\ order[o] \in OrderRow /\ order[o].items \in Basket
      /\ UNCHANGED ledger
      /\ stock' = Released(stock, order[o].items)
      /\ order' = [order EXCEPT ![o].status = "cancelado", ![o].released = TRUE]
  BY DEF HInv, IInv, TypeOK, EngineTypeOK, OrderRow, ReleaseAndCancel
<1>2. order' = [order EXCEPT ![o] = row]
  BY <1>1 DEF OrderRow
<1>3. row \in OrderRow /\ row.items = order[o].items /\ row.status = "cancelado" /\ row.released
  BY <1>1 DEF OrderRow, Status
<1>4. \A x \in Orders, p \in Products : Sold(x, p)' <=> Sold(x, p)
  BY <1>1, BooksUntouched
<1> HIDE DEF row
<1>5. order'[o] = row
  BY <1>1, <1>2
<1>6. o \notin Holding'
  BY <1>3, <1>5 DEF Holding
<1>7. NotBoth' => o \in Holding
  BY <1>3, <1>4, <1>5 DEF Holding, NotBoth, WasSold
<1>8. \A p \in Products : stock'[p].reserved = Greatest0(stock[p].reserved + 0 - order[o].items[p])
  BY <1>1 DEF Released, StockRow, Basket
<1>9. \E p \in Products : row.items[p] > 0
  BY <1>3 DEF HInv, ListsSomething
<1> QED BY <1>1, <1>2, <1>3, <1>4, <1>6, <1>7, <1>8, <1>9, HoldingWrite

\* PRONTO sells the order, or, if it was sold before, nothing.
LEMMA ApplyProntoHolds ==
  ASSUME HInv, IInv', NEW r \in Requests, ApplyPronto(r)
  PROVE  HInv'
<1>0. PICK o \in Orders : o = req[r].order /\ Placed(o)
  BY LockedRequest DEF ApplyPronto, HInv
<1>1. PICK b : b = order[o].items
  OBVIOUS
<1> DEFINE row == [order[o] EXCEPT !.status = "pronto"]
<1>2. /\ order \in [Orders -> OrderRow] /\ stock \in [Products -> StockRow]
      /\ EngineTypeOK /\ ProjectsLedger
      /\ order[o] \in OrderRow /\ b \in Basket
      /\ CanSell(o, b)
      /\ stock' = AfterSale(stock, o, b)
      /\ ledger' = LedgerAfterSale(o, b)
      /\ order' = [order EXCEPT ![o].status = "pronto"]
  BY <1>0, <1>1 DEF HInv, IInv, TypeOK, EngineTypeOK, OrderRow, ApplyPronto, SetStatus
<1>3. order' = [order EXCEPT ![o] = row]
  BY <1>2 DEF OrderRow
<1>4. row \in OrderRow /\ row.items = b /\ row.status = "pronto" /\ row.released = order[o].released
  BY <1>1, <1>2 DEF OrderRow, Status
<1>5. /\ \A p \in Products : b[p] > 0 => Sold(o, p)'
      /\ \A x \in Orders, p \in Products : Sold(x, p)' <=> Sold(x, p) \/ (x = o /\ b[p] > 0)
  BY <1>2, SaleKeeps
<1> HIDE DEF row
<1>6. order'[o] = row
  BY <1>2, <1>3
<1>7. \E p \in Products : b[p] > 0
  BY <1>0, <1>1 DEF HInv, ListsSomething
<1>8. WasSold(o)'
  BY <1>5, <1>7 DEF WasSold
<1>9. o \notin Holding'
  BY <1>8 DEF Holding
<1>10. \A p \in Products : \A i \in 1..Len(ledger'[p]) : ledger'[p][i].tipo = "VENDA" =>
         \/ \E j \in 1..Len(ledger[p]) : ledger[p][j] = ledger'[p][i]
         \/ /\ ledger'[p][i].order = o
            /\ ledger'[p][i].delta = -row.items[p]
            /\ \A q \in Products : row.items[q] > 0 => Sold(o, q)'
  BY <1>2, <1>4, <1>5, SaleRows
<1>11. ASSUME NotBoth', NEW p \in Products
       PROVE  stock'[p].reserved = Greatest0(stock[p].reserved + 0
                                     - (IF o \in Holding THEN order[o].items[p] ELSE 0))
  <2>1. stock[p].reserved \in Nat /\ b[p] \in Nat
    BY <1>2 DEF StockRow, Basket
  <2>2. ~order[o].released
    BY <1>4, <1>6, <1>8, <1>11 DEF NotBoth
  <2>3. CASE o \in Holding
    <3>1. ~Sold(o, p)
      BY <2>3 DEF Holding, WasSold
    <3>2. CASE b[p] > 0
      BY <1>1, <1>2, <2>1, <2>3, <3>1, <3>2 DEF AfterSale, ToSell
    <3>3. CASE ~(b[p] > 0)
      <4>1. stock'[p] = stock[p]
        BY <1>2, <3>3 DEF AfterSale, ToSell
      <4> QED BY <1>1, <2>1, <2>3, <3>3, <4>1, ClampOfNat
    <3> QED BY <3>2, <3>3
  <2>4. CASE o \notin Holding
    <3>1. WasSold(o)
      BY <1>0, <2>2, <2>4 DEF Holding
    <3>2. b[p] > 0 => Sold(o, p)
      BY <1>1, <3>1, SoldIsSoldOut DEF HInv, SoldOut
    <3>3. stock'[p] = stock[p]
      BY <1>2, <3>2 DEF AfterSale, ToSell
    <3> QED BY <2>1, <2>4, <3>3, ClampOfNat
  <2> QED BY <2>3, <2>4
<1>12. NotBoth' => \A p \in Products :
         stock'[p].reserved = Greatest0(stock[p].reserved
                                + (IF o \in Holding' THEN row.items[p] ELSE 0)
                                - (IF o \in Holding THEN order[o].items[p] ELSE 0))
  BY <1>9, <1>11
<1>13. \A x \in Orders \ {o}, p \in Products : Sold(x, p)' <=> Sold(x, p)
  BY <1>5
<1>14. \E p \in Products : row.items[p] > 0
  BY <1>4, <1>7
<1>15. /\ row.status # "none" /\ (order[o].released => row.released)
       /\ (Placed(o) => row.items = order[o].items)
       /\ \A p \in Products : Sold(o, p) => Sold(o, p)'
  BY <1>1, <1>4, <1>5
<1> QED BY <1>3, <1>4, <1>10, <1>12, <1>13, <1>14, <1>15, HoldingWrite

\* Any other status moves no stock.
LEMMA StatusHolds ==
  ASSUME HInv, IInv', NEW o \in Orders, Placed(o), NEW to \in Status, SetStatus(o, to),
         UNCHANGED <<stock, ledger>>
  PROVE  HInv'
<1> DEFINE row == [order[o] EXCEPT !.status = to]
<1>1. /\ order \in [Orders -> OrderRow] /\ stock \in [Products -> StockRow]
      /\ order[o] \in OrderRow
      /\ order' = [order EXCEPT ![o].status = to]
  BY DEF HInv, IInv, TypeOK, EngineTypeOK, SetStatus
<1>2. order' = [order EXCEPT ![o] = row]
  BY <1>1 DEF OrderRow
<1>3. row \in OrderRow /\ row.items = order[o].items /\ row.status = to
      /\ row.released = order[o].released
  BY <1>1 DEF OrderRow
<1>4. \A x \in Orders, p \in Products : Sold(x, p)' <=> Sold(x, p)
  BY <1>1, BooksUntouched
<1> HIDE DEF row
<1>5. order'[o] = row /\ row.status # "none"
  BY <1>1, <1>2, <1>3 DEF Status
<1>6. o \in Holding' <=> o \in Holding
  BY <1>3, <1>4, <1>5 DEF Holding, Placed, WasSold
<1>7. \E p \in Products : row.items[p] > 0
  BY <1>3 DEF HInv, ListsSomething
<1>8. ASSUME NEW p \in Products
      PROVE  stock'[p].reserved = Greatest0(stock[p].reserved
                                    + (IF o \in Holding' THEN row.items[p] ELSE 0)
                                    - (IF o \in Holding THEN order[o].items[p] ELSE 0))
  <2>1. stock[p].reserved \in Nat /\ row.items[p] \in Nat /\ row.items[p] = order[o].items[p]
    BY <1>1, <1>3 DEF StockRow, OrderRow, Basket
  <2>2. stock'[p].reserved = stock[p].reserved
    OBVIOUS
  <2> QED BY <1>6, <2>1, <2>2, ClampOfNat
<1> QED BY <1>2, <1>3, <1>4, <1>5, <1>7, <1>8, HoldingWrite

\* The actions that move no stock and write no order.
LEMMA NothingMovesHolds ==
  ASSUME HInv, IInv', UNCHANGED <<stock, ledger, order>>
  PROVE  HInv'
<1>1. \A x \in Orders, p \in Products : Sold(x, p)' <=> Sold(x, p)
  BY BooksUntouched
<1> QED BY <1>1, HoldingQuiet

\* An expiry takes from reserved_stock what the order held.
LEMMA ReleaseExpiredHolds ==
  ASSUME HInv, IInv', NEW o \in Orders, ReleaseExpiredPendingOrder(o)
  PROVE  HInv'
<1>1. CASE order[o].status = "pendente_pagamento" /\ ~order[o].released
  <2>1. ReleaseAndCancel(o) /\ Placed(o)
    BY <1>1 DEF ReleaseExpiredPendingOrder, Placed
  <2> QED BY <1>1, <2>1, ReleaseAndCancelHolds
<1>2. CASE ~(order[o].status = "pendente_pagamento" /\ ~order[o].released)
  BY <1>2, NothingMovesHolds DEF ReleaseExpiredPendingOrder
<1> QED BY <1>1, <1>2

\* A manual movement leaves reservations as they are.
LEMMA AdjustStockHolds ==
  ASSUME HInv, IInv', NEW p \in Products, NEW m \in Movements, AdjustStock(p, m)
  PROVE  HInv'
<1>1. m.tipo \in {"COMPRA", "PERDA", "DEVOLUCAO", "AJUSTE"} /\ m.delta \in Int
  BY OrdersAssumption
<1>2. EngineTypeOK /\ ProjectsLedger /\ RecordManualMovement(p, m.tipo, m.delta)
  BY DEF HInv, IInv, TypeOK, AdjustStock
<1>3. \A x \in Orders, q \in Products : Sold(x, q)' <=> Sold(x, q)
  BY <1>1, <1>2, MovementKeeps
<1>4. \A q \in Products : \A i \in 1..Len(ledger'[q]) : ledger'[q][i].tipo = "VENDA" =>
        \E j \in 1..Len(ledger[q]) : ledger[q][j] = ledger'[q][i]
  BY <1>1, <1>2, MovementRows
<1>5. \A q \in Products : stock'[q].reserved = stock[q].reserved
  BY <1>2 DEF EngineTypeOK, StockRow, RecordManualMovement
<1>6. UNCHANGED order
  BY DEF AdjustStock
<1> QED BY <1>3, <1>4, <1>5, <1>6, HoldingQuiet

\* Both steps of updateStatus keep the reservations accounted.
LEMMA UpdateStatusHolds ==
  ASSUME HInv, IInv', NEW r \in Requests, UpdateStatus(r)
  PROVE  HInv'
<1>1. CASE \E o \in Orders, actor \in Actors, to \in Status : ReadStatus(r, o, actor, to)
  BY <1>1, NothingMovesHolds DEF ReadStatus
<1>2. CASE ApplyNothing(r)
  BY <1>2, NothingMovesHolds DEF ApplyNothing
<1>3. CASE ApplyPronto(r)
  BY <1>3, ApplyProntoHolds
<1>4. CASE ApplyCancel(r)
  <2>1. PICK o \in Orders : o = req[r].order /\ Placed(o)
    BY <1>4, LockedRequest DEF ApplyCancel, HInv
  <2>2. CASE order[o].released
    <3>1. SetStatus(o, "cancelado") /\ UNCHANGED <<stock, ledger>>
      BY <1>4, <2>1, <2>2 DEF ApplyCancel
    <3>2. "cancelado" \in Status
      BY DEF Status
    <3> QED BY <2>1, <3>1, <3>2, StatusHolds
  <2>3. CASE ~order[o].released
    <3>1. ReleaseAndCancel(o)
      BY <1>4, <2>1, <2>3 DEF ApplyCancel
    <3> QED BY <2>1, <2>3, <3>1, ReleaseAndCancelHolds
  <2> QED BY <2>2, <2>3
<1>5. CASE ApplyPlain(r)
  <2>1. PICK o \in Orders : o = req[r].order /\ Placed(o)
    BY <1>5, LockedRequest DEF ApplyPlain, HInv
  <2>2. req[r].to \in Status
    BY <1>5, LockedRequest DEF ApplyPlain, HInv
  <2>3. SetStatus(o, req[r].to) /\ UNCHANGED <<stock, ledger>>
    BY <1>5, <2>1 DEF ApplyPlain
  <2> QED BY <2>1, <2>2, <2>3, StatusHolds
<1>6. CASE AbortRequest(r)
  BY <1>6, NothingMovesHolds DEF AbortRequest
<1> QED BY <1>1, <1>2, <1>3, <1>4, <1>5, <1>6 DEF UpdateStatus

\* Every step keeps the reservations accounted.
LEMMA NextHolds == HInv /\ [Next]_vars => HInv'
<1> SUFFICES ASSUME HInv, [Next]_vars PROVE HInv'
  OBVIOUS
<1>0. IInv'
  BY NextStep DEF HInv, Keeps
<1>1. CASE \E o \in Orders, b \in Baskets : CreateOrder(o, b)
  BY <1>0, <1>1, CreateOrderHolds
<1>2. CASE \E o \in Orders, b \in Baskets : CreatePdvOrder(o, b)
  BY <1>0, <1>2, CreatePdvOrderHolds
<1>3. CASE \E r \in Requests : UpdateStatus(r)
  BY <1>0, <1>3, UpdateStatusHolds
<1>4. CASE \E o \in Orders : TtlPasses(o)
  BY <1>0, <1>4, NothingMovesHolds DEF TtlPasses
<1>5. ASSUME NEW s \in Sweepers, Sweep(s) PROVE HInv'
  <2>1. CASE ListExpired(s)
    BY <1>0, <2>1, NothingMovesHolds DEF ListExpired
  <2>2. CASE \E o \in Orders : SweepOne(s, o)
    BY <1>0, <2>2, ReleaseExpiredHolds DEF SweepOne
  <2>3. CASE \E o \in Orders : SweepOneFails(s, o)
    BY <1>0, <2>3, NothingMovesHolds DEF SweepOneFails
  <2> QED BY <1>5, <2>1, <2>2, <2>3 DEF Sweep
<1>6. CASE \E o \in Orders : PixExpired(o)
  BY <1>0, <1>6, ReleaseExpiredHolds DEF PixExpired
<1>7. CASE \E p \in Products, m \in Movements : AdjustStock(p, m)
  BY <1>0, <1>7, AdjustStockHolds
<1>8. CASE UNCHANGED vars
  BY <1>0, <1>8, NothingMovesHolds DEF vars
<1> QED BY <1>1, <1>2, <1>3, <1>4, <1>5, <1>6, <1>7, <1>8 DEF Next

\* At the start nothing is reserved and nobody holds anything.
LEMMA InitHolds == Init => HInv
<1> SUFFICES ASSUME Init PROVE HInv
  OBVIOUS
<1>1. IInv
  BY InitStep
<1>2. PlacedOrders = {} /\ Holding = {} /\ ListsSomething
  BY DEF Init, PlacedOrders, Holding, ListsSomething, Placed, NoRow
<1>3. IsFiniteSet({}) /\ \A u : Total(u, {}) = 0
  BY FS_EmptySet, TotalUnfolds
<1>4. \A p \in Products : HeldUnits(p) = 0 /\ stock[p].reserved = 0
  BY <1>2, <1>3 DEF HeldUnits, Init, EngineInit
<1>5. RowsAsOrdered
  <2>1. \A o \in Orders, p \in Products : ~Sold(o, p)
    BY <1>1, <1>2 DEF IInv, UnplacedIsFresh, PlacedOrders
  <2>2. PICK initial \in [Products -> InitialStock] : EngineInit(initial)
    BY DEF Init
  <2>3. ASSUME NEW p \in Products, NEW i \in 1..Len(ledger[p])
        PROVE  ledger[p][i].tipo # "VENDA"
    BY <2>2 DEF EngineInit, Opening
  <2> QED BY <2>3 DEF RowsAsOrdered
<1> QED BY <1>1, <1>2, <1>3, <1>4, <1>5 DEF HInv

\* The second inductive invariant.
THEOREM HoldingInductive == Spec => []HInv
<1> QED BY InitHolds, NextHolds, PTL DEF Spec

\* What was sold to an order is what it asked for, and all of it.
THEOREM SoldWhatWasOrdered == Spec => []SoldAsOrdered
<1>1. HInv => SoldAsOrdered
  BY DEF HInv, RowsAsOrdered, SoldAsOrdered, SoldOut
<1> QED BY <1>1, HoldingInductive, PTL

\* reserved_stock is exactly what the pending and confirmed orders hold, for
\* any number of them, unless an order was both released and sold.
THEOREM ReservedIsWhatOrdersHold == Spec => []ReservedIsHeld
<1>1. HInv => ReservedIsHeld
  BY DEF HInv, NotBoth, ReservedIsHeld
<1> QED BY <1>1, HoldingInductive, PTL
=============================================================================
