--------------------------- MODULE PaymentsProofs ---------------------------
(***************************************************************************)
(* Theorems about Payments, for any number of orders, payments and calls.  *)
(* The first carries everything proved of Orders over: a payment step is a *)
(* step of the order lifecycle.  The others need what the row locks give:  *)
(* no two calls hold one payment, so the row a call read is still the row  *)
(* it writes, and a panel request that moves an order on read a status     *)
(* that only paid orders have.  The last one follows the money of a        *)
(* cancelled order from the charge to the notice to the merchant.          *)
(***************************************************************************)
EXTENDS Payments, OrdersProofs

Locking == {"confirming", "updating", "applying", "failing"}
Confirmed == {"confirmado", "em_producao", "pronto", "em_transito", "entregue"}

GoodRow == [order : Orders, method : Methods, status : PagamentoStatus]
HasReceipt(o) == \E p \in receipts : pay[p].order = o
ToConfirm(o) == [order |-> o, from |-> "pendente_pagamento", to |-> "confirmado"]

CallsTypeOK ==
  /\ pay \in [Payments -> PaymentRow]
  /\ charge \in [Payments -> ChargeStatus \cup {"none"}]
  /\ inbox \in [Payments -> BOOLEAN]
  /\ call \in [Calls -> CallState]
  /\ receipts \subseteq Payments
  /\ announced \in [Payments -> Nat]
  /\ reported \subseteq Payments

\* A payment belongs to an order, and a paid one leaves a row.
RowSound(p) == Exists(p) => pay[p] \in GoodRow /\ Placed(pay[p].order)
ReceiptSound(p) == /\ Exists(p)
                   /\ order[pay[p].order].status # "pendente_pagamento"

\* What a call holds, and what it may rely on.
CallSound(c) ==
  /\ call[c].pc \in Locking \cup {"fetched"} => call[c].pay \in Payments
  /\ call[c].pc \in Locking \cup {"creating"} =>
       /\ call[c].row \in GoodRow
       /\ Placed(call[c].row.order)
  /\ call[c].pc \in Locking =>
       /\ Exists(call[c].pay) => call[c].row.order = pay[call[c].pay].order
       /\ Exists(call[c].pay) \/ charge[call[c].pay] # "none"
  /\ call[c].pc \in {"updating", "applying"} => call[c].pay \notin receipts
  /\ req[c] = IF call[c].pc = "applying" THEN ToConfirm(call[c].row.order) ELSE Idle

Holds(c, p) == call[c].pc \in Locking /\ call[c].pay = p

\* A panel request never asks for the payment, and what moves an order on was
\* read when the order was paid.
PanelSound(r) ==
  req[r] # Idle =>
    /\ req[r].to # "pendente_pagamento"
    /\ req[r].to \in Confirmed => HasReceipt(req[r].order)

PayInv ==
  /\ CallsTypeOK
  /\ \A p \in Payments : RowSound(p)
  /\ \A p \in receipts : ReceiptSound(p)
  /\ \A c \in Calls : CallSound(c)
  /\ \A c, d \in Calls, p \in Payments : Holds(c, p) /\ Holds(d, p) => c = d
  /\ \A r \in Requests \ Calls : PanelSound(r)
  /\ ConfirmedIsPaid

\* What a step may do to the orders that payments rest on.
OrdersMove ==
  \A o \in Orders :
    /\ Placed(o) => Placed(o)'
    /\ order'[o].status = "pendente_pagamento"
         => order[o].status \in {"none", "pendente_pagamento"}
    /\ order'[o].status \in Confirmed => order[o].status \in Confirmed \/ HasReceipt(o)'

\* The steps Payments leaves to Orders are steps of Orders.
LEMMA LifecycleIsOrders == LifecycleStep => Next
BY PaymentsAssumption DEF LifecycleStep, Next, UpdateStatus, Actors

-----------------------------------------------------------------------------
(* How a step of each kind keeps PayInv. *)

\* the orders and the panel move, no payment does
LEMMA PanelMove ==
  ASSUME IInv, PayInv, UNCHANGED payVars, OrdersMove,
         \A c \in Calls : req'[c] = req[c],
         \A r \in Requests \ Calls : PanelSound(r)'
  PROVE  PayInv'
<1>1. /\ pay' = pay /\ charge' = charge /\ inbox' = inbox /\ call' = call
      /\ receipts' = receipts /\ announced' = announced /\ reported' = reported
  BY DEF payVars
<1>2. CallsTypeOK'
  BY <1>1 DEF PayInv, CallsTypeOK
<1>3. ASSUME NEW p \in Payments PROVE RowSound(p)'
  BY <1>1 DEF PayInv, RowSound, GoodRow, Exists, OrdersMove, Placed
<1>4. ASSUME NEW p \in receipts PROVE ReceiptSound(p)'
  <2>1. p \in Payments /\ ReceiptSound(p) /\ RowSound(p)
    BY DEF PayInv, CallsTypeOK
  <2>2. pay[p].order \in Orders /\ Placed(pay[p].order)
    BY <2>1 DEF RowSound, ReceiptSound, GoodRow
  <2> QED BY <1>1, <2>1, <2>2 DEF ReceiptSound, Exists, OrdersMove, Placed
<1>5. ASSUME NEW c \in Calls PROVE CallSound(c)'
  <2>1. CallSound(c)
    BY DEF PayInv
  <2> QED BY <1>1, <2>1 DEF CallSound, Exists, GoodRow, OrdersMove, Placed
<1>6. ConfirmedIsPaid'
  BY <1>1 DEF PayInv, ConfirmedIsPaid, OrdersMove, HasReceipt, Confirmed
<1> QED BY <1>1, <1>2, <1>3, <1>4, <1>5, <1>6 DEF PayInv, Holds

\* At most one call moves, that of S, and at most the payment p.
CallMove(S, p) ==
  /\ \A c, d \in S : c = d
  /\ \A d \in Calls \ S : call'[d] = call[d] /\ req'[d] = req[d]
  /\ \A r \in Requests \ Calls : req'[r] = req[r]
  /\ \A q \in Payments \ {p} : pay'[q] = pay[q] /\ charge'[q] = charge[q]
  /\ charge[p] # "none" => charge'[p] # "none"
  /\ Exists(p) => Exists(p)' /\ pay'[p].order = pay[p].order
  /\ Exists(p) \/ ~Exists(p)' \/ \A d \in Calls \ S : ~Holds(d, p)
  /\ \A c \in S : call'[c].pc \in Locking => \A d \in Calls \ S : ~Holds(d, call'[c].pay)
  /\ receipts \subseteq receipts'
  /\ receipts' \subseteq receipts \cup {p}
  /\ receipts' = receipts \/ \A d \in Calls \ S : ~Holds(d, p)

\* What a step has to show that moves calls on one payment and its row.
LEMMA CallMoves ==
  ASSUME IInv, PayInv, CallsTypeOK', OrdersMove, NEW S \in SUBSET Calls, NEW p,
         CallMove(S, p), \A c \in S : CallSound(c)', p \in Payments => RowSound(p)', p \in receipts' => ReceiptSound(p)'
  PROVE  PayInv'
<1>1. ASSUME NEW q \in Payments \ {p} PROVE RowSound(q)'
  <2>1. RowSound(q) /\ pay'[q] = pay[q]
    BY DEF PayInv, CallMove
  <2> QED BY <2>1 DEF RowSound, GoodRow, Exists, OrdersMove, Placed
<1>2. ASSUME NEW q \in receipts \ {p} PROVE ReceiptSound(q)'
  <2>1. q \in Payments /\ ReceiptSound(q) /\ RowSound(q) /\ pay'[q] = pay[q]
    BY DEF PayInv, CallsTypeOK, CallMove
  <2>2. pay[q].order \in Orders /\ Placed(pay[q].order)
    BY <2>1 DEF RowSound, ReceiptSound, GoodRow
  <2> QED BY <2>1, <2>2 DEF ReceiptSound, Exists, OrdersMove, Placed
<1>3. ASSUME NEW d \in Calls \ S PROVE CallSound(d)'
  <2>1. CallSound(d) /\ call'[d] = call[d] /\ req'[d] = req[d]
    BY DEF PayInv, CallMove
  <2>2. call[d].row \in GoodRow /\ Placed(call[d].row.order)
          => order'[call[d].row.order].status # "none"
    BY DEF GoodRow, OrdersMove, Placed
  <2>5. call[d].pc \in {"updating", "applying"} => call[d].pay \notin receipts'
    BY <2>1 DEF CallSound, CallMove, Holds, Locking
  <2>3. CASE call[d].pc \in Locking
    <3>1. /\ call[d].pay \in Payments
          /\ Exists(call[d].pay) => call[d].row.order = pay[call[d].pay].order
          /\ Exists(call[d].pay) \/ charge[call[d].pay] # "none"
      BY <2>1, <2>3 DEF CallSound
    <3>2. CASE call[d].pay # p
      <4>1. pay'[call[d].pay] = pay[call[d].pay] /\ charge'[call[d].pay] = charge[call[d].pay]
        BY <3>1, <3>2 DEF CallMove
      <4> QED BY <2>1, <2>2, <2>3, <2>5, <3>1, <4>1 DEF CallSound, Exists, Placed
    <3>3. CASE call[d].pay = p
      <4>1. Holds(d, p)
        BY <2>3, <3>3 DEF Holds
      <4>2. /\ Exists(p)' => Exists(p)
            /\ Exists(p) => Exists(p)' /\ pay'[p].order = pay[p].order
            /\ charge[p] # "none" => charge'[p] # "none"
        BY <4>1 DEF CallMove
      <4> QED BY <2>1, <2>2, <2>3, <2>5, <3>1, <3>3, <4>2 DEF CallSound, Placed
    <3> QED BY <3>2, <3>3
  <2>4. CASE call[d].pc \notin Locking
    BY <2>1, <2>2, <2>4, <2>5 DEF CallSound, Locking, Placed
  <2> QED BY <2>3, <2>4
<1>4. ASSUME NEW q \in receipts PROVE q \in receipts' /\ pay'[q].order = pay[q].order
  <2>1. q \in Payments /\ Exists(q)
    BY DEF PayInv, CallsTypeOK, ReceiptSound
  <2> QED BY <2>1 DEF CallMove
<1>5. \A o \in Orders : HasReceipt(o) => HasReceipt(o)'
  BY <1>4 DEF HasReceipt
<1>6. ASSUME NEW r \in Requests \ Calls PROVE PanelSound(r)'
  <2>1. req'[r] = req[r] /\ PanelSound(r)
    BY DEF CallMove, PayInv
  <2>2. req[r] # Idle => req[r].order \in Orders
    BY DEF IInv, RequestsSound
  <2> QED BY <1>5, <2>1, <2>2 DEF PanelSound, HasReceipt
<1>7. ConfirmedIsPaid'
  <2> SUFFICES ASSUME NEW o \in Orders, order'[o].status \in Confirmed PROVE HasReceipt(o)'
    BY DEF ConfirmedIsPaid, Confirmed, HasReceipt
  <2>1. order[o].status \in Confirmed => HasReceipt(o)
    BY DEF PayInv, ConfirmedIsPaid, Confirmed, HasReceipt
  <2> QED BY <1>5, <2>1 DEF OrdersMove
<1>8. ASSUME NEW x \in Calls, NEW y \in Calls, NEW q \in Payments, Holds(x, q)', Holds(y, q)'
      PROVE  x = y
  <2>1. CASE x \notin S /\ y \notin S
    BY <2>1, <1>8 DEF PayInv, CallMove, Holds
  <2>2. CASE x \in S /\ y \notin S
    BY <2>2, <1>8 DEF CallMove, Holds
  <2>3. CASE x \notin S /\ y \in S
    BY <2>3, <1>8 DEF CallMove, Holds
  <2>4. CASE x \in S /\ y \in S
    BY <2>4 DEF CallMove
  <2> QED BY <2>1, <2>2, <2>3, <2>4
<1>9. \A q \in receipts' : ReceiptSound(q)'
  BY <1>2 DEF CallMove
<1> QED BY <1>1, <1>3, <1>6, <1>7, <1>8, <1>9 DEF PayInv

-----------------------------------------------------------------------------
(* The steps that are no payment's: panel, customer, sweeper. *)

\* A step that leaves the orders alone moves no order backwards.
LEMMA OrdersStay ==
  ASSUME UNCHANGED order PROVE OrdersMove
BY DEF OrdersMove, Placed, Confirmed

\* No actor but a payment confirms an order, and none makes it wait again.
LEMMA PolicyPanel ==
  ASSUME NEW actor \in Actors \ {"payment"}, NEW from,
         NEW to \in AllowedStatusTransitions(actor, from)
  PROVE  /\ to # "pendente_pagamento"
         /\ to \in Confirmed => from \in Confirmed
BY DEF AllowedStatusTransitions, AllowedByAdmin, Actors, Confirmed

\* A step of the orders alone, in which no panel request starts.
LEMMA PanelQuiet ==
  ASSUME IInv, PayInv, UNCHANGED payVars, OrdersMove,
         \A c \in Calls : req'[c] = req[c],
         \A r \in Requests \ Calls : req'[r] = req[r] \/ req'[r] = Idle
  PROVE  PayInv'
<1>1. pay' = pay /\ receipts' = receipts
  BY DEF payVars
<1>2. ASSUME NEW r \in Requests \ Calls PROVE PanelSound(r)'
  <2>1. PanelSound(r)
    BY DEF PayInv
  <2> QED BY <1>1, <2>1 DEF PanelSound, HasReceipt
<1> QED BY <1>2, PanelMove

\* A request that is applied moves its order to where it may go.
LEMMA PanelApplies ==
  ASSUME IInv, PayInv, UNCHANGED payVars, NEW r \in Requests \ Calls, Locked(r),
         \/ UNCHANGED order
         \/ order'[req[r].order].status = req[r].to
            /\ \A x \in Orders \ {req[r].order} : order'[x] = order[x]
  PROVE  PayInv'
<1>1. /\ req \in [Requests -> RequestState]
      /\ req' = [req EXCEPT ![r] = Idle]
      /\ req[r] # Idle
  BY DEF IInv, TypeOK, Locked
<1>2. /\ \A c \in Calls : req'[c] = req[c]
      /\ \A x \in Requests \ Calls : req'[x] = req[x] \/ req'[x] = Idle
  BY <1>1, PaymentsAssumption
<1>3. OrdersMove
  <2>1. CASE UNCHANGED order
    BY <2>1, OrdersStay
  <2>2. CASE /\ order'[req[r].order].status = req[r].to
             /\ \A x \in Orders \ {req[r].order} : order'[x] = order[x]
    <3>1. PICK o : o = req[r].order
      OBVIOUS
    <3>2. PICK to : to = req[r].to
      OBVIOUS
    <3>3. o \in Orders /\ to \in Status
      BY <1>1, <3>1, <3>2 DEF IInv, RequestsSound
    <3>4. PanelSound(r)
      BY DEF PayInv
    <3>5. /\ to # "pendente_pagamento"
          /\ to \in Confirmed => HasReceipt(o)
      BY <1>1, <3>1, <3>2, <3>4 DEF PanelSound
    <3>6. HasReceipt(o) => HasReceipt(o)'
      BY DEF payVars, HasReceipt
    <3> QED BY <2>2, <3>1, <3>2, <3>3, <3>5, <3>6 DEF OrdersMove, Placed, Status, Confirmed
  <2> QED BY <2>1, <2>2
<1> QED BY <1>2, <1>3, PanelQuiet

\* An expiry moves no order backwards and confirms none.
LEMMA ReleaseMoves ==
  ASSUME IInv, NEW o \in Orders, ReleaseExpiredPendingOrder(o) PROVE OrdersMove
<1>1. order \in [Orders -> OrderRow]
  BY DEF IInv, TypeOK
<1>2. CASE order[o].status = "pendente_pagamento" /\ ~order[o].released
  <2>1. order' = [order EXCEPT ![o].status = "cancelado", ![o].released = TRUE]
    BY <1>2 DEF ReleaseExpiredPendingOrder, ReleaseAndCancel
  <2>2. /\ order'[o].status = "cancelado"
        /\ \A x \in Orders \ {o} : order'[x] = order[x]
    BY <1>1, <2>1 DEF OrderRow
  <2> QED BY <2>2 DEF OrdersMove, Placed, Confirmed
<1>3. CASE ~(order[o].status = "pendente_pagamento" /\ ~order[o].released)
  BY <1>3, OrdersStay DEF ReleaseExpiredPendingOrder
<1> QED BY <1>2, <1>3

\* Every step the orders take without a payment.
LEMMA PanelStep ==
  ASSUME IInv, PayInv, LifecycleStep PROVE PayInv'
<1> USE DEF LifecycleStep
<1>1. /\ order \in [Orders -> OrderRow] /\ req \in [Requests -> RequestState]
      /\ UNCHANGED payVars
  BY DEF IInv, TypeOK
<1>2. ASSUME NEW o \in Orders, NEW b \in Baskets, CreateOrder(o, b) PROVE PayInv'
  <2>1. OrdersMove
    BY <1>1, <1>2 DEF CreateOrder, OrdersMove, Placed, Confirmed
  <2> QED BY <1>1, <1>2, <2>1, PanelQuiet DEF CreateOrder
<1>3. ASSUME NEW r \in Requests \ Calls, NEW o \in Orders, NEW actor \in Actors \ {"payment"},
             NEW to \in Status, ReadStatus(r, o, actor, to)
      PROVE  PayInv'
  <2>1. /\ UNCHANGED order
        /\ req' = [req EXCEPT ![r] = [order |-> o, from |-> order[o].status, to |-> to]]
        /\ to \in AllowedStatusTransitions(actor, order[o].status)
    BY <1>3 DEF ReadStatus
  <2>2. \A x \in Requests \ {r} : req'[x] = req[x]
    BY <1>1, <2>1
  <2>3. req'[r].order = o /\ req'[r].to = to
    BY <1>1, <2>1
  <2>4. /\ to # "pendente_pagamento"
        /\ to \in Confirmed => HasReceipt(o)
    BY <2>1, PolicyPanel DEF PayInv, ConfirmedIsPaid, Confirmed, HasReceipt
  <2>5. ASSUME NEW x \in Requests \ Calls PROVE PanelSound(x)'
    <3>1. PanelSound(x) /\ pay' = pay /\ receipts' = receipts
      BY <1>1 DEF PayInv, payVars
    <3> QED BY <2>2, <2>3, <2>4, <3>1 DEF PanelSound, HasReceipt
  <2> QED BY <1>1, <2>1, <2>2, <2>5, OrdersStay, PanelMove, PaymentsAssumption
<1>4. ASSUME NEW r \in Requests \ Calls,
             ApplyNothing(r) \/ ApplyPronto(r) \/ ApplyCancel(r) \/ ApplyPlain(r) \/ AbortRequest(r)
      PROVE  PayInv'
  <2>1. Locked(r) /\ req[r].order \in Orders
    BY <1>4 DEF ApplyNothing, ApplyPronto, ApplyCancel, ApplyPlain, AbortRequest, Locked,
                IInv, RequestsSound
  <2>2. CASE ApplyNothing(r) \/ AbortRequest(r)
    BY <1>1, <2>1, <2>2, PanelApplies DEF ApplyNothing, AbortRequest
  <2>3. CASE ApplyPronto(r)
    BY <1>1, <2>1, <2>3, PanelApplies DEF ApplyPronto, SetStatus, OrderRow
  <2>4. CASE ApplyCancel(r)
    BY <1>1, <2>1, <2>4, PanelApplies DEF ApplyCancel, SetStatus, ReleaseAndCancel, OrderRow
  <2>5. CASE ApplyPlain(r)
    BY <1>1, <2>1, <2>5, PanelApplies DEF ApplyPlain, SetStatus, OrderRow
  <2> QED BY <1>4, <2>2, <2>3, <2>4, <2>5
<1>5. ASSUME NEW o \in Orders, TtlPasses(o) PROVE PayInv'
  BY <1>1, <1>5, OrdersStay, PanelQuiet DEF TtlPasses
<1>6. ASSUME NEW s \in Sweepers, Sweep(s) PROVE PayInv'
  <2>1. CASE ListExpired(s)
    BY <1>1, <2>1, OrdersStay, PanelQuiet DEF ListExpired
  <2>2. ASSUME NEW o \in Orders, SweepOne(s, o) PROVE PayInv'
    BY <1>1, <2>2, ReleaseMoves, PanelQuiet DEF SweepOne
  <2>3. ASSUME NEW o \in Orders, SweepOneFails(s, o) PROVE PayInv'
    BY <1>1, <2>3, OrdersStay, PanelQuiet DEF SweepOneFails
  <2> QED BY <1>6, <2>1, <2>2, <2>3 DEF Sweep
<1>7. ASSUME NEW p \in Products, NEW m \in Movements, AdjustStock(p, m) PROVE PayInv'
  BY <1>1, <1>7, OrdersStay, PanelQuiet DEF AdjustStock
<1> QED BY <1>2, <1>3, <1>4, <1>5, <1>6, <1>7

-----------------------------------------------------------------------------
(* The steps of a call that write no payment. *)

\* What a step has to show that moves one call and no payment row.
LEMMA CallOnly ==
  ASSUME IInv, PayInv, OrdersMove, NEW c \in Calls, NEW new \in CallState,
         UNCHANGED <<pay, charge, receipts>>,
         call' = [call EXCEPT ![c] = new],
         inbox' \in [Payments -> BOOLEAN],
         announced' \in [Payments -> Nat],
         reported' \subseteq Payments,
         \A r \in Requests \ {c} : req'[r] = req[r],
         new.pc \in Locking => \A d \in Calls \ {c} : ~Holds(d, new.pay),
         CallSound(c)'
  PROVE  PayInv'
<1>1. CallsTypeOK
  BY DEF PayInv
<1>2. CallsTypeOK' /\ call'[c] = new /\ \A d \in Calls \ {c} : call'[d] = call[d]
  BY <1>1 DEF CallsTypeOK
<1>3. CallMove({c}, NoPayment)
  BY <1>2, PaymentsAssumption DEF CallMove, Exists
<1>4. NoPayment \notin Payments /\ NoPayment \notin receipts'
  BY <1>1, PaymentsAssumption DEF CallsTypeOK
<1> QED BY <1>2, <1>3, <1>4, CallMoves

\* a row read from the table
LEMMA RowOf ==
  ASSUME PayInv, NEW p \in Payments, Exists(p)
  PROVE  pay[p] \in GoodRow /\ pay[p] \in PaymentRow /\ Placed(pay[p].order)
BY DEF PayInv, RowSound, CallsTypeOK

\* A payment nobody holds is held by no call.
LEMMA Unheld ==
  ASSUME NEW p, ~Held(p) PROVE \A d \in Calls : ~Holds(d, p)
BY DEF Held, Holds, Locking

\* The call that holds a payment holds it alone.
LEMMA HolderAlone ==
  ASSUME PayInv, NEW c \in Calls, call[c].pc \in Locking
  PROVE  /\ call[c].pay \in Payments
         /\ \A d \in Calls \ {c} : ~Holds(d, call[c].pay)
<1>1. call[c].pay \in Payments
  BY DEF PayInv, CallSound
<1> QED BY <1>1 DEF PayInv, Holds

\* The types of orders, requests and one call.
LEMMA CallTypes ==
  ASSUME IInv, PayInv, NEW c \in Calls
  PROVE  /\ order \in [Orders -> OrderRow] /\ req \in [Requests -> RequestState]
         /\ CallsTypeOK /\ CallSound(c) /\ call[c] \in CallState /\ c \in Requests
BY PaymentsAssumption DEF IInv, TypeOK, PayInv, CallsTypeOK

\* An idle call is a call.
LEMMA NoCallType == NoCall \in CallState
BY DEF NoCall, CallState, NoPaymentRow, PaymentRow

\* createPayment reads order and payments without a lock.
LEMMA ReadForPaymentStep ==
  ASSUME IInv, PayInv, NEW c \in Calls, NEW o \in Orders, NEW m \in Methods,
         ReadForPayment(c, o, m)
  PROVE  PayInv'
<1> DEFINE row == [order |-> o, method |-> m, status |-> "pending"]
           new == [NoCall EXCEPT !.pc = "creating", !.row = row]
<1>1. /\ call[c] = NoCall
      /\ order[o].status = "pendente_pagamento"
      /\ call' = [call EXCEPT ![c] = new]
      /\ UNCHANGED <<vars, pay, charge, inbox, receipts, announced, reported>>
  BY DEF ReadForPayment
<1>2. row \in GoodRow /\ row \in PaymentRow /\ row.order = o
  BY DEF GoodRow, PaymentRow, PagamentoStatus
<1> HIDE DEF row
<1>3. new \in CallState /\ new.pc = "creating" /\ new.row = row
  BY <1>2 DEF NoCall, CallState, NoPaymentRow
<1> HIDE DEF new
<1>4. CallsTypeOK /\ CallSound(c)
  BY CallTypes
<1>5. call'[c] = new
  BY <1>1, <1>4 DEF CallsTypeOK
<1>6. req'[c] = Idle /\ order' = order
  BY <1>1, <1>4 DEF CallSound, NoCall, vars
<1>7. CallSound(c)'
  BY <1>1, <1>2, <1>3, <1>5, <1>6 DEF CallSound, Placed, Locking, GoodRow
<1> QED BY <1>1, <1>3, <1>4, <1>7, OrdersStay, CallOnly DEF vars, Locking, CallsTypeOK

\* confirmPayment locks the payment row and tests for PAID.
LEMMA LockStep ==
  ASSUME IInv, PayInv, NEW c \in Calls, NEW p \in Payments, NEW seen \in ChargeStatus \cup {"none"},
         call[c].pc \notin {"applying"}, LockForConfirm(c, p, seen)
  PROVE  PayInv'
<1> DEFINE new == [pc |-> "confirming", pay |-> p, seen |-> seen, row |-> pay[p]]
<1>1. /\ Exists(p) /\ ~Held(p)
      /\ call' = [call EXCEPT ![c] = new]
      /\ UNCHANGED <<vars, pay, charge, inbox, receipts, announced, reported>>
  BY DEF LockForConfirm
<1>2. pay[p] \in GoodRow /\ pay[p] \in PaymentRow /\ Placed(pay[p].order)
  BY <1>1, RowOf
<1>3. new \in CallState /\ new.pc = "confirming" /\ new.row = pay[p] /\ new.pay = p
  BY <1>2 DEF CallState
<1> HIDE DEF new
<1>4. CallsTypeOK /\ CallSound(c)
  BY CallTypes
<1>5. call'[c] = new
  BY <1>1, <1>4 DEF CallsTypeOK
<1>6. req'[c] = Idle
  BY <1>1, <1>4 DEF CallSound, vars
<1>7. CallSound(c)'
  BY <1>1, <1>2, <1>3, <1>5, <1>6 DEF CallSound, Placed, Locking, Exists, vars
<1>8. \A d \in Calls \ {c} : ~Holds(d, new.pay)
  BY <1>1, <1>3, Unheld
<1> QED BY <1>1, <1>3, <1>4, <1>7, <1>8, OrdersStay, CallOnly DEF vars, CallsTypeOK

\* confirmPayment sees the order pending and calls updateStatus.
LEMMA SeePendingStep ==
  ASSUME IInv, PayInv, NEW c \in Calls, SeePending(c) PROVE PayInv'
<1> DEFINE new == [call[c] EXCEPT !.pc = "updating"]
<1>1. /\ call[c].pc = "confirming"
      /\ call' = [call EXCEPT ![c] = new]
      /\ UNCHANGED <<vars, pay, charge, inbox, receipts, announced, reported>>
  BY DEF SeePending, Goto
<1>2. CallsTypeOK /\ CallSound(c) /\ call[c] \in CallState
  BY CallTypes
<1>3. /\ new \in CallState /\ new.pc = "updating"
      /\ new.row = call[c].row /\ new.pay = call[c].pay
  BY <1>2 DEF CallState
<1> HIDE DEF new
<1>4. call'[c] = new
  BY <1>1, <1>2 DEF CallsTypeOK
<1>5. call[c].pay \notin receipts
  <2>1. order[OrderOf(c)].status = "pendente_pagamento"
    BY DEF SeePending
  <2>2. Exists(call[c].pay) => OrderOf(c) = pay[call[c].pay].order
    BY <1>1, <1>2 DEF CallSound, Locking, OrderOf
  <2> QED BY <2>1, <2>2 DEF PayInv, ReceiptSound
<1>6. CallSound(c)'
  BY <1>1, <1>2, <1>3, <1>4, <1>5 DEF CallSound, Placed, Locking, Exists, vars
<1>7. \A d \in Calls \ {c} : ~Holds(d, new.pay)
  BY <1>1, <1>3, HolderAlone DEF Locking
<1> QED BY <1>1, <1>2, <1>3, <1>6, <1>7, OrdersStay, CallOnly DEF vars, CallsTypeOK

\* updateStatus reads the order for the actor payment.
LEMMA UpdateReadsStep ==
  ASSUME IInv, PayInv, NEW c \in Calls, UpdateReads(c) PROVE PayInv'
<1> DEFINE new == [call[c] EXCEPT !.pc = "applying"]
<1>1. /\ call[c].pc = "updating"
      /\ call' = [call EXCEPT ![c] = new]
      /\ ReadStatus(c, OrderOf(c), "payment", "confirmado")
      /\ UNCHANGED <<pay, charge, inbox, receipts, announced, reported>>
  BY DEF UpdateReads, Goto
<1>2. /\ CallsTypeOK /\ CallSound(c) /\ call[c] \in CallState
      /\ req \in [Requests -> RequestState] /\ c \in Requests
  BY CallTypes
<1>3. /\ new \in CallState /\ new.pc = "applying"
      /\ new.row = call[c].row /\ new.pay = call[c].pay
  BY <1>2 DEF CallState
<1> HIDE DEF new
<1>4. call'[c] = new
  BY <1>1, <1>2 DEF CallsTypeOK
<1>5. order[OrderOf(c)].status = "pendente_pagamento"
  BY <1>1 DEF ReadStatus, AllowedStatusTransitions
<1>6. /\ order' = order
      /\ req' = [req EXCEPT ![c] = ToConfirm(OrderOf(c))]
  BY <1>1, <1>5 DEF ReadStatus, ToConfirm
<1>7. req'[c] = ToConfirm(new.row.order)
  BY <1>2, <1>3, <1>6 DEF OrderOf
<1>8. CallSound(c)'
  BY <1>1, <1>2, <1>3, <1>4, <1>6, <1>7 DEF CallSound, Placed, Locking, Exists, ToConfirm
<1>9. \A d \in Calls \ {c} : ~Holds(d, new.pay)
  BY <1>1, <1>3, HolderAlone DEF Locking
<1> QED BY <1>1, <1>2, <1>3, <1>6, <1>8, <1>9, OrdersStay, CallOnly DEF CallsTypeOK

\* A webhook delivery and the provider's answer.
LEMMA DeliverStep ==
  ASSUME IInv, PayInv, NEW c \in Calls, NEW p \in Payments, Deliver(c, p) PROVE PayInv'
<1> DEFINE new == [NoCall EXCEPT !.pc = "fetched", !.pay = p, !.seen = charge[p]]
<1>1. /\ call[c] = NoCall
      /\ charge[p] # "none"
      /\ call' = [call EXCEPT ![c] = new]
      /\ UNCHANGED <<vars, pay, charge, inbox, receipts, announced, reported>>
  BY DEF Deliver
<1>2. CallsTypeOK /\ CallSound(c)
  BY CallTypes
<1>3. charge[p] \in ChargeStatus
  BY <1>1, <1>2 DEF CallsTypeOK
<1>4. new \in CallState /\ new.pc = "fetched" /\ new.pay = p
  BY <1>3 DEF NoCall, CallState, NoPaymentRow, PaymentRow
<1> HIDE DEF new
<1>5. call'[c] = new
  BY <1>1, <1>2 DEF CallsTypeOK
<1>6. req'[c] = Idle
  BY <1>1, <1>2 DEF CallSound, NoCall, vars
<1>7. CallSound(c)'
  BY <1>4, <1>5, <1>6 DEF CallSound, Locking
<1> QED BY <1>1, <1>2, <1>4, <1>7, OrdersStay, CallOnly DEF vars, Locking, CallsTypeOK

\* the call ends and has written nothing
LEMMA QuitStep ==
  ASSUME IInv, PayInv, NEW c \in Calls, Done(c), UNCHANGED <<order, pay, charge, receipts>>,
         inbox' \in [Payments -> BOOLEAN], announced' \in [Payments -> Nat],
         reported' \subseteq Payments,
         \A r \in Requests \ {c} : req'[r] = req[r],
         req'[c] = Idle
  PROVE  PayInv'
<1>1. call' = [call EXCEPT ![c] = NoCall] /\ CallsTypeOK
  BY CallTypes DEF Done
<1>2. call'[c] = NoCall
  BY <1>1 DEF CallsTypeOK
<1>3. CallSound(c)'
  BY <1>2 DEF CallSound, NoCall, Locking
<1> QED BY <1>1, <1>3, NoCallType, OrdersStay, CallOnly DEF NoCall, Locking

\* An acknowledged delivery leaves the inbox typed.
LEMMA AcknowledgeType ==
  ASSUME CallsTypeOK, NEW c \in Calls, Acknowledge(c) PROVE inbox' \in [Payments -> BOOLEAN]
BY DEF Acknowledge, CallsTypeOK

\* A delivery that changes nothing.
LEMMA IgnoreStep ==
  ASSUME IInv, PayInv, NEW c \in Calls, Ignore(c) PROVE PayInv'
<1>1. CallsTypeOK /\ CallSound(c) /\ call[c].pc = "fetched"
  BY CallTypes DEF Ignore, Fetched
<1>2. Acknowledge(c) /\ Done(c) /\ UNCHANGED <<vars, pay, charge, receipts, announced, reported>>
  BY DEF Ignore
<1> QED BY <1>1, <1>2, AcknowledgeType, QuitStep DEF CallSound, CallsTypeOK, vars

\* aborting the locked part of updateStatus leaves the orders alone
LEMMA AbortQuits ==
  ASSUME IInv, NEW c \in Requests, AbortRequest(c)
  PROVE  /\ UNCHANGED order
         /\ req'[c] = Idle
         /\ \A r \in Requests \ {c} : req'[r] = req[r]
BY DEF AbortRequest, Locked, IInv, TypeOK

\* A transaction that rolls back writes no row.
LEMMA RollBackStep ==
  ASSUME IInv, PayInv, NEW c \in Calls, RollBack(c) PROVE PayInv'
<1>1. CallsTypeOK /\ CallSound(c) /\ c \in Requests
  BY CallTypes
<1>2. Done(c) /\ UNCHANGED <<pay, charge, inbox, receipts, announced, reported>>
  BY DEF RollBack
<1>3. CASE call[c].pc = "applying"
  BY <1>1, <1>2, <1>3, AbortQuits, QuitStep DEF RollBack, CallsTypeOK
<1>4. CASE call[c].pc # "applying"
  BY <1>1, <1>2, <1>4, QuitStep DEF RollBack, CallSound, CallsTypeOK, vars
<1> QED BY <1>3, <1>4

\* A commit that fails after its notices have left writes no row.
LEMMA CommitFailsStep ==
  ASSUME IInv, PayInv, NEW c \in Calls, CommitFails(c) PROVE PayInv'
<1>1. CallsTypeOK /\ CallSound(c) /\ c \in Requests
  BY CallTypes
<1>2. Done(c) /\ UNCHANGED <<pay, charge, inbox, receipts>>
  BY DEF CommitFails
<1>3. call[c].pay \in Payments
  BY HolderAlone DEF CommitFails, Locking
<1>4. announced' \in [Payments -> Nat] /\ reported' \subseteq Payments
  BY <1>1, <1>3 DEF CommitFails, Announce, CallsTypeOK
<1>5. CASE call[c].pc = "applying"
  BY <1>1, <1>2, <1>4, <1>5, AbortQuits, QuitStep DEF CommitFails, CallsTypeOK
<1>6. CASE call[c].pc # "applying"
  <2>1. UNCHANGED vars
    BY <1>6 DEF CommitFails
  <2> QED BY <1>1, <1>2, <1>4, <1>6, <2>1, QuitStep DEF CallSound, CallsTypeOK, vars
<1> QED BY <1>5, <1>6

\* The webhook of an expired charge releases the order first.
LEMMA ExpireOrderStep ==
  ASSUME IInv, PayInv, NEW c \in Calls, ExpireOrder(c) PROVE PayInv'
<1>1. PICK p : p = call[c].pay
  OBVIOUS
<1> DEFINE new == [call[c] EXCEPT !.pc = "failing", !.row = pay[p]]
<1>2. /\ call[c].pc = "fetched" /\ ~Held(p) /\ Exists(p)
      /\ call' = [call EXCEPT ![c].pc = "failing", ![c].row = pay[p]]
      /\ PixExpired(pay[p].order) \/ UNCHANGED vars
      /\ UNCHANGED <<pay, charge, inbox, receipts, announced, reported>>
  BY <1>1 DEF ExpireOrder, Fetched
<1>3. CallsTypeOK /\ CallSound(c) /\ call[c] \in CallState
  BY CallTypes
<1>4. p \in Payments
  BY <1>1, <1>2, <1>3 DEF CallSound
<1>5. pay[p] \in GoodRow /\ pay[p] \in PaymentRow /\ Placed(pay[p].order)
  BY <1>2, <1>4, RowOf
<1>6. /\ new \in CallState /\ new.pc = "failing" /\ new.row = pay[p] /\ new.pay = p
      /\ call' = [call EXCEPT ![c] = new]
  BY <1>1, <1>2, <1>3, <1>5 DEF CallState, CallsTypeOK
<1> HIDE DEF new
<1>7. call'[c] = new
  BY <1>3, <1>6 DEF CallsTypeOK
<1>8. OrdersMove /\ UNCHANGED req
  <2>1. CASE UNCHANGED vars
    BY <2>1, OrdersStay DEF vars
  <2>2. CASE PixExpired(pay[p].order)
    <3>1. pay[p].order \in Orders
      BY <1>5 DEF GoodRow
    <3> QED BY <2>2, <3>1, ReleaseMoves DEF PixExpired
  <2> QED BY <1>2, <2>1, <2>2
<1>9. order'[pay[p].order].status # "none"
  BY <1>5, <1>8 DEF OrdersMove, Placed, GoodRow
<1>10. CallSound(c)'
  BY <1>2, <1>3, <1>4, <1>5, <1>6, <1>7, <1>8, <1>9 DEF CallSound, Placed, Locking, Exists
<1>11. \A d \in Calls \ {c} : ~Holds(d, new.pay)
  BY <1>2, <1>6, Unheld
<1> QED BY <1>2, <1>3, <1>6, <1>8, <1>10, <1>11, CallOnly DEF CallsTypeOK

-----------------------------------------------------------------------------
(* The steps of a call that write its payment. *)

\* The holder of a payment writes the row it read, with another status.
LEMMA RecordStep ==
  ASSUME IInv, PayInv, OrdersMove, NEW c \in Calls, call[c].pc \in Locking,
         NEW status \in PagamentoStatus,
         Write(c, status), Done(c), UNCHANGED charge,
         inbox' \in [Payments -> BOOLEAN], announced' \in [Payments -> Nat],
         reported' \subseteq Payments,
         receipts \subseteq receipts', receipts' \subseteq receipts \cup {call[c].pay},
         call[c].pay \in receipts' => order'[OrderOf(c)].status # "pendente_pagamento",
         \A r \in Requests \ {c} : req'[r] = req[r],
         req'[c] = Idle
  PROVE  PayInv'
<1>1. CallsTypeOK /\ CallSound(c) /\ call[c] \in CallState
  BY CallTypes
<1>2. PICK p \in Payments : p = call[c].pay
  BY HolderAlone
<1>3. PICK row \in GoodRow : row = call[c].row
  BY <1>1 DEF CallSound
<1>4. /\ Placed(row.order)
      /\ Exists(p) => row.order = pay[p].order
      /\ \A d \in Calls \ {c} : ~Holds(d, p)
  BY <1>1, <1>2, <1>3, HolderAlone DEF CallSound
<1> DEFINE written == [row EXCEPT !.status = status]
<1>5. written \in GoodRow /\ written \in PaymentRow /\ written.order = row.order /\ written.status = status
  BY DEF GoodRow, PaymentRow
<1> HIDE DEF written
<1>6. pay' = [pay EXCEPT ![p] = written]
  BY <1>2, <1>3 DEF Write, written
<1>7. pay'[p] = written /\ \A q \in Payments \ {p} : pay'[q] = pay[q]
  BY <1>1, <1>6 DEF CallsTypeOK
<1>8. call'[c] = NoCall /\ \A d \in Calls \ {c} : call'[d] = call[d]
  BY <1>1 DEF Done, CallsTypeOK
<1>9. CallsTypeOK'
  BY <1>1, <1>2, <1>5, <1>6, NoCallType DEF CallsTypeOK, Done
<1>10. status # "none"
  BY DEF PagamentoStatus
<1>11. CallMove({c}, p)
  BY <1>2, <1>4, <1>5, <1>7, <1>8, <1>10, PaymentsAssumption
  DEF CallMove, Exists, NoCall, Locking
<1>12. CallSound(c)'
  BY <1>8 DEF CallSound, NoCall, Locking
<1>13. order'[row.order].status # "none"
  BY <1>4 DEF OrdersMove, Placed, GoodRow
<1>14. RowSound(p)' /\ (p \in receipts' => ReceiptSound(p)')
  BY <1>2, <1>3, <1>5, <1>7, <1>10, <1>13 DEF RowSound, ReceiptSound, Exists, GoodRow, Placed, OrderOf
<1> QED BY <1>9, <1>11, <1>12, <1>14, CallMoves

\* Money for an order that no longer waits is recorded as PAID.
LEMMA SettleOutsideStep ==
  ASSUME IInv, PayInv, NEW c \in Calls, SettleOutside(c) PROVE PayInv'
<1>1. /\ call[c].pc = "confirming" /\ RecordPaid(c) /\ UNCHANGED <<vars, announced>>
      /\ order[OrderOf(c)].status # "pendente_pagamento"
      /\ reported' \subseteq reported \cup {call[c].pay}
  BY DEF SettleOutside
<1>2. CallsTypeOK /\ CallSound(c) /\ call[c].pay \in Payments
  BY <1>1, CallTypes, HolderAlone DEF Locking
<1>3. inbox' \in [Payments -> BOOLEAN]
  BY <1>1, <1>2, AcknowledgeType DEF RecordPaid
<1>4. /\ UNCHANGED order /\ UNCHANGED req /\ req[c] = Idle
      /\ announced' \in [Payments -> Nat] /\ reported' \subseteq Payments
  BY <1>1, <1>2 DEF CallSound, CallsTypeOK, vars
<1> QED BY <1>1, <1>2, <1>3, <1>4, OrdersStay, RecordStep DEF RecordPaid, Locking, PagamentoStatus

\* Money for an order somebody else confirmed is recorded as PAID.
LEMMA AlreadyConfirmedStep ==
  ASSUME IInv, PayInv, NEW c \in Calls, AlreadyConfirmed(c) PROVE PayInv'
<1>1. /\ call[c].pc = "updating" /\ RecordPaid(c) /\ UNCHANGED <<vars, reported>>
      /\ order[OrderOf(c)].status = "confirmado" /\ Announce(c)
  BY DEF AlreadyConfirmed
<1>2. CallsTypeOK /\ CallSound(c) /\ call[c].pay \in Payments
  BY <1>1, CallTypes, HolderAlone DEF Locking
<1>3. inbox' \in [Payments -> BOOLEAN]
  BY <1>1, <1>2, AcknowledgeType DEF RecordPaid
<1>4. /\ UNCHANGED order /\ UNCHANGED req /\ req[c] = Idle
      /\ announced' \in [Payments -> Nat] /\ reported' \subseteq Payments
  BY <1>1, <1>2 DEF CallSound, CallsTypeOK, vars, Announce
<1> QED BY <1>1, <1>2, <1>3, <1>4, OrdersStay, RecordStep DEF RecordPaid, Locking, PagamentoStatus

\* The order becomes confirmado in the step that records its payment.
LEMMA ConfirmStep ==
  ASSUME IInv, PayInv, NEW c \in Calls, Confirm(c) PROVE PayInv'
<1>1. /\ call[c].pc = "applying" /\ RecordPaid(c) /\ Announce(c) /\ UNCHANGED reported
      /\ ApplyPlain(c) \/ ApplyNothing(c)
  BY DEF Confirm
<1>2. /\ CallsTypeOK /\ CallSound(c) /\ c \in Requests
      /\ order \in [Orders -> OrderRow] /\ req \in [Requests -> RequestState]
  BY CallTypes
<1>3. PICK p \in Payments : p = call[c].pay
  BY <1>1, HolderAlone DEF Locking
<1>4. PICK o \in Orders : o = call[c].row.order
  BY <1>1, <1>2 DEF CallSound, Locking, GoodRow
<1>5. inbox' \in [Payments -> BOOLEAN]
  BY <1>1, <1>2, AcknowledgeType DEF RecordPaid
<1>6. req[c] = ToConfirm(o) /\ req[c].order = o /\ req[c].to = "confirmado"
  BY <1>1, <1>2, <1>4 DEF CallSound, ToConfirm
<1>7. /\ req' = [req EXCEPT ![c] = Idle]
      /\ order'[o].status = "confirmado"
      /\ \A x \in Orders \ {o} : order'[x] = order[x]
  BY <1>1, <1>2, <1>6 DEF ApplyPlain, ApplyNothing, Locked, SetStatus, OrderRow
<1>8. p \in receipts' /\ pay'[p].order = o
  <2>1. pay' = [pay EXCEPT ![p] = [call[c].row EXCEPT !.status = "paid"]]
    BY <1>1, <1>3 DEF RecordPaid, Write
  <2>2. call[c].row \in GoodRow
    BY <1>1, <1>2 DEF CallSound, Locking
  <2>3. pay'[p].order = call[c].row.order
    BY <1>2, <2>1, <2>2 DEF CallsTypeOK, GoodRow
  <2> QED BY <1>1, <1>3, <1>4, <2>3 DEF RecordPaid
<1>9. OrdersMove
  BY <1>7, <1>8 DEF OrdersMove, HasReceipt, Placed, Confirmed
<1>10. announced' \in [Payments -> Nat] /\ reported' \subseteq Payments
  BY <1>1, <1>2, <1>3 DEF CallsTypeOK, Announce
<1>11. order'[OrderOf(c)].status # "pendente_pagamento"
  BY <1>4, <1>7 DEF OrderOf
<1> QED BY <1>1, <1>2, <1>5, <1>7, <1>9, <1>10, <1>11, RecordStep
        DEF RecordPaid, Locking, PagamentoStatus

\* The webhook of an expired charge then marks the payment failed.
LEMMA RecordFailedStep ==
  ASSUME IInv, PayInv, NEW c \in Calls, RecordFailed(c) PROVE PayInv'
<1>1. /\ call[c].pc = "failing" /\ Write(c, "failed") /\ Acknowledge(c) /\ Done(c)
      /\ UNCHANGED <<vars, charge, receipts, announced, reported>>
  BY DEF RecordFailed
<1>2. CallsTypeOK /\ CallSound(c)
  BY CallTypes
<1>3. inbox' \in [Payments -> BOOLEAN]
  BY <1>1, <1>2, AcknowledgeType
<1>4. /\ UNCHANGED order /\ UNCHANGED req /\ req[c] = Idle
      /\ announced' \in [Payments -> Nat] /\ reported' \subseteq Payments
  BY <1>1, <1>2 DEF CallSound, CallsTypeOK, vars
<1>5. call[c].pay \in receipts' => order'[OrderOf(c)].status # "pendente_pagamento"
  <2>1. call[c].pay \in receipts => ReceiptSound(call[c].pay)
    BY DEF PayInv
  <2>2. Exists(call[c].pay) => OrderOf(c) = pay[call[c].pay].order
    BY <1>1, <1>2 DEF CallSound, Locking, OrderOf
  <2> QED BY <1>1, <1>4, <2>1, <2>2 DEF ReceiptSound
<1> QED BY <1>1, <1>3, <1>4, <1>5, OrdersStay, RecordStep DEF Locking, PagamentoStatus

\* The webhook writes any other status as the provider told it.
LEMMA RecordOtherStep ==
  ASSUME IInv, PayInv, NEW c \in Calls, RecordOther(c) PROVE PayInv'
<1>1. CallsTypeOK /\ CallSound(c)
  BY CallTypes
<1>2. PICK p \in Payments : p = call[c].pay
  BY <1>1 DEF RecordOther, Fetched, CallSound
<1>3. PICK status \in PagamentoStatus : status = MapMercadoPagoStatus(call[c].seen)
  BY DEF MapMercadoPagoStatus, PagamentoStatus
<1>4. /\ call[c].pc = "fetched" /\ ~Held(p) /\ Exists(p)
      /\ pay' = [pay EXCEPT ![p].status = status]
      /\ Acknowledge(c) /\ Done(c)
      /\ UNCHANGED <<vars, charge, receipts, announced, reported>>
  BY <1>2, <1>3 DEF RecordOther, Fetched
<1>5. pay[p] \in GoodRow /\ Placed(pay[p].order)
  BY <1>4, RowOf
<1>6. PICK row \in GoodRow : row = [pay[p] EXCEPT !.status = status]
  BY <1>5 DEF GoodRow
<1>7. pay' = [pay EXCEPT ![p] = row]
  BY <1>1, <1>4, <1>6 DEF CallsTypeOK
<1>8. /\ row.order = pay[p].order /\ row.status # "none" /\ row \in PaymentRow
  BY <1>5, <1>6 DEF GoodRow, PaymentRow, PagamentoStatus
<1>9. pay'[p] = row /\ \A q \in Payments \ {p} : pay'[q] = pay[q]
  BY <1>1, <1>7 DEF CallsTypeOK
<1>10. call'[c] = NoCall /\ \A d \in Calls \ {c} : call'[d] = call[d]
  BY <1>1, <1>4 DEF Done, CallsTypeOK
<1>11. inbox' \in [Payments -> BOOLEAN]
  BY <1>1, <1>4, AcknowledgeType
<1>12. CallsTypeOK'
  BY <1>1, <1>4, <1>7, <1>8, <1>11, NoCallType DEF CallsTypeOK, Done
<1>13. order' = order /\ req' = req /\ charge' = charge /\ receipts' = receipts
  BY <1>4 DEF vars
<1>14. CallMove({c}, p)
  <2>1. Exists(p) /\ Exists(p)' /\ pay'[p].order = pay[p].order
    BY <1>4, <1>8, <1>9 DEF Exists
  <2> QED BY <1>9, <1>10, <1>13, <2>1 DEF CallMove, NoCall, Locking
<1>15. CallSound(c)'
  BY <1>1, <1>4, <1>10, <1>13 DEF CallSound, NoCall, Locking
<1>16. RowSound(p)' /\ (p \in receipts' => ReceiptSound(p)')
  BY <1>4, <1>5, <1>8, <1>9, <1>13 DEF RowSound, ReceiptSound, PayInv, Exists, Placed
<1> QED BY <1>12, <1>13, <1>14, <1>15, <1>16, OrdersStay, CallMoves

\* The row of a new charge: held while it is confirmed at once, else written.
LEMMA OpenChargeStep ==
  ASSUME IInv, PayInv, NEW c \in Calls, NEW p \in Payments, OpenCharge(c, p) PROVE PayInv'
<1>1. CallsTypeOK /\ CallSound(c) /\ call[c] \in CallState
  BY CallTypes
<1>2. call[c].row \in GoodRow /\ Placed(call[c].row.order)
  BY <1>1 DEF OpenCharge, CallSound
<1>3. PICK answer \in Answers(call[c].row.method) :
        LET row == [call[c].row EXCEPT !.status = RecordedAs(answer)] IN
        /\ charge' = [charge EXCEPT ![p] = answer]
        /\ inbox' = [inbox EXCEPT ![p] = answer # "none"]
        /\ IF answer = "approved"
           THEN /\ call' = [call EXCEPT ![c] = [pc |-> "confirming", pay |-> p,
                                                seen |-> "none", row |-> row]]
                /\ UNCHANGED pay
           ELSE /\ pay' = [pay EXCEPT ![p] = row]
                /\ Done(c)
  BY DEF OpenCharge
<1>4. answer \in ChargeStatus \cup {"none"} /\ RecordedAs(answer) \in PagamentoStatus
  BY DEF Answers, RecordedAs, ChargeStatus, PagamentoStatus
<1>5. PICK row \in GoodRow : /\ row = [call[c].row EXCEPT !.status = RecordedAs(answer)]
                             /\ row.order = call[c].row.order
  <2> DEFINE changed == [call[c].row EXCEPT !.status = RecordedAs(answer)]
  <2>1. changed \in GoodRow /\ changed.order = call[c].row.order
    BY <1>2, <1>4 DEF GoodRow
  <2> QED BY <2>1
<1>6. /\ row \in PaymentRow /\ row.status # "none" /\ Placed(row.order)
  BY <1>2, <1>5 DEF GoodRow, PaymentRow, PagamentoStatus
<1>7. /\ call[c].pc = "creating" /\ ~Exists(p) /\ charge[p] = "none"
      /\ UNCHANGED <<vars, receipts, announced, reported>>
  BY DEF OpenCharge
<1>8. ASSUME NEW d \in Calls PROVE ~Holds(d, p)
  <2>1. CallSound(d)
    BY DEF PayInv
  <2> QED BY <1>7, <2>1 DEF CallSound, Holds
<1>9. charge' = [charge EXCEPT ![p] = answer] /\ inbox' = [inbox EXCEPT ![p] = answer # "none"]
  BY <1>3
<1>10. p \notin receipts
  BY <1>7 DEF PayInv, ReceiptSound
<1>11. order' = order /\ req' = req /\ receipts' = receipts /\ req[c] = Idle
  BY <1>1, <1>7 DEF vars, CallSound
<1>12. CASE answer = "approved"
  <2> DEFINE new == [pc |-> "confirming", pay |-> p, seen |-> "none", row |-> row]
  <2>1. call' = [call EXCEPT ![c] = new] /\ pay' = pay
    BY <1>3, <1>5, <1>12
  <2>2. /\ new \in CallState /\ new.pc = "confirming" /\ new.row = row /\ new.pay = p
    BY <1>6 DEF CallState
  <2> HIDE DEF new
  <2>3. call'[c] = new /\ \A d \in Calls \ {c} : call'[d] = call[d]
    BY <1>1, <2>1 DEF CallsTypeOK
  <2>4. CallsTypeOK'
    BY <1>1, <1>4, <1>7, <1>9, <2>1, <2>2 DEF CallsTypeOK
  <2>5. charge'[p] = "approved" /\ \A q \in Payments \ {p} : charge'[q] = charge[q]
    BY <1>1, <1>9, <1>12 DEF CallsTypeOK
  <2>6. CallMove({c}, p)
    BY <1>7, <1>8, <1>11, <2>1, <2>2, <2>3, <2>5 DEF CallMove, Exists
  <2>7. CallSound(c)'
    BY <1>5, <1>6, <1>7, <1>11, <2>1, <2>2, <2>3, <2>5 DEF CallSound, Locking, Exists, Placed
  <2>8. RowSound(p)'
    BY <1>7, <2>1 DEF RowSound, Exists
  <2> QED BY <1>10, <1>11, <2>4, <2>6, <2>7, <2>8, OrdersStay, CallMoves
<1>13. CASE answer # "approved"
  <2>1. pay' = [pay EXCEPT ![p] = row] /\ Done(c)
    BY <1>3, <1>5, <1>13
  <2>2. pay'[p] = row /\ \A q \in Payments \ {p} : pay'[q] = pay[q]
    BY <1>1, <2>1 DEF CallsTypeOK
  <2>3. call'[c] = NoCall /\ \A d \in Calls \ {c} : call'[d] = call[d]
    BY <1>1, <2>1 DEF Done, CallsTypeOK
  <2>4. CallsTypeOK'
    BY <1>1, <1>4, <1>6, <1>7, <1>9, <2>1, NoCallType DEF CallsTypeOK, Done
  <2>5. \A q \in Payments \ {p} : charge'[q] = charge[q]
    BY <1>1, <1>9 DEF CallsTypeOK
  <2>6. CallMove({c}, p)
    BY <1>7, <1>8, <1>11, <2>2, <2>3, <2>5 DEF CallMove, Exists, NoCall, Locking
  <2>7. CallSound(c)'
    BY <1>11, <2>3 DEF CallSound, NoCall, Locking
  <2>8. RowSound(p)'
    BY <1>6, <1>11, <2>2 DEF RowSound, Placed
  <2> QED BY <1>10, <1>11, <2>4, <2>6, <2>7, <2>8, OrdersStay, CallMoves
<1> QED BY <1>12, <1>13

\* A counter sale is created with its paid payment.
LEMMA CreatePdvSaleStep ==
  ASSUME IInv, PayInv, NEW o \in Orders, NEW b \in Baskets, NEW p \in Payments,
         CreatePdvSale(o, b, p)
  PROVE  PayInv'
<1>1. CallsTypeOK /\ order \in [Orders -> OrderRow]
  BY DEF PayInv, IInv, TypeOK
<1>2. PICK m \in Methods :
        pay' = [pay EXCEPT ![p] = [order |-> o, method |-> m, status |-> "paid"]]
  BY DEF CreatePdvSale
<1>3. PICK row \in GoodRow : /\ row = [order |-> o, method |-> m, status |-> "paid"]
                             /\ row.order = o /\ row.status = "paid" /\ row \in PaymentRow
  <2> DEFINE sold == [order |-> o, method |-> m, status |-> "paid"]
  <2>1. sold \in GoodRow /\ sold.order = o /\ sold.status = "paid" /\ sold \in PaymentRow
    BY DEF GoodRow, PaymentRow, PagamentoStatus
  <2> QED BY <2>1
<1>4. /\ ~Exists(p) /\ charge[p] = "none" /\ CreatePdvOrder(o, b)
      /\ receipts' = receipts \cup {p}
      /\ UNCHANGED <<charge, inbox, call, announced, reported>>
  BY DEF CreatePdvSale
<1>5. pay'[p] = row /\ \A q \in Payments \ {p} : pay'[q] = pay[q]
  BY <1>1, <1>2, <1>3 DEF CallsTypeOK
<1>6. /\ ~Placed(o) /\ req' = req
      /\ order'[o].status = "entregue" /\ \A x \in Orders \ {o} : order'[x] = order[x]
  BY <1>1, <1>4 DEF CreatePdvOrder
<1>7. CallsTypeOK'
  BY <1>1, <1>2, <1>3, <1>4 DEF CallsTypeOK
<1>8. OrdersMove
  BY <1>3, <1>4, <1>5, <1>6 DEF OrdersMove, HasReceipt, Placed, Confirmed
<1>9. ASSUME NEW d \in Calls PROVE ~Holds(d, p)
  <2>1. CallSound(d)
    BY DEF PayInv
  <2> QED BY <1>4, <2>1 DEF CallSound, Holds
<1>10. CallMove({}, p)
  BY <1>4, <1>5, <1>6, <1>9 DEF CallMove, Exists
<1>11. RowSound(p)' /\ ReceiptSound(p)'
  BY <1>3, <1>5, <1>6 DEF RowSound, ReceiptSound, Exists, Placed
<1> QED BY <1>7, <1>8, <1>10, <1>11, CallMoves

\* the provider moves: no row, no call and no order does
LEMMA ProviderStep ==
  ASSUME IInv, PayInv, NEW p \in Payments, FetchFails(p) \/ ChargeMoves(p) PROVE PayInv'
<1>1. /\ UNCHANGED <<vars, pay, call, receipts, announced, reported>>
      /\ charge' = charge \/ \E s \in Moves(charge[p]) : charge' = [charge EXCEPT ![p] = s]
      /\ inbox' \in {[inbox EXCEPT ![p] = TRUE], [inbox EXCEPT ![p] = FALSE]}
  BY DEF FetchFails, ChargeMoves
<1>2. CallsTypeOK /\ RowSound(p) /\ (p \in receipts => ReceiptSound(p))
  BY DEF PayInv
<1>3. \A s \in Moves(charge[p]) : s \in ChargeStatus
  BY DEF Moves, ChargeStatus
<1>4. /\ CallsTypeOK'
      /\ \A q \in Payments \ {p} : charge'[q] = charge[q]
      /\ charge'[p] = charge[p] \/ charge'[p] \in ChargeStatus
  BY <1>1, <1>2, <1>3 DEF CallsTypeOK
<1>5. /\ pay' = pay /\ call' = call /\ req' = req /\ order' = order /\ receipts' = receipts
  BY <1>1 DEF vars
<1>6. CallMove({}, p)
  BY <1>4, <1>5 DEF CallMove, Exists, ChargeStatus
<1>7. RowSound(p)' /\ (p \in receipts' => ReceiptSound(p)')
  BY <1>2, <1>5 DEF RowSound, ReceiptSound, Exists, Placed
<1> QED BY <1>4, <1>5, <1>6, <1>7, OrdersStay, CallMoves

-----------------------------------------------------------------------------
(* Putting the steps together. *)

\* The program starts in the invariant.
LEMMA StartsSound == PaymentsInit => Init /\ PayInv
<1> SUFFICES ASSUME PaymentsInit PROVE PayInv
  BY DEF PaymentsInit
<1> USE DEF PaymentsInit
<1>1. Init /\ order = [o \in Orders |-> NoRow] /\ req = [r \in Requests |-> Idle]
  BY DEF Init
<1>2. CallsTypeOK
  BY NoCallType DEF CallsTypeOK, NoPaymentRow, PaymentRow
<1>3. \A p \in Payments : RowSound(p)
  BY DEF RowSound, Exists, NoPaymentRow
<1>4. \A c \in Calls : CallSound(c) /\ call[c].pc = "idle"
  BY <1>1, PaymentsAssumption DEF CallSound, NoCall, Locking
<1>5. \A r \in Requests \ Calls : PanelSound(r)
  BY <1>1 DEF PanelSound
<1>6. ConfirmedIsPaid
  BY <1>1 DEF ConfirmedIsPaid, NoRow
<1> QED BY <1>2, <1>3, <1>4, <1>5, <1>6 DEF PayInv, Holds, Locking

\* Every step of a call keeps the invariant.
LEMMA CallStep ==
  ASSUME IInv, PayInv, NEW c \in Calls,
         \/ CreatePayment(c) \/ ConfirmPayment(c) \/ HandleMercadoPagoWebhook(c)
         \/ RollBack(c) \/ CommitFails(c)
  PROVE  PayInv'
<1>1. CASE CreatePayment(c)
  BY <1>1, ReadForPaymentStep, OpenChargeStep DEF CreatePayment
<1>2. ASSUME NEW p \in Payments, ManualConfirm(c, p) PROVE PayInv'
  BY <1>2, LockStep DEF ManualConfirm, NoCall
<1>3. CASE ConfirmPayment(c)
  BY <1>2, <1>3, SeePendingStep, SettleOutsideStep, UpdateReadsStep, AlreadyConfirmedStep,
     ConfirmStep DEF ConfirmPayment
<1>4. ASSUME BeginConfirm(c) PROVE PayInv'
  <2>1. CallSound(c)
    BY DEF PayInv
  <2>2. call[c].pc = "fetched" /\ call[c].pay \in Payments
    BY <1>4, <2>1 DEF BeginConfirm, Fetched, CallSound
  <2> QED BY <1>4, <2>2, LockStep DEF BeginConfirm, ChargeStatus
<1>5. CASE HandleMercadoPagoWebhook(c)
  BY <1>4, <1>5, DeliverStep, IgnoreStep, ExpireOrderStep, RecordFailedStep, RecordOtherStep
  DEF HandleMercadoPagoWebhook
<1>6. CASE RollBack(c) \/ CommitFails(c)
  BY <1>6, RollBackStep, CommitFailsStep
<1> QED BY <1>1, <1>3, <1>5, <1>6

\* Every step of the payments is one of the orders, or leaves them alone: the
\* order a call works on is one of Orders.
LEMMA PaymentsStepsOrders == IInv /\ PayInv /\ [PaymentsNext]_paymentsVars => [Next]_vars
<1> SUFFICES ASSUME IInv, PayInv, [PaymentsNext]_paymentsVars PROVE Next \/ UNCHANGED vars
  OBVIOUS
<1>1. CASE LifecycleStep
  BY <1>1, LifecycleIsOrders
<1>2. CASE \E o \in Orders, b \in Baskets, p \in Payments : CreatePdvSale(o, b, p)
  BY <1>2 DEF CreatePdvSale, Next
<1>3. ASSUME NEW c \in Calls, CreatePayment(c) PROVE UNCHANGED vars
  BY <1>3 DEF CreatePayment, ReadForPayment, OpenCharge
<1>4. ASSUME NEW c \in Calls, ConfirmPayment(c) PROVE Next \/ UNCHANGED vars
  <2>1. CallSound(c) /\ c \in Requests
    BY CallTypes
  <2>2. CASE UpdateReads(c)
    <3>1. OrderOf(c) \in Orders /\ ReadStatus(c, OrderOf(c), "payment", "confirmado")
      BY <2>1, <2>2 DEF UpdateReads, CallSound, Locking, GoodRow, OrderOf
    <3> QED BY <2>1, <3>1 DEF Next, UpdateStatus, Actors, Status
  <2>3. CASE Confirm(c)
    BY <2>1, <2>3 DEF Confirm, Next, UpdateStatus
  <2>4. CASE ~UpdateReads(c) /\ ~Confirm(c)
    BY <1>4, <2>4 DEF ConfirmPayment, ManualConfirm, LockForConfirm, SeePending,
                      SettleOutside, AlreadyConfirmed
  <2> QED BY <2>2, <2>3, <2>4
<1>5. ASSUME NEW c \in Calls, HandleMercadoPagoWebhook(c) PROVE Next \/ UNCHANGED vars
  <2>1. CASE ExpireOrder(c)
    <3>1. CallSound(c)
      BY DEF PayInv
    <3>2. PICK p \in Payments : p = call[c].pay
      BY <2>1, <3>1 DEF ExpireOrder, Fetched, CallSound
    <3>3. Exists(p) /\ (PixExpired(pay[p].order) \/ UNCHANGED vars)
      BY <2>1, <3>2 DEF ExpireOrder
    <3>4. pay[p].order \in Orders
      BY <3>3, RowOf DEF GoodRow
    <3> QED BY <3>3, <3>4 DEF Next
  <2>2. CASE ~ExpireOrder(c)
    BY <1>5, <2>2 DEF HandleMercadoPagoWebhook, Deliver, Ignore, BeginConfirm, LockForConfirm,
                      RecordFailed, RecordOther
  <2> QED BY <2>1, <2>2
<1>6. ASSUME NEW c \in Calls, RollBack(c) \/ CommitFails(c) PROVE Next \/ UNCHANGED vars
  BY <1>6, PaymentsAssumption DEF RollBack, CommitFails, Next, UpdateStatus
<1>7. CASE \E p \in Payments : FetchFails(p) \/ ChargeMoves(p)
  BY <1>7 DEF FetchFails, ChargeMoves
<1>8. CASE UNCHANGED paymentsVars
  BY <1>8 DEF paymentsVars
<1> QED BY <1>1, <1>2, <1>3, <1>4, <1>5, <1>6, <1>7, <1>8 DEF PaymentsNext

\* Every step keeps the invariant of the payments.
LEMMA PaymentsStep == IInv /\ PayInv /\ [PaymentsNext]_paymentsVars => PayInv'
<1> SUFFICES ASSUME IInv, PayInv, [PaymentsNext]_paymentsVars PROVE PayInv'
  OBVIOUS
<1>1. CASE LifecycleStep
  BY <1>1, PanelStep
<1>2. CASE \E o \in Orders, b \in Baskets, p \in Payments : CreatePdvSale(o, b, p)
  BY <1>2, CreatePdvSaleStep
<1>3. CASE \E c \in Calls : \/ CreatePayment(c) \/ ConfirmPayment(c)
                            \/ HandleMercadoPagoWebhook(c)
                            \/ RollBack(c) \/ CommitFails(c)
  BY <1>3, CallStep
<1>4. CASE \E p \in Payments : FetchFails(p) \/ ChargeMoves(p)
  BY <1>4, ProviderStep
<1>5. CASE UNCHANGED paymentsVars
  BY <1>5, OrdersStay, PanelQuiet DEF paymentsVars, vars
<1> QED BY <1>1, <1>2, <1>3, <1>4, <1>5 DEF PaymentsNext

\* Who announces holds the payment and saw its order pending, which no recorded
\* payment's order is.
LEMMA AnnounceStep ==
  ASSUME IInv, PayInv, [PaymentsNext]_paymentsVars, NEW p \in Payments,
         announced'[p] > announced[p]
  PROVE  p \notin receipts
<1>1. announced' # announced /\ announced \in [Payments -> Nat]
  BY DEF PayInv, CallsTypeOK
<1>2. PICK c \in Calls : AlreadyConfirmed(c) \/ Confirm(c) \/ CommitFails(c)
  BY <1>1
  DEF PaymentsNext, LifecycleStep, payVars, paymentsVars, CreatePdvSale, CreatePayment,
      ReadForPayment, OpenCharge, ConfirmPayment, ManualConfirm, LockForConfirm, SeePending,
      SettleOutside, UpdateReads, HandleMercadoPagoWebhook, Deliver, Ignore, BeginConfirm,
      ExpireOrder, RecordFailed, RecordOther, RollBack, FetchFails, ChargeMoves
<1>3. call[c].pc \in {"updating", "applying"} /\ Announce(c)
  BY <1>1, <1>2 DEF AlreadyConfirmed, Confirm, CommitFails
<1>4. p = call[c].pay
  BY <1>1, <1>3 DEF Announce
<1> QED BY <1>3, <1>4 DEF PayInv, CallSound

-----------------------------------------------------------------------------
\* Orders and stock go through payments as through any other step: everything
\* proved of Orders is true with payments, and not only on the small instance.
THEOREM ImplementsOrders == PaymentsSpec => LifecycleContract
<1>1. PaymentsInit => Init
  BY DEF PaymentsInit
<1>2. IInv /\ PayInv /\ [PaymentsNext]_paymentsVars => [Next]_vars
  BY PaymentsStepsOrders
<1>3. IInv /\ PayInv /\ [PaymentsNext]_paymentsVars => IInv' /\ PayInv'
  BY <1>2, NextStep, PaymentsStep DEF Keeps
<1>4. PaymentsInit => IInv /\ PayInv
  BY StartsSound, InitStep
<1> QED BY <1>1, <1>2, <1>3, <1>4, PTL DEF PaymentsSpec, LifecycleContract, Spec

\* Both invariants, together.
THEOREM PaymentsInductive == PaymentsSpec => [](IInv /\ PayInv)
<1>1. IInv /\ PayInv /\ [PaymentsNext]_paymentsVars => IInv' /\ PayInv'
  BY PaymentsStepsOrders, NextStep, PaymentsStep DEF Keeps
<1>2. PaymentsInit => IInv /\ PayInv
  BY StartsSound, InitStep
<1> QED BY <1>1, <1>2, PTL DEF PaymentsSpec

\* Type correctness of the payments and of what they share with the orders.
THEOREM PaymentsTypeCorrect == PaymentsSpec => []PaymentsTypeOK
<1>1. IInv /\ PayInv => PaymentsTypeOK
  BY DEF IInv, PayInv, CallsTypeOK, PaymentsTypeOK
<1> QED BY <1>1, PaymentsInductive, PTL

\* No order that was paid is left waiting for its payment, where the sweeper
\* would cancel it.
THEOREM PaidIsNotPending == PaymentsSpec => []PaidNotPending
<1>1. PayInv => PaidNotPending
  BY DEF PayInv, ReceiptSound, PaidNotPending
<1> QED BY <1>1, PaymentsInductive, PTL

\* Nothing is prepared, ready or delivered unless it was paid once, whatever
\* panel and customer request meanwhile.
THEOREM NothingPreparedUnpaid == PaymentsSpec => []ConfirmedIsPaid
<1>1. PayInv => ConfirmedIsPaid
  BY DEF PayInv
<1> QED BY <1>1, PaymentsInductive, PTL

\* A recorded payment is not announced again, however often it is delivered,
\* confirmed by hand or put back by a late answer.
THEOREM AnnouncedNoMore == PaymentsSpec => NotAnnouncedAgain
<1>1. IInv /\ PayInv /\ [PaymentsNext]_paymentsVars
        => [\A p \in Payments : announced'[p] > announced[p] => p \notin receipts]_paymentsVars
  BY AnnounceStep
<1> QED BY <1>1, PaymentsInductive, PTL DEF PaymentsSpec, NotAnnouncedAgain

-----------------------------------------------------------------------------
(* Money for cancelled orders.  An order that is being prepared was announced *)
(* to its customer once, and a delivered one can be cancelled only by a       *)
(* request that read it before its delivery, when it was announced already:   *)
(* money that is recorded without a report to the merchant has an order that  *)
(* is not cancelled, or was announced.                                        *)

OnTheWay == {"confirmado", "em_producao", "pronto", "em_transito"}

Told(o) == \E q \in Payments : Exists(q) /\ pay[q].order = o /\ announced[q] > 0

Settled(p) == \/ p \in reported \/ Told(pay[p].order)
              \/ order[pay[p].order].status # "cancelado"

\* A panel request that moves an order on saw it on the way; one that cancels
\* a delivered order saw it earlier, on the way or pending.
PanelTold(r) ==
  req[r] # Idle =>
    /\ req[r].to \in OnTheWay \cup {"entregue"} => Told(req[r].order)
    /\ req[r].to = "cancelado" /\ order[req[r].order].status = "entregue" => Told(req[r].order)

FlagInv ==
  /\ \A o \in Orders : order[o].status \in OnTheWay => Told(o)
  /\ \A r \in Requests \ Calls : PanelTold(r)
  /\ \A p \in receipts : Settled(p)

\* What a step may do to an order nobody was told of.
FlagMove ==
  \A o \in Orders :
    \/ order'[o].status = order[o].status
    \/ Told(o)'
    \/ /\ order'[o].status = "cancelado"
       /\ order[o].status \in {"pendente_pagamento"} \cup OnTheWay
    \/ ~Placed(o) /\ order'[o].status \in {"pendente_pagamento", "entregue"}

\* What every step leaves of the payments.
PayKeeps ==
  \A q \in Payments :
    Exists(q) => /\ Exists(q)' /\ pay'[q].order = pay[q].order
                 /\ announced[q] > 0 => announced'[q] > 0

\* What a step has to show for the money of cancelled orders.
LEMMA FlagMoves ==
  ASSUME IInv, PayInv, FlagInv, FlagMove, PayKeeps,
         reported \subseteq reported', receipts \subseteq receipts',
         \A p \in receipts' \ receipts : Settled(p)',
         \A r \in Requests \ Calls : req'[r] = req[r] \/ req'[r] = Idle \/ PanelTold(r)'
  PROVE  FlagInv'
<1>1. ASSUME NEW o, Told(o) PROVE Told(o)'
  <2>1. PICK q \in Payments : Exists(q) /\ pay[q].order = o /\ announced[q] > 0
    BY <1>1 DEF Told
  <2>2. Exists(q)' /\ pay'[q].order = o /\ announced'[q] > 0
    BY <2>1 DEF PayKeeps
  <2> QED BY <2>2 DEF Told
<1>2. ASSUME NEW o \in Orders, order'[o].status \in OnTheWay PROVE Told(o)'
  BY <1>1, <1>2 DEF FlagInv, FlagMove, OnTheWay
<1>3. ASSUME NEW r \in Requests \ Calls PROVE PanelTold(r)'
  <2>1. CASE req'[r] = req[r] /\ req[r] # Idle
    <3>1. PICK o \in Orders : o = req[r].order /\ Placed(o)
      BY <2>1 DEF IInv, RequestsSound
    <3>2. PICK to : to = req[r].to
      OBVIOUS
    <3>3. /\ to \in OnTheWay \cup {"entregue"} => Told(o)
          /\ to = "cancelado" /\ order[o].status = "entregue" => Told(o)
      BY <2>1, <3>1, <3>2 DEF FlagInv, PanelTold
    <3>4. to = "cancelado" /\ order'[o].status = "entregue" => Told(o)'
      BY <1>1, <3>1, <3>3 DEF FlagMove
    <3>5. to \in OnTheWay \cup {"entregue"} => Told(o)'
      BY <1>1, <3>3
    <3> QED BY <2>1, <3>1, <3>2, <3>4, <3>5 DEF PanelTold
  <2>2. CASE req'[r] = Idle
    BY <2>2 DEF PanelTold
  <2>3. CASE req'[r] = req[r] /\ req[r] = Idle
    BY <2>3 DEF PanelTold
  <2> QED BY <2>1, <2>2, <2>3
<1>4. ASSUME NEW p \in receipts PROVE Settled(p)'
  <2>1. p \in Payments /\ ReceiptSound(p) /\ RowSound(p) /\ Settled(p)
    BY DEF PayInv, CallsTypeOK, FlagInv
  <2>2. PICK o \in Orders : o = pay[p].order /\ pay'[p].order = o /\ Placed(o)
    BY <2>1 DEF ReceiptSound, RowSound, GoodRow, PayKeeps
  <2>3. order[o].status # "pendente_pagamento" /\ (order[o].status \in OnTheWay => Told(o))
    BY <2>1, <2>2 DEF ReceiptSound, FlagInv
  <2>4. p \in reported \/ Told(o) \/ order[o].status # "cancelado"
    BY <2>1, <2>2 DEF Settled
  <2>5. p \in reported' \/ Told(o)' \/ order'[o].status # "cancelado"
    BY <1>1, <2>2, <2>3, <2>4 DEF FlagMove
  <2> QED BY <2>2, <2>5 DEF Settled
<1>5. \A p \in receipts' : Settled(p)'
  BY <1>4
<1> QED BY <1>2, <1>3, <1>5 DEF FlagInv

\* The orders stay, no payment is written, and nothing new is recorded.
LEMMA FlagQuiet ==
  ASSUME IInv, PayInv, FlagInv, UNCHANGED <<order, pay, receipts>>,
         \A q \in Payments : announced[q] > 0 => announced'[q] > 0,
         reported \subseteq reported',
         \A r \in Requests \ Calls : req'[r] = req[r] \/ req'[r] = Idle
  PROVE  FlagInv'
<1>1. FlagMove /\ PayKeeps
  BY DEF FlagMove, PayKeeps, Exists
<1> QED BY <1>1, FlagMoves

\* The orders or the panel move, no payment does.
LEMMA FlagOrders ==
  ASSUME IInv, PayInv, FlagInv, FlagMove, UNCHANGED payVars,
         \A r \in Requests \ Calls : req'[r] = req[r] \/ req'[r] = Idle \/ PanelTold(r)'
  PROVE  FlagInv'
<1>1. pay' = pay /\ announced' = announced /\ receipts' = receipts /\ reported' = reported
  BY DEF payVars
<1>2. PayKeeps
  BY <1>1 DEF PayKeeps, Exists
<1> QED BY <1>1, <1>2, FlagMoves

\* A release cancels a pending order or does nothing.
LEMMA ReleaseFlags ==
  ASSUME IInv, NEW o \in Orders, ReleaseExpiredPendingOrder(o) PROVE FlagMove
<1>1. order \in [Orders -> OrderRow]
  BY DEF IInv, TypeOK
<1>2. CASE order[o].status = "pendente_pagamento" /\ ~order[o].released
  <2>1. order' = [order EXCEPT ![o].status = "cancelado", ![o].released = TRUE]
    BY <1>2 DEF ReleaseExpiredPendingOrder, ReleaseAndCancel
  <2>2. /\ order'[o].status = "cancelado"
        /\ \A x \in Orders \ {o} : order'[x] = order[x]
    BY <1>1, <2>1 DEF OrderRow
  <2> QED BY <1>2, <2>2 DEF FlagMove
<1>3. CASE ~(order[o].status = "pendente_pagamento" /\ ~order[o].released)
  BY <1>3 DEF ReleaseExpiredPendingOrder, FlagMove
<1> QED BY <1>2, <1>3

\* What the policy lets the panel and the customer ask for.
LEMMA PolicyTold ==
  ASSUME NEW actor \in Actors \ {"payment"}, NEW from,
         NEW to \in AllowedStatusTransitions(actor, from)
  PROVE  /\ to \in OnTheWay \cup {"entregue"} => from \in OnTheWay
         /\ to = "cancelado" => from # "entregue"
         /\ to \in OnTheWay \cup {"entregue", "cancelado"}
BY DEF AllowedStatusTransitions, AllowedByAdmin, Actors, OnTheWay

\* A request that is applied moves an order that was told of, or cancels one.
LEMMA PanelFlags ==
  ASSUME IInv, PayInv, FlagInv, UNCHANGED payVars, NEW r \in Requests \ Calls, Locked(r),
         \/ UNCHANGED order
         \/ order'[req[r].order].status = req[r].to
            /\ \A x \in Orders \ {req[r].order} : order'[x] = order[x]
  PROVE  FlagInv'
<1>1. /\ req \in [Requests -> RequestState] /\ order \in [Orders -> OrderRow]
      /\ req' = [req EXCEPT ![r] = Idle] /\ req[r] # Idle
  BY DEF IInv, TypeOK, Locked
<1>2. \A x \in Requests : req'[x] = req[x] \/ req'[x] = Idle
  BY <1>1
<1>3. CASE UNCHANGED order
  BY <1>2, <1>3, FlagOrders DEF FlagMove
<1>4. CASE /\ order'[req[r].order].status = req[r].to
           /\ \A x \in Orders \ {req[r].order} : order'[x] = order[x]
  <2>1. PICK o \in Orders : o = req[r].order /\ Placed(o)
    BY <1>1 DEF IInv, RequestsSound
  <2>2. PICK to \in Status : to = req[r].to
    BY <1>1 DEF IInv, RequestsSound
  <2>3. to # "pendente_pagamento"
    BY <1>1, <2>2 DEF PayInv, PanelSound
  <2>4. /\ to \in OnTheWay \cup {"entregue"} => Told(o)
        /\ to = "cancelado" /\ order[o].status = "entregue" => Told(o)
    BY <1>1, <2>1, <2>2 DEF FlagInv, PanelTold
  <2>5. Told(o) => Told(o)'
    BY DEF payVars, Told, Exists
  <2>6. order[o].status \in Status
    BY <1>1, <2>1 DEF OrderRow, Placed
  <2>7. \/ order'[o].status = order[o].status \/ Told(o)'
        \/ order'[o].status = "cancelado" /\ order[o].status \in {"pendente_pagamento"} \cup OnTheWay
    BY <1>4, <2>1, <2>2, <2>3, <2>4, <2>5, <2>6 DEF Status, OnTheWay
  <2>8. FlagMove
    BY <1>4, <2>1, <2>7 DEF FlagMove
  <2> QED BY <1>2, <2>8, FlagOrders
<1> QED BY <1>3, <1>4

\* The panel, the customer, the sweeper.
LEMMA FlagLifecycle ==
  ASSUME IInv, PayInv, FlagInv, LifecycleStep PROVE FlagInv'
<1> USE DEF LifecycleStep
<1>1. /\ order \in [Orders -> OrderRow] /\ req \in [Requests -> RequestState]
      /\ UNCHANGED payVars
  BY DEF IInv, TypeOK
<1>2. UNCHANGED order => FlagMove
  BY DEF FlagMove
<1>3. ASSUME NEW o \in Orders, NEW b \in Baskets, CreateOrder(o, b) PROVE FlagInv'
  <2>1. FlagMove
    BY <1>1, <1>3 DEF CreateOrder, FlagMove
  <2> QED BY <1>1, <1>3, <2>1, FlagOrders DEF CreateOrder
<1>4. ASSUME NEW r \in Requests \ Calls, NEW o \in Orders, NEW actor \in Actors \ {"payment"},
             NEW to \in Status, ReadStatus(r, o, actor, to)
      PROVE  FlagInv'
  <2>1. /\ UNCHANGED order
        /\ req' = [req EXCEPT ![r] = [order |-> o, from |-> order[o].status, to |-> to]]
        /\ to \in AllowedStatusTransitions(actor, order[o].status)
    BY <1>4 DEF ReadStatus
  <2>2. \A x \in Requests \ {r} : req'[x] = req[x]
    BY <1>1, <2>1
  <2>3. req'[r].order = o /\ req'[r].to = to
    BY <1>1, <2>1
  <2>4. /\ to \in OnTheWay \cup {"entregue"} => Told(o)
        /\ ~(to = "cancelado" /\ order[o].status = "entregue")
    BY <2>1, PolicyTold DEF FlagInv
  <2>5. Told(o) => Told(o)'
    BY <1>1 DEF payVars, Told, Exists
  <2>6. PanelTold(r)'
    BY <2>1, <2>3, <2>4, <2>5 DEF PanelTold
  <2> QED BY <1>1, <1>2, <2>1, <2>2, <2>6, FlagOrders
<1>5. ASSUME NEW r \in Requests \ Calls,
             ApplyNothing(r) \/ ApplyPronto(r) \/ ApplyCancel(r) \/ ApplyPlain(r) \/ AbortRequest(r)
      PROVE  FlagInv'
  <2>1. Locked(r) /\ req[r].order \in Orders
    BY <1>5 DEF ApplyNothing, ApplyPronto, ApplyCancel, ApplyPlain, AbortRequest, Locked,
                IInv, RequestsSound
  <2>2. CASE ApplyNothing(r) \/ AbortRequest(r)
    BY <1>1, <2>1, <2>2, PanelFlags DEF ApplyNothing, AbortRequest
  <2>3. CASE ApplyPronto(r)
    BY <1>1, <2>1, <2>3, PanelFlags DEF ApplyPronto, SetStatus, OrderRow
  <2>4. CASE ApplyCancel(r)
    BY <1>1, <2>1, <2>4, PanelFlags DEF ApplyCancel, SetStatus, ReleaseAndCancel, OrderRow
  <2>5. CASE ApplyPlain(r)
    BY <1>1, <2>1, <2>5, PanelFlags DEF ApplyPlain, SetStatus, OrderRow
  <2> QED BY <1>5, <2>2, <2>3, <2>4, <2>5
<1>6. ASSUME NEW o \in Orders, TtlPasses(o) PROVE FlagInv'
  BY <1>1, <1>2, <1>6, FlagOrders DEF TtlPasses
<1>7. ASSUME NEW s \in Sweepers, Sweep(s) PROVE FlagInv'
  <2>1. CASE ListExpired(s)
    BY <1>1, <1>2, <2>1, FlagOrders DEF ListExpired
  <2>2. ASSUME NEW o \in Orders, SweepOne(s, o) PROVE FlagInv'
    BY <1>1, <2>2, ReleaseFlags, FlagOrders DEF SweepOne
  <2>3. ASSUME NEW o \in Orders, SweepOneFails(s, o) PROVE FlagInv'
    BY <1>1, <1>2, <2>3, FlagOrders DEF SweepOneFails
  <2> QED BY <1>7, <2>1, <2>2, <2>3 DEF Sweep
<1>8. ASSUME NEW p \in Products, NEW m \in Movements, AdjustStock(p, m) PROVE FlagInv'
  BY <1>1, <1>2, <1>8, FlagOrders DEF AdjustStock
<1> QED BY <1>3, <1>4, <1>5, <1>6, <1>7, <1>8

\* The holder of a payment writes its row, and announces it or not.
LEMMA WriteKeeps ==
  ASSUME PayInv, NEW c \in Calls, call[c].pc \in Locking, NEW status \in PagamentoStatus,
         Write(c, status), announced' = announced \/ Announce(c)
  PROVE  /\ PayKeeps
         /\ \E p \in Payments, o \in Orders :
              /\ p = call[c].pay /\ o = OrderOf(c)
              /\ pay'[p].order = o
              /\ Announce(c) => Told(o)'
<1>1. CallsTypeOK /\ CallSound(c)
  BY DEF PayInv
<1>2. PICK p \in Payments : p = call[c].pay
  BY <1>1 DEF CallSound
<1>3. PICK row \in GoodRow : row = call[c].row /\ (Exists(p) => row.order = pay[p].order)
  BY <1>1, <1>2 DEF CallSound
<1>4. PICK new : new = [row EXCEPT !.status = status]
  OBVIOUS
<1>5. new.order = row.order /\ new.status = status /\ status # "none" /\ row.order \in Orders
  BY <1>3, <1>4 DEF GoodRow, PagamentoStatus
<1>6. pay' = [pay EXCEPT ![p] = new]
  BY <1>2, <1>3, <1>4 DEF Write
<1>7. pay'[p] = new /\ \A q \in Payments \ {p} : pay'[q] = pay[q]
  BY <1>1, <1>6 DEF CallsTypeOK
<1>8. \A q \in Payments : announced[q] \in Nat
  BY <1>1 DEF CallsTypeOK
<1>9. Announce(c) => /\ announced'[p] = announced[p] + 1
                     /\ \A q \in Payments \ {p} : announced'[q] = announced[q]
  BY <1>1, <1>2 DEF Announce, CallsTypeOK
<1>10. \A q \in Payments : announced[q] > 0 => announced'[q] > 0
  BY <1>8, <1>9
<1>11. PayKeeps
  BY <1>3, <1>5, <1>7, <1>10 DEF PayKeeps, Exists
<1>12. Exists(p)' /\ pay'[p].order = row.order
  BY <1>5, <1>7 DEF Exists
<1>13. Announce(c) => Told(row.order)'
  <2> SUFFICES ASSUME Announce(c) PROVE Told(row.order)'
    OBVIOUS
  <2>1. announced'[p] > 0
    BY <1>8, <1>9
  <2> QED BY <1>12, <2>1 DEF Told
<1> QED BY <1>2, <1>3, <1>5, <1>11, <1>12, <1>13 DEF OrderOf

\* The calls: what records money either announces the payment, or finds the
\* order cancelled and reports it, or finds an order that is not cancelled.
LEMMA FlagCall ==
  ASSUME IInv, PayInv, FlagInv, NEW c \in Calls,
         \/ CreatePayment(c) \/ ConfirmPayment(c) \/ HandleMercadoPagoWebhook(c)
         \/ RollBack(c) \/ CommitFails(c)
  PROVE  FlagInv'
<1>1. /\ CallsTypeOK /\ CallSound(c) /\ c \in Requests /\ req \in [Requests -> RequestState]
      /\ order \in [Orders -> OrderRow]
  BY CallTypes
<1>2. CASE \/ \E o \in Orders, m \in Methods : ReadForPayment(c, o, m)
           \/ \E p \in Payments : ManualConfirm(c, p) \/ Deliver(c, p)
           \/ SeePending(c) \/ Ignore(c) \/ BeginConfirm(c)
  <2>1. UNCHANGED <<vars, pay, receipts, announced, reported>>
    BY <1>2 DEF ReadForPayment, ManualConfirm, LockForConfirm, Deliver, SeePending, Ignore,
                BeginConfirm
  <2> QED BY <2>1, FlagQuiet DEF vars
<1>3. CASE UpdateReads(c)
  <2>1. /\ UNCHANGED <<order, pay, receipts, announced, reported>>
        /\ \A r \in Requests \ {c} : req'[r] = req[r]
    BY <1>1, <1>3 DEF UpdateReads, ReadStatus
  <2> QED BY <2>1, FlagQuiet
<1>4. CASE RollBack(c)
  <2>1. UNCHANGED <<pay, receipts, announced, reported>>
    BY <1>4 DEF RollBack
  <2>2. UNCHANGED order /\ \A r \in Requests \ {c} : req'[r] = req[r]
    BY <1>1, <1>4, AbortQuits DEF RollBack, vars
  <2> QED BY <2>1, <2>2, FlagQuiet
<1>5. CASE CommitFails(c)
  <2>1. UNCHANGED <<pay, receipts>> /\ reported \subseteq reported'
    BY <1>5 DEF CommitFails
  <2>2. UNCHANGED order /\ \A r \in Requests \ {c} : req'[r] = req[r]
    BY <1>1, <1>5, AbortQuits DEF CommitFails, vars
  <2>3. \A q \in Payments : announced[q] > 0 => announced'[q] > 0
    BY <1>1, <1>5 DEF CommitFails, Announce, CallsTypeOK
  <2> QED BY <2>1, <2>2, <2>3, FlagQuiet
<1>6. ASSUME NEW p \in Payments, OpenCharge(c, p) PROVE FlagInv'
  <2>1. UNCHANGED <<vars, receipts, announced, reported>> /\ ~Exists(p)
    BY <1>6 DEF OpenCharge
  <2>2. \A q \in Payments \ {p} : pay'[q] = pay[q]
    BY <1>1, <1>6 DEF OpenCharge, CallsTypeOK
  <2>3. PayKeeps
    BY <2>1, <2>2 DEF PayKeeps, Exists
  <2>4. FlagMove
    BY <2>1 DEF FlagMove, vars
  <2> QED BY <2>1, <2>3, <2>4, FlagMoves DEF vars
<1>7. CASE SettleOutside(c)
  <2>1. /\ call[c].pc \in Locking /\ Write(c, "paid") /\ UNCHANGED <<vars, announced>>
        /\ receipts' = receipts \cup {call[c].pay}
        /\ reported' = IF order[OrderOf(c)].status = "cancelado"
                       THEN reported \cup {call[c].pay} ELSE reported
    BY <1>7 DEF SettleOutside, RecordPaid, Locking
  <2>2. PICK p \in Payments, o \in Orders : /\ p = call[c].pay /\ o = OrderOf(c)
                                            /\ pay'[p].order = o /\ PayKeeps
    BY <2>1, WriteKeeps DEF PagamentoStatus
  <2>3. Settled(p)'
    BY <2>1, <2>2 DEF Settled, vars
  <2>4. FlagMove
    BY <2>1 DEF FlagMove, vars
  <2>5. receipts' = receipts \cup {p} /\ reported \subseteq reported' /\ req' = req
    BY <2>1, <2>2 DEF vars
  <2> QED BY <2>2, <2>3, <2>4, <2>5, FlagMoves
<1>8. CASE AlreadyConfirmed(c)
  <2>1. /\ call[c].pc \in Locking /\ Write(c, "paid") /\ Announce(c) /\ UNCHANGED <<vars, reported>>
        /\ receipts' = receipts \cup {call[c].pay}
    BY <1>8 DEF AlreadyConfirmed, RecordPaid, Locking
  <2>2. PICK p \in Payments, o \in Orders : /\ p = call[c].pay /\ o = OrderOf(c)
                                            /\ pay'[p].order = o /\ PayKeeps /\ Told(o)'
    BY <2>1, WriteKeeps DEF PagamentoStatus
  <2>3. Settled(p)'
    BY <2>2 DEF Settled
  <2>4. FlagMove
    BY <2>1 DEF FlagMove, vars
  <2>5. receipts' = receipts \cup {p} /\ reported' = reported /\ req' = req
    BY <2>1, <2>2 DEF vars
  <2> QED BY <2>2, <2>3, <2>4, <2>5, FlagMoves
<1>9. CASE Confirm(c)
  <2>1. /\ call[c].pc = "applying" /\ call[c].pc \in Locking
        /\ Write(c, "paid") /\ Announce(c) /\ UNCHANGED reported
        /\ receipts' = receipts \cup {call[c].pay}
    BY <1>9 DEF Confirm, RecordPaid, Locking
  <2>2. PICK p \in Payments, o \in Orders : /\ p = call[c].pay /\ o = OrderOf(c)
                                            /\ pay'[p].order = o /\ PayKeeps /\ Told(o)'
    BY <2>1, WriteKeeps DEF PagamentoStatus
  <2>3. Settled(p)'
    BY <2>2 DEF Settled
  <2>4. req[c].order = o
    BY <1>1, <2>1, <2>2 DEF CallSound, ToConfirm, OrderOf
  <2>5. /\ req' = [req EXCEPT ![c] = Idle]
        /\ \A x \in Orders \ {o} : order'[x] = order[x]
    BY <1>1, <1>9, <2>4 DEF Confirm, ApplyPlain, ApplyNothing, Locked, SetStatus
  <2>6. FlagMove
    BY <2>2, <2>5 DEF FlagMove
  <2>7. receipts' = receipts \cup {p} /\ reported' = reported
    BY <2>1, <2>2
  <2> QED BY <1>1, <2>2, <2>3, <2>5, <2>6, <2>7, FlagMoves
<1>10. CASE ExpireOrder(c)
  <2>1. /\ UNCHANGED <<pay, receipts, announced, reported>>
        /\ PixExpired(pay[call[c].pay].order) \/ UNCHANGED vars
        /\ Exists(call[c].pay) /\ call[c].pc = "fetched"
    BY <1>10 DEF ExpireOrder, Fetched
  <2>2. pay[call[c].pay].order \in Orders
    BY <1>1, <2>1, RowOf DEF CallSound, GoodRow
  <2>3. FlagMove /\ UNCHANGED req
    BY <2>1, <2>2, ReleaseFlags DEF PixExpired, FlagMove, vars
  <2>4. PayKeeps
    BY <2>1 DEF PayKeeps, Exists
  <2> QED BY <2>1, <2>3, <2>4, FlagMoves
<1>11. CASE RecordFailed(c)
  <2>1. /\ call[c].pc \in Locking /\ Write(c, "failed")
        /\ UNCHANGED <<vars, receipts, announced, reported>>
    BY <1>11 DEF RecordFailed, Locking
  <2>2. PayKeeps
    BY <2>1, WriteKeeps DEF PagamentoStatus
  <2>3. FlagMove
    BY <2>1 DEF FlagMove, vars
  <2> QED BY <2>1, <2>2, <2>3, FlagMoves DEF vars
<1>12. CASE RecordOther(c)
  <2>1. PICK p \in Payments : p = call[c].pay
    BY <1>1, <1>12 DEF RecordOther, Fetched, CallSound
  <2>2. PICK status \in PagamentoStatus : status = MapMercadoPagoStatus(call[c].seen)
    BY DEF MapMercadoPagoStatus, PagamentoStatus
  <2>3. /\ Exists(p) /\ pay' = [pay EXCEPT ![p].status = status]
        /\ UNCHANGED <<vars, receipts, announced, reported>>
    BY <1>12, <2>1, <2>2 DEF RecordOther
  <2>4. pay[p] \in GoodRow
    BY <2>3, RowOf
  <2>5. /\ pay'[p].order = pay[p].order /\ pay'[p].status = status /\ status # "none"
        /\ \A q \in Payments \ {p} : pay'[q] = pay[q]
    BY <1>1, <2>3, <2>4 DEF CallsTypeOK, GoodRow, PagamentoStatus
  <2>6. PayKeeps
    BY <2>3, <2>5 DEF PayKeeps, Exists
  <2>7. FlagMove
    BY <2>3 DEF FlagMove, vars
  <2> QED BY <2>3, <2>6, <2>7, FlagMoves DEF vars
<1>13. CASE CreatePayment(c)
  BY <1>2, <1>6, <1>13 DEF CreatePayment
<1>14. CASE ConfirmPayment(c)
  BY <1>2, <1>3, <1>7, <1>8, <1>9, <1>14 DEF ConfirmPayment
<1>15. CASE HandleMercadoPagoWebhook(c)
  BY <1>2, <1>10, <1>11, <1>12, <1>15 DEF HandleMercadoPagoWebhook
<1> QED BY <1>4, <1>5, <1>13, <1>14, <1>15

\* A counter sale is paid and delivered at once.
LEMMA FlagPdvSale ==
  ASSUME IInv, PayInv, FlagInv, NEW o \in Orders, NEW b \in Baskets, NEW p \in Payments,
         CreatePdvSale(o, b, p)
  PROVE  FlagInv'
<1>1. CallsTypeOK /\ order \in [Orders -> OrderRow]
  BY DEF PayInv, IInv, TypeOK
<1>2. PICK m \in Methods :
        pay' = [pay EXCEPT ![p] = [order |-> o, method |-> m, status |-> "paid"]]
  BY DEF CreatePdvSale
<1>3. /\ ~Exists(p) /\ CreatePdvOrder(o, b)
      /\ receipts' = receipts \cup {p} /\ UNCHANGED <<announced, reported>>
  BY DEF CreatePdvSale
<1>4. pay'[p].order = o /\ \A q \in Payments \ {p} : pay'[q] = pay[q]
  BY <1>1, <1>2 DEF CallsTypeOK
<1>5. /\ ~Placed(o) /\ req' = req
      /\ order'[o].status = "entregue" /\ \A x \in Orders \ {o} : order'[x] = order[x]
  BY <1>1, <1>3 DEF CreatePdvOrder
<1>6. PayKeeps
  BY <1>1, <1>3, <1>4 DEF PayKeeps, Exists, CallsTypeOK
<1>7. FlagMove
  BY <1>5 DEF FlagMove
<1>8. Settled(p)'
  BY <1>4, <1>5 DEF Settled
<1> QED BY <1>3, <1>5, <1>6, <1>7, <1>8, FlagMoves

\* Every step keeps what is known of the money of cancelled orders.
LEMMA FlagStep == IInv /\ PayInv /\ FlagInv /\ [PaymentsNext]_paymentsVars => FlagInv'
<1> SUFFICES ASSUME IInv, PayInv, FlagInv, [PaymentsNext]_paymentsVars PROVE FlagInv'
  OBVIOUS
<1>1. CASE LifecycleStep
  BY <1>1, FlagLifecycle
<1>2. CASE \E o \in Orders, b \in Baskets, p \in Payments : CreatePdvSale(o, b, p)
  BY <1>2, FlagPdvSale
<1>3. CASE \E c \in Calls : \/ CreatePayment(c) \/ ConfirmPayment(c)
                            \/ HandleMercadoPagoWebhook(c)
                            \/ RollBack(c) \/ CommitFails(c)
  BY <1>3, FlagCall
<1>4. CASE \/ \E p \in Payments : FetchFails(p) \/ ChargeMoves(p)
           \/ UNCHANGED paymentsVars
  <2>1. UNCHANGED <<vars, pay, receipts, announced, reported>>
    BY <1>4 DEF FetchFails, ChargeMoves, paymentsVars, payVars
  <2> QED BY <2>1, FlagQuiet DEF vars
<1> QED BY <1>1, <1>2, <1>3, <1>4 DEF PaymentsNext

\* Money that came in for a cancelled order no payment ever confirmed is
\* reported to the merchant, whoever cancels it and when.
THEOREM CancelledMoneyIsReported == PaymentsSpec => []RefundIsFlagged
<1>1. PaymentsInit => FlagInv
  BY DEF PaymentsInit, Init, FlagInv, NoRow, OnTheWay, PanelTold
<1>2. IInv /\ PayInv /\ FlagInv /\ [PaymentsNext]_paymentsVars => FlagInv'
  BY FlagStep
<1>3. IInv /\ PayInv /\ FlagInv => RefundIsFlagged
  <2> SUFFICES ASSUME PayInv, FlagInv, NEW p \in receipts,
                      order[pay[p].order].status = "cancelado",
                      \A q \in Payments : pay[q].order = pay[p].order => announced[q] = 0
               PROVE  p \in reported
    BY DEF RefundIsFlagged
  <2>1. ~Told(pay[p].order)
    BY DEF Told
  <2> QED BY <2>1 DEF FlagInv, Settled
<1> QED BY <1>1, <1>2, <1>3, PaymentsInductive, PTL DEF PaymentsSpec

\* With payments, webhooks, provider answers and roll-backs going on the books
\* still follow their contract and add up, every sale is what was ordered, and
\* every reserved unit belongs to an order that holds it and ends once.
THEOREM PaymentsKeepTheStock ==
  PaymentsSpec => LedgerContract /\ [](/\ LedgerBalances /\ SoldAsOrdered /\ DeliveredIsSold
                                       /\ ReservationsEndOnce /\ ReservedIsHeld)
BY ImplementsOrders, ImplementsLedger, BooksBalance, SoldWhatWasOrdered, NothingDeliveredUnsold,
   NeverReleasedTwice, ReservedIsWhatOrdersHold, PTL DEF LifecycleContract
=============================================================================
