------------------------------ MODULE Payments ------------------------------
(***************************************************************************)
(* PaymentsService over the order lifecycle.  A call is one HTTP request   *)
(* or webhook delivery: it creates a payment or confirms one, in a single  *)
(* transaction whose writes are seen at its commit, while the payment row  *)
(* stays locked.  The order is read without a lock several times on the    *)
(* way and locked only at the end.  Mercado Pago is external: it moves its *)
(* charges on its own and notifies until a delivery is answered with 200.  *)
(***************************************************************************)
EXTENDS Orders

CONSTANTS Payments,     \* pagamentos ids
          NoPayment,    \* no payment
          Calls,        \* the Requests that are payment calls
          Methods,      \* the payment methods used
          FetchMayFail, \* whether the provider's API may fail while answering a webhook
          MaxLost       \* bound: a payment's notices whose transaction then fails

ASSUME PaymentsAssumption ==
  /\ NoPayment \notin Payments
  /\ Calls \subseteq Requests
  /\ Methods \subseteq {"pix", "credito", "debito", "boleto", "dinheiro"}
  /\ FetchMayFail \in BOOLEAN
  /\ MaxLost \in Nat

VARIABLES pay,       \* pagamentos: order, method and status
          charge,    \* external: the provider's status of each payment
          inbox,     \* external: the provider still owes a delivery
          call,      \* what each payment call holds
          receipts,  \* history: payments that were PAID once
          announced, \* history: how often notifyPaymentConfirmed was called
          reported   \* history: payments reported to the merchant for refund

payVars == <<pay, charge, inbox, call, receipts, announced, reported>>
paymentsVars == <<vars, payVars>>

PagamentoStatus == {"pending", "processing", "paid", "failed", "refunded"}
ChargeStatus == {"pending", "in_process", "approved", "rejected", "cancelled",
                 "expired", "refunded", "charged_back"}

PaymentRow == [order : Orders \cup {NoOrder}, method : Methods \cup {"none"},
               status : PagamentoStatus \cup {"none"}]
NoPaymentRow == [order |-> NoOrder, method |-> "none", status |-> "none"]

\* row is the payment as read under its lock, or as inserted by this call;
\* seen is the provider's answer a webhook was given before it locked the row.
CallState == [pc : {"idle", "creating", "fetched", "confirming", "updating",
                    "applying", "failing"},
              pay : Payments \cup {NoPayment},
              seen : ChargeStatus \cup {"none"},
              row : PaymentRow]
NoCall == [pc |-> "idle", pay |-> NoPayment, seen |-> "none", row |-> NoPaymentRow]

Exists(p) == pay[p].status # "none"
OrderOf(c) == call[c].row.order

\* Mutant: the payment row is read without FOR UPDATE.
HeldByNobody(p) == FALSE

\* The row lock of a payment, held until its transaction ends.
Held(p) == \E c \in Calls : /\ call[c].pc \in {"confirming", "updating", "applying", "failing"}
                            /\ call[c].pay = p

\* Mutant: the provider's word is stored as it is.
MapMercadoPagoStatusRaw(s) == IF s = "approved" THEN "paid" ELSE s

MapMercadoPagoStatus(s) ==
  CASE s = "approved" -> "paid"
    [] s = "in_process" -> "processing"
    [] s = "refunded" -> "refunded"
    [] s \in {"rejected", "cancelled", "expired", "charged_back"} -> "failed"
    [] OTHER -> "pending"

\* what the provider answers when a charge is opened, and how it is recorded
Answers(m) ==
  CASE m \in {"credito", "debito"} -> {"approved", "in_process", "rejected", "cancelled", "pending"}
    [] m = "dinheiro" -> {"none"}
    [] OTHER -> {"pending"}

RecordedAs(answer) ==
  CASE answer \in {"approved", "in_process"} -> "processing"
    [] answer \in {"rejected", "cancelled"} -> "failed"
    [] OTHER -> "pending"

\* how a charge may move at the provider
Moves(s) ==
  CASE s = "pending" -> {"in_process", "approved", "rejected", "cancelled", "expired"}
    [] s = "in_process" -> {"approved", "rejected", "cancelled"}
    [] s = "approved" -> {"refunded", "charged_back"}
    [] OTHER -> {}

-----------------------------------------------------------------------------
PaymentsInit ==
  /\ Init
  /\ pay = [p \in Payments |-> NoPaymentRow]
  /\ charge = [p \in Payments |-> "none"]
  /\ inbox = [p \in Payments |-> FALSE]
  /\ call = [c \in Calls |-> NoCall]
  /\ receipts = {}
  /\ announced = [p \in Payments |-> 0]
  /\ reported = {}

Goto(c, pc) == call' = [call EXCEPT ![c].pc = pc]
Done(c) == call' = [call EXCEPT ![c] = NoCall]

\* a webhook answered with 200: owed again only if the charge has moved since
Acknowledge(c) ==
  LET p == call[c].pay IN
  inbox' = [inbox EXCEPT ![p] = @ /\ charge[p] # call[c].seen]

Write(c, status) ==
  pay' = [pay EXCEPT ![call[c].pay] = [call[c].row EXCEPT !.status = status]]

RecordPaid(c) ==
  /\ Write(c, "paid")
  /\ receipts' = receipts \cup {call[c].pay}
  /\ Acknowledge(c)
  /\ Done(c)
  /\ UNCHANGED charge

Announce(c) == announced' = [announced EXCEPT ![call[c].pay] = @ + 1]

-----------------------------------------------------------------------------
(* createPayment *)

\* the order is read, and no payment of this method is under way
ReadForPayment(c, o, m) ==
  /\ call[c] = NoCall
  /\ order[o].status = "pendente_pagamento"
  /\ ~\E p \in Payments : /\ pay[p].order = o
                          /\ pay[p].method = m
                          /\ pay[p].status \in {"pending", "processing"}
  /\ call' = [call EXCEPT ![c] =
                [NoCall EXCEPT !.pc = "creating",
                               !.row = [order |-> o, method |-> m, status |-> "pending"]]]
  /\ UNCHANGED <<vars, pay, charge, inbox, receipts, announced, reported>>

\* The charge exists at the provider before the row is committed.  A card that
\* is approved at once goes on to confirmPayment in the same transaction.
OpenCharge(c, p) ==
  /\ call[c].pc = "creating"
  /\ ~Exists(p)
  /\ charge[p] = "none"
  /\ \E answer \in Answers(call[c].row.method) :
       LET row == [call[c].row EXCEPT !.status = RecordedAs(answer)] IN
       /\ charge' = [charge EXCEPT ![p] = answer]
       /\ inbox' = [inbox EXCEPT ![p] = answer # "none"]
       /\ IF answer = "approved"
          THEN /\ call' = [call EXCEPT ![c] = [pc |-> "confirming", pay |-> p,
                                               seen |-> "none", row |-> row]]
               /\ UNCHANGED pay
          ELSE /\ pay' = [pay EXCEPT ![p] = row]
               /\ Done(c)
  /\ UNCHANGED <<vars, receipts, announced, reported>>

\* the counter sale is born with a paid payment
CreatePdvSale(o, basket, p) ==
  /\ ~Exists(p)
  /\ charge[p] = "none"
  /\ CreatePdvOrder(o, basket)
  /\ \E m \in Methods : pay' = [pay EXCEPT ![p] = [order |-> o, method |-> m, status |-> "paid"]]
  /\ receipts' = receipts \cup {p}
  /\ UNCHANGED <<charge, inbox, call, announced, reported>>

-----------------------------------------------------------------------------
(* confirmPayment: a payment that is PAID already is left alone. *)

LockForConfirm(c, p, seen) ==
  /\ Exists(p)
  /\ pay[p].status # "paid"
  /\ ~Held(p)
  /\ call' = [call EXCEPT ![c] = [pc |-> "confirming", pay |-> p, seen |-> seen, row |-> pay[p]]]
  /\ UNCHANGED <<vars, pay, charge, inbox, receipts, announced, reported>>

\* POST /payments/:id/confirm
ManualConfirm(c, p) == call[c] = NoCall /\ LockForConfirm(c, p, "none")

\* the pedido relation: the order is still waiting for its payment
SeePending(c) ==
  /\ call[c].pc = "confirming"
  /\ order[OrderOf(c)].status = "pendente_pagamento"
  /\ Goto(c, "updating")
  /\ UNCHANGED <<vars, pay, charge, inbox, receipts, announced, reported>>

\* Mutant: the payment is recorded and the order forgotten.
SettleAnyOrder(c) ==
  /\ call[c].pc = "confirming"
  /\ RecordPaid(c)
  /\ UNCHANGED <<vars, announced, reported>>

\* Mutant: money for a cancelled order is only logged.
SettleSilently(c) ==
  /\ call[c].pc = "confirming"
  /\ order[OrderOf(c)].status # "pendente_pagamento"
  /\ RecordPaid(c)
  /\ UNCHANGED <<vars, announced, reported>>

\* The order is not waiting any more: the money is recorded, the order stays
\* as it is, and the merchant is told when it was cancelled.
SettleOutside(c) ==
  /\ call[c].pc = "confirming"
  /\ order[OrderOf(c)].status # "pendente_pagamento"
  /\ RecordPaid(c)
  /\ reported' = IF order[OrderOf(c)].status = "cancelado"
                 THEN reported \cup {call[c].pay} ELSE reported
  /\ UNCHANGED <<vars, announced>>

\* updateStatus reads the order again and asserts pendente -> confirmado
UpdateReads(c) ==
  /\ call[c].pc = "updating"
  /\ ReadStatus(c, OrderOf(c), "payment", "confirmado")
  /\ Goto(c, "applying")
  /\ UNCHANGED <<pay, charge, inbox, receipts, announced, reported>>

\* ... finds it confirmed by another payment and returns it
AlreadyConfirmed(c) ==
  /\ call[c].pc = "updating"
  /\ order[OrderOf(c)].status = "confirmado"
  /\ RecordPaid(c)
  /\ Announce(c)
  /\ UNCHANGED <<vars, reported>>

\* Mutant: the order is saved as it is held in memory, past the state machine.
ConfirmRaw(c) ==
  /\ call[c].pc = "applying"
  /\ SetStatus(OrderOf(c), "confirmado")
  /\ RecordPaid(c)
  /\ Announce(c)
  /\ UNCHANGED <<stock, ledger, req, sweep, overdue, freed, reported>>

\* the locked part of updateStatus; payment and order commit together
Confirm(c) ==
  /\ call[c].pc = "applying"
  /\ ApplyPlain(c) \/ ApplyNothing(c)
  /\ RecordPaid(c)
  /\ Announce(c)
  /\ UNCHANGED reported

\* Mutant: the webhook answers 200 although its transaction failed.
RollBackAcknowledged(c) ==
  /\ call[c].pc # "idle"
  /\ Done(c)
  /\ IF call[c].pc = "creating" THEN UNCHANGED inbox ELSE Acknowledge(c)
  /\ IF call[c].pc = "applying" THEN AbortRequest(c) ELSE UNCHANGED vars
  /\ UNCHANGED <<pay, charge, receipts, announced, reported>>

\* The transaction is rolled back: the policy refuses the transition, a
\* deadlock or a timeout, or the process dies.  A webhook is then delivered
\* again; a charge opened by the call stays open at the provider.
RollBack(c) ==
  /\ call[c].pc # "idle"
  /\ Done(c)
  /\ IF call[c].pc = "applying" THEN AbortRequest(c) ELSE UNCHANGED vars
  /\ UNCHANGED <<pay, charge, inbox, receipts, announced, reported>>

\* The notices leave before the commit, inside the transaction of the request
\* or webhook around confirmPayment: when that fails, they cannot be recalled.
CommitFails(c) ==
  LET p == call[c].pay IN
  /\ \/ /\ \/ call[c].pc = "applying" /\ AbortRequest(c)
           \/ /\ call[c].pc = "updating"
              /\ order[OrderOf(c)].status = "confirmado"
              /\ UNCHANGED vars
        /\ announced[p] < MaxLost
        /\ Announce(c)
        /\ UNCHANGED reported
     \/ /\ call[c].pc = "confirming"
        /\ order[OrderOf(c)].status = "cancelado"
        /\ reported' = reported \cup {p}
        /\ UNCHANGED <<vars, announced>>
  /\ Done(c)
  /\ UNCHANGED <<pay, charge, inbox, receipts>>

-----------------------------------------------------------------------------
(* handleMercadoPagoWebhook *)

\* the details are fetched before anything is locked; deliveries may repeat
Deliver(c, p) ==
  /\ call[c] = NoCall
  /\ charge[p] # "none"
  /\ call' = [call EXCEPT ![c] = [NoCall EXCEPT !.pc = "fetched", !.pay = p, !.seen = charge[p]]]
  /\ UNCHANGED <<vars, pay, charge, inbox, receipts, announced, reported>>

\* the provider's API fails: logged, and answered with 200 'ignored'
FetchFails(p) ==
  /\ FetchMayFail
  /\ inbox[p]
  /\ inbox' = [inbox EXCEPT ![p] = FALSE]
  /\ UNCHANGED <<vars, pay, charge, call, receipts, announced, reported>>

Fetched(c) == call[c].pc = "fetched" /\ ~Held(call[c].pay)

\* no such payment yet, or PAID already
Ignore(c) ==
  LET p == call[c].pay IN
  /\ Fetched(c)
  /\ ~Exists(p) \/ (pay[p].status = "paid" /\ call[c].seen = "approved")
  /\ Acknowledge(c)
  /\ Done(c)
  /\ UNCHANGED <<vars, pay, charge, receipts, announced, reported>>

BeginConfirm(c) ==
  /\ Fetched(c)
  /\ call[c].seen = "approved"
  /\ LockForConfirm(c, call[c].pay, "approved")

\* An expired or cancelled PIX cancels the order, in a transaction of its own;
\* when that fails the sweeper is left to do it.
ExpireOrder(c) ==
  LET p == call[c].pay IN
  /\ Fetched(c)
  /\ Exists(p)
  /\ MapMercadoPagoStatus(call[c].seen) = "failed"
  /\ call' = [call EXCEPT ![c].pc = "failing", ![c].row = pay[p]]
  /\ \/ call[c].seen \in {"expired", "cancelled"} /\ PixExpired(pay[p].order)
     \/ UNCHANGED vars
  /\ UNCHANGED <<pay, charge, inbox, receipts, announced, reported>>

RecordFailed(c) ==
  /\ call[c].pc = "failing"
  /\ Write(c, "failed")
  /\ Acknowledge(c)
  /\ Done(c)
  /\ UNCHANGED <<vars, charge, receipts, announced, reported>>

\* every other status overwrites the row, whatever the row says
RecordOther(c) ==
  LET p == call[c].pay IN
  /\ Fetched(c)
  /\ Exists(p)
  /\ MapMercadoPagoStatus(call[c].seen) \notin {"paid", "failed"}
  /\ pay' = [pay EXCEPT ![p].status = MapMercadoPagoStatus(call[c].seen)]
  /\ Acknowledge(c)
  /\ Done(c)
  /\ UNCHANGED <<vars, charge, receipts, announced, reported>>

\* external: the customer pays, the PIX expires, the merchant refunds
ChargeMoves(p) ==
  /\ \E s \in Moves(charge[p]) : charge' = [charge EXCEPT ![p] = s]
  /\ inbox' = [inbox EXCEPT ![p] = TRUE]
  /\ UNCHANGED <<vars, pay, call, receipts, announced, reported>>

-----------------------------------------------------------------------------
\* everything that is not a payment call: the panel, the customer, the sweeper
LifecycleStep ==
  /\ \/ \E o \in Orders, b \in Baskets : CreateOrder(o, b)
     \/ \E r \in Requests \ Calls :
          \/ \E o \in Orders, actor \in Actors \ {"payment"}, to \in Status :
               ReadStatus(r, o, actor, to)
          \/ ApplyNothing(r) \/ ApplyPronto(r) \/ ApplyCancel(r) \/ ApplyPlain(r)
          \/ AbortRequest(r)
     \/ \E o \in Orders : TtlPasses(o)
     \/ \E s \in Sweepers : Sweep(s)
     \/ \E p \in Products, m \in Movements : AdjustStock(p, m)
  /\ UNCHANGED payVars

CreatePayment(c) ==
  \/ \E o \in Orders, m \in Methods : ReadForPayment(c, o, m)
  \/ \E p \in Payments : OpenCharge(c, p)

ConfirmPayment(c) ==
  \/ \E p \in Payments : ManualConfirm(c, p)
  \/ SeePending(c)
  \/ SettleOutside(c)
  \/ UpdateReads(c)
  \/ AlreadyConfirmed(c)
  \/ Confirm(c)

HandleMercadoPagoWebhook(c) ==
  \/ \E p \in Payments : Deliver(c, p)
  \/ Ignore(c)
  \/ BeginConfirm(c)
  \/ ExpireOrder(c)
  \/ RecordFailed(c)
  \/ RecordOther(c)

PaymentsNext ==
  \/ LifecycleStep
  \/ \E o \in Orders, b \in Baskets, p \in Payments : CreatePdvSale(o, b, p)
  \/ \E c \in Calls : CreatePayment(c)
  \/ \E c \in Calls : ConfirmPayment(c)
  \/ \E c \in Calls : HandleMercadoPagoWebhook(c)
  \/ \E c \in Calls : RollBack(c)
  \/ \E c \in Calls : CommitFails(c)
  \/ \E p \in Payments : FetchFails(p)
  \/ \E p \in Payments : ChargeMoves(p)

PaymentsSpec == PaymentsInit /\ [][PaymentsNext]_paymentsVars

\* The provider delivers again until it is answered, and each step of a call
\* that can be taken again and again is taken: rollbacks are transient, and
\* row locks are granted in turn.  Nothing makes a customer pay.
PaymentsFairness ==
  /\ \A p \in Payments : SF_paymentsVars(\E c \in Calls : inbox[p] /\ Deliver(c, p))
  /\ \A c \in Calls :
       /\ SF_paymentsVars(Ignore(c))
       /\ SF_paymentsVars(BeginConfirm(c))
       /\ SF_paymentsVars(ExpireOrder(c))
       /\ SF_paymentsVars(RecordFailed(c))
       /\ SF_paymentsVars(RecordOther(c))
       /\ SF_paymentsVars(SeePending(c))
       /\ SF_paymentsVars(SettleOutside(c))
       /\ SF_paymentsVars(UpdateReads(c))
       /\ SF_paymentsVars(AlreadyConfirmed(c))
       /\ SF_paymentsVars(Confirm(c))
       /\ WF_paymentsVars(RollBack(c))

FairPaymentsSpec == PaymentsSpec /\ PaymentsFairness

-----------------------------------------------------------------------------
(* Correctness *)

PaymentsTypeOK ==
  /\ TypeOK
  /\ pay \in [Payments -> PaymentRow]
  /\ charge \in [Payments -> ChargeStatus \cup {"none"}]
  /\ inbox \in [Payments -> BOOLEAN]
  /\ call \in [Calls -> CallState]
  /\ receipts \subseteq Payments
  /\ announced \in [Payments -> Nat]
  /\ reported \subseteq Payments

\* Payments only do to orders and stock what the order lifecycle allows, so
\* everything that holds of Orders holds here.
LifecycleContract == Spec

\* An order that was paid is not left waiting for its payment, where the
\* sweeper would cancel it: both rows change in one commit or not at all.
PaidNotPending ==
  \A p \in receipts : order[pay[p].order].status # "pendente_pagamento"

\* Nothing goes into production or out of the shop unless a payment of that
\* order was PAID once: neither panel nor customer can confirm by hand.
ConfirmedIsPaid ==
  \A o \in Orders :
    order[o].status \in {"confirmado", "em_producao", "pronto", "em_transito", "entregue"}
      => \E p \in receipts : pay[p].order = o

\* The customer is not told again of a payment that is recorded, however often
\* it is delivered, confirmed by hand meanwhile, or put back by a late answer
\* and approved again.
NotAnnouncedAgain ==
  [][\A p \in Payments : announced'[p] > announced[p] => p \notin receipts]_paymentsVars

\* Money that came in for a cancelled order no payment ever confirmed is
\* reported to the merchant.
RefundIsFlagged ==
  \A p \in receipts :
    /\ order[pay[p].order].status = "cancelado"
    /\ \A q \in Payments : pay[q].order = pay[p].order => announced[q] = 0
    => p \in reported

\* A charge the provider approved is recorded as PAID, sooner or later, unless
\* the provider takes it back first.
ApprovedIsRecorded ==
  \A p \in Payments :
    charge[p] = "approved" ~> (p \in receipts \/ charge[p] # "approved")
=============================================================================
