------------------------------ MODULE Checkout ------------------------------
(***************************************************************************)
(* The WhatsApp bot over the cart: the messages of one customer, their     *)
(* conversation, and the checkout that turns the cart into an order with a *)
(* payment.  A message is one HTTP request in one transaction R.  It reads *)
(* the conversation, then updates its last_message_at, which locks the row *)
(* until R commits: the messages take turns from there on, but each still  *)
(* decides on what it read before its turn.  The operations of the cart    *)
(* run in transactions of their own (Cart), and stay when R rolls back.    *)
(***************************************************************************)
EXTENDS Cart

CONSTANTS NoMessage,  \* nobody has the turn
          PoolSize,   \* connections of the database pool (10 by default)
          OffersPickup,  \* settings.business_hours is there
          Topics,     \* bound: what messages outside of a checkout are about
          MayFail,    \* bound: whether requests and their statements may fail
          Pauses,     \* bound: whether five minutes may pass between messages
          Expiring    \* bound: the carts whose TTL may pass

ASSUME CheckoutAssumption ==
  /\ NoMessage \notin Calls
  /\ Orders \subseteq Nat /\ IsFiniteSet(Orders)
  /\ IsFiniteSet(Calls)
  /\ PoolSize \in Nat
  /\ OffersPickup \in BOOLEAN /\ MayFail \in BOOLEAN /\ Pauses \in BOOLEAN
  /\ Topics \subseteq {"produto", "carrinho", "finalizar", "limpar", "remover",
                      "cancelar pedido", "outra"}

VARIABLES conv,     \* whatsapp_conversations: the committed context
          turn,     \* the message whose transaction has locked the row
          msg,      \* what each message in flight remembers
          order,    \* pedidos of the customer, those not committed included
          waiting   \* the cart whose row a sweeper tick locks while it waits

botVars == <<conv, turn, msg, order, waiting>>
checkoutVars == <<cartVars, botVars>>

Words == {"sim", "nao", "cancelar", "entrega", "retirada", "endereco", "numero",
          "finalizar", "carrinho", "limpar", "cancelar pedido", "produto", "remover",
          "outra"}
Stages == {"ask_fulfillment", "collecting_name", "collecting_phone",
           "collecting_address", "confirming_address", "selecting_pickup_slot"}
Context ==
  [state : {"idle", "collecting_order", "waiting_payment"},
   stage : Stages \cup {"none"}, delivery : {"none", "delivery", "pickup"},
   product : Products \cup {NoProduct}, qty : Nat,  \* pending_cart_add
   stale : BOOLEAN,                                 \* its five minutes are over
   quiet : BOOLEAN]                                 \* no message for five minutes
NewContext ==
  [state |-> "idle", stage |-> "none", delivery |-> "none", product |-> NoProduct,
   qty |-> 0, stale |-> FALSE, quiet |-> FALSE]

Tasks == {"look", "start", "add", "remove", "clear", "checkout"}
MessageState ==
  [pc : {"idle", "reset", "seen", "wait", "turn", "pay", "convert", "end"} \cup Tasks,
   word : Words \cup {"none"},
   product : Products \cup {NoProduct}, qty : Nat,
   ctx : Context,       \* the context it read; then the one it will commit
   dirty : BOOLEAN,     \* the save will write the context it read
   order : Orders \cup {NoOrder}]
NoMsg == [pc |-> "idle", word |-> "none", product |-> NoProduct, qty |-> 0,
          ctx |-> NewContext, dirty |-> FALSE, order |-> NoOrder]

OrderRow == [status : {"none", "pendente_pagamento", "cancelado"},
             cart : Carts \cup {NoCart}, items : Basket,
             payment : {"none", "pix", "issue"}]
NoOrderRow == [status |-> "none", cart |-> NoCart, items |-> EmptyBasket,
               payment |-> "none"]

CheckoutInit ==
  /\ CartInit
  /\ conv = NewContext
  /\ turn = NoMessage
  /\ msg = [m \in Calls |-> NoMsg]
  /\ order = [o \in Orders |-> NoOrderRow]
  /\ waiting = [s \in CartSweepers |-> NoCart]

Placed == {o \in Orders : order[o].status # "none"}

Uncommitted(o) == \E m \in Calls : msg[m].order = o

\* create locks the stock rows of the order until its transaction R ends
StockLocked(p) == \E o \in Orders : Uncommitted(o) /\ order[o].items[p] > 0

\* a request keeps its connection, and needs a second one for a transaction
\* of the cart
FreeConnection == Cardinality({m \in Calls : msg[m].pc # "idle"}) < PoolSize

-----------------------------------------------------------------------------
(* A message arrives. *)

\* The words the handler of this message tells apart; "outra" is any other.
Proposed(ctx) == ctx.stage = "none" /\ ctx.product # NoProduct /\ ~ctx.stale
Heard(ctx) ==
  CASE ctx.stage = "ask_fulfillment" -> {"cancelar", "entrega", "retirada", "outra"}
    [] ctx.stage \in {"collecting_name", "collecting_phone"} -> {"cancelar", "outra"}
    [] ctx.stage = "collecting_address" -> {"cancelar", "endereco", "outra"}
    [] ctx.stage = "confirming_address" -> {"cancelar", "sim", "outra"}
    [] ctx.stage = "selecting_pickup_slot" -> {"cancelar", "numero", "outra"}
    [] Proposed(ctx) -> {"sim", "nao", "numero", "outra"}
    [] OTHER -> Topics

Inputs(ctx) ==
  {[word |-> w, product |-> p, qty |-> n] :
     w \in Heard(ctx), p \in Products \cup {NoProduct}, n \in Quantities \cup {0}}

Names(in) == /\ in.word \in {"produto", "remover"} <=> in.product # NoProduct
             /\ in.word \in {"produto", "numero"} <=> in.qty # 0

\* After five minutes of silence the conversation starts anew.
TimedOut == conv.quiet /\ conv.state # "idle"

\* bound: a message is overtaken by one other message at most
Prompt == \A m \in Calls : msg[m].pc \in {"seen", "wait"} => msg[m].ctx = conv

Receive(m, in) ==
  /\ msg[m].pc = "idle"
  /\ Prompt
  /\ Names(in)
  /\ msg' = [msg EXCEPT ![m] =
               [NoMsg EXCEPT !.pc = IF TimedOut THEN "reset" ELSE "seen",
                             !.word = in.word, !.product = in.product, !.qty = in.qty,
                             !.ctx = conv]]
  /\ UNCHANGED <<cartVars, conv, turn, order, waiting>>

Commit(m, ctx) ==
  /\ conv' = ctx
  /\ turn' = NoMessage
  /\ msg' = [msg EXCEPT ![m] = NoMsg]

\* Mutant: only the state is reset.
ResetConversationHalf(m) ==
  /\ msg[m].pc = "reset"
  /\ turn = NoMessage
  /\ Commit(m, [conv EXCEPT !.state = "idle"])
  /\ UNCHANGED <<cartVars, order, waiting>>

\* checkout and proposal go with the state; last_message_at stays
ResetConversation(m) ==
  /\ msg[m].pc = "reset"
  /\ turn = NoMessage
  /\ Commit(m, [conv EXCEPT !.state = "idle", !.stage = "none", !.delivery = "none",
                            !.product = NoProduct, !.qty = 0, !.stale = FALSE])
  /\ UNCHANGED <<cartVars, order, waiting>>

\* getOrCreateConversation saves the row it has read: TypeORM reads it again,
\* and a context that changed in between is written back as it was.
CompareConversation(m) ==
  /\ msg[m].pc = "seen"
  /\ msg' = [msg EXCEPT ![m].pc = "wait",
               ![m].dirty = [conv EXCEPT !.quiet = msg[m].ctx.quiet] # msg[m].ctx]
  /\ UNCHANGED <<cartVars, conv, turn, order, waiting>>

\* Mutant: the update does not wait for the message before.
TakeTurnAtOnce(m) ==
  /\ msg[m].pc = "wait"
  /\ turn' = m
  /\ msg' = [msg EXCEPT ![m].pc = "turn"]
  /\ UNCHANGED <<cartVars, conv, order, waiting>>

TakeTurn(m) ==
  /\ msg[m].pc = "wait"
  /\ turn = NoMessage
  /\ turn' = m
  /\ msg' = [msg EXCEPT ![m].pc = "turn"]
  /\ UNCHANGED <<cartVars, conv, order, waiting>>

\* What updateContext finds in the row, and merges its changes into.
Base(m) == [(IF msg[m].dirty THEN msg[m].ctx ELSE conv) EXCEPT !.quiet = FALSE]

\* detectIntent: an active checkout comes first, then a proposal that is not
\* stale, then everything else
InCheckout(m, stage) == msg[m].pc = "turn" /\ msg[m].ctx.stage = stage
Proposing(m) == InCheckout(m, "none") /\ Proposed(msg[m].ctx)
Free(m) == InCheckout(m, "none") /\ ~Proposed(msg[m].ctx)

Says(m, word) == msg[m].word = word

Reply(m, ctx) == Commit(m, ctx) /\ UNCHANGED <<cartVars, order, waiting>>

-----------------------------------------------------------------------------
(* handleCheckoutStage.  The checkout it saves is the one it read, moved on. *)

WithCheckout(ctx, stage, delivery) ==
  [ctx EXCEPT !.stage = stage, !.delivery = delivery]
Closed(ctx) == [WithCheckout(ctx, "none", "none") EXCEPT !.state = "idle"]

CancelCheckout(m) ==
  /\ \E stage \in Stages : InCheckout(m, stage)
  /\ Says(m, "cancelar")
  /\ Reply(m, Closed(Base(m)))

AskFulfillment(m) ==
  /\ InCheckout(m, "ask_fulfillment")
  /\ ~Says(m, "cancelar")
  /\ \/ /\ Says(m, "retirada")
        /\ Reply(m, IF OffersPickup THEN WithCheckout(Base(m), "collecting_name", "pickup")
                                    ELSE Closed(Base(m)))
     \/ /\ Says(m, "entrega")
        /\ Reply(m, WithCheckout(Base(m), "collecting_name", "delivery"))
     \/ /\ Says(m, "outra")
        /\ Reply(m, Base(m))

CollectName(m) ==
  /\ InCheckout(m, "collecting_name")
  /\ ~Says(m, "cancelar")
  /\ Reply(m, WithCheckout(Base(m), "collecting_phone", msg[m].ctx.delivery))

\* there may be no slot left
CollectPhone(m) ==
  /\ InCheckout(m, "collecting_phone")
  /\ ~Says(m, "cancelar")
  /\ IF msg[m].ctx.delivery = "pickup"
     THEN \E ctx \in {WithCheckout(Base(m), "selecting_pickup_slot", "pickup"),
                      Closed(Base(m))} : Reply(m, ctx)
     ELSE Reply(m, WithCheckout(Base(m), "collecting_address", "delivery"))

CollectAddress(m) ==
  /\ InCheckout(m, "collecting_address")
  /\ ~Says(m, "cancelar")
  /\ Reply(m, IF Says(m, "endereco")
              THEN WithCheckout(Base(m), "confirming_address", msg[m].ctx.delivery)
              ELSE Base(m))

\* The handler needs the cart: a call of Cart begins, and with it the task.
BeginTask(m, task, op, p, n, ctx) ==
  /\ Begin(m, op, p, n)
  /\ msg' = [msg EXCEPT ![m] = [NoMsg EXCEPT !.pc = task, !.ctx = ctx]]
  /\ UNCHANGED <<conv, turn, order, waiting>>

ConfirmAddress(m) ==
  /\ InCheckout(m, "confirming_address")
  /\ ~Says(m, "cancelar")
  /\ IF Says(m, "sim")
     THEN BeginTask(m, "checkout", "convert", NoProduct, 0, Base(m))
     ELSE Reply(m, WithCheckout(Base(m), "collecting_address", msg[m].ctx.delivery))

\* the slot may be outside of the opening hours by now, or they may be gone
SelectPickupSlot(m) ==
  /\ InCheckout(m, "selecting_pickup_slot")
  /\ ~Says(m, "cancelar")
  /\ \/ \E ctx \in {Base(m), Closed(Base(m))} : Reply(m, ctx)
     \/ /\ Says(m, "numero")
        /\ BeginTask(m, "checkout", "convert", NoProduct, 0,
                     WithCheckout(Base(m), "selecting_pickup_slot", "pickup"))

-----------------------------------------------------------------------------
(* handlePendingCartAdd: the proposal it read is carried out, replaced or    *)
(* dropped.                                                                  *)

WithProposal(ctx, p, n) == [ctx EXCEPT !.product = p, !.qty = n, !.stale = FALSE]
WithoutProposal(ctx) == WithProposal(ctx, NoProduct, 0)

AnswerProposal(m) ==
  /\ Proposing(m)
  /\ \/ /\ Says(m, "numero")
        /\ Reply(m, WithProposal(Base(m), msg[m].ctx.product, msg[m].qty))
     \/ /\ Says(m, "nao")
        /\ Reply(m, WithoutProposal(Base(m)))
     \/ /\ Says(m, "sim")
        /\ BeginTask(m, "add", "add", msg[m].ctx.product, msg[m].ctx.qty,
                     WithoutProposal(Base(m)))
     \/ /\ Says(m, "outra")
        /\ Reply(m, Base(m))

-----------------------------------------------------------------------------
(* Everything else. *)

ProposeCartAdd(m) ==
  /\ Free(m)
  /\ Says(m, "produto")
  /\ Reply(m, WithProposal(Base(m), msg[m].product, msg[m].qty))

\* handleCart, handleCartCommand, handleCheckout
HandleCart(m) ==
  /\ Free(m)
  /\ \/ Says(m, "carrinho") /\ BeginTask(m, "look", "convert", NoProduct, 0, Base(m))
     \/ Says(m, "finalizar") /\ BeginTask(m, "start", "convert", NoProduct, 0, Base(m))
     \/ Says(m, "limpar") /\ BeginTask(m, "clear", "clear", NoProduct, 0, Base(m))
     \/ Says(m, "remover") /\ BeginTask(m, "remove", "remove", msg[m].product, 0, Base(m))

LastIsPending == Placed # {} /\ order[Max(Placed)].status = "pendente_pagamento"

\* Mutant: the units stay reserved.
HandleCancelOrderUnreleased(m) ==
  /\ Free(m)
  /\ Says(m, "cancelar pedido")
  /\ LastIsPending
  /\ order' = [order EXCEPT ![Max(Placed)].status = "cancelado"]
  /\ Commit(m, Base(m))
  /\ UNCHANGED <<cartVars, waiting>>

\* the customer cancels the latest order, if it is not paid
HandleCancelOrder(m) ==
  LET o == Max(Placed) IN
  /\ Free(m)
  /\ Says(m, "cancelar pedido")
  /\ LastIsPending
  /\ order' = [order EXCEPT ![o].status = "cancelado"]
  /\ stock' = Released(stock, order[o].items)
  /\ Commit(m, Base(m))
  /\ UNCHANGED <<ledger, cart, late, call, cartSweep, share, torn, waiting>>

\* greeting, catalogue, status, help: no state changes
Answer(m) ==
  /\ Free(m)
  /\ \/ Says(m, "outra")
     \/ Says(m, "cancelar pedido") /\ ~LastIsPending
  /\ Reply(m, Base(m))

-----------------------------------------------------------------------------
(* The message works on the cart. *)

\* a tick of the sweeper holds the row and waits for the stock
RowLocked(k) == \E s \in CartSweepers : waiting[s] = k

InCart(m) == msg[m].pc \in Tasks \cup {"convert"} /\ FreeConnection

\* the carts of the customer are expired, looked up and created as in Cart
FindCart(m) ==
  /\ InCart(m)
  /\ \/ \E k \in Carts : ~RowLocked(k) /\ ExpireOld(m, k)
     \/ FindActiveCart(m)
     \/ \E k \in Carts : CreateCart(m, k)
  /\ UNCHANGED botVars

\* The task is over with what it found.
Found(m, task) == msg[m].pc = task /\ call[m].pc = "read"

DropCall(m) ==
  /\ call' = [call EXCEPT ![m] = NoCall]
  /\ UNCHANGED <<stock, ledger, cart, late, cartSweep, share, torn, order, waiting>>

ShowCart(m) == Found(m, "look") /\ Commit(m, msg[m].ctx) /\ DropCall(m)

\* handleCheckout: only a cart with items starts a checkout
StartCheckout(m) ==
  /\ Found(m, "start")
  /\ Commit(m, IF call[m].mem.items = EmptyBasket THEN msg[m].ctx
               ELSE [WithCheckout(msg[m].ctx, "ask_fulfillment", "none")
                       EXCEPT !.state = "collecting_order"])
  /\ DropCall(m)

NothingToRemove(m) ==
  /\ \/ Found(m, "remove") /\ call[m].mem.items[call[m].product] = 0
     \/ Found(m, "clear") /\ call[m].mem.items = EmptyBasket
  /\ Commit(m, msg[m].ctx)
  /\ DropCall(m)

NothingToCheckOut(m) ==
  /\ Found(m, "checkout")
  /\ call[m].mem.items = EmptyBasket
  /\ Commit(m, Closed(msg[m].ctx))
  /\ DropCall(m)

\* addItem, removeItem, clearCart
ChangeCart(m) ==
  /\ InCart(m)
  /\ \/ AddItem(m)
     \/ Found(m, "remove") /\ call[m].mem.items[call[m].product] > 0 /\ ReadCart(m)
     \/ Found(m, "clear") /\ call[m].mem.items # EmptyBasket /\ ReadCart(m)
     \/ RemoveItem(m)
     \/ ClearCart(m)
     \/ SaveCompares(m)
  /\ UNCHANGED botVars

\* and the save ends the task
SaveCart(m) ==
  /\ InCart(m) /\ msg[m].pc # "convert"
  /\ ~RowLocked(call[m].cart)
  /\ SaveWrites(m)
  /\ Commit(m, msg[m].ctx)
  /\ UNCHANGED <<order, waiting>>

-----------------------------------------------------------------------------
(* finalizeDeliveryCheckout, finalizePickupCheckout *)

\* orders.create: the order reserves its units itself, besides those the cart
\* holds
PlaceOrder(m, o) ==
  LET items == call[m].mem.items IN
  /\ Found(m, "checkout")
  /\ items # EmptyBasket
  /\ o \notin Placed /\ \A j \in Orders : j < o => j \in Placed
  /\ CanReserve(items)
  /\ stock' = Reserved(stock, items)
  /\ order' = [order EXCEPT ![o] = [status |-> "pendente_pagamento", cart |-> call[m].cart,
                                    items |-> items, payment |-> "none"]]
  /\ msg' = [msg EXCEPT ![m].pc = "pay", ![m].order = o]
  /\ UNCHANGED <<ledger, cart, late, call, cartSweep, share, torn, conv, turn, waiting>>

\* createPayment, with a call to the provider; its failure is recorded on the
\* order and the merchant told
CreatePayment(m) ==
  /\ msg[m].pc = "pay"
  /\ \E outcome \in {"pix", "issue"} :
       order' = [order EXCEPT ![msg[m].order].payment = outcome]
  /\ msg' = [msg EXCEPT ![m].pc = "convert"]
  /\ UNCHANGED <<cartVars, conv, turn, waiting>>

ConvertCart(m) ==
  /\ InCart(m) /\ msg[m].pc = "convert"
  /\ ReadCart(m) \/ MarkAsConverted(m)
  /\ UNCHANGED botVars

CartIsConverted(m) ==
  /\ InCart(m) /\ msg[m].pc = "convert"
  /\ ~RowLocked(call[m].cart)
  /\ SaveWrites(m)
  /\ msg' = [msg EXCEPT ![m].pc = "end"]
  /\ UNCHANGED <<conv, turn, order, waiting>>

EndCheckout(m) ==
  /\ msg[m].pc = "end"
  /\ Reply(m, [WithCheckout(msg[m].ctx, "none", "none") EXCEPT !.state = "waiting_payment"])

\* The cart is full or units are missing (or, in a small instance, all carts or
\* orders are used up).
Refused(m) ==
  \/ /\ At(m, "add")
     /\ \/ Cardinality(Listing(call[m].mem.items)) >= MaxCartItems
        \/ call[m].mem.items[call[m].product] + call[m].qty > MaxUnits
        \/ ~CanReserve(Only(call[m].product, call[m].qty))
  \/ /\ Found(m, "checkout")
     /\ call[m].mem.items # EmptyBasket
     /\ ~CanReserve(call[m].mem.items) \/ Placed = Orders
  \/ call[m].pc = "create" /\ \A k \in Carts : cart[k].status # "none"

\* Something throws, and the handler catches it: R commits, with the order if
\* there is one already.
TaskFails(m) ==
  /\ MayFail \/ Refused(m)
  /\ FailCall(m)
  /\ msg[m].pc # "pay"
  /\ Commit(m, msg[m].ctx)
  /\ UNCHANGED <<order, waiting>>

RefuseTask(m) == Refused(m) /\ TaskFails(m)

\* R is rolled back: the process dies, or the commit fails.
RollBack(m) ==
  LET o == msg[m].order IN
  /\ MayFail
  /\ msg[m].pc # "idle"
  /\ msg' = [msg EXCEPT ![m] = NoMsg]
  /\ turn' = IF turn = m THEN NoMessage ELSE turn
  /\ IF o = NoOrder
     THEN UNCHANGED <<order, stock>>
     ELSE /\ order' = [order EXCEPT ![o] = NoOrderRow]
          /\ stock' = [p \in Products |->
                         [stock[p] EXCEPT !.reserved = @ - order[o].items[p]]]
  /\ call' = [call EXCEPT ![m] = NoCall]
  /\ IF call[m].pc \in {"compare", "write"}
     THEN Account(call[m].cart, EmptyBasket, TRUE)
     ELSE UNCHANGED <<share, torn>>
  /\ UNCHANGED <<ledger, cart, late, cartSweep, conv, waiting>>

-----------------------------------------------------------------------------
(* The sweeper.  It flips the row of a cart first and then needs the stock   *)
(* rows, which R may hold while R waits for that very row: only a timeout    *)
(* ends this.                                                                *)

Blocked(k) == cart[k].status = "active" /\ ~cart[k].released
                /\ \E p \in Products : cart[k].items[p] > 0 /\ StockLocked(p)

SweepWaits(s, k) ==
  /\ waiting[s] = NoCart
  /\ k \in cartSweep[s] /\ ~RowLocked(k)
  /\ Blocked(k)
  /\ waiting' = [waiting EXCEPT ![s] = k]
  /\ UNCHANGED <<cartVars, conv, turn, msg, order>>

Sweeps(s, k) ==
  /\ waiting[s] = k \/ (waiting[s] = NoCart /\ ~RowLocked(k))
  /\ ~Blocked(k)
  /\ SweepCart(s, k)
  /\ waiting' = [waiting EXCEPT ![s] = NoCart]
  /\ UNCHANGED <<conv, turn, msg, order>>

\* Mutant: a statement that waits is never cancelled.
SweepFailsNeverWaiting(s, k) ==
  /\ waiting[s] = NoCart
  /\ SweepCartFails(s, k)
  /\ waiting' = [waiting EXCEPT ![s] = NoCart]
  /\ UNCHANGED <<conv, turn, msg, order>>

\* an error, or statement_timeout for one that waits
SweepFails(s, k) ==
  /\ waiting[s] \in {k, NoCart}
  /\ SweepCartFails(s, k)
  /\ waiting' = [waiting EXCEPT ![s] = NoCart]
  /\ UNCHANGED <<conv, turn, msg, order>>

SweepLists(s) == ListExpiredCarts(s) /\ UNCHANGED botVars

-----------------------------------------------------------------------------
(* Time.  A proposal ages, and silence falls, only between messages.         *)

AllIdle == \A m \in Calls : msg[m].pc = "idle"

ProposalAges ==
  /\ Pauses /\ AllIdle
  /\ conv.product # NoProduct /\ ~conv.stale
  /\ conv' = [conv EXCEPT !.stale = TRUE]
  /\ UNCHANGED <<cartVars, turn, msg, order, waiting>>

Silence ==
  /\ Pauses /\ AllIdle
  /\ ~conv.quiet
  /\ conv' = [conv EXCEPT !.quiet = TRUE, !.stale = (conv.product # NoProduct)]
  /\ UNCHANGED <<cartVars, turn, msg, order, waiting>>

TtlPasses(k) == k \in Expiring /\ CartTtlPasses(k) /\ UNCHANGED botVars

-----------------------------------------------------------------------------
HandleMessage(m) ==
  \/ ResetConversation(m) \/ CompareConversation(m) \/ TakeTurn(m)
  \/ CancelCheckout(m) \/ AskFulfillment(m) \/ CollectName(m) \/ CollectPhone(m)
  \/ CollectAddress(m) \/ ConfirmAddress(m) \/ SelectPickupSlot(m)
  \/ AnswerProposal(m) \/ ProposeCartAdd(m) \/ HandleCart(m) \/ HandleCancelOrder(m)
  \/ Answer(m)
  \/ FindCart(m) \/ ShowCart(m) \/ StartCheckout(m) \/ NothingToRemove(m)
  \/ NothingToCheckOut(m) \/ ChangeCart(m) \/ SaveCart(m)
  \/ \E o \in Orders : PlaceOrder(m, o)
  \/ CreatePayment(m) \/ ConvertCart(m) \/ CartIsConverted(m) \/ EndCheckout(m)
  \/ RefuseTask(m)

SweepStep(s) ==
  \/ SweepLists(s)
  \/ \E k \in Carts : SweepWaits(s, k) \/ Sweeps(s, k) \/ SweepFails(s, k)

CheckoutNext ==
  \/ \E m \in Calls, in \in Inputs(conv) : Receive(m, in)
  \/ \E m \in Calls : HandleMessage(m) \/ TaskFails(m) \/ RollBack(m)
  \/ \E s \in CartSweepers : SweepStep(s)
  \/ \E k \in Carts : TtlPasses(k)
  \/ ProposalAges
  \/ Silence

CheckoutSpec == CheckoutInit /\ [][CheckoutNext]_checkoutVars

\* A request runs on when nothing blocks it, and row locks are granted in the
\* order they are asked for, so it gets one that is free again and again.  The
\* sweeper goes on, and a statement of it that waits too long is cancelled.
CheckoutFairness ==
  /\ \A m \in Calls : SF_checkoutVars(HandleMessage(m))
  /\ \A s \in CartSweepers, k \in Carts : WF_checkoutVars(Sweeps(s, k) \/ SweepFails(s, k))

FairCheckoutSpec == CheckoutSpec /\ CheckoutFairness

-----------------------------------------------------------------------------
(* Correctness *)

CheckoutTypeOK ==
  /\ CartTypeOK
  /\ conv \in Context
  /\ turn \in Calls \cup {NoMessage}
  /\ msg \in [Calls -> MessageState]
  /\ order \in [Orders -> OrderRow]
  /\ waiting \in [CartSweepers -> Carts \cup {NoCart}]

\* Every reserved unit belongs to a cart or to a pending order, through
\* expiries, checkouts, cancellations and requests that are rolled back: as
\* long as no call died between reservation and save.  (A converted cart keeps
\* its units: NothingLeaks.)
Pending == {o \in Orders : order[o].status = "pendente_pagamento"}
ReservedIsAccounted ==
  torn = {} => \A p \in Products :
    stock[p].reserved = Total([k \in Carts |-> Promised(k)[p]], Carts)
                          + Total([o \in Orders |-> order[o].items[p]], Pending)

\* A cart is checked out once: no order is placed for a cart that is converted
\* already, although a repeated "sim" decides on a conversation that is out of
\* date and orders.create gets no idempotency key.
CheckedOutOnce ==
  [][\A o \in Orders : order[o].status = "none" /\ order'[o].status # "none" =>
       cart[order'[o].cart].status # "converted"]_checkoutVars

\* The order of a converted cart has the items the cart has.
OrderedAsListed ==
  \A o \in Orders :
    /\ order[o].status # "none" /\ cart[order[o].cart].status = "converted"
    /\ \A j \in Orders : j > o => order[j].cart # order[o].cart
    => cart[order[o].cart].items = order[o].items

\* Whoever comes back after five minutes of silence starts anew: no order is
\* placed and no proposal carried out by messages that break the silence.
SilenceEndsCheckout ==
  [][\A m \in Calls :
       msg[m].pc = "turn" /\ msg[m].ctx.quiet => msg'[m].pc \notin {"checkout", "add"}]_checkoutVars

\* No message hangs, although the sweeper and a checkout may wait for each
\* other in a way the database does not see: given a connection to spare.
EveryMessageEnds == \A m \in Calls : msg[m].pc # "idle" ~> msg[m].pc = "idle"

\* Claim of the stock design: when every order is cancelled and every cart
\* closed, nothing stays reserved.
NothingLeaks ==
  (/\ torn = {}
   /\ AllIdle
   /\ Pending = {}
   /\ \A k \in Carts : cart[k].status # "active")
  => \A p \in Products : stock[p].reserved = 0
=============================================================================
