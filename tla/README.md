# A TLA+ model of the unified commerce platform

The platform sells the products of small shops over a web shop, a WhatsApp bot
and a counter (PDV). Its hard part is one shared number: how many units of a
product are on the shelf and how many of them are promised to somebody. Orders,
payments, carts, a chat bot, a background sweeper, the till and the inventory
page change it concurrently, over requests that fail, time out and are repeated.
The modules here model that part of the backend (`src/backend/src`) and of the
screens that drive it (`src/frontend`), TLC checks small instances of it, and
TLAPS proves the safety properties for every number of products, orders, carts,
payments, keys and concurrent requests.

## 1. Inventory

Paths are relative to `src/backend/src`.

| component | state | operations | correct when |
|---|---|---|---|
| stock engine (`modules/products/stock-engine.service.ts`) | `movimentacoes_estoque`: `current_stock`, `reserved_stock` | `reserve`, `release`, `commitSale`, `recordManualMovement`: guarded UPDATEs in the caller's transaction | no counter negative; `current_stock` is the balance of the ledger |
| stock ledger (`movimentacoes_estoque_historico`) | append-only rows: tipo, delta, saldo_resultante, order_id | one insert per physical change; unique VENDA per (order, product) | every saldo follows from the one before; nothing sold twice |
| order lifecycle (`modules/orders/orders.service.ts`) | `pedidos`: status, items, `stock_released_at` | `create`, `updateStatus`, `releaseExpiredPendingOrder` | a reservation ends exactly once, in a sale or a release; delivered means sold |
| transition policy (`order-status-transitions.ts`) | none | which actor may move which status where | final states are final; paid only by a payment |
| stock sweeper (`stock-sweeper.service.ts`) | the id lists of a tick | every minute: list expired carts and unpaid orders per tenant, release each | everything overdue is settled; nothing is released twice |
| products service | products, SKUs, soft delete, cached lists | CRUD, `adjustStockLedger`, `reserveStock`, `releaseStock` | unique SKUs; a cached list that no reader raced to fill shows the catalogue |
| payments (`modules/payments`) | `pagamentos`: status, provider metadata | `createPayment`, `confirmPayment`, Mercado Pago webhook | paid and confirmed go together; a recorded payment is announced once; money for a cancelled order is reported |
| WhatsApp cart (`services/cart.service.ts`) | `whatsapp_carts`: JSON items, status, `expires_at`, `stock_released_at` | add, update, remove, clear, expire, convert | what the open carts hold is reserved, once |
| WhatsApp bot and checkout (`whatsapp.service.ts`, `conversation.service.ts`) | conversation state and context (checkout stage, proposal) | one request per inbound message: reset after a silence, checkout stages, cart commands, order and payment, cancellation | one order per confirmed cart, of what the cart lists; every message is answered |
| idempotency (`idempotency.service.ts`) | keys pending, completed, failed | check, mark completed, mark failed | a repeated request has the effect of one |
| point of sale screen (`frontend/hooks/usePdvSale.ts`) | the items, the key of the sale, the order shown | ring up, submit, retry after a lost answer, next sale | one order per sale, as shown |
| tracking page (`frontend/components/pedido/OrderTracking.tsx`) | the status shown, the polls under way | ask once, poll every 30 s until the order is final | never left with an outdated status |
| tenant transaction context (`tenant-db-context.interceptor.ts`, `db-context.service.ts`) | one pool connection and transaction per request | run a handler in it; nested transactions open another connection | no request waits for ever for a connection |
| cache and conversation lock (`cache.service.ts`) | Redis or local entries, lock tokens with a TTL | get, set, invalidate, `withConversationLock` | mutual exclusion per customer; staleness bounded |
| coupons | `used_count`, `usage_limit` | validate, consume | never used more often than the limit |
| auth, tenants, availability, notifications, LGPD, encryption, audit and usage logs, health, frontend, deployment | own tables or none | CRUD, I/O, wording, cryptography | not modelled (see 7) |

How they interact. Every HTTP request of a tenant runs in one database
transaction (the interceptor); services join it through `DbContextService`,
except where they ask `dataSource.transaction` for their own: the cart, the
sweeper and `releaseExpiredPendingOrder`. All stock changes go through the four
engine calls. `confirmPayment` calls `updateStatus`; the webhook calls
`confirmPayment` or `releaseExpiredPendingOrder`; the sweeper calls
`releaseExpiredPendingOrder` and `releaseExpiredCart`; the bot calls cart,
orders and payments in turn. Notifications and cache invalidations follow a
change and their failures are swallowed.

What is hard: `updateStatus` judges a transition on an unlocked read and applies
it later; four actors race to end a reservation; the sweeper works from stale
lists; a sale of several items may fail on the last one; provider webhooks are
duplicated, late and out of order; the cart's reservation and its items are
saved in different transactions; the bot decides on a conversation it read
before its turn; a sale is sent again after a lost answer; the cache is cleared
before the change commits; requests hold one connection while asking for a
second. `PROJECT.json` lists each of these hazards at its line, with the
properties that would catch it, or why none does.

## 2. Plan

| order | module | builds on | questions |
|---|---|---|---|
| 1 (done) | `StockLedger` | - | the abstract contract of the ledger |
| 2 (done) | `StockEngine` | instance of `StockLedger` | the four stock operations |
| 3 (done) | `Orders` | `StockEngine` | creation, status changes, expiry and manual movements racing |
| 4 (done) | `Payments` | `Orders` | confirmation against sweeper, cancellation, duplicated and stale webhooks; two payments of one order; implements the order lifecycle |
| 5 (done) | `Cart` | `StockEngine` | the reserve/save split, calls that overlap or die, saves of old copies, expiry |
| 6 (done) | `Checkout` | `Cart` | the bot: conversation, turn, checkout, double reservation, repeated confirmation, the connections it needs |
| 7 (done) | `Placement`, `SalesBook` | `StockEngine`; `SalesBook` - | `create` with its idempotency key, row locks and coupon, retried by the till; what it promises, as an abstract specification |
| 8 (done) | `Catalog` | `StockEngine` | SKU allocation, edits and alert levels saved from old rows, the cached list |
| 9 (done) | `Tracking` | - | the tracking page against late, lost and reordered answers |
| 10 | `Availability`, `Settings`, `StockPage` | - | slots that close while they are offered; sections of the settings saved at once; optimistic stock updates that overlap |

Theorems proved: the contract of the ledger; that orders and placement implement
it, payments implement the order lifecycle and placement implements the sales
book; every safety property the runs check. Left to the
model checker: liveness, and with it all of `Tracking`. Theorems that
could be added: the two sufficient premises of `OrdersMatchTheirCarts` and
`SilenceStartsAnew` made weaker.

## 3. Modules

`StockLedger` is what a reader of the ledger may rely on, whoever writes it: one
book per product, rows only appended, at most one per product and transaction,
each starting from the balance before it with the sign its type asks for, and
no second VENDA for the same order and product.

`StockEngine` has the two tables as variables and the four engine calls as
functions on a whole basket (product -> quantity). A transaction that applies
several items is atomic: a guarded UPDATE that affects no row throws and rolls
everything back, so the guards of all items are conjuncts of one action. That a
basket is a function is what the code enforces: `create` refuses an order that
names a product twice, because the query of the active products then returns
fewer rows than items (orders.service.ts:211-226). `Released` and `AfterSale`
keep the `GREATEST(0, ...)` of the SQL, and `RecordManualMovement` guards
`current_stock` only, as the code does. A product starts with a row of zero
units and, when it has an initial stock, one `INVENTARIO_INICIAL` row.

`Orders` adds the orders and everything that runs against them:

| action | code |
|---|---|
| `CreateOrder`, `CreatePdvOrder` | the transaction of `create`, for the web and WhatsApp channels and for the counter |
| `ReadStatus` | `updateStatus` up to `assertStatusTransition`: unlocked read, transition judged |
| `ApplyNothing`, `ApplyPronto`, `ApplyCancel`, `ApplyPlain`, `AbortRequest` | its locked transaction, one action per branch, and its rollback |
| `TtlPasses`, `ListExpired`, `SweepOne`, `SweepOneFails` | the order half of a sweeper tick: the id query, then one transaction per id |
| `PixExpired` | the webhook of an expired or cancelled PIX |
| `AdjustStock` | `adjustStockLedger` |

`req` is what a request in flight remembers between its two steps, `sweep` the
ids a tick still has to handle. `overdue` stands for `created_at` being older
than the TTL. `freed` is a history variable: how often an order's reservation
was handed back. Order ids are used once, as UUIDs are.

`Payments` composes `PaymentsService` with the order lifecycle. It extends
`Orders` and leaves out `CreatePdvOrder` and `PixExpired` as steps of their own:
the payments take them. A call (`Calls`) is one HTTP request or one webhook
delivery; it uses the same `req` slot as a panel request while it is inside
`updateStatus`.

| action | code |
|---|---|
| `ReadForPayment`, `OpenCharge` | `createPayment`: order and existing payments are read without a lock; the charge is opened at the provider; the row commits. A card approved at once continues with `confirmPayment` in the same transaction |
| `CreatePdvSale` | `create` for the counter, with its paid payment |
| `ManualConfirm`, `BeginConfirm` | `confirmPayment` up to the lock on the payment and the test for PAID |
| `SeePending`, `SettleOutside` | the test of the order's status, read without a lock: go on to `updateStatus`, or record the money only and tell the merchant if the order is cancelled |
| `UpdateReads`, `AlreadyConfirmed`, `Confirm` | `updateStatus(CONFIRMADO)` for the actor payment: its unlocked read, its early return, its locked part with the commit |
| `RollBack`, `CommitFails` | the transaction fails; in `CommitFails` the notices have already left |
| `Deliver`, `FetchFails` | the webhook up to the provider's answer, which it keeps in `seen` |
| `Ignore`, `ExpireOrder`, `RecordFailed`, `RecordOther` | the branches of the webhook under the lock |
| `ChargeMoves` | the provider: a charge is paid, refused, expired, refunded |

`charge` and `inbox` are the provider: the status of each charge and whether a
delivery is still owed. `receipts` (payments that were PAID once), `announced`
(how often `notifyPaymentConfirmed` was called) and `reported` (refund notices to
the merchant) are history. The lock on a payment row (`Held`) is explicit because
several steps happen under it; locks on orders stay inside one action.

`Cart` has the carts of one customer on the stock of `StockEngine`. An operation
is a call (`call`) that goes through several transactions; between any two of
them other calls and the sweeper may act, and the call may die.

| action | code |
|---|---|
| `Begin`, `ExpireOld` | `expireOldCarts`: the list, then a transaction per cart |
| `FindActiveCart`, `CreateCart` | `getOrCreateCart`: lookup and insert are two transactions |
| `ReadCart` | `getCartById`, for the operations that are given an id |
| `AddItem`, `UpdateItem`, `RemoveItem`, `ClearCart`, `MarkAsConverted` | the change of the reservation, if any, and of the copy in memory |
| `SaveCompares`, `SaveWrites` | `saveCart`: TypeORM loads the row again, then writes the columns in which the copy differs, also those that are only older |
| `FailCall` | the operation throws or its process dies, wherever it is |
| `CartTtlPasses`, `ListExpiredCarts`, `SweepCart`, `SweepCartFails` | `expires_at`, and the cart half of a sweeper tick |

`share` is history: the units reserved for a cart and not given back. `torn` is
history as well: the carts on which calls overlapped or died half-way. There the
row and the reservation really part, and nothing is claimed of their match: one
step of two calls or a death between two transactions is all it takes
(cart.service.ts:160, 180, 268).

A sweeper tick lists the carts of a whole tenant, at most `BatchLimit` of them and in no
particular order. `Carts` are those of one customer, whom the calls work for, and
`Backlog`: carts of others that were overdue when the run starts, which no call
finds and which fill the batches.

`Checkout` puts the bot on top of `Cart`. A message is one request and one
transaction R; the update of `last_message_at` locks the conversation row, so
that messages take turns (`turn`), but each decides on the context it read
before (`msg[m].ctx`). Cart calls run in transactions of their own and survive a
rollback of R.

| action | code |
|---|---|
| `Receive`, `ResetConversation`, `CompareConversation`, `TakeTurn` | `getOrCreateConversation` with the reset after five minutes of silence, its save, the wait for the row |
| `AskFulfillment`, `CollectName`, `CollectPhone`, `CollectAddress`, `ConfirmAddress`, `SelectPickupSlot`, `CancelCheckout` | the handlers of the checkout stages |
| `ProposeCartAdd`, `AnswerProposal` | the proposal of an item and its answer |
| `HandleCart`, `FindCart`, `ShowCart`, `StartCheckout`, `ChangeCart`, `SaveCart`, `NothingToRemove`, `NothingToCheckOut` | the cart commands, over the actions of `Cart` |
| `PlaceOrder`, `CreatePayment`, `ConvertCart`, `CartIsConverted`, `EndCheckout` | `finalizeDeliveryCheckout`, `finalizePickupCheckout`: the order, the payment, `markAsConverted` on a second connection |
| `HandleCancelOrder`, `Answer` | cancellation of the latest unpaid order; everything that changes nothing |
| `TaskFails`, `RefuseTask`, `RollBack` | an error the handler catches, and one that ends R |
| `SweepLists`, `SweepWaits`, `Sweeps`, `SweepFails` | a tick that holds the cart row and waits for the stock row of an order that has not committed |
| `Silence`, `ProposalAges`, `TtlPasses` | time |

What a customer writes is one of the `Words` the handlers tell apart.

`Placement` is `create` with everything around it: the till and its key
(`RingUp`, `SubmitSale`, `ConnectionLost`, `NewSale`), the request
(`FindKey`, `RemoveKey`, `InsertKey`, `LockStock`, `CreateOrder`,
`ConsumeCoupon`, `Commit`, `CommitBroken`, `Refuse`), and what may happen to it
(`AbortDeadlocked`, `RequestDies`, `KeyExpires`). What R writes takes effect at
its commit; `RowLocked` and `WaitsFor` say who waits for whom until then.
`CommitBroken` is a commit that PostgreSQL answers with ROLLBACK because an
earlier statement failed and the error was swallowed.

`SalesBook` is what `create` promises to whoever sees only committed rows: an
order is placed at one moment and as a whole (`Place`), if its units and its use of
the coupon are left and its key stands for no other order; and a key lapses
(`Lapse`). It knows no request, lock, retry or error. `Placement` implements it
(`PlacedAtOnce`): the units left are those on the shelf and not reserved
(`Available`), the uses left are `UsageLimit - used`, `keys` and `order` are
themselves. A commit is a `Place`, an expiry a `Lapse`, everything else a stutter.

`Catalog` has jobs, one request transaction each: `StartCreate`,
`InsertProduct`, `RefuseCreate` (SAVEPOINT, INSERT, the next suffix on 23505);
`ReadProduct` or `ReadStock`, `Reload`, `Write` (`update`, `remove`,
`setMinStock`: find, change, `save()`); `Count` (`adjustStockLedger`);
`Invalidate`, `Commit`, `JobDies`; and readers of the cached list: `QueryProducts`,
`QueryStock`, `CacheProducts`, `ListExpires`.

`Tracking` is the customer's page: `Submit` (the form), `Poll` (the interval,
which exists while the page shows a status that is not final and waits for no
answer), `TrackPublicOrder` (the server reads), `Found` and `NotFound` (the
answer is shown, or the order is taken from the page), `StatusMoves` (the order;
transitions are taken from any status it has been in, as `updateStatus` judges
them on an old row).

The `MC` modules give the constants their values. Definitions commented "Mutant" are
plausible bugs of the definition after them. No specification uses them: they
are what each property was tried against, to see that it can fail.

## 4. Runs

`MaxUnits` and `MaxRows` bound what manual movements may build up (units of a
product, length of the ledger); sales are bounded by the orders. Two is the
smallest number of orders that can disturb each other's reservation, and of
requests that can invalidate each other's read. Deadlock is not checked in the
runs of `Orders` and `Payments`: every order id may be used, finished and every
bound reached, and then the system rightly stops. It is checked in all others.

* `orders_races`: one product, two orders of one or two units, two requests, one
  sweeper, purchases and losses. `TypeOK` (no counter negative), `LedgerBalances`,
  `ReservationsEndOnce` (released at most once, and if cancelled then released),
  `DeliveredIsSold`, `ReservedIsHeld`, and `LedgerContract`: the whole system
  implements `StockLedger!Spec`, so that nothing is sold twice either. 1.3 million
  states. `ReservedIsHeld` has a premise, that no order was both released and sold:
  that can happen (see 6), and the counter is then really wrong.
* `orders_baskets`: two products and baskets of one or both, with losses taking
  units away before the sale, and listings of one id (`BatchLimit` 1, two
  orders). A sale is all or nothing (`SoldAsOrdered`), and under `FairSpec` every
  overdue order is settled (`OverdueIsSettled`).
* `payments_races`: one order of one unit, one payment by card, two payment calls
  and one panel request; the provider's API may fail, and one transaction may be
  lost after its notice (`MaxLost` 1, the bound on such losses per payment). Two
  calls are enough for creation, manual confirmation, delivery and repeated
  delivery to meet on one row. `PaymentsTypeOK`, `ConfirmedIsPaid`,
  `NotAnnouncedAgain`, and `LifecycleContract`: payments implement `Orders`.
  A card can do all a PIX can, and be approved or refused at once besides.
* `payments_twice`: two payments of one order and two calls, so that both
  `createPayment` find nothing under way, or a second charge follows a failed
  one. `PaidNotPending`, `RefundIsFlagged`. 0.9 million states.
* `payments_recorded`: one PIX, one call, the sweeper and stock movements, under
  `FairPaymentsSpec`: `ApprovedIsRecorded`, as long as the provider's API answers
  (`FetchMayFail` FALSE). With TRUE it does not hold: a webhook whose details
  cannot be fetched is answered with 200 (payments.service.ts:1005), is not
  delivered again, and nothing polls. The run pays by PIX, because a card that is approved
  by a `createPayment` that then rolls back leaves a charge without a row, which
  nothing in the code ever records.
* `cart_races`: one cart of the customer and one of somebody else that is
  overdue from the start, one product, two units, two calls and one tick with a
  batch of one. Two calls are the fewest that can save over each other, with the
  sweeper as the third writer of the row; the second cart is what a batch of one can
  leave the first out for. `CartTypeOK`, `HeldAsListed`, `ReservedIsListed`, and
  `OverdueCartIsSettled` under `FairCartSpec`. 1.1 million states. The runs of
  the bot have no backlog: what they ask does not depend on who fills a batch.
* `bot_checkout`: one message at a time through every stage, with a sweeper,
  failures, rollbacks and silences, and connections to spare (`PoolSize` 3, for
  one message and one tick). `ReservedIsAccounted`, and under `FairCheckoutSpec`
  `EveryMessageEnds` and `SilenceEndsCheckout`.
* `bot_overlap`: two messages that overlap, two carts and two orders, without
  failures and sweeper: `CheckedOutOnce`, `OrderedAsListed`. 0.4 million states.
* `placement`: two products of which one has a single unit, one till, two
  requests, two orders, one key, one use of the coupon. Two requests are the
  retry and the first attempt, or a sale and an order from elsewhere that lock
  the same rows in another order. `OneOrderPerKey`, `SoldAsShown`,
  `UnitsAreAccounted`, `CouponIsCounted`; `NobodyStuck`, which
  says that requests that wait only for each other do not wait for ever: one of them
  is `Ready`, and nobody waits for a request that has ended; and `PlacedAtOnce`, the
  refinement of `SalesBook`. 0.4 million states.
* `catalog`: three products, two jobs, one reader. Two attempts stand for the
  five of `MAX_TENTATIVAS`: the second product of a name takes the suffix, the
  third is refused. `SkuIsUnique`, `ConflictIsReal`, `OnlyAlertsUndoMovements`
  and `OnlyRacedListsAreStale`: the cache is cleared before the change commits, so a
  reader that overlaps the change may fill in old data for as long as the TTL; no
  other list is out of date. 0.5 million states.
* `tracking`: three requests under way, one more than a late and a newer answer
  need. `EndIsShown` under `FairTrackingSpec`. Its premise is that the order
  stays in a final status and was in no other.
* `bot_leak`: a violation, see 6.

Fairness of the orders. The cron starts a tick every minute for as long as the process is up
and a tick handles what it listed, so listing is weakly fair. A single release
may fail (lost connection, statement timeout); the sweeper logs and goes on, and
a later tick lists the order again. `SweepOne` is strongly fair per order: a
release that is attempted again and again eventually succeeds. A release that
fails for ever is outside this assumption, and so is a listing without an order
that never picks some order while more than 500 others are listed for ever.
Nothing is assumed of customers, administrators, payments or requests.

Fairness of the payments. Mercado Pago repeats a notification until a delivery
is answered with 200, so a delivery that is owed is made (strongly fair, since a
call must be free for it). The steps of a call are strongly fair because a
rollback may always come between: deadlocks and timeouts are transient, and
PostgreSQL grants row locks in turn. A call that is stuck ends in a rollback at
last. Nobody is assumed to pay, to cancel or to confirm by hand.

Fairness of the others. Ticks keep listing carts (weak fairness), and of the
releases they attempt again and again not every one fails (strong fairness of
`SweepCart` for some cart, not for each). Nothing is assumed of which carts a listing
picks. `OverdueCartIsSettled` is what follows: the set of overdue carts empties or
changes again and again. A single cart may be left out for ever, but only while
others become overdue for ever, because the query has no `ORDER BY`. A message runs on
when nothing blocks it and gets a row lock that is free again and again, because
PostgreSQL grants locks in the order they are asked for (strong fairness of
`HandleMessage`). A tick that waits for a stock row gets it or is ended by
`statement_timeout` (30 s, config/database.config.ts:65), hence weak fairness of
`Sweeps \/ SweepFails`. A browser keeps its interval and ends each request with an
answer or an error. Nothing is assumed of customers, tills or panels.

## 5. Proofs

`StockLedgerProofs` proves from the contract alone that books add up and no
order is sold a product twice (`LedgerSafe`). `StockEngineProofs` has one lemma
per engine operation: it keeps the types, keeps `current_stock` equal to the
balance of the last row and extends the ledger as the contract asks.
`OrdersProofs` proves, for any constants that satisfy the assumptions named in
the modules:

* `TypeCorrect`, `NeverReleasedTwice` (`ReservationsEndOnce`) and
  `NothingDeliveredUnsold`: from the inductive invariant `IInv`;
* `ImplementsLedger`: `Spec => LedgerContract`, one step of `Orders` being one
  `Post` or a stutter; `BooksBalance` and `NothingSoldTwice` (`VendaOnce`) then
  follow from `LedgerSafe`.

`DeliveredIsSold` is not inductive by itself, since a request may write
`entregue` long after it read `pronto`, and the order may have been cancelled
meanwhile. `IInv` adds what saves it: such a request only ever read a status
that is reached after the sale (`RequestsSound`), and a sale is never taken
back. `UnplacedIsFresh` says that an id not used yet has no ledger row, which
makes the quantities of a new order the ones its sale will book.

`SoldWhatWasOrdered` (`SoldAsOrdered`) and `ReservedIsWhatOrdersHold`
(`ReservedIsHeld`) come from `HInv`, the two together: that the books hold whole
orders (`RowsAsOrdered`) is what makes a second PRONTO move nothing, and that no
order is empty (`ListsSomething`) is what makes a sale leave a row at all. The
total over the orders is a fold (`Total`), about which the prover can do no
induction. `StockEngineProofs` argues with the smallest set for which a claim
fails (`SmallestSubset`) instead: it shows that the fold unfolds at any element
(`TotalTakes`), depends on the summands only (`TotalSame`), and changes with one
of them by as much (`TotalChanges`, `TotalGrows`). The proofs about orders, carts
and placement rest on these four.

`PaymentsProofs` proves, for any number of orders, payments and calls:

* `ImplementsOrders`: `PaymentsSpec => LifecycleContract`. Every payment step is
  a step of `Orders` or leaves orders and stock alone, so each theorem above
  holds with payments too. `PaymentsKeepTheStock` says so of the properties of the
  composed system: ledger contract, balances, quantities sold and reserved,
  reservations that end once, deliveries that are sold;
* `PaymentsTypeCorrect`, `PaidIsNotPending`, `NothingPreparedUnpaid` and the
  action property `AnnouncedNoMore`.

The invariant is `IInv /\ PayInv`. `PayInv` says what row locks give: no two
calls hold one payment, so the row a call read is still the row it writes
(`CallSound`), and a payment that is about to be announced is not recorded yet,
because its call saw the order pending and the order of a recorded payment never
is. `PanelSound` is the counterpart of `RequestsSound`: a panel request that
moves an order on read it when it was paid. The proof has one lemma per action;
the lemmas `PanelMove`, `CallOnly` and `CallMoves` say once what a step has to
show that moves only orders, only one call, or one call and one payment.

`CancelledMoneyIsReported` (`RefundIsFlagged`) needs `FlagInv` besides. An order
on its way to the customer was announced (`Told`), and so was a delivered one
that a request in flight is about to cancel, because the request read it before
the delivery (`PanelTold`). Recorded money therefore has a report, an announcement
or an order that is not cancelled (`Settled`): a sale at the till, which nobody is
told of, is created delivered and can never be cancelled.

`CartProofs` proves, for any number of carts, products, calls and ticks:
`CartTypeCorrect` and `CartsHoldWhatTheyList` (`HeldAsListed`), which is not
inductive: a call changes the reservation in one step and the row two steps later. `CInv` says
what holds in between. `CallSound` types the copies. `CartSound`, for a cart that
is not torn: a row in its final form is settled, the copy of a call that has not
touched the reservation equals the row, and at most one call has touched it, whose
copy is what is reserved and what the save will leave in the row, whichever
columns it writes (`Overlaid`).

`ReservedIsWhatCartsList` (`ReservedIsListed`) adds to it that the counter is the
total of the shares and of what others hold besides (`ReservedBesides`): nobody in
`Cart` itself, the orders in `Checkout`. No share is larger than the total it is
part of, so a release never meets the `GREATEST(0, ...)` of the engine, and each
step changes the total by what it changes one share by.

`CheckoutProofs` proves, for any number of messages, carts, orders and ticks:

* `CheckoutTypeCorrect`, from `BInv`, which is about the turn: a message has a
  call or an uncommitted order only while it has the turn (`TaskSound`,
  `OrderSound`), and never works on a cart that is converted (`InHandIsOpen`).
  The order is pending and its units are still reserved, because a tick that
  would release them waits for the stock rows: so a roll-back takes back what is
  there. The lemmas of `CartProofs` about a call and a tick are used as they are.
* `BotCartsHoldWhatTheyList`: `HeldAsListed` of the carts alone holds in the whole
  bot, in which orders reserve from the same shelf and a roll-back takes units back.
* `CartsAreCheckedOutOnce` (the action property `CheckedOutOnce`), from `BInv`
  alone: the conversation may be out of date, the cart in hand is not.
* `EveryUnitIsAccounted` (`ReservedIsAccounted`), from `AInv`: the counter is the
  total of the shares and of what the pending orders ask for. Cart steps change
  one side as in `Cart`; `PlaceOrder`, `HandleCancelOrder` and `RollBack` the other.
* `OrdersMatchTheirCarts` (`OrderedAsListed`), from `ListInv`: what a message has
  copied of its cart, in memory and in its order, is still in the row when the row
  becomes converted, whichever columns the save writes (`Copied`). The premise
  `ConversionsCommit` is needed: the conversion commits on its own connection, and
  a request that is rolled back after it takes its order away from a converted
  cart. Where nothing fails, as in the run, it holds (`OrdersMatchIfNothingFails`).
* `SilenceStartsAnew` (the action property `SilenceEndsCheckout`), from `QInv`: a
  context without a state has no checkout, and one that fell silent no fresh
  proposal (`Fresh`). The premise `[]OneAtATime` is needed: of two messages at once,
  one may end the checkout and the other, with the context it read before, move its
  stage on; this leaves a stage without a state, which no silence ends. A
  customer with one message in flight, as in the run, has it
  (`SilenceStartsAnewAlone`).

`CatalogProofs` proves, for any number of products, jobs, readers and SKUs:
`CatalogTypeCorrect`, `SkusAreUnique` (`SkuIsUnique`), `RefusalsAreReal`
(`ConflictIsReal`) and the action property `OnlyStaleAlertsUndo`
(`OnlyAlertsUndoMovements`). `KInv` says for each kind of job what it may rely on.
The SKUs a creation tried before are taken for good, since an edit writes no SKU
and a removed product keeps its own; the one it has inserted is free in the table
and in nobody else's transaction (`Apart`), because PostgreSQL makes the second
insert wait. A count commits with the row lock it took, so its guard still holds;
an alert level has no such claim, which is the point of the action property.
`StaleListsWereRaced` (`OnlyRacedListsAreStale`) comes from `RInv`: whatever a reader
that nobody overtook has read so far, products or the whole list, is what the query
would return now, and so is the cached list unless it came from another reader. An
invalidation makes every listing under way an overtaken one and empties the cache, so
that the commit after it finds nothing it could make outdated.
`CatalogKeepsTheBooks` draws the consequence for whole behaviours: if no stale alert
level commits (`NoStaleAlertCommits`), the catalogue implements the ledger contract
and `current_stock` stays the balance of the last row. Its invariant (`Books`) adds
that a product has no ledger row before its creation commits. The premise is needed:
after a stale alert level a count continues the book from the wrong balance (see 6).
The proof needs of the constants that an edit assigns only the columns that
`update` and `remove` assign (`EditsAssumption`) and that the products there from
the start have SKUs of their own (`CatalogAssumption`).

`PlacementProofs` proves, for any number of tills, requests, keys and orders:
`PlacementTypeCorrect`, `SalesArePlacedOnce` (`OneOrderPerKey`), `ShownIsSold`
(`SoldAsShown`), `EveryUnitHasItsOrder` (`UnitsAreAccounted`) and
`CouponUsesAreOrders` (`CouponIsCounted`). The invariant `PInv` says what row locks
and the unique index of `idempotency_keys` give: no two requests hold one row, have
written one key, or have both taken a use of the coupon (`Apart`); what a request
found available stays so until it ends (`RequestSound`). `OneOrderPerKey` follows
from `OrderSound`: the row of a key that has not expired names the only order made
for it since, so a repeated request finds it. `SoldAsShown` needs the other side, the till:
as long as the operator changes nothing, every request and every order of its key
has what was rung up (`TillSound`), and no two tills have one key.

`NobodyWaitsForEver` (`NobodyStuck`) is about the requests in any set that waits for
nobody outside it. One that is not `Ready` waits for another one (`UnreadyWaits`),
and that one has not ended, because an ended request owns nothing (`WaitedForRuns`).
So if nobody in the set were `Ready`, each of those under way would wait for one of
them. They are finitely many (`FlightInv`: only one request starts or ends at a
time, however many there may be), so there is a smallest set that waits in this
way; in it everybody is waited for as well, since otherwise one could be left out
(`WaitersDeadlock`). That is the circle PostgreSQL finds (`Deadlocked`), and its
members are `Ready` to be aborted.

`OrdersArePlacedAtOnce` is the refinement: `PlacementSpec => PlacedAtOnce`. What R
checked long before its commit is still so when it commits, which is what `PInv`
says (`CommitKnows`): its units are still available and its use of the coupon is
left, for no other request could lock the same rows; its key is still free or
expired. The commit therefore is a `Place` (`CommitPlaces`), with a basket that was
rung up (`BasketsRung`), and no other step but the expiry of a key writes anything
(`OnlyCommitsWrite`). By the same argument the commit is one `Post` of the ledger:
`SalesKeepTheBooks` is `PlacementSpec => Ledger!Spec`.

Only model-checked: `EndIsShown` of `Tracking` and the other liveness properties
(`OverdueIsSettled`, `ApprovedIsRecorded`, `OverdueCartIsSettled`,
`EveryMessageEnds`), which the prover cannot reach.

## 6. Where the code and its documentation disagree

`bot_leak` checks the first of these. The others were found while modelling; the
models have the steps that lead there, and the properties are stated with the
premises that leave them out.

* `bot_leak`: the bot reserves the units of an item when it is put in the cart
  and again when the order is placed (orders.service.ts:255). `markAsConverted`
  (cart.service.ts:402) stamps the cart converted and releases nothing, and no
  sweeper looks at a converted cart: its units stay reserved for ever, whatever
  becomes of the order. The stock design
  (`docs/superpowers/specs/2026-06-28-motor-de-estoque-design.md:119`, 152) says
  that the life cycle of cart and order releases what they hold.
* `setMinStock` (products.service.ts:756-772) reads the whole stock row and saves
  it; a purchase, loss or reservation that commits in between is undone in
  `current_stock` or `reserved_stock` and stays in the ledger. The design (line
  31) has `current_stock` equal to the sum of the ledger from day zero.
  `OnlyAlertsUndoMovements` says that nothing else does this. `update` and
  `remove` save a product in the same way: an edit may bring back a product
  that was removed meanwhile.
* `order-status-transitions.ts:24`: ENTREGUE and CANCELADO are final for every
  actor. `updateStatus` judges the transition before it has the lock
  (orders.service.ts:664) and re-checks only equality afterwards (684). Two
  panel requests that both read EM_PRODUCAO, one cancelling and one making it
  PRONTO, both go through.
* The stock design (line 125) concludes that nothing is released once the sale is
  committed. In the other order of the same race the cancellation releases units
  already sold, and `reserved_stock` falls below what other orders hold.
* payments.service.ts:761-762: `confirmPayment` claims not to resurrect a
  cancelled order and to read its status under a lock, but the lock is on the
  payment. When the order expires after that read, CONFIRMADO overwrites
  CANCELADO; its reservation is gone and nothing is reserved again.
* payments.service.ts:808, "only the winner enters here": two payments of one
  order have two locks, and the customer is told twice. The second payment is
  neither reported nor logged as unexpected.
* `docs/superpowers/specs/2026-06-30-confirmpayment-hardening-design.md:103` wants
  the notice after the commit. `runInTransaction` joins the transaction of the
  request or webhook, so it is sent before that one commits.
* The stock design (line 43): repeating a webhook is a no-op by compare-and-set.
  The webhook fetches the status before it locks the row (998) and writes it
  unconditionally (1105): a delivery that fetched 'pending' turns PAID back into
  PENDING.
* The stock design (lines 146 and 222) and its plan want no external call inside
  the transaction that holds stock locks. The bot's checkout places the order and
  calls the payment provider in one request transaction.
* whatsapp.service.ts:117 and 937: an order exists only when the customer has
  confirmed. Of two messages that overlap, one may place the order although the
  other has just ended the checkout. In the same way `SilenceEndsCheckout`
  (comment at 262-271) holds only for messages that come one at a time.
  `docs/CONSOLIDADO/EVIDENCIAS-TESTES.md:382` speaks of a lock per tenant and phone;
  `withConversationLock` has no caller.
* orders.service.ts:417 and 430: a failing audit log or idempotency record must
  not fail the order. The error is swallowed, but PostgreSQL has aborted the
  transaction: its COMMIT answers ROLLBACK without an error, and the client gets
  a 201 for an order that does not exist. `CommitBroken` has the step.
* usePdvSale.ts:9-11: one key per sale. After a lost answer the key stays while
  the items are changed or the sale is discarded, and the next attempt is
  answered with the old order. `SoldAsShown` has the premise that the items did
  not change.
* OrderTracking.tsx:58 and 224: the page refreshes itself until the order is
  final. A poll that fails takes the order from the page (50), and without an
  order there is no interval (65): one lost answer ends the updates until the
  customer fills in the form again. `EndIsShown` therefore allows the form. And
  an order that leaves CANCELADO by the race above is shown as cancelled for ever.

## 7. Not modelled

Left out of `Orders`: prices, coupons, addresses, order numbers, the audit log,
notifications and cache calls of the same handlers (no stock or status depends
on them; coupon, key and log are in `Placement`); tenants, because every query is
confined to one and all products of an order belong to it; `min_stock` (in
`Catalog`). Row locks are abstracted to the atomicity of the transaction that
holds them, so a database deadlock appears only as the abort it ends in
(`AbortRequest`); `Placement` has the locks themselves.

Left out of `Payments`: amounts and the PIX discount, QR codes and messages,
signature and token checks of the webhook, metadata, and the provider statuses
that are stored like another one (`authorized` like `in_process`,
`in_mediation` and unknown ones like `pending`). The mock provider of the
development setup is not modelled: its timer is a `ManualConfirm`, its PIX a
payment without a charge. `notifyPaymentPending` changes nothing.

Left out of `Cart` and `Checkout`: the coupon of a cart, `extendTtl` (no caller),
the 12-hour TTL of a conversation, two conversations created by two first
messages, wording and intent recognition. Whether a pickup slot is offered and
still open is chosen freely. With as many messages in flight as the pool has
connections no message ends, since each asks for a second one and nothing times
out (the default pool has ten and no `connectionTimeoutMillis`): the runs have
one to spare. A checkout that waits for a cart row held by a sweeper tick, which
waits for a stock row of that checkout, is a deadlock over two connections that
the database cannot see; only `statement_timeout` ends it, and `SweepFails` is
that. When `markAsConverted` fails the order commits and the cart stays active.

Left out of `Placement`: prices, discount arithmetic and dates of coupons. The
public checkout opens no transaction in production and is refused under forced
row-level security (`scripts/migrations/009-rls-force-and-extra-policies.sql`),
so only requests inside a transaction are modelled.

Left out of `Catalog`: search, summaries, categories, and the endpoints POST
`products/:id/reserve` and `products/:id/release` (`reserveStock`, `releaseStock`),
which a signed-in user may call with any quantity. The API client has a wrapper for
each (`frontend/lib/api-client.ts:446-480`); no page and no other service uses them. In
excess `release` would free what orders and carts hold, and every property about
`reserved_stock` has the premise that nobody calls it so. Stock, menu and FAQ entries of the cache
are not modelled.

Left out of `Tracking`: the contact the customer typed (a wrong one is a request
that fails) and the layout.

Not modelled at all: authentication, encryption, tenants' settings, availability,
LGPD, logs, health, notifications, language-model heuristics, the other pages and
the deployment scripts. They are I/O, wording, CRUD or cryptography and share no
state with the above. Two pages have races worth a module later. The stock page
(`useStock.ts`, `StockManager.tsx`) adjusts optimistically, and a revert restores
a row that later adjustments or a reload have changed (211-214); a count is sent
as a difference to the number the modal was opened on. The settings page can save
two sections at once, and the older answer may be shown last. Most of the
repository's lines are of these kinds, which is why the mapped part of it is
small.
