-------------------------------- MODULE Cart --------------------------------
(***************************************************************************)
(* CartService: the carts of one customer of the WhatsApp channel.  Every  *)
(* operation is several short transactions: carts past their TTL are       *)
(* expired, the active cart is looked up or created, the stock reservation *)
(* is changed, and the row is saved from what the call has in memory.      *)
(* Calls (HTTP requests, bot messages) and sweeper ticks interleave        *)
(* between those transactions, and a call may die between two of them.     *)
(* The sweeper lists the carts of a whole tenant: carts of other customers *)
(* (Backlog) enter as what fills its batches.                              *)
(***************************************************************************)
EXTENDS StockEngine

CONSTANTS Carts,         \* ids of whatsapp_carts, in the order of created_at
          NoCart,        \* no cart in hand
          Backlog,       \* carts of other customers, overdue from the start
          NoProduct,     \* the operation names no product
          Calls,         \* operations that can be in flight at a time
          CartSweepers,  \* ticks of the cart half of the sweeper that overlap
          Quantities,    \* quantities customers ask for
          InitialUnits,  \* units of each product on the shelf
          MaxCartItems,  \* MAX_CART_ITEMS (50 in the code)
          BatchLimit     \* LIMIT of the sweeper's query of carts (500 in the code)

ASSUME CartAssumption ==
  /\ Carts \subseteq Nat /\ IsFiniteSet(Carts)
  /\ NoCart \notin Carts
  /\ Backlog \subseteq Carts
  /\ NoProduct \notin Products
  /\ Quantities \subseteq Nat
  /\ InitialUnits \in [Products -> Nat]
  /\ MaxCartItems \in Nat
  /\ BatchLimit \in Nat \ {0}

VARIABLES cart,       \* whatsapp_carts: status, items, stock_released_at
          late,       \* carts whose expires_at has passed
          call,       \* what each call in flight remembers
          cartSweep,  \* ids a sweeper tick has listed and not yet handled
          share,      \* history: units reserved for a cart and not given back
          torn        \* history: carts whose calls overlapped or died half-way

cartVars == <<stock, ledger, cart, late, call, cartSweep, share, torn>>

CartStatus == {"active", "converted", "abandoned", "expired"}
CartRow == [status : CartStatus \cup {"none"}, items : Basket, released : BOOLEAN]
NoCartRow == [status |-> "none", items |-> EmptyBasket, released |-> FALSE]
NewCartRow == [NoCartRow EXCEPT !.status = "active"]

Ops == {"add", "update", "remove", "clear", "convert"}
CallState ==
  [op : Ops \cup {"none"}, product : Products \cup {NoProduct}, qty : Nat,
   pc : {"idle", "expire", "create", "read", "engine", "compare", "write"},
   todo : SUBSET Carts, cart : Carts \cup {NoCart}, mem : CartRow,
   cols : SUBSET {"status", "items", "released"}]
NoCall ==
  [op |-> "none", product |-> NoProduct, qty |-> 0, pc |-> "idle", todo |-> {},
   cart |-> NoCart, mem |-> NoCartRow, cols |-> {}]

Only(p, n) == [q \in Products |-> IF q = p THEN n ELSE 0]
Listing(items) == {p \in Products : items[p] > 0}
WithQuantity(row, p, n) == [row EXCEPT !.items[p] = n]

\* the call works on a copy of the row; it has also changed the reservation
Holds(c, k) == call[c].cart = k /\ call[c].pc \in {"engine", "compare", "write"}
Engaged(c, k) == call[c].cart = k /\ call[c].pc \in {"compare", "write"}

CartInit ==
  /\ EngineInit(InitialUnits)
  /\ cart = [k \in Carts |-> IF k \in Backlog THEN NewCartRow ELSE NoCartRow]
  /\ late = Backlog
  /\ call = [c \in Calls |-> NoCall]
  /\ cartSweep = [s \in CartSweepers |-> {}]
  /\ share = [k \in Carts |-> EmptyBasket]
  /\ torn = {}

-----------------------------------------------------------------------------
(* History.  A cart is torn when its row changes under a call that holds a  *)
(* copy of it, or when two calls have changed its reservation; from then on *)
(* its share is not followed.                                               *)

Account(k, units, isTorn) ==
  /\ torn' = IF isTorn THEN torn \cup {k} ELSE torn
  /\ share' = [share EXCEPT ![k] = IF k \in torn' THEN EmptyBasket ELSE units]

HeldByOther(c, k) == \E d \in Calls \ {c} : Holds(d, k)

-----------------------------------------------------------------------------
(* releaseExpiredCart: whoever flips the row releases the listed items, in  *)
(* the same transaction.  It does not look at expires_at again.             *)

ReleaseExpiredCart(k) ==
  IF cart[k].status = "active" /\ ~cart[k].released
  THEN /\ cart' = [cart EXCEPT ![k].status = "expired", ![k].released = TRUE]
       /\ stock' = Released(stock, cart[k].items)
       /\ Account(k, [p \in Products |-> share[k][p] - cart[k].items[p]],
                  \E d \in Calls : Holds(d, k))
  ELSE UNCHANGED <<cart, stock, share, torn>>

\* expires_at passes
CartTtlPasses(k) ==
  /\ cart[k].status = "active"
  /\ k \notin late
  /\ late' = late \cup {k}
  /\ UNCHANGED <<stock, ledger, cart, call, cartSweep, share, torn>>

-----------------------------------------------------------------------------
(* getOrCreateCart *)

\* an operation starts: expireOldCarts lists the customer's old carts
Begin(c, op, p, n) ==
  /\ call[c].pc = "idle"
  /\ call' = [call EXCEPT ![c] =
                [NoCall EXCEPT !.op = op, !.product = p, !.qty = n, !.pc = "expire",
                               !.todo = {k \in late \ Backlog : cart[k].status = "active"}]]
  /\ UNCHANGED <<stock, ledger, cart, late, cartSweep, share, torn>>

\* and releases each of them in a transaction of its own
ExpireOld(c, k) ==
  /\ call[c].pc = "expire"
  /\ k \in call[c].todo
  /\ call' = [call EXCEPT ![c].todo = @ \ {k}]
  /\ ReleaseExpiredCart(k)
  /\ UNCHANGED <<ledger, late, cartSweep>>

\* The caller has its cart: addItem works on the row it was given, the other
\* operations are given the id and read the row again.
Given(c, k, row) ==
  call' = [call EXCEPT ![c] =
             [@ EXCEPT !.cart = k, !.mem = row,
                       !.pc = IF call[c].op = "add" THEN "engine" ELSE "read"]]

ActiveCarts == {k \in Carts : cart[k].status = "active" /\ k \notin late}

FindActiveCart(c) ==
  /\ call[c].pc = "expire"
  /\ call[c].todo = {}
  /\ UNCHANGED <<stock, ledger, cart, late, cartSweep, share, torn>>
  /\ IF ActiveCarts = {}
     THEN call' = [call EXCEPT ![c].pc = "create"]
     ELSE \E k \in ActiveCarts :
            (\A j \in ActiveCarts : j <= k) /\ Given(c, k, cart[k])

\* the insert is another transaction: two calls may both create a cart
CreateCart(c, k) ==
  /\ call[c].pc = "create"
  /\ cart[k].status = "none"
  /\ \A j \in Carts : j < k => cart[j].status # "none"
  /\ cart' = [cart EXCEPT ![k] = NewCartRow]
  /\ Given(c, k, NewCartRow)
  /\ UNCHANGED <<stock, ledger, late, cartSweep, share, torn>>

\* getCartById; the checkout goes on only with a cart that had items
ReadCart(c) ==
  /\ call[c].pc = "read"
  /\ call[c].op = "convert" => call[c].mem.items # EmptyBasket
  /\ call' = [call EXCEPT ![c].pc = "engine", ![c].mem = cart[call[c].cart]]
  /\ UNCHANGED <<stock, ledger, cart, late, cartSweep, share, torn>>

-----------------------------------------------------------------------------
(* The reservation changes in one transaction; the row in memory follows.   *)

At(c, op) == call[c].pc = "engine" /\ call[c].op = op

\* A stamp the call sets itself is a time no row has, so it will be written.
Remember(c, row) ==
  call' = [call EXCEPT ![c].mem = row, ![c].pc = "compare",
             ![c].cols = IF row.status = "abandoned"
                            /\ (call[c].op = "remove" \/ ~call[c].mem.released)
                         THEN {"released"} ELSE {}]

\* A by-id operation found a cart that is not active any more, and treats its
\* items as if they were still reserved (or as if they were not).
Misplaced(c) ==
  \/ call[c].mem.status = "converted" /\ call[c].op # "convert"
  \/ call[c].mem.status # "active" /\ call[c].op = "update"

Reserve(c, units) ==
  LET k == call[c].cart IN
  /\ CanReserve(units)
  /\ stock' = Reserved(stock, units)
  /\ Account(k, [p \in Products |-> share[k][p] + units[p]],
             Misplaced(c) \/ \E d \in Calls \ {c} : Engaged(d, k))

Release(c, units) ==
  LET k == call[c].cart IN
  /\ stock' = Released(stock, units)
  /\ Account(k, [p \in Products |-> share[k][p] - units[p]],
             Misplaced(c) \/ \E d \in Calls \ {c} : Engaged(d, k))

\* only the added quantity is reserved
AddItem(c) ==
  LET m == call[c].mem   p == call[c].product IN
  /\ At(c, "add")
  /\ Cardinality(Listing(m.items)) < MaxCartItems
  /\ m.items[p] + call[c].qty <= MaxUnits
  /\ Reserve(c, Only(p, call[c].qty))
  /\ Remember(c, WithQuantity(m, p, m.items[p] + call[c].qty))
  /\ UNCHANGED <<ledger, cart, late, cartSweep>>

\* Mutant: lowering a quantity keeps what was reserved.
UpdateItemNeverReleasing(c) ==
  LET m == call[c].mem   p == call[c].product   n == call[c].qty IN
  /\ At(c, "update")
  /\ m.items[p] > 0
  /\ n <= MaxUnits
  /\ Reserve(c, Only(p, IF n > m.items[p] THEN n - m.items[p] ELSE 0))
  /\ Remember(c, WithQuantity(m, p, n))
  /\ UNCHANGED <<ledger, cart, late, cartSweep>>

\* the difference is reserved or released; 0 takes the item out
UpdateItem(c) ==
  LET m == call[c].mem   p == call[c].product   n == call[c].qty IN
  /\ At(c, "update")
  /\ m.items[p] > 0
  /\ n <= MaxUnits
  /\ IF n >= m.items[p] THEN Reserve(c, Only(p, n - m.items[p]))
                        ELSE Release(c, Only(p, m.items[p] - n))
  /\ Remember(c, WithQuantity(m, p, n))
  /\ UNCHANGED <<ledger, cart, late, cartSweep>>

Abandoned(row) == [row EXCEPT !.status = "abandoned", !.released = TRUE]

\* a cart that loses its last item is abandoned
RemoveItem(c) ==
  LET m == call[c].mem   p == call[c].product
      rest == WithQuantity(m, p, 0) IN
  /\ At(c, "remove")
  /\ Release(c, Only(p, IF m.status = "active" THEN m.items[p] ELSE 0))
  /\ Remember(c, IF Listing(rest.items) = {} THEN Abandoned(rest) ELSE rest)
  /\ UNCHANGED <<ledger, cart, late, cartSweep>>

\* Mutant: what is released does not depend on the state of the cart.
ClearCartAlways(c) ==
  LET m == call[c].mem IN
  /\ At(c, "clear")
  /\ Release(c, m.items)
  /\ Remember(c, [Abandoned(m) EXCEPT !.items = EmptyBasket])
  /\ UNCHANGED <<ledger, cart, late, cartSweep>>

ClearCart(c) ==
  LET m == call[c].mem IN
  /\ At(c, "clear")
  /\ Release(c, IF m.status = "active" /\ ~m.released THEN m.items ELSE EmptyBasket)
  /\ Remember(c, [Abandoned(m) EXCEPT !.items = EmptyBasket])
  /\ UNCHANGED <<ledger, cart, late, cartSweep>>

\* markAsConverted, at the end of the checkout: the reservation stays where it
\* is, and is not stamped
MarkAsConverted(c) ==
  /\ At(c, "convert")
  /\ Account(call[c].cart, share[call[c].cart],
             \E d \in Calls \ {c} : Engaged(d, call[c].cart))
  /\ Remember(c, [call[c].mem EXCEPT !.status = "converted"])
  /\ UNCHANGED <<stock, ledger, cart, late, cartSweep>>

\* The operation throws: the cart is full, the item is not in it, too few
\* units are available, a transaction fails or the process dies.  Between the
\* reservation and the save this loses the match of the two.
FailCall(c) ==
  /\ call[c].pc # "idle"
  /\ call' = [call EXCEPT ![c] = NoCall]
  /\ IF call[c].pc \in {"compare", "write"}
     THEN Account(call[c].cart, EmptyBasket, TRUE)
     ELSE UNCHANGED <<share, torn>>
  /\ UNCHANGED <<stock, ledger, cart, late, cartSweep>>

-----------------------------------------------------------------------------
(* saveCart: TypeORM reads the row again and updates the columns in which   *)
(* the copy in memory differs from it.                                      *)

SaveCompares(c) ==
  LET m == call[c].mem   row == cart[call[c].cart] IN
  /\ call[c].pc = "compare"
  /\ call' = [call EXCEPT ![c].pc = "write",
       ![c].cols = @ \cup {f \in {"status", "items", "released"} : m[f] # row[f]}]
  /\ UNCHANGED <<stock, ledger, cart, late, cartSweep, share, torn>>

\* recalculateTotals also moves expires_at
Extends(c) ==
  \/ call[c].op \in {"add", "update"}
  \/ call[c].op = "remove" /\ call[c].mem.status # "abandoned"

Overlaid(row, m, cols) ==
  [status   |-> IF "status" \in cols THEN m.status ELSE row.status,
   items    |-> IF "items" \in cols THEN m.items ELSE row.items,
   released |-> IF "released" \in cols THEN m.released ELSE row.released]

SaveWrites(c) ==
  LET k == call[c].cart IN
  /\ call[c].pc = "write"
  /\ cart' = [cart EXCEPT ![k] = Overlaid(@, call[c].mem, call[c].cols)]
  /\ late' = IF Extends(c) THEN late \ {k} ELSE late
  /\ Account(k, share[k], HeldByOther(c, k))
  /\ call' = [call EXCEPT ![c] = NoCall]
  /\ UNCHANGED <<stock, ledger, cartSweep>>

-----------------------------------------------------------------------------
(* The cart half of the sweeper. *)

\* Mutant: the query asks for the time alone, so that settled carts fill it.
OverdueByTime(k) == k \in late

Overdue(k) == cart[k].status = "active" /\ k \in late /\ ~cart[k].released

OverdueCarts == {k \in Carts : Overdue(k)}

\* the query of a tenant ends at its LIMIT, in no particular order
ListExpiredCarts(s) ==
  /\ cartSweep[s] = {}
  /\ \E ids \in SUBSET OverdueCarts :
       /\ ids # {}
       /\ Cardinality(ids) <= BatchLimit
       /\ ids = OverdueCarts \/ Cardinality(ids) = BatchLimit
       /\ cartSweep' = [cartSweep EXCEPT ![s] = ids]
  /\ UNCHANGED <<stock, ledger, cart, late, call, share, torn>>

SweepCart(s, k) ==
  /\ k \in cartSweep[s]
  /\ cartSweep' = [cartSweep EXCEPT ![s] = @ \ {k}]
  /\ ReleaseExpiredCart(k)
  /\ UNCHANGED <<ledger, late, call>>

\* one cart fails: the error is logged and the loop goes on
SweepCartFails(s, k) ==
  /\ k \in cartSweep[s]
  /\ cartSweep' = [cartSweep EXCEPT ![s] = @ \ {k}]
  /\ UNCHANGED <<stock, ledger, cart, late, call, share, torn>>

-----------------------------------------------------------------------------
BeginCall(c) ==
  \/ \E op \in {"clear", "convert"} : Begin(c, op, NoProduct, 0)
  \/ \E p \in Products : Begin(c, "remove", p, 0)
  \/ \E p \in Products, n \in Quantities \ {0} : Begin(c, "add", p, n)
  \/ \E p \in Products, n \in Quantities \cup {0} : Begin(c, "update", p, n)

CallStep(c) ==
  \/ \E k \in Carts : ExpireOld(c, k)
  \/ FindActiveCart(c)
  \/ \E k \in Carts : CreateCart(c, k)
  \/ ReadCart(c)
  \/ AddItem(c)
  \/ UpdateItem(c)
  \/ RemoveItem(c)
  \/ ClearCart(c)
  \/ MarkAsConverted(c)
  \/ FailCall(c)
  \/ SaveCompares(c)
  \/ SaveWrites(c)

CartSweepStep(s) ==
  \/ ListExpiredCarts(s)
  \/ \E k \in Carts : SweepCart(s, k)
  \/ \E k \in Carts : SweepCartFails(s, k)

CartNext ==
  \/ \E c \in Calls : BeginCall(c)
  \/ \E c \in Calls : CallStep(c)
  \/ \E k \in Carts : CartTtlPasses(k)
  \/ \E s \in CartSweepers : CartSweepStep(s)

CartSpec == CartInit /\ [][CartNext]_cartVars

\* Ticks keep coming, and of the releases they try again and again not every
\* one fails.  Nothing is assumed of the customer's calls, nor of which carts a
\* listing leaves out.
CartFairness ==
  \A s \in CartSweepers :
    /\ WF_cartVars(ListExpiredCarts(s))
    /\ SF_cartVars(\E k \in Carts : SweepCart(s, k))

FairCartSpec == CartSpec /\ CartFairness

-----------------------------------------------------------------------------
(* Correctness *)

CartTypeOK ==
  /\ EngineTypeOK
  /\ cart \in [Carts -> CartRow]
  /\ late \subseteq Carts
  /\ call \in [Calls -> CallState]
  /\ cartSweep \in [CartSweepers -> SUBSET Carts]
  /\ share \in [Carts -> [Products -> Int]]
  /\ torn \subseteq Carts

\* what the row says is reserved for the cart
Listed(row) == IF row.released THEN EmptyBasket ELSE row.items

\* what the row says, or the copy of the call that has changed the
\* reservation and not saved yet
Promised(k) ==
  IF \E c \in Calls : Engaged(c, k)
  THEN Listed(call[CHOOSE c \in Calls : Engaged(c, k)].mem)
  ELSE Listed(cart[k])

\* As long as the calls on a cart neither overlap nor die half-way, exactly
\* its items are reserved for it until stock_released_at is set, and nothing
\* afterwards: through any sequence of operations, expiries and sweeps.
HeldAsListed == \A k \in Carts \ torn : share[k] = Promised(k)

\* The shared counter is the sum of what the carts list.
ReservedIsListed ==
  torn = {} => \A p \in Products :
    stock[p].reserved = Total([k \in Carts |-> Promised(k)[p]], Carts)

\* The overdue carts never stay the same for ever: listings that are cut at the
\* limit, releases that fail, and calls that save old copies of a row that has
\* expired only delay them.  A cart can be left out for ever only while others
\* become overdue again and again.
HeldPastExpiry == {k \in late : cart[k].status = "active" /\ ~cart[k].released}
OverdueCartIsSettled ==
  []<>(HeldPastExpiry = {}) \/ []<><<HeldPastExpiry' # HeldPastExpiry>>_cartVars
=============================================================================
