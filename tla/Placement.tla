------------------------------ MODULE Placement ------------------------------
(***************************************************************************)
(* OrdersService.create from the till to the commit: the sale of the PDV   *)
(* screen with its idempotency key, retried after network errors; the      *)
(* request, one transaction R from the key to the commit; the row locks    *)
(* two requests compete for; and the coupon with a usage limit.  What R    *)
(* writes takes effect when it commits: until then its row locks keep      *)
(* everybody else away from it.                                            *)
(***************************************************************************)
EXTENDS StockEngine

CONSTANTS Tills,         \* open PDV screens
          Requests,      \* POST /orders requests that can be in flight
          NoRequest,     \* the till waits for no answer
          Keys,          \* idempotency keys, in the order they are generated
          NoKey,         \* no key yet, or a client that sends none
          Baskets,       \* what is rung up
          Elsewhere,     \* bound: orders from elsewhere, with the coupon or without
          InitialUnits,  \* units of each product on the shelf
          UsageLimit,    \* usage_limit of the coupon
          MayFail        \* bound: whether statements and connections may fail

ASSUME PlacementAssumption ==
  /\ Orders \subseteq Nat /\ IsFiniteSet(Orders)
  /\ Keys \subseteq Nat /\ NoKey \notin Keys
  /\ NoRequest \notin Requests
  /\ Baskets \subseteq Basket /\ EmptyBasket \notin Baskets
  /\ Elsewhere \subseteq BOOLEAN
  /\ InitialUnits \in [Products -> Nat]
  /\ UsageLimit \in Nat
  /\ MayFail \in BOOLEAN

VARIABLES keys,     \* idempotency_keys: the order of each completed key
          order,    \* pedidos
          used,     \* used_count of the coupon
          request,  \* the requests in flight
          till,     \* usePdvSale
          bygone    \* history: orders whose key has expired since

placementVars == <<stock, ledger, keys, order, used, request, till, bygone>>

KeyRow == [order : Orders \cup {NoOrder}, expired : BOOLEAN]
NoKeyRow == [order |-> NoOrder, expired |-> FALSE]

OrderRow == [status : {"none", "entregue", "pendente_pagamento"},
             key : Keys \cup {NoKey}, items : Basket, coupon : BOOLEAN]
NoOrderRow == [status |-> "none", key |-> NoKey, items |-> EmptyBasket, coupon |-> FALSE]

RequestState ==
  [pc : {"idle", "find", "remove", "insert", "lock", "coupon", "finish"},
   key : Keys \cup {NoKey}, items : Basket, coupon : BOOLEAN,
   keyRow : {"none", "removed", "inserted"},  \* what R did to the key's row
   locked : SUBSET Products,                  \* stock rows R has locked
   consumed : BOOLEAN,                        \* R has updated the coupon
   order : Orders \cup {NoOrder}]             \* the order it has made
NoRequestState ==
  [pc |-> "idle", key |-> NoKey, items |-> EmptyBasket, coupon |-> FALSE,
   keyRow |-> "none", locked |-> {}, consumed |-> FALSE, order |-> NoOrder]

TillState ==
  [key : Keys \cup {NoKey}, items : Basket, request : Requests \cup {NoRequest},
   order : Orders \cup {NoOrder}, sold : Basket,  \* completedSale
   changed : BOOLEAN]   \* history: other items since the first attempt
NoSale == [key |-> NoKey, items |-> EmptyBasket, request |-> NoRequest,
           order |-> NoOrder, sold |-> EmptyBasket, changed |-> FALSE]

Listing(items) == {p \in Products : items[p] > 0}
Placed(o) == order[o].status # "none"

PlacementInit ==
  /\ EngineInit(InitialUnits)
  /\ keys = [k \in Keys |-> NoKeyRow]
  /\ order = [o \in Orders |-> NoOrderRow]
  /\ used = 0
  /\ request = [r \in Requests |-> NoRequestState]
  /\ till = [t \in Tills |-> NoSale]
  /\ bygone = {}

-----------------------------------------------------------------------------
(* The till. *)

\* a UUID nobody has
Fresh(k) ==
  /\ keys[k] = NoKeyRow
  /\ \A t \in Tills : till[t].key # k
  /\ \A r \in Requests : request[r].key # k
  /\ \A o \in Orders : order[o].key # k

Arrive(r, key, items, coupon) ==
  /\ request[r].pc = "idle"
  /\ request' = [request EXCEPT ![r] =
       [NoRequestState EXCEPT !.pc = IF key = NoKey THEN "lock" ELSE "find",
                              !.key = key, !.items = items, !.coupon = coupon]]

\* addProduct, inc, dec, remove and clear: allowed while a sale is in flight
RingUp(t, items) ==
  /\ till[t].order = NoOrder
  /\ items # till[t].items
  /\ till' = [till EXCEPT ![t].items = items,
                          ![t].changed = @ \/ (/\ till[t].key # NoKey
                                               /\ till[t].items # EmptyBasket)]
  /\ UNCHANGED <<stock, ledger, keys, order, used, request, bygone>>

\* submitSale: the key is generated by the first attempt and kept
SubmitSale(t, r, k) ==
  /\ till[t].request = NoRequest
  /\ till[t].order = NoOrder
  /\ till[t].items # EmptyBasket
  /\ IF till[t].key = NoKey THEN Fresh(k) /\ \A j \in Keys : j < k => ~Fresh(j)
                            ELSE k = till[t].key
  /\ till' = [till EXCEPT ![t].key = k, ![t].request = r]
  /\ Arrive(r, k, till[t].items, FALSE)
  /\ UNCHANGED <<stock, ledger, keys, order, used, bygone>>

\* the connection breaks: the till may retry, the request goes on
ConnectionLost(t) ==
  /\ till[t].request # NoRequest
  /\ till' = [till EXCEPT ![t].request = NoRequest]
  /\ UNCHANGED <<stock, ledger, keys, order, used, request, bygone>>

\* Mutant: the next sale keeps the key.
NewSaleSameKey(t) ==
  /\ till[t].order # NoOrder
  /\ till' = [till EXCEPT ![t] = [NoSale EXCEPT !.key = till[t].key]]
  /\ UNCHANGED <<stock, ledger, keys, order, used, request, bygone>>

NewSale(t) ==
  /\ till[t].order # NoOrder
  /\ till' = [till EXCEPT ![t] = NoSale]
  /\ UNCHANGED <<stock, ledger, keys, order, used, request, bygone>>

\* an order from elsewhere: no key, perhaps a coupon, to be paid later
PlaceOrder(r, items, coupon) ==
  /\ Arrive(r, NoKey, items, coupon)
  /\ UNCHANGED <<stock, ledger, keys, order, used, till, bygone>>

-----------------------------------------------------------------------------
(* The request: the key. *)

Goto(r, pc) == request' = [request EXCEPT ![r].pc = pc]
InR == UNCHANGED <<stock, ledger, keys, order, used, till, bygone>>

\* Mutant: the connection goes back to the pool with its row locks.
AnswerKeepingLocks(r, o) ==
  /\ request' = [request EXCEPT ![r] = [NoRequestState EXCEPT !.locked = request[r].locked]]
  /\ till' = [t \in Tills |->
       IF till[t].request # r THEN till[t]
       ELSE [till[t] EXCEPT !.request = NoRequest, !.order = o,
                            !.sold = IF o = NoOrder THEN EmptyBasket ELSE request[r].items]]

\* R ends: the till that still waits for it gets an order, or an error
Answer(r, o) ==
  /\ request' = [request EXCEPT ![r] = NoRequestState]
  /\ till' = [t \in Tills |->
       IF till[t].request # r THEN till[t]
       ELSE [till[t] EXCEPT !.request = NoRequest, !.order = o,
                            !.sold = IF o = NoOrder THEN EmptyBasket ELSE request[r].items]]

AnswerOnly(r, o) ==
  /\ Answer(r, o)
  /\ UNCHANGED <<stock, ledger, keys, order, used, bygone>>

\* the result of a completed key is answered again
FindKey(r) ==
  LET row == keys[request[r].key] IN
  /\ request[r].pc = "find"
  /\ IF row.order = NoOrder THEN Goto(r, "insert") /\ InR
     ELSE IF row.expired THEN Goto(r, "remove") /\ InR
     ELSE AnswerOnly(r, row.order)

\* another R has inserted or deleted the row of the key and not ended
KeyBusy(r) == \E q \in Requests \ {r} : request[q].key = request[r].key
                                          /\ request[q].keyRow # "none"

\* the row it has found expired is deleted, if nobody else has deleted it
RemoveKey(r) ==
  /\ request[r].pc = "remove"
  /\ ~KeyBusy(r)
  /\ request' = [request EXCEPT ![r].pc = "insert",
                   ![r].keyRow = IF keys[request[r].key].expired THEN "removed" ELSE "none"]
  /\ InR

\* Mutant: the insert does not wait for the one before.
InsertKeyAtOnce(r) ==
  LET row == keys[request[r].key] IN
  /\ request[r].pc = "insert"
  /\ IF row.order = NoOrder \/ request[r].keyRow = "removed"
     THEN /\ request' = [request EXCEPT ![r].pc = "lock", ![r].keyRow = "inserted"]
          /\ InR
     ELSE AnswerOnly(r, row.order)

\* INSERT ... ON CONFLICT DO NOTHING, and the row is read again
InsertKey(r) ==
  LET row == keys[request[r].key] IN
  /\ request[r].pc = "insert"
  /\ ~KeyBusy(r)
  /\ IF row.order = NoOrder \/ request[r].keyRow = "removed"
     THEN /\ request' = [request EXCEPT ![r].pc = "lock", ![r].keyRow = "inserted"]
          /\ InR
     ELSE AnswerOnly(r, row.order)

-----------------------------------------------------------------------------
(* The request: stock and coupon. *)

Unlocked(r) == Listing(request[r].items) \ request[r].locked

\* Mutant: the rows are read without FOR UPDATE.
RowLockedNever(r, p) == FALSE

RowLocked(r, p) == \E q \in Requests \ {r} : p \in request[q].locked

\* SELECT ... FOR UPDATE names no order: the database locks the rows in any
LockStock(r, p) ==
  /\ request[r].pc = "lock"
  /\ p \in Unlocked(r)
  /\ ~RowLocked(r, p)
  /\ request' = [request EXCEPT ![r].locked = @ \cup {p}]
  /\ InR

\* an id is generated once: not the one of an order that was rolled back either
Known(o) ==
  \/ Placed(o)
  \/ \E r \in Requests : request[r].order = o
  \/ \E t \in Tills : till[t].order = o

NextOrder(o) == ~Known(o) /\ \A j \in Orders : j < o => Known(j)

CouponIsValid(r) == request[r].coupon => used < UsageLimit

\* coupon and availability are checked, and everything but the coupon written
CreateOrder(r, o) ==
  /\ request[r].pc = "lock"
  /\ Unlocked(r) = {}
  /\ CouponIsValid(r)
  /\ CanReserve(request[r].items)
  /\ NextOrder(o)
  /\ request' = [request EXCEPT ![r].order = o,
                   ![r].pc = IF request[r].coupon THEN "coupon" ELSE "finish"]
  /\ InR

CouponLocked(r) == \E q \in Requests \ {r} : request[q].consumed

\* Mutant: the validation before is relied on.
ConsumeCouponUnguarded(r) ==
  /\ request[r].pc = "coupon"
  /\ ~CouponLocked(r)
  /\ request' = [request EXCEPT ![r].consumed = TRUE, ![r].pc = "finish"]
  /\ InR

\* UPDATE ... WHERE used_count < usage_limit
ConsumeCoupon(r) ==
  /\ request[r].pc = "coupon"
  /\ ~CouponLocked(r)
  /\ used < UsageLimit
  /\ request' = [request EXCEPT ![r].consumed = TRUE, ![r].pc = "finish"]
  /\ InR

-----------------------------------------------------------------------------
(* The request ends. *)

\* Audit log, markCompleted and the commit.  A sale over the counter has a key,
\* leaves the shelf at once and is delivered.
Commit(r) ==
  LET q == request[r]   reserved == Reserved(stock, q.items) IN
  /\ q.pc = "finish"
  /\ IF q.key # NoKey
     THEN /\ stock' = AfterSale(reserved, q.order, q.items)
          /\ ledger' = LedgerAfterSale(q.order, q.items)
          /\ keys' = [keys EXCEPT ![q.key] = [order |-> q.order, expired |-> FALSE]]
     ELSE stock' = reserved /\ UNCHANGED <<ledger, keys>>
  /\ order' = [order EXCEPT ![q.order] =
       [status |-> IF q.key # NoKey THEN "entregue" ELSE "pendente_pagamento",
        key |-> q.key, items |-> q.items, coupon |-> q.coupon]]
  /\ used' = IF q.consumed THEN used + 1 ELSE used
  /\ Answer(r, q.order)
  /\ UNCHANGED bygone

\* Mutant: the order was saved on a connection of its own.
CommitBrokenOrderStays(r) ==
  LET q == request[r] IN
  /\ MayFail /\ q.pc = "finish"
  /\ order' = [order EXCEPT ![q.order] =
       [status |-> "pendente_pagamento", key |-> q.key, items |-> q.items, coupon |-> q.coupon]]
  /\ Answer(r, q.order)
  /\ UNCHANGED <<stock, ledger, keys, used, bygone>>

\* Audit log or markCompleted fails in the database: the error is caught and
\* logged, but PostgreSQL has aborted R, and COMMIT rolls back without an error.
CommitBroken(r) ==
  /\ MayFail
  /\ request[r].pc = "finish"
  /\ AnswerOnly(r, request[r].order)

\* create throws: units are missing, the coupon is used up (or, in a small
\* instance, there is no order left)
Refused(r) ==
  \/ /\ request[r].pc = "lock" /\ Unlocked(r) = {}
     /\ ~CouponIsValid(r) \/ ~CanReserve(request[r].items) \/ ~\E o \in Orders : NextOrder(o)
  \/ request[r].pc = "coupon" /\ ~CouponLocked(r) /\ used >= UsageLimit

RollBack(r) == AnswerOnly(r, NoOrder)

Refuse(r) == Refused(r) /\ RollBack(r)

WaitsFor(r, q) ==
  \/ /\ request[r].pc \in {"remove", "insert"}
     /\ request[q].key = request[r].key /\ request[q].keyRow # "none"
  \/ /\ request[r].pc = "lock" /\ Unlocked(r) # {}
     /\ \A p \in Unlocked(r) : RowLocked(r, p)
     /\ Unlocked(r) \cap request[q].locked # {}
  \/ request[r].pc = "coupon" /\ request[q].consumed

Deadlocked(r) ==
  \E S \in SUBSET Requests :
    /\ r \in S
    /\ \A q \in S : /\ \E h \in S \ {q} : WaitsFor(q, h)
                    /\ \E w \in S \ {q} : WaitsFor(w, q)

\* PostgreSQL aborts one of those who wait for each other
AbortDeadlocked(r) == Deadlocked(r) /\ RollBack(r)

\* the connection or the process dies
RequestDies(r) == MayFail /\ request[r].pc # "idle" /\ RollBack(r)

\* an hour passes (bound: once for a key)
KeyExpires(k) ==
  /\ keys[k].order # NoOrder /\ ~keys[k].expired
  /\ \A o \in bygone : order[o].key # k
  /\ keys' = [keys EXCEPT ![k].expired = TRUE]
  /\ bygone' = bygone \cup {o \in Orders : order[o].key = k}
  /\ UNCHANGED <<stock, ledger, order, used, request, till>>

-----------------------------------------------------------------------------
TillStep(t) ==
  \/ \E items \in Baskets \cup {EmptyBasket} : RingUp(t, items)
  \/ \E r \in Requests, k \in Keys : SubmitSale(t, r, k)
  \/ ConnectionLost(t)
  \/ NewSale(t)

RequestStep(r) ==
  \/ FindKey(r) \/ RemoveKey(r) \/ InsertKey(r)
  \/ \E p \in Products : LockStock(r, p)
  \/ \E o \in Orders : CreateOrder(r, o)
  \/ ConsumeCoupon(r)
  \/ Commit(r) \/ CommitBroken(r)
  \/ Refuse(r)

PlacementNext ==
  \/ \E t \in Tills : TillStep(t)
  \/ \E r \in Requests, items \in Baskets, coupon \in Elsewhere : PlaceOrder(r, items, coupon)
  \/ \E r \in Requests : RequestStep(r) \/ AbortDeadlocked(r) \/ RequestDies(r)
  \/ \E k \in Keys : KeyExpires(k)

PlacementSpec == PlacementInit /\ [][PlacementNext]_placementVars

-----------------------------------------------------------------------------
(* Correctness *)

PlacementTypeOK ==
  /\ EngineTypeOK
  /\ keys \in [Keys -> KeyRow]
  /\ order \in [Orders -> OrderRow]
  /\ used \in Nat
  /\ request \in [Requests -> RequestState]
  /\ till \in [Tills -> TillState]
  /\ bygone \subseteq Orders

\* However often a sale is sent, while earlier requests of it still run, die or
\* commit unheard, it is placed once, until its key expires.
OneOrderPerKey ==
  \A i, j \in {o \in Orders : Placed(o) /\ order[o].key # NoKey} \ bygone :
    order[i].key = order[j].key => i = j

\* What the till shows as sold is what the order has, unless the operator
\* changed the items between two attempts.
SoldAsShown ==
  \A t \in Tills :
    till[t].order # NoOrder /\ Placed(till[t].order) /\ ~till[t].changed
      => order[till[t].order].items = till[t].sold

Units(p) == [o \in Orders |-> order[o].items[p]]

\* Every unit that left the shelf or is reserved belongs to one order.
UnitsAreAccounted ==
  \A p \in Products :
    /\ stock[p].current = InitialUnits[p] -
         Total(Units(p), {o \in Orders : order[o].status = "entregue"})
    /\ stock[p].reserved =
         Total(Units(p), {o \in Orders : order[o].status = "pendente_pagamento"})
    /\ stock[p].reserved <= stock[p].current

\* The coupon is used as often as it is on an order, and never too often,
\* although orders validate it before anything locks it.
CouponIsCounted ==
  /\ used = Cardinality({o \in Orders : order[o].coupon})
  /\ used <= UsageLimit

\* Whatever requests, retries, failures and locks do in between, what is committed
\* looks as if each order had been placed at one moment, alone.
Sales == INSTANCE SalesBook WITH left <- [p \in Products |-> Available(p)],
                                uses <- UsageLimit - used
PlacedAtOnce == Sales!Spec

\* What a request needs to go on: a statement of its own that waits for no lock,
\* or to be part of a deadlock.
Ready(r) ==
  \/ request[r].pc \in {"find", "finish"}
  \/ request[r].pc \in {"remove", "insert"} /\ ~KeyBusy(r)
  \/ /\ request[r].pc = "lock"
     /\ Unlocked(r) = {} \/ \E p \in Unlocked(r) : ~RowLocked(r, p)
  \/ request[r].pc = "coupon" /\ ~CouponLocked(r)
  \/ Deadlocked(r)

\* Nobody waits for ever, although requests lock rows and keys in any order:
\* among requests that wait only for each other somebody can go on, if only
\* because the database aborts it, and nobody waits for one that has ended.
NobodyStuck ==
  \A S \in SUBSET Requests :
    /\ \E r \in S : request[r].pc # "idle"
    /\ \A r \in S : \A q \in Requests \ {r} : WaitsFor(r, q) => q \in S
    => \E r \in S : Ready(r)
=============================================================================
