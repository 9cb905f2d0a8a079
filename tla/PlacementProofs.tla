--------------------------- MODULE PlacementProofs ---------------------------
(***************************************************************************)
(* Theorems about Placement, for any number of tills, requests, keys and   *)
(* orders: types, one order per key, what the till shows, the units of the *)
(* orders and the uses of the coupon; that nobody waits for ever; and that *)
(* committed rows look as if orders had been placed one at a time.         *)
(***************************************************************************)
EXTENDS Placement, StockEngineProofs

-----------------------------------------------------------------------------
(* The inductive invariant *)

Working == {"lock", "coupon", "finish"}
Written == {"coupon", "finish"}

\* What R has done to the key's row tells how far it is, and what it has found
\* there holds until it ends; the units it has checked stay available, and the
\* use of the coupon stays allowed.
RequestSound(q) ==
  /\ q.pc = "idle" => q = NoRequestState
  /\ q.pc \in {"find", "remove", "insert"} => q.key \in Keys
  /\ q.keyRow = "removed" => q.pc = "insert" /\ keys[q.key].expired
  /\ q.keyRow = "inserted" => /\ q.pc \in Working /\ q.key \in Keys
                              /\ keys[q.key].order = NoOrder \/ keys[q.key].expired
  /\ q.pc \in Working /\ q.key # NoKey => q.keyRow = "inserted"
  /\ q.pc \in Written => /\ q.order \in Orders /\ ~Placed(q.order)
                         /\ Listing(q.items) \subseteq q.locked
                         /\ CanReserve(q.items)
  /\ q.pc \notin Written => q.order = NoOrder
  /\ q.pc = "coupon" => q.coupon
  /\ q.pc = "finish" => (q.consumed <=> q.coupon)
  /\ q.pc # "finish" => ~q.consumed
  /\ q.consumed => used < UsageLimit

\* Two requests never hold one lock, make one order, or have both written the
\* row of one key or of the coupon.
Apart(q, s) ==
  /\ q.locked \cap s.locked = {}
  /\ q.order \in Orders => q.order # s.order
  /\ q.keyRow # "none" /\ s.keyRow # "none" => q.key # s.key
  /\ ~(q.consumed /\ s.consumed)

\* The only order of a key that still counts is the one its row names.
OrderSound(o) ==
  /\ ~Placed(o) => order[o] = NoOrderRow /\ \A p \in Products : ~Sold(o, p)
  /\ o \in bygone => Placed(o)
  /\ order[o].key \in Keys /\ o \notin bygone =>
       keys[order[o].key] = [order |-> o, expired |-> FALSE]

KeySound(k) ==
  keys[k].order # NoOrder => Placed(keys[k].order) /\ order[keys[k].order].key = k

\* The till waits for a request of its key, and as long as the operator changes
\* nothing, every request and order of its key has what was rung up.
TillSound(s) ==
  /\ s.request \in Requests =>
       /\ s.key \in Keys
       /\ request[s.request].pc # "idle" /\ request[s.request].key = s.key
  /\ s.key \in Keys /\ ~s.changed =>
       /\ s.items # EmptyBasket
       /\ \A r \in Requests : request[r].key = s.key => request[r].items = s.items
       /\ \A o \in Orders : order[o].key = s.key => order[o].items = s.items
  /\ s.order \in Orders =>
       /\ \A r \in Requests : request[r].order # s.order
       /\ Placed(s.order) /\ ~s.changed => order[s.order].items = s.sold

PInv ==
  /\ PlacementTypeOK
  /\ ProjectsLedger
  /\ UnitsAreAccounted
  /\ CouponIsCounted
  /\ \A r \in Requests : RequestSound(request[r])
  /\ \A r, q \in Requests : r # q => Apart(request[r], request[q])
  /\ \A o \in Orders : OrderSound(o)
  /\ \A k \in Keys : KeySound(k)
  /\ \A t \in Tills : TillSound(till[t])
  /\ \A t, u \in Tills : till[t].key = till[u].key /\ till[t].key # NoKey => t = u

-----------------------------------------------------------------------------
(* Types *)

\* The constants of the module have the types their names say.
LEMMA PlacementConstants ==
  /\ EmptyBasket \in Basket
  /\ NoKeyRow \in KeyRow
  /\ NoOrderRow \in OrderRow
  /\ NoRequestState \in RequestState
  /\ NoSale \in TillState
<1>1. EmptyBasket \in Basket
  BY DEF EmptyBasket, Basket
<1> QED
  BY <1>1 DEF NoKeyRow, KeyRow, NoOrderRow, OrderRow, NoRequestState, RequestState,
              NoSale, TillState

\* The types of the rows, as facts of their own.
LEMMA PlacementFields ==
  ASSUME PlacementTypeOK
  PROVE  /\ EngineTypeOK /\ used \in Nat /\ bygone \subseteq Orders
         /\ keys \in [Keys -> KeyRow] /\ order \in [Orders -> OrderRow]
         /\ request \in [Requests -> RequestState] /\ till \in [Tills -> TillState]
         /\ stock \in [Products -> StockRow]
BY DEF PlacementTypeOK, EngineTypeOK

\* A request that is not in flight is sound, and disturbs nobody.
LEMMA IdleRequest ==
  /\ RequestSound(NoRequestState)
  /\ \A q : Apart(q, NoRequestState) /\ Apart(NoRequestState, q)
  /\ NoRequestState.pc = "idle" /\ NoRequestState.order = NoOrder
  /\ NoRequestState.key = NoKey
<1>1. /\ NoRequestState.pc = "idle" /\ NoRequestState.order = NoOrder
      /\ NoRequestState.keyRow = "none" /\ NoRequestState.locked = {}
      /\ NoRequestState.consumed = FALSE /\ NoRequestState.key = NoKey
  BY DEF NoRequestState
<1>2. NoOrder \notin Orders
  BY EngineAssumption
<1> HIDE DEF NoRequestState
<1>3. RequestSound(NoRequestState)
  BY <1>1 DEF RequestSound, Working, Written
<1>4. \A q : Apart(q, NoRequestState) /\ Apart(NoRequestState, q)
  BY <1>1, <1>2 DEF Apart
<1> QED BY <1>1, <1>3, <1>4

-----------------------------------------------------------------------------
(* Steps that leave the books, the orders and the coupon alone *)

\* Where stock, ledger, orders and coupon stand, so does what adds them up.
LEMMA BooksStay ==
  ASSUME PInv, UNCHANGED <<stock, ledger, order, used>>
  PROVE  /\ EngineTypeOK' /\ ProjectsLedger' /\ UnitsAreAccounted' /\ CouponIsCounted'
         /\ \A o \in Orders : Placed(o)' <=> Placed(o)
         /\ \A o \in Orders, p \in Products : Sold(o, p)' <=> Sold(o, p)
<1>1. EngineTypeOK' /\ ProjectsLedger' /\ CouponIsCounted'
  BY BooksUntouched
     DEF PInv, PlacementTypeOK, EngineTypeOK, ProjectsLedger, Ledger!Balance, CouponIsCounted
<1>2. UnitsAreAccounted'
  BY DEF PInv, UnitsAreAccounted, Units
<1> QED BY <1>1, <1>2, BooksUntouched DEF Placed

\* A request goes on by one statement that changes only what it remembers.
LEMMA RequestMoves ==
  ASSUME PInv, UNCHANGED <<stock, ledger, keys, order, used, till, bygone>>,
         NEW r \in Requests, NEW new \in RequestState,
         request' = [request EXCEPT ![r] = new],
         RequestSound(new), \A q \in Requests \ {r} : Apart(request[q], new),
         new.pc # "idle", new.key = request[r].key, new.items = request[r].items,
         \A t \in Tills : till[t].order \in Orders => new.order # till[t].order
  PROVE  PInv'
<1>1. /\ request \in [Requests -> RequestState] /\ request' \in [Requests -> RequestState]
      /\ request'[r] = new /\ \A q \in Requests \ {r} : request'[q] = request[q]
  BY DEF PInv, PlacementTypeOK
<1>2. PlacementTypeOK'
  BY <1>1, BooksStay DEF PInv, PlacementTypeOK
<1>3. \A q : RequestSound(q)' <=> RequestSound(q)
  BY DEF RequestSound, Placed, CanReserve, Available
<1>4. \A q \in Requests : RequestSound(request'[q])
  BY <1>1 DEF PInv
<1>5. \A q, s \in Requests : q # s => Apart(request'[q], request'[s])
  BY <1>1 DEF PInv, Apart
<1>6. \A o \in Orders : OrderSound(o)'
  BY BooksStay DEF PInv, OrderSound
<1>7. \A k \in Keys : KeySound(k)'
  BY DEF PInv, KeySound, Placed
<1>8. ASSUME NEW t \in Tills PROVE TillSound(till[t])'
  <2>1. TillSound(till[t]) /\ till'[t] = till[t]
    BY DEF PInv
  <2>2. PICK s : s = till[t]
    OBVIOUS
  <2>3. TillSound(s)'
    BY <1>1, <2>1, <2>2 DEF TillSound, Placed
  <2> QED BY <2>1, <2>2, <2>3
<1> QED BY <1>2, <1>3, <1>4, <1>5, <1>6, <1>7, <1>8, BooksStay DEF PInv, Apart

\* A request ends without a commit: the till that waits gets nothing, the order
\* its key has already, or one that was rolled back unheard.
LEMMA AnswerMoves ==
  ASSUME PInv, NEW r \in Requests, NEW o \in Orders \cup {NoOrder}, AnswerOnly(r, o),
         o \in Orders => \/ o = request[r].order
                         \/ Placed(o) /\ order[o].key = request[r].key
  PROVE  PInv'
<1>1. /\ request \in [Requests -> RequestState] /\ till \in [Tills -> TillState]
      /\ request' = [request EXCEPT ![r] = NoRequestState]
      /\ UNCHANGED <<stock, ledger, keys, order, used, bygone>>
  BY DEF PInv, PlacementTypeOK, AnswerOnly, Answer
<1>2. /\ request' \in [Requests -> RequestState]
      /\ request'[r] = NoRequestState /\ \A q \in Requests \ {r} : request'[q] = request[q]
  BY <1>1, PlacementConstants
<1>3. PICK sold \in Basket : sold = IF o = NoOrder THEN EmptyBasket ELSE request[r].items
  BY <1>1, PlacementConstants DEF RequestState
<1>4. /\ \A t \in Tills : till[t].request # r => till'[t] = till[t]
      /\ \A t \in Tills : till[t].request = r =>
           till'[t] = [till[t] EXCEPT !.request = NoRequest, !.order = o, !.sold = sold]
  BY <1>3 DEF AnswerOnly, Answer
<1>5. till' \in [Tills -> TillState] /\ \A t \in Tills : till'[t].key = till[t].key
  <2>1. ASSUME NEW t \in Tills PROVE till'[t] \in TillState /\ till'[t].key = till[t].key
    <3>1. till[t] \in TillState
      BY <1>1
    <3>2. CASE till[t].request # r
      BY <1>4, <3>1, <3>2
    <3>3. CASE till[t].request = r
      BY <1>3, <1>4, <3>1, <3>3 DEF TillState
    <3> QED BY <3>2, <3>3
  <2>2. till' = [t \in Tills |-> till'[t]]
    BY DEF AnswerOnly, Answer
  <2> QED BY <2>1, <2>2
<1>6. PlacementTypeOK'
  BY <1>1, <1>2, <1>5, BooksStay DEF PInv, PlacementTypeOK
<1>7. \A q : RequestSound(q)' <=> RequestSound(q)
  BY <1>1 DEF RequestSound, Placed, CanReserve, Available
<1>8. \A q \in Requests : RequestSound(request'[q])
  BY <1>2, IdleRequest DEF PInv
<1>9. \A q, s \in Requests : q # s => Apart(request'[q], request'[s])
  BY <1>2, IdleRequest DEF PInv
<1>10. (\A x \in Orders : OrderSound(x)') /\ (\A k \in Keys : KeySound(k)')
  BY <1>1, BooksStay DEF PInv, OrderSound, KeySound, Placed
<1>11. ASSUME NEW t \in Tills PROVE TillSound(till[t])'
  <2>1. TillSound(till[t]) /\ till[t] \in TillState
    BY <1>1 DEF PInv
  <2>2. /\ \A q \in Requests : request'[q].key \in Keys =>
             request'[q] = request[q] /\ q # r
        /\ \A q \in Requests : request'[q].order \in Orders =>
             request'[q] = request[q] /\ q # r
    BY <1>2, IdleRequest, EngineAssumption, PlacementAssumption
  <2>3. CASE till[t].request # r
    <3>1. PICK s : s = till[t]
      OBVIOUS
    <3>2. TillSound(s)'
      BY <1>1, <1>2, <2>1, <2>2, <2>3, <3>1 DEF TillSound, Placed
    <3> QED BY <1>4, <2>3, <3>1, <3>2
  <2>4. CASE till[t].request = r
    <3>1. PICK s : s = till'[t]
      OBVIOUS
    <3>2. /\ s.request = NoRequest /\ s.order = o /\ s.sold = sold
          /\ s.key = till[t].key /\ s.items = till[t].items /\ s.changed = till[t].changed
      BY <1>4, <2>1, <2>4, <3>1 DEF TillState
    <3>3. s.request \notin Requests
      BY <3>2, PlacementAssumption
    <3>4. s.key \in Keys /\ request[r].key = s.key
      BY <2>1, <2>4, <3>2 DEF TillSound
    <3>5. s.key \in Keys /\ ~s.changed =>
            /\ s.items # EmptyBasket
            /\ \A q \in Requests : request'[q].key = s.key => request'[q].items = s.items
            /\ \A x \in Orders : order'[x].key = s.key => order'[x].items = s.items
      BY <1>1, <2>1, <2>2, <3>2 DEF TillSound
    <3>6. ASSUME s.order \in Orders, NEW q \in Requests PROVE request'[q].order # s.order
      <4>1. CASE q = r
        BY <1>2, <3>6, <4>1, IdleRequest, EngineAssumption
      <4>2. CASE q # r
        <5>1. Apart(request[r], request[q]) /\ RequestSound(request[q])
          BY <4>2 DEF PInv
        <5>2. request'[q].order = request[q].order
          BY <1>2, <4>2
        <5>3. o = request[r].order \/ Placed(o)
          BY <3>2, <3>6
        <5> QED BY <3>2, <3>6, <5>1, <5>2, <5>3, EngineAssumption DEF Apart, RequestSound
      <4> QED BY <4>1, <4>2
    <3>7. ASSUME s.order \in Orders, Placed(s.order)', ~s.changed
          PROVE  order'[s.order].items = s.sold
      <4>1. Placed(o) /\ o \in Orders
        BY <1>1, <3>2, <3>7 DEF Placed
      <4>2. order[o].key = request[r].key
        <5>1. RequestSound(request[r])
          BY DEF PInv
        <5>2. o # request[r].order
          BY <4>1, <5>1, EngineAssumption DEF RequestSound
        <5> QED BY <4>1, <5>2
      <4>3. order[o].items = s.items /\ request[r].items = s.items
        BY <2>1, <3>2, <3>4, <3>7, <4>1, <4>2 DEF TillSound
      <4> QED BY <1>1, <1>3, <3>2, <4>1, <4>3, EngineAssumption
    <3>8. TillSound(s)'
      BY <3>3, <3>5, <3>6, <3>7 DEF TillSound
    <3> QED BY <3>1, <3>8
  <2> QED BY <2>3, <2>4
<1>12. \A t, u \in Tills : till'[t].key = till'[u].key /\ till'[t].key # NoKey => t = u
  BY <1>5 DEF PInv
<1> QED
  BY <1>1, <1>6, <1>7, <1>8, <1>9, <1>10, <1>11, <1>12, BooksStay DEF PInv, Apart

-----------------------------------------------------------------------------
(* The till *)

\* What the till does on its own changes no more than its own state.
LEMMA TillMoves ==
  ASSUME PInv, UNCHANGED <<stock, ledger, keys, order, used, request, bygone>>,
         NEW t \in Tills, NEW new \in TillState,
         till' = [till EXCEPT ![t] = new],
         TillSound(new), new.key \in {till[t].key, NoKey}
  PROVE  PInv'
<1>1. /\ till \in [Tills -> TillState] /\ till' \in [Tills -> TillState]
      /\ till'[t] = new /\ \A u \in Tills \ {t} : till'[u] = till[u]
  BY DEF PInv, PlacementTypeOK
<1>2. PlacementTypeOK'
  BY <1>1, BooksStay DEF PInv, PlacementTypeOK
<1>3. \A r \in Requests : RequestSound(request[r])'
  BY DEF PInv, RequestSound, Placed, CanReserve, Available
<1>4. \A r, q \in Requests : r # q => Apart(request[r], request[q])'
  BY DEF PInv, Apart
<1>5. (\A o \in Orders : OrderSound(o)') /\ (\A k \in Keys : KeySound(k)')
  BY BooksStay DEF PInv, OrderSound, KeySound, Placed
<1>6. \A s : TillSound(s)' <=> TillSound(s)
  BY DEF TillSound, Placed
<1>7. \A u \in Tills : TillSound(till'[u])
  BY <1>1 DEF PInv
<1>8. \A u, v \in Tills : till'[u].key = till'[v].key /\ till'[u].key # NoKey => u = v
  BY <1>1 DEF PInv
<1> QED BY <1>2, <1>3, <1>4, <1>5, <1>6, <1>7, <1>8, BooksStay DEF PInv

\* Ringing up marks the sale as changed, once it has a key.
LEMMA RingUpSound ==
  ASSUME PInv, NEW t \in Tills, NEW items \in Basket, RingUp(t, items)
  PROVE  PInv'
<1>1. till[t] \in TillState /\ TillSound(till[t]) /\ till \in [Tills -> TillState]
  BY DEF PInv, PlacementTypeOK
<1>2. PICK changed \in BOOLEAN :
        changed = (till[t].changed \/ (till[t].key # NoKey /\ till[t].items # EmptyBasket))
  BY <1>1 DEF TillState
<1>3. PICK new : new = [till[t] EXCEPT !.items = items, !.changed = changed]
  OBVIOUS
<1>4. /\ till' = [till EXCEPT ![t] = new]
      /\ UNCHANGED <<stock, ledger, keys, order, used, request, bygone>>
      /\ till[t].order = NoOrder
  BY <1>1, <1>2, <1>3 DEF RingUp
<1>5. /\ new \in TillState /\ new.items = items /\ new.changed = changed
      /\ new.key = till[t].key /\ new.request = till[t].request /\ new.order = till[t].order
  BY <1>1, <1>3 DEF TillState
<1>6. TillSound(new)
  BY <1>1, <1>2, <1>4, <1>5, EngineAssumption, PlacementAssumption DEF TillSound
<1> QED BY <1>4, <1>5, <1>6, TillMoves

\* The till that hears nothing waits no longer; the next sale starts afresh.
LEMMA TillEndsSound ==
  ASSUME PInv, NEW t \in Tills, ConnectionLost(t) \/ NewSale(t)
  PROVE  PInv'
<1>1. till[t] \in TillState /\ TillSound(till[t])
  BY DEF PInv, PlacementTypeOK
<1>2. NoRequest \notin Requests /\ NoOrder \notin Orders /\ NoKey \notin Keys
  BY PlacementAssumption, EngineAssumption
<1>3. CASE ConnectionLost(t)
  <2>1. PICK new : new = [till[t] EXCEPT !.request = NoRequest]
    OBVIOUS
  <2>2. /\ till' = [till EXCEPT ![t] = new]
        /\ UNCHANGED <<stock, ledger, keys, order, used, request, bygone>>
    BY <1>3, <2>1 DEF ConnectionLost
  <2>3. /\ new \in TillState /\ new.request = NoRequest /\ new.key = till[t].key
        /\ new.items = till[t].items /\ new.changed = till[t].changed
        /\ new.order = till[t].order /\ new.sold = till[t].sold
    BY <1>1, <2>1 DEF TillState
  <2>4. TillSound(new)
    BY <1>1, <1>2, <2>3 DEF TillSound
  <2> QED BY <2>2, <2>3, <2>4, TillMoves
<1>4. CASE NewSale(t)
  <2>1. /\ till' = [till EXCEPT ![t] = NoSale]
        /\ UNCHANGED <<stock, ledger, keys, order, used, request, bygone>>
    BY <1>4 DEF NewSale
  <2>2. NoSale.key = NoKey /\ NoSale.request = NoRequest /\ NoSale.order = NoOrder
    BY DEF NoSale
  <2>3. TillSound(NoSale)
    BY <1>2, <2>2 DEF TillSound
  <2> QED BY <2>1, <2>2, <2>3, PlacementConstants, TillMoves
<1> QED BY <1>3, <1>4

-----------------------------------------------------------------------------
(* A request arrives *)

\* A request that arrives owns nothing yet.
LEMMA ArriveMoves ==
  ASSUME PInv, NEW r \in Requests, NEW key \in Keys \cup {NoKey}, NEW items \in Basket,
         NEW coupon \in BOOLEAN, Arrive(r, key, items, coupon),
         UNCHANGED <<stock, ledger, keys, order, used, bygone>>
  PROVE  /\ request' \in [Requests -> RequestState]
         /\ request'[r].key = key /\ request'[r].items = items
         /\ request'[r].order = NoOrder /\ request'[r].pc # "idle"
         /\ \A q \in Requests \ {r} : request'[q] = request[q]
         /\ \A q \in Requests : RequestSound(request[q])'
         /\ \A q, s \in Requests : q # s => Apart(request[q], request[s])'
         /\ \A o \in Orders : OrderSound(o)'
         /\ \A k \in Keys : KeySound(k)'
<1>1. PICK new : new = [NoRequestState EXCEPT !.pc = IF key = NoKey THEN "lock" ELSE "find",
                                              !.key = key, !.items = items, !.coupon = coupon]
  OBVIOUS
<1>2. request \in [Requests -> RequestState] /\ request' = [request EXCEPT ![r] = new]
  BY <1>1 DEF PInv, PlacementTypeOK, Arrive
<1>3. /\ new \in RequestState /\ new.key = key /\ new.items = items /\ new.coupon = coupon
      /\ new.pc = (IF key = NoKey THEN "lock" ELSE "find")
      /\ new.keyRow = "none" /\ new.locked = {} /\ new.consumed = FALSE /\ new.order = NoOrder
  BY <1>1, PlacementConstants DEF NoRequestState, RequestState
<1>4. RequestSound(new)
  BY <1>3 DEF RequestSound, Working, Written
<1>5. \A q : Apart(q, new) /\ Apart(new, q)
  BY <1>3, EngineAssumption DEF Apart
<1>6. /\ request' \in [Requests -> RequestState]
      /\ request'[r] = new /\ \A q \in Requests \ {r} : request'[q] = request[q]
  BY <1>2, <1>3
<1>7. \A q : RequestSound(q)' <=> RequestSound(q)
  BY DEF RequestSound, Placed, CanReserve, Available
<1>8. \A q \in Requests : RequestSound(request'[q])
  BY <1>4, <1>6 DEF PInv
<1>9. \A q, s \in Requests : q # s => Apart(request'[q], request'[s])
  BY <1>5, <1>6 DEF PInv
<1>10. (\A o \in Orders : OrderSound(o)') /\ (\A k \in Keys : KeySound(k)')
  BY BooksStay DEF PInv, OrderSound, KeySound, Placed
<1> QED BY <1>3, <1>6, <1>7, <1>8, <1>9, <1>10 DEF Apart

\* submitSale sends the sale under its key, a new one if it has none.
LEMMA SubmitSaleSound ==
  ASSUME PInv, NEW t \in Tills, NEW r \in Requests, NEW k \in Keys, SubmitSale(t, r, k)
  PROVE  PInv'
<1>1. /\ till[t] \in TillState /\ till \in [Tills -> TillState] /\ TillSound(till[t])
      /\ k # NoKey /\ NoOrder \notin Orders
  BY PlacementAssumption, EngineAssumption DEF PInv, PlacementTypeOK
<1>2. PICK items \in Basket : items = till[t].items
  BY <1>1 DEF TillState
<1>3. PICK new : new = [till[t] EXCEPT !.key = k, !.request = r]
  OBVIOUS
<1>4. /\ till' = [till EXCEPT ![t] = new]
      /\ Arrive(r, k, items, FALSE) /\ request[r].pc = "idle"
      /\ UNCHANGED <<stock, ledger, keys, order, used, bygone>>
      /\ till[t].order = NoOrder /\ items # EmptyBasket
  BY <1>1, <1>2, <1>3 DEF SubmitSale, Arrive
<1>5. /\ new \in TillState /\ new.key = k /\ new.request = r /\ new.items = items
      /\ new.order = NoOrder /\ new.changed = till[t].changed
  BY <1>1, <1>2, <1>3, <1>4 DEF TillState
<1>6. /\ till' \in [Tills -> TillState]
      /\ till'[t] = new /\ \A u \in Tills \ {t} : till'[u] = till[u]
  BY <1>1, <1>4, <1>5
<1>7. /\ request' \in [Requests -> RequestState]
      /\ request'[r].key = k /\ request'[r].items = items
      /\ request'[r].order = NoOrder /\ request'[r].pc # "idle"
      /\ \A q \in Requests \ {r} : request'[q] = request[q]
      /\ \A q \in Requests : RequestSound(request[q])'
      /\ \A q, s \in Requests : q # s => Apart(request[q], request[s])'
      /\ \A o \in Orders : OrderSound(o)'
      /\ \A j \in Keys : KeySound(j)'
  BY <1>4, ArriveMoves
<1>8. PlacementTypeOK'
  BY <1>4, <1>6, <1>7, BooksStay DEF PInv, PlacementTypeOK
<1>9. \A u \in Tills \ {t} : till[u].key # k
  BY <1>1 DEF SubmitSale, Fresh, PInv
<1>10. \/ till[t].key = k
       \/ /\ \A q \in Requests : request[q].key # k
          /\ \A o \in Orders : order[o].key # k
  BY DEF SubmitSale, Fresh
<1>11. TillSound(new)'
  <2>1. ASSUME ~new.changed, NEW q \in Requests, request'[q].key = k
        PROVE  request'[q].items = items
    BY <1>1, <1>2, <1>5, <1>7, <1>10, <2>1 DEF TillSound
  <2>2. ASSUME ~new.changed, NEW o \in Orders, order'[o].key = k
        PROVE  order'[o].items = items
    BY <1>1, <1>2, <1>4, <1>5, <1>10, <2>2 DEF TillSound
  <2> QED BY <1>1, <1>4, <1>5, <1>7, <2>1, <2>2 DEF TillSound
<1>12. ASSUME NEW u \in Tills \ {t} PROVE TillSound(till[u])'
  <2>1. PICK s : s = till[u]
    OBVIOUS
  <2>2. TillSound(s) /\ s.key # k
    BY <1>9, <2>1 DEF PInv
  <2>3. TillSound(s)'
    BY <1>1, <1>4, <1>7, <2>2 DEF TillSound, Placed
  <2> QED BY <1>6, <2>1, <2>3
<1>13. \A u \in Tills : TillSound(till[u])'
  BY <1>6, <1>11, <1>12
<1>14. \A u, v \in Tills : till'[u].key = till'[v].key /\ till'[u].key # NoKey => u = v
  BY <1>5, <1>6, <1>9 DEF PInv
<1> QED BY <1>4, <1>7, <1>8, <1>13, <1>14, BooksStay DEF PInv

\* An order from elsewhere has no key.
LEMMA PlaceOrderSound ==
  ASSUME PInv, NEW r \in Requests, NEW items \in Basket, NEW coupon \in BOOLEAN,
         PlaceOrder(r, items, coupon)
  PROVE  PInv'
<1>1. /\ Arrive(r, NoKey, items, coupon) /\ request[r].pc = "idle"
      /\ UNCHANGED <<stock, ledger, keys, order, used, till, bygone>>
      /\ NoKey \notin Keys /\ NoOrder \notin Orders
  BY PlacementAssumption, EngineAssumption DEF PlaceOrder, Arrive
<1>2. /\ request' \in [Requests -> RequestState]
      /\ request'[r].key = NoKey
      /\ request'[r].order = NoOrder /\ request'[r].pc # "idle"
      /\ \A q \in Requests \ {r} : request'[q] = request[q]
      /\ \A q \in Requests : RequestSound(request[q])'
      /\ \A q, s \in Requests : q # s => Apart(request[q], request[s])'
      /\ \A o \in Orders : OrderSound(o)'
      /\ \A j \in Keys : KeySound(j)'
  BY <1>1, ArriveMoves
<1>3. PlacementTypeOK'
  BY <1>1, <1>2, BooksStay DEF PInv, PlacementTypeOK
<1>4. ASSUME NEW u \in Tills PROVE TillSound(till[u])'
  <2>1. PICK s : s = till[u]
    OBVIOUS
  <2>2. TillSound(s)
    BY <2>1 DEF PInv
  <2>3. TillSound(s)'
    BY <1>1, <1>2, <2>2 DEF TillSound, Placed
  <2> QED BY <1>1, <2>1, <2>3
<1>5. \A u, v \in Tills : till'[u].key = till'[v].key /\ till'[u].key # NoKey => u = v
  BY <1>1 DEF PInv
<1> QED BY <1>1, <1>2, <1>3, <1>4, <1>5, BooksStay DEF PInv

-----------------------------------------------------------------------------
(* The statements of a request *)

\* The key's row: what R has inserted or deleted, nobody else has.
LEMMA KeyStepSound ==
  ASSUME PInv, NEW r \in Requests, FindKey(r) \/ RemoveKey(r) \/ InsertKey(r)
  PROVE  PInv'
<1>1. /\ request[r] \in RequestState /\ request \in [Requests -> RequestState]
      /\ RequestSound(request[r])
      /\ \A q \in Requests \ {r} : Apart(request[q], request[r])
  BY DEF PInv, PlacementTypeOK
<1>2. /\ request[r].pc \in {"find", "remove", "insert"}
      /\ request[r].order = NoOrder /\ NoOrder \notin Orders
  BY <1>1, EngineAssumption DEF FindKey, RemoveKey, InsertKey, RequestSound, Written
<1>3. PICK k \in Keys : k = request[r].key
  BY <1>1, <1>2 DEF RequestSound
<1>4. /\ keys[k] \in KeyRow /\ KeySound(k) /\ k # NoKey
  BY PlacementAssumption DEF PInv, PlacementTypeOK
<1>5. ASSUME keys[k].order # NoOrder, AnswerOnly(r, keys[k].order) PROVE PInv'
  BY <1>3, <1>4, <1>5, AnswerMoves DEF KeySound, KeyRow
<1>6. ASSUME NEW pc \in {"remove", "insert", "lock"},
             NEW row \in {"none", "removed", "inserted"},
             request' = [request EXCEPT ![r] = [request[r] EXCEPT !.pc = pc, !.keyRow = row]],
             InR,
             row = "removed" => pc = "insert" /\ keys[k].expired,
             row = "inserted" => pc = "lock" /\ (keys[k].order = NoOrder \/ keys[k].expired),
             pc = "lock" => row = "inserted",
             row # "none" => ~KeyBusy(r)
      PROVE  PInv'
  <2>1. PICK new : new = [request[r] EXCEPT !.pc = pc, !.keyRow = row]
    OBVIOUS
  <2>2. /\ new \in RequestState /\ new.pc = pc /\ new.keyRow = row
        /\ new.key = k /\ new.items = request[r].items /\ new.order = NoOrder
        /\ new.locked = request[r].locked /\ new.consumed = request[r].consumed
        /\ new.coupon = request[r].coupon
    BY <1>1, <1>2, <1>3, <2>1 DEF RequestState
  <2>3. RequestSound(new)
    BY <1>1, <1>2, <1>3, <1>6, <2>2 DEF RequestSound, Working, Written
  <2>4. \A q \in Requests \ {r} : Apart(request[q], new)
    BY <1>1, <1>2, <1>3, <1>6, <2>2 DEF Apart, KeyBusy
  <2>5. UNCHANGED <<stock, ledger, keys, order, used, till, bygone>>
    BY <1>6 DEF InR
  <2>6. /\ new.pc # "idle" /\ new.key = request[r].key
        /\ request' = [request EXCEPT ![r] = new]
        /\ \A t \in Tills : till[t].order \in Orders => new.order # till[t].order
    BY <1>2, <1>3, <1>6, <2>1, <2>2
  <2> QED BY <2>2, <2>3, <2>4, <2>5, <2>6, RequestMoves
<1>7. CASE FindKey(r)
  <2>1. /\ request[r].pc = "find" /\ request[r].keyRow = "none"
    BY <1>1, <1>7 DEF FindKey, RequestSound, RequestState, Working
  <2>2. CASE keys[k].order # NoOrder /\ ~keys[k].expired
    BY <1>3, <1>5, <1>7, <2>2 DEF FindKey
  <2>3. CASE ~(keys[k].order # NoOrder /\ ~keys[k].expired)
    <3>1. PICK pc \in {"remove", "insert"} : Goto(r, pc) /\ InR
      BY <1>3, <1>7, <2>3 DEF FindKey
    <3>2. request' = [request EXCEPT ![r] = [request[r] EXCEPT !.pc = pc, !.keyRow = "none"]]
      BY <1>1, <2>1, <3>1 DEF Goto, RequestState
    <3> QED BY <1>6, <3>1, <3>2
  <2> QED BY <2>2, <2>3
<1>8. CASE RemoveKey(r)
  <2>1. PICK row \in {"none", "removed"} : row = IF keys[k].expired THEN "removed" ELSE "none"
    OBVIOUS
  <2>2. /\ request' = [request EXCEPT ![r] = [request[r] EXCEPT !.pc = "insert", !.keyRow = row]]
        /\ InR /\ ~KeyBusy(r)
    BY <1>1, <1>3, <1>8, <2>1 DEF RemoveKey
  <2>3. row = "removed" => keys[k].expired
    BY <2>1
  <2> QED BY <1>6, <2>2, <2>3
<1>9. CASE InsertKey(r)
  <2>1. CASE keys[k].order = NoOrder \/ request[r].keyRow = "removed"
    <3>1. /\ request' = [request EXCEPT ![r] = [request[r] EXCEPT !.pc = "lock", !.keyRow = "inserted"]]
          /\ InR /\ ~KeyBusy(r)
      BY <1>1, <1>3, <1>9, <2>1 DEF InsertKey
    <3>2. keys[k].order = NoOrder \/ keys[k].expired
      BY <1>1, <1>3, <2>1 DEF RequestSound
    <3> QED BY <1>6, <3>1, <3>2
  <2>2. CASE ~(keys[k].order = NoOrder \/ request[r].keyRow = "removed")
    BY <1>3, <1>5, <1>9, <2>2 DEF InsertKey
  <2> QED BY <2>1, <2>2
<1> QED BY <1>7, <1>8, <1>9

\* Locking a row, making the order, using the coupon.
LEMMA WorkSound ==
  ASSUME PInv, NEW r \in Requests,
         \/ \E p \in Products : LockStock(r, p)
         \/ \E o \in Orders : CreateOrder(r, o)
         \/ ConsumeCoupon(r)
  PROVE  PInv'
<1>1. /\ request[r] \in RequestState /\ request \in [Requests -> RequestState]
      /\ RequestSound(request[r])
      /\ \A q \in Requests \ {r} : Apart(request[q], request[r])
      /\ NoOrder \notin Orders
  BY EngineAssumption DEF PInv, PlacementTypeOK
<1>2. UNCHANGED <<stock, ledger, keys, order, used, till, bygone>>
  BY DEF LockStock, CreateOrder, ConsumeCoupon, InR
<1>3. ASSUME NEW p \in Products, LockStock(r, p) PROVE PInv'
  <2>1. PICK new : new = [request[r] EXCEPT !.locked = request[r].locked \cup {p}]
    OBVIOUS
  <2>2. /\ request' = [request EXCEPT ![r] = new]
        /\ request[r].pc = "lock" /\ ~RowLocked(r, p)
    BY <1>1, <1>3, <2>1 DEF LockStock
  <2>3. /\ new \in RequestState /\ new.locked = request[r].locked \cup {p}
        /\ new.pc = "lock" /\ new.keyRow = request[r].keyRow
        /\ new.key = request[r].key /\ new.items = request[r].items
        /\ new.order = request[r].order /\ new.consumed = request[r].consumed
    BY <1>1, <2>1, <2>2 DEF RequestState
  <2>4. RequestSound(new) /\ new.order = NoOrder
    BY <1>1, <2>2, <2>3 DEF RequestSound, Working, Written
  <2>5. \A q \in Requests \ {r} : Apart(request[q], new)
    BY <1>1, <2>2, <2>3 DEF Apart, RowLocked
  <2>6. new.pc # "idle" /\ \A t \in Tills : till[t].order \in Orders => new.order # till[t].order
    BY <1>1, <2>3, <2>4
  <2> QED BY <1>2, <2>2, <2>3, <2>4, <2>5, <2>6, RequestMoves
<1>4. ASSUME NEW o \in Orders, CreateOrder(r, o) PROVE PInv'
  <2>1. PICK pc \in {"coupon", "finish"} :
          pc = IF request[r].coupon THEN "coupon" ELSE "finish"
    OBVIOUS
  <2>2. PICK new : new = [request[r] EXCEPT !.order = o, !.pc = pc]
    OBVIOUS
  <2>3. /\ request' = [request EXCEPT ![r] = new]
        /\ request[r].pc = "lock" /\ Unlocked(r) = {} /\ CanReserve(request[r].items)
        /\ ~Known(o)
    BY <1>1, <1>4, <2>1, <2>2 DEF CreateOrder, NextOrder
  <2>4. /\ new \in RequestState /\ new.locked = request[r].locked
        /\ new.pc = pc /\ new.keyRow = request[r].keyRow /\ new.order = o
        /\ new.key = request[r].key /\ new.items = request[r].items
        /\ new.consumed = request[r].consumed /\ new.coupon = request[r].coupon
        /\ request[r].coupon \in BOOLEAN /\ request[r].consumed \in BOOLEAN
    BY <1>1, <2>2 DEF RequestState
  <2>5. /\ ~Placed(o) /\ \A q \in Requests : request[q].order # o
        /\ \A t \in Tills : till[t].order # o
    BY <2>3 DEF Known
  <2>6. RequestSound(new)
    BY <1>1, <2>1, <2>3, <2>4, <2>5 DEF RequestSound, Working, Written, Unlocked
  <2>7. \A q \in Requests \ {r} : Apart(request[q], new)
    BY <1>1, <2>4, <2>5 DEF Apart
  <2> QED BY <1>2, <2>1, <2>3, <2>4, <2>5, <2>6, <2>7, RequestMoves
<1>5. CASE ConsumeCoupon(r)
  <2>1. PICK new : new = [request[r] EXCEPT !.consumed = TRUE, !.pc = "finish"]
    OBVIOUS
  <2>2. /\ request' = [request EXCEPT ![r] = new]
        /\ request[r].pc = "coupon" /\ ~CouponLocked(r) /\ used < UsageLimit
    BY <1>1, <1>5, <2>1 DEF ConsumeCoupon
  <2>3. /\ new \in RequestState /\ new.locked = request[r].locked
        /\ new.pc = "finish" /\ new.keyRow = request[r].keyRow
        /\ new.key = request[r].key /\ new.items = request[r].items
        /\ new.order = request[r].order
        /\ new.consumed = TRUE /\ new.coupon = request[r].coupon
    BY <1>1, <2>1 DEF RequestState
  <2>4. RequestSound(new)
    BY <1>1, <2>2, <2>3 DEF RequestSound, Working, Written
  <2>5. \A q \in Requests \ {r} : Apart(request[q], new)
    BY <1>1, <2>2, <2>3 DEF Apart, CouponLocked
  <2>6. \A t \in Tills : till[t].order \in Orders => new.order # till[t].order
    BY <2>3 DEF PInv, TillSound
  <2> QED BY <1>2, <2>2, <2>3, <2>4, <2>5, <2>6, RequestMoves
<1> QED BY <1>3, <1>4, <1>5

\* R ends without a commit.
LEMMA RolledBackSound ==
  ASSUME PInv, NEW r \in Requests, CommitBroken(r) \/ RollBack(r)
  PROVE  PInv'
<1>1. CASE CommitBroken(r)
  <2>1. RequestSound(request[r]) /\ request[r].pc = "finish"
    BY <1>1 DEF PInv, CommitBroken
  <2>2. request[r].order \in Orders
    BY <2>1 DEF RequestSound, Written
  <2> QED BY <1>1, <2>2, AnswerMoves DEF CommitBroken
<1>2. CASE RollBack(r)
  BY <1>2, AnswerMoves, EngineAssumption DEF RollBack
<1> QED BY <1>1, <1>2

\* The key's hour is over: its orders no longer count.
LEMMA KeyExpiresSound ==
  ASSUME PInv, NEW k \in Keys, KeyExpires(k)
  PROVE  PInv'
<1>1. /\ keys \in [Keys -> KeyRow] /\ bygone \subseteq Orders /\ NoKey \notin Keys
      /\ keys[k].order # NoOrder /\ ~keys[k].expired
      /\ keys' = [keys EXCEPT ![k].expired = TRUE]
      /\ bygone' = bygone \cup {o \in Orders : order[o].key = k}
      /\ UNCHANGED <<stock, ledger, order, used, request, till>>
  BY PlacementAssumption DEF PInv, PlacementTypeOK, KeyExpires
<1>2. /\ keys' \in [Keys -> KeyRow]
      /\ keys'[k].expired /\ keys'[k].order = keys[k].order
      /\ \A j \in Keys \ {k} : keys'[j] = keys[j]
  BY <1>1 DEF KeyRow
<1>3. PlacementTypeOK'
  BY <1>1, <1>2, BooksStay DEF PInv, PlacementTypeOK
<1>4. ASSUME NEW r \in Requests PROVE RequestSound(request[r])'
  <2>1. PICK q : q = request[r] /\ RequestSound(q)
    BY DEF PInv
  <2>2. (q.keyRow = "removed" \/ q.keyRow = "inserted") => q.key \in Keys
    BY <2>1 DEF RequestSound
  <2>3. RequestSound(q)'
    BY <1>1, <1>2, <2>1, <2>2 DEF RequestSound, Placed, CanReserve, Available
  <2> QED BY <1>1, <2>1, <2>3
<1>5. \A r, q \in Requests : r # q => Apart(request[r], request[q])'
  BY <1>1 DEF PInv, Apart
<1>6. ASSUME NEW o \in Orders PROVE OrderSound(o)'
  <2>1. OrderSound(o)
    BY DEF PInv
  <2>2. o \in bygone' => Placed(o)'
    BY <1>1, <2>1 DEF OrderSound, Placed, NoOrderRow
  <2>3. order'[o].key \in Keys /\ o \notin bygone' => order[o].key # k /\ o \notin bygone
    BY <1>1
  <2>4. ~Placed(o)' => order'[o] = NoOrderRow /\ \A p \in Products : ~Sold(o, p)'
    BY <1>1, <2>1, BooksStay DEF OrderSound
  <2> QED BY <1>1, <1>2, <2>1, <2>2, <2>3, <2>4 DEF OrderSound
<1>7. \A j \in Keys : KeySound(j)'
  BY <1>1, <1>2 DEF PInv, KeySound, Placed
<1>8. \A t \in Tills : TillSound(till[t])'
  BY <1>1 DEF PInv, TillSound, Placed
<1>9. \A t, u \in Tills : till'[t].key = till'[u].key /\ till'[t].key # NoKey => t = u
  BY <1>1 DEF PInv
<1> QED BY <1>1, <1>3, <1>4, <1>5, <1>6, <1>7, <1>8, <1>9, BooksStay DEF PInv

-----------------------------------------------------------------------------
(* The commit *)

\* A new member, and what the old ones have stays.
LEMMA TotalJoined ==
  ASSUME NEW S, IsFiniteSet(S), NEW x, x \notin S, NEW f, NEW g,
         \A y \in S : f[y] \in Int /\ g[y] = f[y], g[x] \in Int
  PROVE  Total(g, S \cup {x}) = Total(f, S) + g[x]
<1>1. Total(g, S) = Total(f, S)
  BY TotalSame
<1>2. Total(g, S \cup {x}) = Total(g, S) + g[x]
  <2>1. \A y \in S : g[y] \in Int
    OBVIOUS
  <2> QED BY ONLY IsFiniteSet(S), x \notin S, g[x] \in Int, <2>1, TotalGrows
<1> QED BY <1>1, <1>2

\* What the request knows when it commits.
LEMMA CommitKnows ==
  ASSUME PInv, NEW r \in Requests, Commit(r)
  PROVE  \E o \in Orders, b \in Basket, k \in Keys \cup {NoKey}, coupon \in BOOLEAN :
           /\ o = request[r].order /\ b = request[r].items /\ k = request[r].key
           /\ coupon = request[r].coupon /\ (request[r].consumed <=> coupon)
           /\ order[o] = NoOrderRow /\ ~Placed(o) /\ \A p \in Products : ~Sold(o, p)
           /\ CanReserve(b) /\ Listing(b) \subseteq request[r].locked
           /\ coupon => used < UsageLimit
           /\ k # NoKey => /\ k \in Keys /\ request[r].keyRow = "inserted"
                           /\ keys[k].order = NoOrder \/ keys[k].expired
           /\ order' = [order EXCEPT ![o] =
                [status |-> IF k # NoKey THEN "entregue" ELSE "pendente_pagamento",
                 key |-> k, items |-> b, coupon |-> coupon]]
           /\ used' = IF coupon THEN used + 1 ELSE used
           /\ IF k # NoKey
              THEN /\ stock' = AfterSale(Reserved(stock, b), o, b)
                   /\ ledger' = LedgerAfterSale(o, b)
                   /\ keys' = [keys EXCEPT ![k] = [order |-> o, expired |-> FALSE]]
              ELSE stock' = Reserved(stock, b) /\ UNCHANGED <<ledger, keys>>
           /\ Answer(r, o) /\ UNCHANGED bygone
<1>1. /\ request[r] \in RequestState /\ RequestSound(request[r])
      /\ request[r].pc = "finish"
  BY DEF PInv, PlacementTypeOK, Commit
<1>2. PICK o \in Orders, b \in Basket, k \in Keys \cup {NoKey}, coupon \in BOOLEAN :
        /\ o = request[r].order /\ b = request[r].items /\ k = request[r].key
        /\ coupon = request[r].coupon
  BY <1>1 DEF RequestState, RequestSound, Written
<1>3. /\ request[r].consumed <=> coupon
      /\ ~Placed(o) /\ OrderSound(o)
      /\ CanReserve(b) /\ Listing(b) \subseteq request[r].locked
      /\ coupon => used < UsageLimit
      /\ k # NoKey => /\ k \in Keys /\ request[r].keyRow = "inserted"
                      /\ keys[k].order = NoOrder \/ keys[k].expired
  BY <1>1, <1>2 DEF RequestSound, Working, Written, PInv
<1>4. /\ order' = [order EXCEPT ![o] =
           [status |-> IF k # NoKey THEN "entregue" ELSE "pendente_pagamento",
            key |-> k, items |-> b, coupon |-> coupon]]
      /\ used' = IF coupon THEN used + 1 ELSE used
      /\ IF k # NoKey
         THEN /\ stock' = AfterSale(Reserved(stock, b), o, b)
              /\ ledger' = LedgerAfterSale(o, b)
              /\ keys' = [keys EXCEPT ![k] = [order |-> o, expired |-> FALSE]]
         ELSE stock' = Reserved(stock, b) /\ UNCHANGED <<ledger, keys>>
      /\ Answer(r, o) /\ UNCHANGED bygone
  BY <1>2, <1>3 DEF Commit
<1> QED BY <1>2, <1>3, <1>4 DEF OrderSound

\* A sale over the counter takes the units off the shelf, another order
\* reserves them; the rows of other products stay.
LEMMA CommitStock ==
  ASSUME PInv, NEW o \in Orders, NEW b \in Basket, NEW isSale \in BOOLEAN,
         \A p \in Products : ~Sold(o, p), CanReserve(b),
         IF isSale
         THEN stock' = AfterSale(Reserved(stock, b), o, b) /\ ledger' = LedgerAfterSale(o, b)
         ELSE stock' = Reserved(stock, b) /\ UNCHANGED ledger
  PROVE  /\ EngineTypeOK' /\ ProjectsLedger' /\ [Ledger!Post]_ledger
         /\ \A x \in Orders \ {o}, p \in Products : Sold(x, p)' <=> Sold(x, p)
         /\ \A p \in Products :
              stock'[p] = IF isSale
                          THEN [current |-> stock[p].current - b[p], reserved |-> stock[p].reserved]
                          ELSE [current |-> stock[p].current, reserved |-> stock[p].reserved + b[p]]
<1>1. EngineTypeOK /\ ProjectsLedger /\ stock \in [Products -> StockRow]
  BY DEF PInv, PlacementTypeOK, EngineTypeOK
<1>2. PICK st \in [Products -> StockRow] : st = Reserved(stock, b)
  BY <1>1, ReserveKeeps
<1>3. \A p \in Products : /\ st[p].current = stock[p].current
                          /\ st[p].reserved = stock[p].reserved + b[p]
                          /\ stock[p].current \in Nat /\ stock[p].reserved \in Nat /\ b[p] \in Nat
                          /\ b[p] > 0 => stock[p].current >= b[p]
  BY <1>1, <1>2 DEF Reserved, StockRow, Basket, CanReserve, Available
<1>4. CASE isSale
  <2>1. CanSell(o, b)
    BY <1>3 DEF CanSell, ToSell
  <2>2. stock' = AfterSale(st, o, b) /\ ledger' = LedgerAfterSale(o, b)
    BY <1>2, <1>4
  <2>3. /\ EngineTypeOK' /\ ProjectsLedger' /\ Ledger!Post
        /\ \A x \in Orders, p \in Products :
             Sold(x, p)' <=> Sold(x, p) \/ (x = o /\ b[p] > 0)
    BY <1>1, <1>3, <2>1, <2>2, SaleKeeps
  <2>4. ASSUME NEW p \in Products
        PROVE  stock'[p] = [current |-> stock[p].current - b[p], reserved |-> stock[p].reserved]
    <3>1. CASE b[p] > 0
      <4>1. p \in ToSell(o, b)
        BY <3>1 DEF ToSell
      <4>2. Greatest0(st[p].reserved - b[p]) = stock[p].reserved
        BY <1>3 DEF Greatest0
      <4> QED BY <1>3, <2>2, <4>1, <4>2 DEF AfterSale
    <3>2. CASE ~(b[p] > 0)
      <4>1. p \notin ToSell(o, b) /\ b[p] = 0
        BY <1>3, <3>2 DEF ToSell
      <4>2. stock'[p] = st[p] /\ st[p] \in StockRow
        BY <2>2, <4>1 DEF AfterSale
      <4> QED BY <1>3, <4>1, <4>2 DEF StockRow
    <3> QED BY <3>1, <3>2
  <2> QED BY <1>4, <2>3, <2>4
<1>5. CASE ~isSale
  <2>1. EngineTypeOK' /\ ProjectsLedger'
    BY <1>1, <1>2, <1>3, <1>5, BooksUntouched DEF EngineTypeOK, ProjectsLedger, Ledger!Balance
  <2>2. \A p \in Products :
          stock'[p] = [current |-> stock[p].current, reserved |-> stock[p].reserved + b[p]]
    <3>1. \A p \in Products : stock'[p] = st[p] /\ st[p] \in StockRow
      BY <1>2, <1>5
    <3> QED BY <1>3, <3>1 DEF StockRow
  <2> QED BY <1>5, <2>1, <2>2, BooksUntouched
<1> QED BY <1>4, <1>5

\* The new order takes its units, and its use of the coupon, into the counts.
LEMMA CommitCounts ==
  ASSUME PInv, NEW o \in Orders, NEW b \in Basket, NEW k, NEW coupon \in BOOLEAN,
         NEW isSale \in BOOLEAN,
         order[o] = NoOrderRow, CanReserve(b), coupon => used < UsageLimit,
         order' = [order EXCEPT ![o] =
           [status |-> IF isSale THEN "entregue" ELSE "pendente_pagamento",
            key |-> k, items |-> b, coupon |-> coupon]],
         used' = IF coupon THEN used + 1 ELSE used,
         \A p \in Products :
           stock'[p] = IF isSale
                       THEN [current |-> stock[p].current - b[p], reserved |-> stock[p].reserved]
                       ELSE [current |-> stock[p].current, reserved |-> stock[p].reserved + b[p]]
  PROVE  UnitsAreAccounted' /\ CouponIsCounted'
<1>1. /\ order \in [Orders -> OrderRow] /\ used \in Nat /\ IsFiniteSet(Orders)
      /\ stock \in [Products -> StockRow] /\ UsageLimit \in Nat
  BY PlacementAssumption DEF PInv, PlacementTypeOK, EngineTypeOK
<1>2. /\ \A x \in Orders \ {o} : order'[x] = order[x]
      /\ order'[o].items = b /\ order'[o].coupon = coupon
      /\ order'[o].status = IF isSale THEN "entregue" ELSE "pendente_pagamento"
      /\ order[o].status = "none" /\ order[o].coupon = FALSE
  BY <1>1 DEF NoOrderRow
<1>3. ASSUME NEW p \in Products
      PROVE  /\ stock'[p].current = InitialUnits[p] -
                  Total(Units(p)', {x \in Orders : order'[x].status = "entregue"})
             /\ stock'[p].reserved =
                  Total(Units(p)', {x \in Orders : order'[x].status = "pendente_pagamento"})
             /\ stock'[p].reserved <= stock'[p].current
  <2>1. PICK f : f = [x \in Orders |-> order[x].items[p]]
    OBVIOUS
  <2>2. PICK g : g = [x \in Orders |-> order'[x].items[p]]
    OBVIOUS
  <2>3. f = Units(p) /\ g = Units(p)'
    BY <2>1, <2>2 DEF Units
  <2>4. /\ \A x \in Orders : f[x] \in Int
        /\ \A x \in Orders \ {o} : g[x] = f[x]
        /\ g[o] = b[p] /\ b[p] \in Nat
    BY <1>1, <1>2, <2>1, <2>2 DEF OrderRow, Basket
  <2>5. PICK sold : sold = {x \in Orders : order[x].status = "entregue"}
    OBVIOUS
  <2>6. PICK held : held = {x \in Orders : order[x].status = "pendente_pagamento"}
    OBVIOUS
  <2>7. sold \subseteq Orders \ {o} /\ held \subseteq Orders \ {o}
    BY <1>2, <2>5, <2>6
  <2>8. IsFiniteSet(sold) /\ IsFiniteSet(held)
    BY <1>1, <2>7, FS_Subset
  <2>9. /\ stock[p].current = InitialUnits[p] - Total(f, sold)
        /\ stock[p].reserved = Total(f, held)
        /\ stock[p].reserved <= stock[p].current
    BY <2>3, <2>5, <2>6 DEF PInv, UnitsAreAccounted
  <2>10. /\ o \notin sold /\ o \notin held /\ g[o] \in Int
         /\ \A x \in sold : f[x] \in Int /\ g[x] = f[x]
         /\ \A x \in held : f[x] \in Int /\ g[x] = f[x]
    BY <2>4, <2>7
  <2>11. Total(g, sold) = Total(f, sold) /\ Total(f, sold) \in Int
    BY ONLY <2>8, <2>10, TotalSame, TotalType
  <2>12. Total(g, held) = Total(f, held) /\ Total(f, held) \in Int
    BY ONLY <2>8, <2>10, TotalSame, TotalType
  <2>13. Total(g, sold \cup {o}) = Total(f, sold) + g[o]
    <3>1. IsFiniteSet(sold) /\ o \notin sold /\ g[o] \in Int
      BY <2>8, <2>10
    <3>2. \A x \in sold : f[x] \in Int /\ g[x] = f[x]
      BY <2>10
    <3> QED BY ONLY <3>1, <3>2, TotalJoined
  <2>14. Total(g, held \cup {o}) = Total(f, held) + g[o]
    <3>1. IsFiniteSet(held) /\ o \notin held /\ g[o] \in Int
      BY <2>8, <2>10
    <3>2. \A x \in held : f[x] \in Int /\ g[x] = f[x]
      BY <2>10
    <3> QED BY ONLY <3>1, <3>2, TotalJoined
  <2>15. /\ InitialUnits[p] \in Nat /\ stock[p].current \in Nat /\ stock[p].reserved \in Nat
         /\ b[p] > 0 => stock[p].current - stock[p].reserved >= b[p]
    BY <1>1, PlacementAssumption DEF StockRow, CanReserve, Available
  <2>16. CASE isSale
    <3>1. stock'[p] = [current |-> stock[p].current - b[p], reserved |-> stock[p].reserved]
      BY <2>16
    <3>2. stock'[p].current = stock[p].current - b[p] /\ stock'[p].reserved = stock[p].reserved
      BY <3>1
    <3>3. /\ {x \in Orders : order'[x].status = "entregue"} = sold \cup {o}
          /\ {x \in Orders : order'[x].status = "pendente_pagamento"} = held
      BY <1>2, <2>5, <2>6, <2>16
    <3>4. /\ Total(Units(p)', {x \in Orders : order'[x].status = "entregue"})
               = Total(f, sold) + b[p]
          /\ Total(Units(p)', {x \in Orders : order'[x].status = "pendente_pagamento"})
               = Total(f, held)
      BY <2>3, <2>4, <2>12, <2>13, <3>3
    <3> QED BY <2>4, <2>9, <2>11, <2>12, <2>15, <3>2, <3>4
  <2>17. CASE ~isSale
    <3>1. stock'[p] = [current |-> stock[p].current, reserved |-> stock[p].reserved + b[p]]
      BY <2>17
    <3>2. stock'[p].current = stock[p].current /\ stock'[p].reserved = stock[p].reserved + b[p]
      BY <3>1
    <3>3. /\ {x \in Orders : order'[x].status = "entregue"} = sold
          /\ {x \in Orders : order'[x].status = "pendente_pagamento"} = held \cup {o}
      BY <1>2, <2>5, <2>6, <2>17
    <3>4. /\ Total(Units(p)', {x \in Orders : order'[x].status = "entregue"})
               = Total(f, sold)
          /\ Total(Units(p)', {x \in Orders : order'[x].status = "pendente_pagamento"})
               = Total(f, held) + b[p]
      BY <2>3, <2>4, <2>11, <2>14, <3>3
    <3> QED BY <2>4, <2>9, <2>11, <2>12, <2>15, <3>2, <3>4
  <2> QED BY <2>16, <2>17
<1>4. UnitsAreAccounted'
  BY <1>3 DEF UnitsAreAccounted
<1>5. CouponIsCounted'
  <2>1. PICK C : C = {x \in Orders : order[x].coupon}
    OBVIOUS
  <2>2. C \subseteq Orders /\ o \notin C /\ IsFiniteSet(C)
    BY <1>1, <1>2, <2>1, FS_Subset
  <2>3. {x \in Orders : order'[x].coupon} = IF coupon THEN C \cup {o} ELSE C
    BY <1>2, <2>1
  <2>4. used = Cardinality(C) /\ used <= UsageLimit
    BY <2>1 DEF PInv, CouponIsCounted
  <2>5. Cardinality(C \cup {o}) = Cardinality(C) + 1
    BY <2>2, FS_AddElement
  <2>6. CASE coupon
    <3>1. used' = used + 1 /\ used < UsageLimit
      BY <2>6
    <3>2. {x \in Orders : order'[x].coupon} = C \cup {o}
      BY <2>3, <2>6
    <3>3. used' = Cardinality(C \cup {o}) /\ used' <= UsageLimit
      BY <1>1, <2>4, <2>5, <3>1
    <3> QED BY <3>2, <3>3 DEF CouponIsCounted
  <2>7. CASE ~coupon
    BY <1>1, <2>3, <2>4, <2>7 DEF CouponIsCounted
  <2> QED BY <2>6, <2>7
<1> QED BY <1>4, <1>5

\* R commits.  Its locks have kept everybody else away from what it changes.
LEMMA CommitSound ==
  ASSUME PInv, NEW r \in Requests, Commit(r)
  PROVE  PInv'
<1>1. PICK o \in Orders, b \in Basket, k \in Keys \cup {NoKey}, coupon \in BOOLEAN :
        /\ o = request[r].order /\ b = request[r].items /\ k = request[r].key
        /\ coupon = request[r].coupon /\ (request[r].consumed <=> coupon)
        /\ order[o] = NoOrderRow /\ ~Placed(o) /\ \A p \in Products : ~Sold(o, p)
        /\ CanReserve(b) /\ Listing(b) \subseteq request[r].locked
        /\ coupon => used < UsageLimit
        /\ k # NoKey => /\ k \in Keys /\ request[r].keyRow = "inserted"
                        /\ keys[k].order = NoOrder \/ keys[k].expired
        /\ order' = [order EXCEPT ![o] =
             [status |-> IF k # NoKey THEN "entregue" ELSE "pendente_pagamento",
              key |-> k, items |-> b, coupon |-> coupon]]
        /\ used' = IF coupon THEN used + 1 ELSE used
        /\ IF k # NoKey
           THEN /\ stock' = AfterSale(Reserved(stock, b), o, b)
                /\ ledger' = LedgerAfterSale(o, b)
                /\ keys' = [keys EXCEPT ![k] = [order |-> o, expired |-> FALSE]]
           ELSE stock' = Reserved(stock, b) /\ UNCHANGED <<ledger, keys>>
        /\ Answer(r, o) /\ UNCHANGED bygone
  BY CommitKnows
<1>2. /\ request \in [Requests -> RequestState] /\ till \in [Tills -> TillState]
      /\ order \in [Orders -> OrderRow] /\ keys \in [Keys -> KeyRow]
      /\ used \in Nat /\ bygone \subseteq Orders
      /\ stock \in [Products -> StockRow]
      /\ NoOrder \notin Orders /\ NoKey \notin Keys /\ NoRequest \notin Requests
  BY PlacementAssumption, EngineAssumption DEF PInv, PlacementTypeOK, EngineTypeOK
<1>3. PICK isSale \in BOOLEAN : isSale <=> k # NoKey
  OBVIOUS
<1>4. /\ EngineTypeOK' /\ ProjectsLedger'
      /\ \A x \in Orders \ {o}, p \in Products : Sold(x, p)' <=> Sold(x, p)
      /\ \A p \in Products :
           stock'[p] = IF isSale
                       THEN [current |-> stock[p].current - b[p], reserved |-> stock[p].reserved]
                       ELSE [current |-> stock[p].current, reserved |-> stock[p].reserved + b[p]]
  <2>1. IF isSale
        THEN stock' = AfterSale(Reserved(stock, b), o, b) /\ ledger' = LedgerAfterSale(o, b)
        ELSE stock' = Reserved(stock, b) /\ UNCHANGED ledger
    BY <1>1, <1>3
  <2>2. CanReserve(b) /\ \A p \in Products : ~Sold(o, p)
    BY <1>1
  <2> QED BY <2>1, <2>2, CommitStock
<1>5. UnitsAreAccounted' /\ CouponIsCounted'
  <2>1. /\ order[o] = NoOrderRow /\ CanReserve(b) /\ (coupon => used < UsageLimit)
        /\ order' = [order EXCEPT ![o] =
             [status |-> IF isSale THEN "entregue" ELSE "pendente_pagamento",
              key |-> k, items |-> b, coupon |-> coupon]]
        /\ used' = IF coupon THEN used + 1 ELSE used
    BY <1>1, <1>3
  <2> QED BY <1>4, <2>1, CommitCounts
<1>6. PICK row \in OrderRow : /\ row.key = k /\ row.items = b /\ row.status # "none"
                              /\ order' = [order EXCEPT ![o] = row]
  <2>1. PICK status \in {"entregue", "pendente_pagamento"} :
          status = IF isSale THEN "entregue" ELSE "pendente_pagamento"
    OBVIOUS
  <2>2. PICK row : row = [status |-> status, key |-> k, items |-> b, coupon |-> coupon]
    OBVIOUS
  <2>3. row \in OrderRow /\ row.key = k /\ row.items = b /\ row.status # "none"
    BY <2>1, <2>2 DEF OrderRow
  <2>4. order' = [order EXCEPT ![o] = row]
    BY <1>1, <1>3, <2>1, <2>2
  <2> QED BY <2>3, <2>4
<1>7. /\ order' \in [Orders -> OrderRow] /\ order'[o] = row
      /\ \A x \in Orders \ {o} : order'[x] = order[x]
      /\ Placed(o)' /\ \A x \in Orders \ {o} : Placed(x)' <=> Placed(x)
  BY <1>2, <1>6 DEF Placed
<1>8. /\ keys' \in [Keys -> KeyRow]
      /\ \A j \in Keys \ {k} : keys'[j] = keys[j]
      /\ k \in Keys => keys'[k] = [order |-> o, expired |-> FALSE]
  <2>1. [order |-> o, expired |-> FALSE] \in KeyRow
    BY DEF KeyRow
  <2> QED BY <1>1, <1>2, <2>1
<1>9. /\ request' \in [Requests -> RequestState]
      /\ request'[r] = NoRequestState /\ \A q \in Requests \ {r} : request'[q] = request[q]
  BY <1>1, <1>2, PlacementConstants DEF Answer
<1>10. /\ \A t \in Tills : till[t].request # r => till'[t] = till[t]
       /\ \A t \in Tills : till[t].request = r =>
            till'[t] = [till[t] EXCEPT !.request = NoRequest, !.order = o, !.sold = b]
  BY <1>1, <1>2 DEF Answer
<1>11. /\ till' \in [Tills -> TillState]
       /\ \A t \in Tills : till'[t].key = till[t].key
  <2>1. ASSUME NEW t \in Tills PROVE till'[t] \in TillState /\ till'[t].key = till[t].key
    <3>1. till[t] \in TillState
      BY <1>2
    <3>2. CASE till[t].request # r
      BY <1>10, <3>1, <3>2
    <3>3. CASE till[t].request = r
      BY <1>10, <3>1, <3>3 DEF TillState
    <3> QED BY <3>2, <3>3
  <2>2. till' = [t \in Tills |-> till'[t]]
    BY <1>1 DEF Answer
  <2> QED BY <2>1, <2>2
<1>12. used' \in Nat /\ (~coupon => used' = used) /\ bygone' = bygone
  BY <1>1, <1>2
<1>13. PlacementTypeOK'
  BY <1>2, <1>4, <1>7, <1>8, <1>9, <1>11, <1>12 DEF PlacementTypeOK
<1>14. ASSUME NEW p \in Products, b[p] = 0 PROVE Available(p)' = Available(p)
  <2>1. stock[p].current \in Nat /\ stock[p].reserved \in Nat
    BY <1>2 DEF StockRow
  <2>2. stock'[p] = IF isSale
                    THEN [current |-> stock[p].current - b[p], reserved |-> stock[p].reserved]
                    ELSE [current |-> stock[p].current, reserved |-> stock[p].reserved + b[p]]
    BY <1>4
  <2>3. stock'[p].current = stock[p].current /\ stock'[p].reserved = stock[p].reserved
    BY <1>14, <2>1, <2>2
  <2> QED BY <2>3 DEF Available
<1>15. ASSUME NEW q \in Requests \ {r} PROVE RequestSound(request[q])'
  <2>1. PICK s \in RequestState : s = request[q]
    BY <1>2
  <2>2. RequestSound(s) /\ Apart(request[r], s)
    BY <2>1, <1>15 DEF PInv
  <2>3. s.keyRow # "none" => s.key # k \/ k = NoKey
    BY <1>1, <2>2 DEF Apart
  <2>4. s.keyRow # "none" => s.key \in Keys
    BY <2>1, <2>2 DEF RequestSound, RequestState
  <2>5. s.keyRow # "none" => keys'[s.key] = keys[s.key]
    BY <1>1, <1>8, <2>3, <2>4, <1>2
  <2>6. s.pc \in Written => ~Placed(s.order)'
    BY <1>1, <1>7, <2>2 DEF RequestSound, Apart
  <2>7. s.pc \in Written => CanReserve(s.items)'
    <3>1. ASSUME s.pc \in Written, NEW p \in Products, s.items[p] > 0
          PROVE  Available(p)' >= s.items[p]
      <4>1. p \in s.locked /\ CanReserve(s.items)
        BY <2>2, <3>1 DEF RequestSound, Listing
      <4>2. p \notin Listing(b)
        BY <1>1, <2>2, <4>1 DEF Apart
      <4>3. b[p] = 0
        BY <4>2 DEF Listing, Basket
      <4> QED BY <1>14, <3>1, <4>1, <4>3 DEF CanReserve
    <3> QED BY <3>1 DEF CanReserve
  <2>8. s.consumed => used' < UsageLimit
    BY <1>1, <1>12, <2>2 DEF RequestSound, Apart
  <2>9. RequestSound(s)'
    BY <2>1, <2>2, <2>4, <2>5, <2>6, <2>7, <2>8 DEF RequestSound
  <2> QED BY <1>9, <2>1, <2>9
<1>16. \A q \in Requests : RequestSound(request[q])'
  <2>1. RequestSound(NoRequestState)'
    <3>1. /\ NoRequestState.pc = "idle" /\ NoRequestState.order = NoOrder
          /\ NoRequestState.keyRow = "none" /\ NoRequestState.consumed = FALSE
      BY DEF NoRequestState
    <3> HIDE DEF NoRequestState
    <3> QED BY <3>1 DEF RequestSound, Working, Written
  <2>2. ASSUME NEW q \in Requests PROVE RequestSound(request[q])'
    BY <1>9, <1>15, <2>1
  <2> QED BY <2>2
<1>17. \A q, s \in Requests : q # s => Apart(request'[q], request'[s])
  BY <1>9, IdleRequest DEF PInv
<1>18. ASSUME NEW x \in Orders PROVE OrderSound(x)'
  <2>1. OrderSound(x)
    BY DEF PInv
  <2>2. CASE x = o
    <3>1. o \notin bygone
      BY <1>1, <2>1, <2>2 DEF OrderSound
    <3> QED BY <1>7, <1>8, <1>12, <1>6, <2>2, <3>1 DEF OrderSound
  <2>3. CASE x # o
    <3>1. order[x].key \in Keys /\ x \notin bygone => order[x].key # k
      BY <1>1, <1>2, <2>1 DEF OrderSound
    <3>2. order'[x] = order[x] /\ (Placed(x)' <=> Placed(x))
      BY <1>7, <2>3
    <3>3. \A p \in Products : Sold(x, p)' <=> Sold(x, p)
      BY <1>4, <2>3
    <3> QED BY <1>8, <1>12, <2>1, <3>1, <3>2, <3>3 DEF OrderSound
  <2> QED BY <2>2, <2>3
<1>19. ASSUME NEW j \in Keys PROVE KeySound(j)'
  <2>1. CASE j = k
    BY <1>6, <1>7, <1>8, <2>1 DEF KeySound
  <2>2. CASE j # k
    <3>1. keys'[j] = keys[j] /\ keys[j] \in KeyRow /\ KeySound(j)
      BY <1>2, <1>8, <2>2 DEF PInv
    <3>2. keys[j].order # NoOrder => keys[j].order \in Orders /\ keys[j].order # o
      BY <1>1, <3>1 DEF KeySound, KeyRow
    <3> QED BY <1>7, <3>1, <3>2 DEF KeySound
  <2> QED BY <2>1, <2>2
<1>20. ASSUME NEW t \in Tills PROVE TillSound(till[t])'
  <2>1. TillSound(till[t]) /\ till[t] \in TillState
    BY <1>2 DEF PInv
  <2>2. /\ \A q \in Requests : request'[q].key \in Keys => request'[q] = request[q] /\ q # r
        /\ \A q \in Requests : request'[q].order \in Orders => request'[q] = request[q] /\ q # r
    BY <1>2, <1>9, IdleRequest
  <2>3. till[t].key \in Keys /\ ~till[t].changed =>
          /\ till[t].items # EmptyBasket
          /\ \A q \in Requests : request'[q].key = till[t].key => request'[q].items = till[t].items
          /\ \A x \in Orders : order'[x].key = till[t].key => order'[x].items = till[t].items
    <3>1. ASSUME till[t].key \in Keys, ~till[t].changed, NEW x \in Orders,
                 order'[x].key = till[t].key
          PROVE  order'[x].items = till[t].items
      <4>1. CASE x = o
        BY <1>1, <1>6, <1>7, <2>1, <3>1, <4>1 DEF TillSound
      <4>2. CASE x # o
        BY <1>7, <2>1, <3>1, <4>2 DEF TillSound
      <4> QED BY <4>1, <4>2
    <3> QED BY <2>1, <2>2, <3>1 DEF TillSound
  <2>4. CASE till[t].request # r
    <3>1. PICK s : s = till[t] /\ till'[t] = s
      BY <1>10, <2>4
    <3>2. s.request \in Requests =>
            /\ s.key \in Keys
            /\ request'[s.request].pc # "idle" /\ request'[s.request].key = s.key
      BY <1>9, <2>1, <2>4, <3>1 DEF TillSound
    <3>3. s.order \in Orders =>
            /\ \A q \in Requests : request'[q].order # s.order
            /\ Placed(s.order)' /\ ~s.changed => order'[s.order].items = s.sold
      <4>1. s.order \in Orders => s.order # o
        BY <1>1, <2>1, <3>1 DEF TillSound
      <4> QED BY <1>7, <2>1, <2>2, <3>1, <4>1 DEF TillSound
    <3> QED BY <2>3, <3>1, <3>2, <3>3 DEF TillSound
  <2>5. CASE till[t].request = r
    <3>1. PICK s : s = till'[t]
      OBVIOUS
    <3>2. /\ s.request = NoRequest /\ s.order = o /\ s.sold = b
          /\ s.key = till[t].key /\ s.items = till[t].items /\ s.changed = till[t].changed
      BY <1>10, <2>1, <2>5, <3>1 DEF TillState
    <3>3. \A q \in Requests : request'[q].order # o
      <4>1. ASSUME NEW q \in Requests, request'[q].order = o PROVE FALSE
        <5>1. request'[q] = request[q] /\ q # r
          BY <2>2, <4>1
        <5>2. Apart(request[r], request[q])
          BY <5>1 DEF PInv
        <5> QED BY <1>1, <4>1, <5>1, <5>2 DEF Apart
      <4> QED BY <4>1
    <3>4. order'[o].items = b
      BY <1>6, <1>7
    <3> QED BY <1>2, <2>3, <3>1, <3>2, <3>3, <3>4 DEF TillSound
  <2> QED BY <2>4, <2>5
<1>21. \A t, u \in Tills : till'[t].key = till'[u].key /\ till'[t].key # NoKey => t = u
  BY <1>11 DEF PInv
<1> QED
  BY <1>4, <1>5, <1>13, <1>16, <1>17, <1>18, <1>19, <1>20, <1>21 DEF PInv, Apart

-----------------------------------------------------------------------------
(* The invariant is inductive *)

\* The program starts in the invariant.
LEMMA PlacementStarts ==
  ASSUME PlacementInit
  PROVE  PInv
<1>1. EngineTypeOK /\ ProjectsLedger /\ \A o \in Orders, p \in Products : ~Sold(o, p)
  BY PlacementAssumption, EngineStarts DEF PlacementInit
<1>2. PlacementTypeOK
  BY <1>1, PlacementConstants DEF PlacementInit, PlacementTypeOK
<1>3. \A o \in Orders : order[o] = NoOrderRow /\ ~Placed(o)
  BY DEF PlacementInit, Placed, NoOrderRow
<1>4. UnitsAreAccounted
  <2>1. /\ {o \in Orders : order[o].status = "entregue"} = {}
        /\ {o \in Orders : order[o].status = "pendente_pagamento"} = {}
    BY <1>3 DEF NoOrderRow
  <2> SUFFICES ASSUME NEW p \in Products
               PROVE  /\ stock[p].current = InitialUnits[p] - Total(Units(p), {})
                      /\ stock[p].reserved = Total(Units(p), {})
                      /\ stock[p].reserved <= stock[p].current
    BY <2>1 DEF UnitsAreAccounted
  <2>2. /\ stock[p].current = InitialUnits[p] /\ stock[p].reserved = 0
        /\ InitialUnits[p] \in Nat
    BY PlacementAssumption DEF PlacementInit, EngineInit
  <2>3. Total(Units(p), {}) = 0
    BY FS_EmptySet, TotalOfNothing
  <2> QED BY <2>2, <2>3
<1>5. CouponIsCounted
  <2>1. {o \in Orders : order[o].coupon} = {}
    BY <1>3 DEF NoOrderRow
  <2> QED BY <2>1, FS_EmptySet, PlacementAssumption DEF CouponIsCounted, PlacementInit
<1>6. \A r \in Requests : request[r] = NoRequestState
  BY DEF PlacementInit
<1>7. /\ \A r \in Requests : RequestSound(request[r])
      /\ \A r, q \in Requests : r # q => Apart(request[r], request[q])
  BY <1>6, IdleRequest
<1>8. \A o \in Orders : OrderSound(o)
  <2>1. \A o \in Orders : order[o].key = NoKey /\ NoKey \notin Keys /\ bygone = {}
    BY <1>3, PlacementAssumption DEF NoOrderRow, PlacementInit
  <2> QED BY <1>1, <1>3, <2>1 DEF OrderSound
<1>9. \A k \in Keys : KeySound(k)
  BY DEF PlacementInit, NoKeyRow, KeySound
<1>10. \A t \in Tills : /\ till[t].key = NoKey /\ till[t].request = NoRequest
                        /\ till[t].order = NoOrder
  BY DEF PlacementInit, NoSale
<1>11. \A t \in Tills : TillSound(till[t])
  BY <1>10, PlacementAssumption, EngineAssumption DEF TillSound
<1> QED BY <1>1, <1>2, <1>4, <1>5, <1>7, <1>8, <1>9, <1>10, <1>11 DEF PInv

\* Every step keeps the invariant.
LEMMA PlacementSteps ==
  ASSUME PInv, [PlacementNext]_placementVars
  PROVE  PInv'
<1>1. \A items \in Baskets \cup {EmptyBasket} : items \in Basket
  BY PlacementAssumption, PlacementConstants
<1>2. ASSUME NEW t \in Tills, TillStep(t) PROVE PInv'
  BY <1>1, <1>2, RingUpSound, SubmitSaleSound, TillEndsSound DEF TillStep
<1>3. ASSUME NEW r \in Requests, NEW items \in Baskets, NEW coupon \in Elsewhere,
             PlaceOrder(r, items, coupon)
      PROVE  PInv'
  <2>1. items \in Basket /\ coupon \in BOOLEAN
    BY PlacementAssumption
  <2> QED BY <1>3, <2>1, PlaceOrderSound
<1>4. ASSUME NEW r \in Requests, RequestStep(r) PROVE PInv'
  <2>1. CASE FindKey(r) \/ RemoveKey(r) \/ InsertKey(r)
    BY <2>1, KeyStepSound
  <2>2. CASE \/ \E p \in Products : LockStock(r, p)
             \/ \E o \in Orders : CreateOrder(r, o)
             \/ ConsumeCoupon(r)
    BY <2>2, WorkSound
  <2>3. CASE Commit(r)
    BY <2>3, CommitSound
  <2>4. CASE CommitBroken(r) \/ Refuse(r)
    BY <2>4, RolledBackSound DEF Refuse
  <2> QED BY <1>4, <2>1, <2>2, <2>3, <2>4 DEF RequestStep
<1>5. ASSUME NEW r \in Requests, AbortDeadlocked(r) \/ RequestDies(r) PROVE PInv'
  BY <1>5, RolledBackSound DEF AbortDeadlocked, RequestDies
<1>6. CASE UNCHANGED placementVars
  <2>1. UNCHANGED <<stock, ledger, keys, order, used, request, till, bygone>>
    BY <1>6 DEF placementVars
  <2>2. PlacementTypeOK' /\ (\A r \in Requests : RequestSound(request[r])')
    BY <2>1, BooksStay DEF PInv, PlacementTypeOK, RequestSound, Placed, CanReserve, Available
  <2>3. /\ \A o \in Orders : OrderSound(o)'
        /\ \A k \in Keys : KeySound(k)'
        /\ \A t \in Tills : TillSound(till[t])'
    BY <2>1, BooksStay DEF PInv, OrderSound, KeySound, TillSound, Placed
  <2> QED BY <2>1, <2>2, <2>3, BooksStay DEF PInv, Apart
<1> QED BY <1>2, <1>3, <1>4, <1>5, <1>6, KeyExpiresSound DEF PlacementNext

\* However far the requests are, what each of them has found holds, their locks
\* keep them apart, and the counts agree with the orders.
THEOREM PlacementInductive == PlacementSpec => []PInv
<1>1. PlacementInit => PInv
  BY PlacementStarts
<1>2. PInv /\ [PlacementNext]_placementVars => PInv'
  BY PlacementSteps
<1> QED BY <1>1, <1>2, PTL DEF PlacementSpec

\* OrdersService.create and usePdvSale keep their rows and states well formed.
THEOREM PlacementTypeCorrect == PlacementSpec => []PlacementTypeOK
<1>1. PInv => PlacementTypeOK
  BY DEF PInv
<1> QED BY <1>1, PlacementInductive, PTL

\* A sale of the PDV screen is placed once under its key, however often it is
\* sent and whatever becomes of the requests, until the key expires.
THEOREM SalesArePlacedOnce == PlacementSpec => []OneOrderPerKey
<1>1. PInv => OneOrderPerKey
  <2> SUFFICES ASSUME PInv, NEW i \in Orders \ bygone, NEW j \in Orders \ bygone,
                      order[i].key # NoKey, order[i].key = order[j].key
               PROVE  i = j
    BY DEF OneOrderPerKey
  <2>1. order[i].key \in Keys
    BY DEF PInv, PlacementTypeOK, OrderRow
  <2>2. OrderSound(i) /\ OrderSound(j)
    BY DEF PInv
  <2>3. /\ keys[order[i].key] = [order |-> i, expired |-> FALSE]
        /\ keys[order[i].key] = [order |-> j, expired |-> FALSE]
    BY <2>1, <2>2 DEF OrderSound
  <2> QED BY <2>3
<1> QED BY <1>1, PlacementInductive, PTL

\* The items the till shows as sold are the items of the order.
THEOREM ShownIsSold == PlacementSpec => []SoldAsShown
<1>1. PInv => SoldAsShown
  <2> SUFFICES ASSUME PInv, NEW t \in Tills, till[t].order # NoOrder,
                      Placed(till[t].order), ~till[t].changed
               PROVE  order[till[t].order].items = till[t].sold
    BY DEF SoldAsShown
  <2>1. TillSound(till[t]) /\ till[t].order \in Orders
    BY DEF PInv, PlacementTypeOK, TillState
  <2> QED BY <2>1 DEF TillSound
<1> QED BY <1>1, PlacementInductive, PTL

\* Every unit that left the shelf, and every reserved one, is in one order.
THEOREM EveryUnitHasItsOrder == PlacementSpec => []UnitsAreAccounted
<1>1. PInv => UnitsAreAccounted
  BY DEF PInv
<1> QED BY <1>1, PlacementInductive, PTL

\* The coupon is used as often as it is on an order, and never too often.
THEOREM CouponUsesAreOrders == PlacementSpec => []CouponIsCounted
<1>1. PInv => CouponIsCounted
  BY DEF PInv
<1> QED BY <1>1, PlacementInductive, PTL

-----------------------------------------------------------------------------
(* Nobody is stuck *)

\* A request that has ended owns nothing, so nobody waits for it.
LEMMA WaitedForRuns ==
  ASSUME PInv, NEW r \in Requests, NEW q \in Requests, WaitsFor(r, q)
  PROVE  request[q].pc # "idle"
<1> SUFFICES ASSUME request[q].pc = "idle" PROVE FALSE
  OBVIOUS
<1>1. request[q] = NoRequestState
  BY DEF PInv, RequestSound
<1>2. request[q].keyRow = "none" /\ request[q].locked = {} /\ request[q].consumed = FALSE
  BY <1>1 DEF NoRequestState
<1> QED BY <1>2 DEF WaitsFor

\* Who is not ready waits for somebody else.
LEMMA UnreadyWaits ==
  ASSUME PInv, NEW r \in Requests, request[r].pc # "idle", ~Ready(r)
  PROVE  \E q \in Requests \ {r} : WaitsFor(r, q)
<1>1. request[r].pc \in {"remove", "insert", "lock", "coupon"}
  BY DEF PInv, PlacementTypeOK, RequestState, Ready
<1>2. CASE request[r].pc \in {"remove", "insert"}
  BY <1>2 DEF Ready, KeyBusy, WaitsFor
<1>3. CASE request[r].pc = "lock"
  <2>1. Unlocked(r) # {} /\ \A p \in Unlocked(r) : RowLocked(r, p)
    BY <1>3 DEF Ready
  <2>2. PICK p \in Unlocked(r) : RowLocked(r, p)
    BY <2>1
  <2>3. PICK q \in Requests \ {r} : p \in request[q].locked
    BY <2>2 DEF RowLocked
  <2> QED BY <1>3, <2>1, <2>2, <2>3 DEF WaitsFor
<1>4. CASE request[r].pc = "coupon"
  BY <1>4 DEF Ready, CouponLocked, WaitsFor
<1> QED BY <1>1, <1>2, <1>3, <1>4

\* The smallest set whose members wait for each other is a deadlock: had one of
\* them nobody waiting for it, the others would do without it.
LEMMA WaitersDeadlock ==
  ASSUME NEW W \in SUBSET Requests, IsFiniteSet(W), W # {},
         \A r \in W : \E q \in W \ {r} : WaitsFor(r, q)
  PROVE  \E r \in W : Deadlocked(r)
<1> DEFINE Waiting(S) == \A r \in S : \E q \in S \ {r} : WaitsFor(r, q)
           B == {S \in SUBSET W : S # {} /\ Waiting(S)}
<1>1. PICK T \in B : \A U \in B : U \subseteq T => U = T
  <2>1. W \in B /\ B \in SUBSET (SUBSET W)
    OBVIOUS
  <2> HIDE DEF B
  <2> QED BY <2>1, SmallestSubset
<1>2. T \subseteq W /\ T # {} /\ Waiting(T)
  BY <1>1
<1>3. ASSUME NEW x \in T PROVE \E w \in T \ {x} : WaitsFor(w, x)
  <2> SUFFICES ASSUME \A w \in T \ {x} : ~WaitsFor(w, x) PROVE FALSE
    OBVIOUS
  <2>1. PICK y \in T \ {x} : WaitsFor(x, y)
    BY <1>2
  <2>2. Waiting(T \ {x})
    BY <1>2
  <2>3. T \ {x} \in B
    BY <1>2, <2>1, <2>2
  <2> HIDE DEF B
  <2>4. T \ {x} = T
    BY <1>1, <2>3
  <2> QED BY <2>4
<1>4. PICK r \in T : TRUE
  BY <1>2
<1>5. Deadlocked(r)
  BY <1>2, <1>3, <1>4 DEF Deadlocked
<1> QED BY <1>2, <1>5

InFlight == {r \in Requests : request[r].pc # "idle"}

\* There may be any number of requests, but only so many are under way; and what
\* they carry was rung up, so it is in the shop and not nothing.
BasketsRung ==
  /\ \A t \in Tills : till[t].items \in Baskets \cup {EmptyBasket}
  /\ \A r \in InFlight : request[r].items \in Baskets

FlightInv == IsFiniteSet(InFlight) /\ BasketsRung

\* One request changes at a time.
LEMMA FlightGrows ==
  ASSUME IsFiniteSet(InFlight), NEW r \in Requests,
         \A q \in Requests \ {r} : request'[q] = request[q]
  PROVE  IsFiniteSet(InFlight)'
<1>1. PICK F : F = InFlight
  OBVIOUS
<1>2. PICK G : G = {q \in Requests : request'[q].pc # "idle"}
  OBVIOUS
<1>3. IsFiniteSet(F \cup {r})
  BY <1>1, FS_AddElement
<1>4. G \subseteq F \cup {r}
  BY <1>1, <1>2 DEF InFlight
<1>5. IsFiniteSet(G)
  BY <1>3, <1>4, FS_Subset
<1> QED BY <1>2, <1>5 DEF InFlight

\* What a request does once it has arrived: it touches only itself, keeps its
\* items until it ends, and writes nothing before it commits.
LEMMA RequestWorks ==
  ASSUME PInv, NEW r \in Requests, RequestStep(r) \/ AbortDeadlocked(r) \/ RequestDies(r)
  PROVE  /\ \A q \in Requests \ {r} : request'[q] = request[q]
         /\ request[r].pc # "idle"
         /\ request'[r].pc # "idle" => request'[r].items = request[r].items
         /\ \A t \in Tills : till'[t].items = till[t].items
         /\ Commit(r) \/ UNCHANGED <<stock, ledger, keys, order, used>>
<1>1. /\ request \in [Requests -> RequestState] /\ till \in [Tills -> TillState]
      /\ request[r] \in RequestState
  BY DEF PInv, PlacementTypeOK
<1>2. ASSUME NEW o \in Orders \cup {NoOrder}, Answer(r, o)
      PROVE  /\ \A q \in Requests \ {r} : request'[q] = request[q]
             /\ request'[r].pc = "idle"
             /\ \A t \in Tills : till'[t].items = till[t].items
  <2>1. PICK sold \in Basket : sold = IF o = NoOrder THEN EmptyBasket ELSE request[r].items
    BY <1>1, PlacementConstants DEF RequestState
  <2>2. request' = [request EXCEPT ![r] = NoRequestState]
    BY <1>2, Zenon DEF Answer
  <2>3. /\ \A t \in Tills : till[t].request # r => till'[t] = till[t]
        /\ \A t \in Tills : till[t].request = r =>
             till'[t] = [till[t] EXCEPT !.request = NoRequest, !.order = o, !.sold = sold]
    <3>1. till' = [t \in Tills |->
                    IF till[t].request # r THEN till[t]
                    ELSE [till[t] EXCEPT !.request = NoRequest, !.order = o, !.sold = sold]]
      BY <1>2, <2>1, Zenon DEF Answer
    <3> QED BY <3>1, Zenon
  <2>4. ASSUME NEW t \in Tills PROVE till'[t].items = till[t].items
    <3>1. PICK u \in TillState : u = till[t]
      BY <1>1
    <3>2. CASE till[t].request # r
      BY <2>3, <3>2, Zenon
    <3>3. CASE till[t].request = r
      <4>1. till'[t] = [u EXCEPT !.request = NoRequest, !.order = o, !.sold = sold]
        BY <2>3, <3>1, <3>3, Zenon
      <4> QED BY <3>1, <4>1 DEF TillState
    <3> QED BY <3>2, <3>3
  <2>5. /\ \A q \in Requests \ {r} : request'[q] = request[q]
        /\ request'[r].pc = "idle"
    BY <1>1, <2>2 DEF NoRequestState
  <2> QED BY <2>4, <2>5
<1>4. CASE FindKey(r)
  <2>1. request[r].pc = "find" /\ keys[request[r].key].order \in Orders \cup {NoOrder}
    BY <1>4 DEF FindKey, PInv, PlacementTypeOK, RequestSound, KeyRow
  <2>2. CASE Goto(r, "insert") /\ InR
    BY <1>1, <2>1, <2>2 DEF Goto, InR, RequestState
  <2>3. CASE Goto(r, "remove") /\ InR
    BY <1>1, <2>1, <2>3 DEF Goto, InR, RequestState
  <2>4. CASE AnswerOnly(r, keys[request[r].key].order)
    BY <1>2, <2>1, <2>4 DEF AnswerOnly
  <2> QED BY <1>4, <2>2, <2>3, <2>4 DEF FindKey
<1>5. CASE RemoveKey(r)
  BY <1>1, <1>5 DEF RemoveKey, InR, RequestState
<1>6. CASE InsertKey(r)
  <2>1. request[r].pc = "insert" /\ keys[request[r].key].order \in Orders \cup {NoOrder}
    BY <1>6 DEF InsertKey, PInv, PlacementTypeOK, RequestSound, KeyRow
  <2>2. CASE /\ request' = [request EXCEPT ![r].pc = "lock", ![r].keyRow = "inserted"]
             /\ InR
    BY <1>1, <2>1, <2>2 DEF InR, RequestState
  <2>3. CASE AnswerOnly(r, keys[request[r].key].order)
    BY <1>2, <2>1, <2>3 DEF AnswerOnly
  <2> QED BY <1>6, <2>2, <2>3 DEF InsertKey
<1>7. CASE \E p \in Products : LockStock(r, p)
  BY <1>1, <1>7 DEF LockStock, InR, RequestState
<1>8. CASE \E o \in Orders : CreateOrder(r, o)
  BY <1>1, <1>8 DEF CreateOrder, InR, RequestState
<1>9. CASE ConsumeCoupon(r)
  BY <1>1, <1>9 DEF ConsumeCoupon, InR, RequestState
<1>10. CASE Commit(r)
  BY <1>1, <1>2, <1>10 DEF Commit, RequestState
<1>11. CASE CommitBroken(r)
  BY <1>1, <1>2, <1>11 DEF CommitBroken, AnswerOnly, RequestState
<1>12. CASE Refuse(r)
  BY <1>2, <1>12 DEF Refuse, Refused, RollBack, AnswerOnly
<1>13. CASE AbortDeadlocked(r)
  <2>1. \E q \in Requests : WaitsFor(r, q)
    BY <1>13 DEF AbortDeadlocked, Deadlocked
  <2>2. request[r].pc # "idle"
    BY <2>1 DEF WaitsFor
  <2> QED BY <1>2, <1>13, <2>2 DEF AbortDeadlocked, RollBack, AnswerOnly
<1>14. CASE RequestDies(r)
  BY <1>2, <1>14 DEF RequestDies, RollBack, AnswerOnly
<1> QED
  BY <1>4, <1>5, <1>6, <1>7, <1>8, <1>9, <1>10, <1>11, <1>12, <1>13, <1>14 DEF RequestStep

\* A till sends what was rung up, if that is anything.
LEMMA FlightSteps ==
  ASSUME PInv, FlightInv, [PlacementNext]_placementVars
  PROVE  FlightInv'
<1>1. /\ request \in [Requests -> RequestState] /\ till \in [Tills -> TillState]
      /\ \A t \in Tills : till[t] \in TillState /\ till[t].items \in Baskets \cup {EmptyBasket}
      /\ \A r \in InFlight : request[r].items \in Baskets
      /\ IsFiniteSet(InFlight)
  BY DEF PInv, PlacementTypeOK, FlightInv, BasketsRung
<1>2. ASSUME UNCHANGED request,
             \A t \in Tills : till'[t].items \in Baskets \cup {EmptyBasket}
      PROVE  FlightInv'
  BY <1>1, <1>2 DEF FlightInv, BasketsRung, InFlight
<1>3. ASSUME NEW r \in Requests, \A q \in Requests \ {r} : request'[q] = request[q],
             request'[r].pc # "idle" => request'[r].items \in Baskets,
             \A t \in Tills : till'[t].items = till[t].items
      PROVE  FlightInv'
  <2>1. IsFiniteSet(InFlight)'
    BY <1>1, <1>3, FlightGrows
  <2> QED BY <1>1, <1>3, <2>1 DEF FlightInv, BasketsRung, InFlight
<1>4. ASSUME NEW r \in Requests, NEW k, NEW items \in Baskets, NEW coupon,
             Arrive(r, k, items, coupon), \A t \in Tills : till'[t].items = till[t].items
      PROVE  FlightInv'
  <2>1. request'[r].items = items /\ \A q \in Requests \ {r} : request'[q] = request[q]
    BY <1>1, <1>4 DEF Arrive, NoRequestState
  <2> QED BY <1>3, <1>4, <2>1
<1>5. ASSUME NEW t \in Tills, TillStep(t) PROVE FlightInv'
  <2>1. CASE \E items \in Baskets \cup {EmptyBasket} : RingUp(t, items)
    BY <1>1, <1>2, <2>1 DEF RingUp, TillState
  <2>2. ASSUME NEW r \in Requests, NEW k \in Keys, SubmitSale(t, r, k) PROVE FlightInv'
    <3>1. till[t].items \in Baskets /\ Arrive(r, k, till[t].items, FALSE)
      BY <1>1, <2>2 DEF SubmitSale
    <3>2. \A u \in Tills : till'[u].items = till[u].items
      BY <1>1, <2>2 DEF SubmitSale, TillState
    <3> QED BY <1>4, <3>1, <3>2
  <2>3. CASE ConnectionLost(t)
    BY <1>1, <1>2, <2>3 DEF ConnectionLost, TillState
  <2>4. CASE NewSale(t)
    BY <1>1, <1>2, <2>4 DEF NewSale, NoSale
  <2> QED BY <1>5, <2>1, <2>2, <2>3, <2>4 DEF TillStep
<1>6. ASSUME NEW r \in Requests, NEW items \in Baskets, NEW coupon \in Elsewhere,
             PlaceOrder(r, items, coupon)
      PROVE  FlightInv'
  BY <1>4, <1>6 DEF PlaceOrder
<1>7. ASSUME NEW r \in Requests, RequestStep(r) \/ AbortDeadlocked(r) \/ RequestDies(r)
      PROVE  FlightInv'
  <2>1. r \in InFlight /\ request[r].items \in Baskets
    BY <1>1, <1>7, RequestWorks DEF InFlight
  <2> QED BY <1>3, <1>7, <2>1, RequestWorks
<1>8. ASSUME NEW k \in Keys, KeyExpires(k) PROVE FlightInv'
  BY <1>1, <1>2, <1>8 DEF KeyExpires
<1>9. CASE UNCHANGED placementVars
  BY <1>1, <1>2, <1>9 DEF placementVars
<1> QED BY <1>5, <1>6, <1>7, <1>8, <1>9 DEF PlacementNext

\* Both invariants together.
LEMMA FlightInductive == PlacementSpec => [](PInv /\ FlightInv)
<1>1. PlacementInit => FlightInv
  <2> SUFFICES ASSUME PlacementInit PROVE FlightInv
    OBVIOUS
  <2>1. InFlight = {}
    BY DEF PlacementInit, InFlight, NoRequestState
  <2>2. \A t \in Tills : till[t].items = EmptyBasket
    BY DEF PlacementInit, NoSale
  <2> QED BY <2>1, <2>2, FS_EmptySet DEF FlightInv, BasketsRung
<1>2. PInv /\ FlightInv /\ [PlacementNext]_placementVars => FlightInv'
  BY FlightSteps
<1> QED BY <1>1, <1>2, PlacementInductive, PTL DEF PlacementSpec

\* Requests lock keys, rows and the coupon in any order.  Among those that wait
\* only for each other somebody can go on: one that needs no lock, or one of the
\* smallest circle of them, which PostgreSQL finds.
THEOREM NobodyWaitsForEver == PlacementSpec => []NobodyStuck
<1>1. PInv /\ FlightInv => NobodyStuck
  <2> SUFFICES ASSUME PInv, FlightInv, NEW S \in SUBSET Requests,
                      \E r \in S : request[r].pc # "idle",
                      \A r \in S : \A q \in Requests \ {r} : WaitsFor(r, q) => q \in S,
                      \A r \in S : ~Ready(r)
               PROVE  FALSE
    BY DEF NobodyStuck
  <2> DEFINE W == S \cap InFlight
  <2>1. W \in SUBSET Requests /\ W # {} /\ IsFiniteSet(W)
    BY FS_Subset DEF InFlight, FlightInv
  <2>2. ASSUME NEW r \in W PROVE \E q \in W \ {r} : WaitsFor(r, q)
    <3>1. r \in Requests /\ request[r].pc # "idle" /\ ~Ready(r)
      BY <2>2 DEF InFlight
    <3>2. PICK q \in Requests \ {r} : WaitsFor(r, q)
      BY <3>1, UnreadyWaits
    <3>3. q \in S /\ q \in InFlight
      BY <2>2, <3>1, <3>2, WaitedForRuns DEF InFlight
    <3> QED BY <3>2, <3>3
  <2> HIDE DEF W
  <2>3. PICK r \in W : Deadlocked(r)
    BY <2>1, <2>2, WaitersDeadlock
  <2> QED BY <2>3 DEF Ready, W
<1> QED BY <1>1, FlightInductive, PTL

-----------------------------------------------------------------------------
(* Orders are placed at once *)

\* Neither the units nor the uses nor the rows change: a stutter of the sales
\* book, and of the ledger.
Unwritten == UNCHANGED <<stock, ledger, keys, order, used>>

\* The commit is the moment at which the order is placed.
LEMMA CommitPlaces ==
  ASSUME PInv, FlightInv, NEW r \in Requests, Commit(r)
  PROVE  Sales!Next /\ [Ledger!Post]_ledger
<1>1. PICK o \in Orders, b \in Basket, k \in Keys \cup {NoKey}, coupon \in BOOLEAN :
        /\ o = request[r].order /\ b = request[r].items /\ k = request[r].key
        /\ coupon = request[r].coupon /\ (request[r].consumed <=> coupon)
        /\ order[o] = NoOrderRow /\ ~Placed(o) /\ \A p \in Products : ~Sold(o, p)
        /\ CanReserve(b) /\ Listing(b) \subseteq request[r].locked
        /\ coupon => used < UsageLimit
        /\ k # NoKey => /\ k \in Keys /\ request[r].keyRow = "inserted"
                        /\ keys[k].order = NoOrder \/ keys[k].expired
        /\ order' = [order EXCEPT ![o] =
             [status |-> IF k # NoKey THEN "entregue" ELSE "pendente_pagamento",
              key |-> k, items |-> b, coupon |-> coupon]]
        /\ used' = IF coupon THEN used + 1 ELSE used
        /\ IF k # NoKey
           THEN /\ stock' = AfterSale(Reserved(stock, b), o, b)
                /\ ledger' = LedgerAfterSale(o, b)
                /\ keys' = [keys EXCEPT ![k] = [order |-> o, expired |-> FALSE]]
           ELSE stock' = Reserved(stock, b) /\ UNCHANGED <<ledger, keys>>
        /\ Answer(r, o) /\ UNCHANGED bygone
  BY CommitKnows
<1>2. b \in Baskets
  BY <1>1 DEF Commit, FlightInv, BasketsRung, InFlight
<1>3. PICK isSale \in BOOLEAN : isSale <=> k # NoKey
  OBVIOUS
<1>4. /\ [Ledger!Post]_ledger
      /\ \A p \in Products :
           stock'[p] = IF isSale
                       THEN [current |-> stock[p].current - b[p], reserved |-> stock[p].reserved]
                       ELSE [current |-> stock[p].current, reserved |-> stock[p].reserved + b[p]]
  <2>1. IF isSale
        THEN stock' = AfterSale(Reserved(stock, b), o, b) /\ ledger' = LedgerAfterSale(o, b)
        ELSE stock' = Reserved(stock, b) /\ UNCHANGED ledger
    BY <1>1, <1>3
  <2>2. CanReserve(b) /\ \A p \in Products : ~Sold(o, p)
    BY <1>1
  <2> QED BY <2>1, <2>2, CommitStock
<1>5. ASSUME NEW p \in Products
      PROVE  /\ b[p] <= Available(p)
             /\ Available(p)' = Available(p) - b[p]
  <2>1. /\ stock[p].current \in Nat /\ stock[p].reserved \in Nat /\ b[p] \in Nat
        /\ stock[p].reserved <= stock[p].current
        /\ b[p] > 0 => stock[p].current - stock[p].reserved >= b[p]
    BY <1>1 DEF PInv, PlacementTypeOK, EngineTypeOK, StockRow, Basket, UnitsAreAccounted,
                CanReserve, Available
  <2>2. CASE isSale
    <3>1. stock'[p] = [current |-> stock[p].current - b[p], reserved |-> stock[p].reserved]
      BY <1>4, <2>2
    <3>2. stock'[p].current = stock[p].current - b[p] /\ stock'[p].reserved = stock[p].reserved
      BY <3>1
    <3> QED BY <2>1, <3>2 DEF Available
  <2>3. CASE ~isSale
    <3>1. stock'[p] = [current |-> stock[p].current, reserved |-> stock[p].reserved + b[p]]
      BY <1>4, <2>3
    <3>2. stock'[p].current = stock[p].current /\ stock'[p].reserved = stock[p].reserved + b[p]
      BY <3>1
    <3> QED BY <2>1, <3>2 DEF Available
  <2> QED BY <2>2, <2>3
<1>6. Sales!Place(o, k, b, coupon)
  <2>1. order[o] = Sales!NotPlaced
    BY <1>1 DEF NoOrderRow, EmptyBasket, Sales!NotPlaced
  <2>2. k # NoKey => keys[k].order = NoOrder \/ keys[k].expired
    BY <1>1
  <2>3. \A p \in Products : b[p] <= [q \in Products |-> Available(q)][p]
    BY <1>5
  <2>4. /\ coupon => UsageLimit - used > 0
        /\ UsageLimit - used' = IF coupon THEN (UsageLimit - used) - 1 ELSE UsageLimit - used
    BY <1>1, PlacementAssumption DEF PInv, PlacementTypeOK
  <2>5. [p \in Products |-> Available(p)]'
          = [p \in Products |-> [q \in Products |-> Available(q)][p] - b[p]]
    BY <1>5
  <2>6. keys' = IF k # NoKey
                THEN [keys EXCEPT ![k] = [order |-> o, expired |-> FALSE]] ELSE keys
    BY <1>1
  <2>7. order' = [order EXCEPT ![o] =
             [status |-> IF k # NoKey THEN "entregue" ELSE "pendente_pagamento",
              key |-> k, items |-> b, coupon |-> coupon]]
    BY <1>1
  <2> QED BY <2>1, <2>2, <2>3, <2>4, <2>5, <2>6, <2>7 DEF Sales!Place
<1> QED BY <1>2, <1>4, <1>6 DEF Sales!Next

\* No other step writes anything, but for a key that expires.
LEMMA OnlyCommitsWrite ==
  ASSUME PInv, [PlacementNext]_placementVars
  PROVE  \/ \E r \in Requests : Commit(r)
         \/ \E k \in Keys : KeyExpires(k)
         \/ Unwritten
<1>1. ASSUME NEW t \in Tills, TillStep(t) PROVE Unwritten
  <2>1. ASSUME NEW r, NEW k, SubmitSale(t, r, k) PROVE Unwritten
    BY <2>1, Zenon DEF SubmitSale, Unwritten
  <2>2. ASSUME NEW items, RingUp(t, items) PROVE Unwritten
    BY <2>2, Zenon DEF RingUp, Unwritten
  <2>3. CASE ConnectionLost(t)
    BY <2>3, Zenon DEF ConnectionLost, Unwritten
  <2>4. CASE NewSale(t)
    BY <2>4, Zenon DEF NewSale, Unwritten
  <2> QED BY <1>1, <2>1, <2>2, <2>3, <2>4 DEF TillStep
<1>2. CASE \E r \in Requests, items \in Baskets, coupon \in Elsewhere :
             PlaceOrder(r, items, coupon)
  BY <1>2 DEF PlaceOrder, Unwritten
<1>3. CASE \E r \in Requests : RequestStep(r) \/ AbortDeadlocked(r) \/ RequestDies(r)
  BY <1>3, RequestWorks DEF Unwritten
<1>4. CASE UNCHANGED placementVars
  BY <1>4 DEF placementVars, Unwritten
<1> QED BY <1>1, <1>2, <1>3, <1>4 DEF PlacementNext

\* Every step of the tills, the requests, the failures and the time places one
\* order, lets one key expire or changes nothing that anybody else can see.
LEMMA StepsPlace ==
  ASSUME PInv, FlightInv, [PlacementNext]_placementVars
  PROVE  [Sales!Next]_(Sales!vars) /\ [Ledger!Post]_ledger
<1>1. ASSUME NEW r \in Requests, Commit(r)
      PROVE  [Sales!Next]_(Sales!vars) /\ [Ledger!Post]_ledger
  BY <1>1, CommitPlaces
<1>2. ASSUME NEW k \in Keys, KeyExpires(k)
      PROVE  [Sales!Next]_(Sales!vars) /\ [Ledger!Post]_ledger
  <2>1. Sales!Lapse(k) /\ UNCHANGED ledger
    BY <1>2 DEF KeyExpires, Sales!Lapse, Available
  <2> QED BY <2>1 DEF Sales!Next
<1>3. CASE Unwritten
  BY <1>3 DEF Unwritten, Sales!vars, Available
<1> QED BY <1>1, <1>2, <1>3, OnlyCommitsWrite

LEMMA SalesStart == PlacementInit => Sales!Init /\ Ledger!Init
<1> SUFFICES ASSUME PlacementInit PROVE Sales!Init /\ Ledger!Init
  OBVIOUS
<1>1. EngineInit(InitialUnits) /\ InitialUnits \in [Products -> Nat] /\ UsageLimit \in Nat
  BY PlacementAssumption DEF PlacementInit
<1>2. Ledger!Init
  BY <1>1, EngineStarts
<1>3. [p \in Products |-> Available(p)] = InitialUnits
  BY <1>1 DEF EngineInit, Available
<1>4. UsageLimit - used = UsageLimit
  BY <1>1 DEF PlacementInit
<1> QED
  BY <1>2, <1>3, <1>4
  DEF PlacementInit, NoKeyRow, NoOrderRow, EmptyBasket, Sales!Init, Sales!Free, Sales!NotPlaced

\* Requests that interleave, retry, wait for each other, are aborted, die or
\* fail to commit look to everybody else like orders placed one at a time, each
\* as a whole: never from units, a use of the coupon or a key already taken.
THEOREM OrdersArePlacedAtOnce == PlacementSpec => PlacedAtOnce
<1>1. PlacementInit => Sales!Init
  BY SalesStart
<1>2. PInv /\ FlightInv /\ [PlacementNext]_placementVars => [Sales!Next]_(Sales!vars)
  BY StepsPlace
<1> QED BY <1>1, <1>2, FlightInductive, PTL DEF PlacementSpec, PlacedAtOnce, Sales!Spec

\* And they keep the books: each of them appends at most one row per product,
\* which follows from the balance before it.
THEOREM SalesKeepTheBooks == PlacementSpec => Ledger!Spec
<1>1. PlacementInit => Ledger!Init
  BY SalesStart
<1>2. PInv /\ FlightInv /\ [PlacementNext]_placementVars => [Ledger!Post]_ledger
  BY StepsPlace
<1> QED BY <1>1, <1>2, FlightInductive, PTL DEF PlacementSpec, Ledger!Spec
=============================================================================
