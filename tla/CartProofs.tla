------------------------------ MODULE CartProofs ------------------------------
(***************************************************************************)
(* Theorems about Cart, for any number of carts, products, calls and       *)
(* sweepers: types, the match of what a cart lists with what is reserved   *)
(* for it, and of all the lists with the counter of the shop.              *)
(***************************************************************************)
EXTENDS Cart, StockEngineProofs

-----------------------------------------------------------------------------
(* The inductive invariant *)

InHandPc == {"read", "engine", "compare", "write"}

\* The stamp and the status of a row go together as long as nobody saves an
\* old copy over it.
Settled(row) ==
  /\ row.status = "none" => row = NoCartRow
  /\ row.status = "active" => ~row.released
  /\ row.status \in {"abandoned", "expired"} => row.released

\* a call works on a cart that exists, and addItem on one it found active
CallSound(c) ==
  /\ call[c].pc \in InHandPc <=> call[c].cart \in Carts
  /\ call[c].cart \in Carts =>
       /\ cart[call[c].cart].status # "none"
       /\ call[c].mem.status # "none"
  /\ call[c].op = "add" => /\ call[c].pc = "engine" => call[c].mem.status = "active"
                           /\ call[c].pc # "read"
  /\ call[c].op \in {"add", "update", "remove"} => call[c].product \in Products

\* The row and the copies of it agree until one call changes the reservation;
\* then what that call remembers is what is reserved, and what it will save.
EngagedSound(c, k) ==
  /\ Settled(call[c].mem)
  /\ share[k] = Listed(call[c].mem)
  /\ call[c].pc = "write" => Overlaid(cart[k], call[c].mem, call[c].cols) = call[c].mem

CartSound(k) ==
  /\ Settled(cart[k])
  /\ \A c \in Calls : Holds(c, k) /\ ~Engaged(c, k) => call[c].mem = cart[k]
  /\ \A c \in Calls : Engaged(c, k) => EngagedSound(c, k)
  /\ \A c, d \in Calls : Engaged(c, k) /\ Engaged(d, k) => c = d
  /\ (\A c \in Calls : ~Engaged(c, k)) => share[k] = Listed(cart[k])

CInv ==
  /\ CartTypeOK
  /\ \A c \in Calls : CallSound(c)
  /\ \A k \in Carts \ torn : CartSound(k)

-----------------------------------------------------------------------------
(* Types *)

\* The constants of the module have the types their names say.
LEMMA CartConstants ==
  /\ EmptyBasket \in Basket
  /\ \A p \in Products, n \in Nat : Only(p, n) \in Basket
  /\ NoCartRow \in CartRow
  /\ NewCartRow \in CartRow
  /\ NoCall \in CallState
<1>1. EmptyBasket \in Basket
  BY DEF EmptyBasket, Basket
<1>2. \A p \in Products, n \in Nat : Only(p, n) \in Basket
  BY DEF Only, Basket
<1>3. NoCartRow \in CartRow /\ NewCartRow \in CartRow
  BY <1>1 DEF NoCartRow, NewCartRow, CartRow, CartStatus
<1>4. NoCall \in CallState
  BY <1>3 DEF NoCall, CallState, Ops
<1> QED BY <1>1, <1>2, <1>3, <1>4

\* The fields of a typed call, a typed row, as facts of their own.
LEMMA CallFields ==
  ASSUME CartTypeOK, NEW c \in Calls
  PROVE  /\ call[c] \in CallState
         /\ call[c].mem \in CartRow
         /\ call[c].mem.items \in Basket
         /\ call[c].qty \in Nat
         /\ call[c].cart \in Carts \cup {NoCart}
         /\ call[c].todo \in SUBSET Carts
         /\ call[c].cols \in SUBSET {"status", "items", "released"}
         /\ call[c].op \in Ops \cup {"none"}
BY DEF CartTypeOK, CallState, CartRow

-----------------------------------------------------------------------------
(* What a step has to show *)

\* Carts the step does not touch keep their match.
LEMMA OtherCartSound ==
  ASSUME NEW c, NEW k \in Carts, CartSound(k),
         cart'[k] = cart[k], share'[k] = share[k],
         \A d \in Calls \ {c} : call'[d] = call[d],
         ~Holds(c, k), ~Holds(c, k)'
  PROVE  CartSound(k)'
<1>1. \A d \in Calls : /\ Holds(d, k)' <=> Holds(d, k)
                       /\ Engaged(d, k)' <=> Engaged(d, k)
                       /\ Holds(d, k) => call'[d] = call[d]
                       /\ Engaged(d, k) => Holds(d, k)
  BY DEF Holds, Engaged
<1>2. Settled(cart[k])'
  BY DEF CartSound, Settled
<1>3. \A d \in Calls : Engaged(d, k)' => EngagedSound(d, k)'
  BY <1>1 DEF CartSound, EngagedSound, Settled, Overlaid, Listed
<1>4. \A d \in Calls : (Holds(d, k) /\ ~Engaged(d, k))' => call'[d].mem = cart'[k]
  BY <1>1 DEF CartSound
<1>5. \A d, e \in Calls : (Engaged(d, k) /\ Engaged(e, k))' => d = e
  BY <1>1 DEF CartSound
<1>6. (\A d \in Calls : ~Engaged(d, k))' => share'[k] = Listed(cart[k])'
  BY <1>1 DEF CartSound, Listed
<1> QED BY <1>2, <1>3, <1>4, <1>5, <1>6 DEF CartSound

\* One call moves, and with it at most the cart it works on.
LEMMA CallMoves ==
  ASSUME CInv, NEW c \in Calls, NEW k \in Carts, NEW new \in CallState,
         call' = [call EXCEPT ![c] = new],
         CartTypeOK',
         torn \subseteq torn',
         \A j \in Carts \ {k} : cart'[j] = cart[j] /\ share'[j] = share[j],
         cart[k].status # "none" => cart'[k].status # "none",
         \A j \in Carts \ {k} : ~Holds(c, j),
         new.pc \in InHandPc <=> new.cart \in Carts,
         new.cart \in Carts => /\ new.cart = k
                               /\ cart'[k].status # "none"
                               /\ new.mem.status # "none",
         new.op = "add" => /\ new.pc = "engine" => new.mem.status = "active"
                           /\ new.pc # "read",
         new.op \in {"add", "update", "remove"} => new.product \in Products,
         k \notin torn' => CartSound(k)'
  PROVE  CInv'
<1>1. /\ call'[c] = new
      /\ \A d \in Calls \ {c} : call'[d] = call[d]
  BY DEF CInv, CartTypeOK
<1>2. ASSUME NEW d \in Calls PROVE CallSound(d)'
  <2>1. CASE d = c
    BY <1>1, <2>1 DEF CallSound
  <2>2. CASE d # c
    <3>1. call'[d] = call[d] /\ CallSound(d)
      BY <1>1, <2>2 DEF CInv
    <3>2. \A j \in Carts : cart[j].status # "none" => cart'[j].status # "none"
      OBVIOUS
    <3> QED BY <3>1, <3>2 DEF CallSound
  <2> QED BY <2>1, <2>2
<1>3. ASSUME NEW j \in Carts \ torn' PROVE CartSound(j)'
  <2>1. CASE j = k
    BY <1>3, <2>1
  <2>2. CASE j # k
    <3>1. CartSound(j) /\ ~Holds(c, j) /\ cart'[j] = cart[j] /\ share'[j] = share[j]
      BY <1>3, <2>2 DEF CInv
    <3>2. ~Holds(c, j)'
      BY <1>1, <2>2 DEF Holds, InHandPc
    <3> QED BY <3>1, <3>2, <1>1, OtherCartSound
  <2> QED BY <2>1, <2>2
<1> QED BY <1>2, <1>3 DEF CInv

\* A call moves that works on no cart afterwards or before, and touches none;
\* the counters may move for reasons of their own.
LEMMA CallAndStockMove ==
  ASSUME CInv, NEW c \in Calls, NEW new \in CallState,
         call' = [call EXCEPT ![c] = new],
         UNCHANGED <<cart, cartSweep, share, torn>>, EngineTypeOK',
         late' \subseteq Carts,
         new.pc \notin InHandPc, new.cart \notin Carts,
         call[c].pc \notin {"compare", "write"},
         new.op \in {"add", "update", "remove"} => new.product \in Products
  PROVE  CInv'
<1>1. /\ call'[c] = new
      /\ \A d \in Calls \ {c} : call'[d] = call[d]
  BY DEF CInv, CartTypeOK
<1>2. CartTypeOK'
  BY DEF CInv, CartTypeOK
<1>3. ASSUME NEW d \in Calls PROVE CallSound(d)'
  BY <1>1, <1>3 DEF CInv, CallSound, InHandPc
<1>4. ASSUME NEW k \in Carts \ torn' PROVE CartSound(k)'
  <2>1. CartSound(k)
    BY <1>4 DEF CInv
  <2>2. \A d \in Calls : Engaged(d, k)' <=> Engaged(d, k)
    BY <1>1 DEF Engaged, InHandPc
  <2>3. \A d \in Calls : Holds(d, k)' => Holds(d, k) /\ call'[d] = call[d]
    BY <1>1 DEF Holds, InHandPc
  <2>4. \A d \in Calls : Engaged(d, k) => Holds(d, k)'
    BY <1>1 DEF Engaged, Holds
  <2>5. \A d \in Calls : Engaged(d, k)' => EngagedSound(d, k)'
    BY <2>1, <2>2, <2>3, <2>4 DEF CartSound, EngagedSound, Settled, Overlaid, Listed
  <2>6. Settled(cart[k])' /\ Listed(cart[k])' = Listed(cart[k])
    BY <2>1 DEF CartSound, Settled, Listed
  <2> QED BY <2>1, <2>2, <2>3, <2>5, <2>6 DEF CartSound
<1> QED BY <1>2, <1>3, <1>4 DEF CInv

\* A call moves that works on no cart afterwards or before, and touches none.
LEMMA CallOnlyMoves ==
  ASSUME CInv, NEW c \in Calls, NEW new \in CallState,
         call' = [call EXCEPT ![c] = new],
         UNCHANGED <<stock, ledger, cart, cartSweep, share, torn>>,
         late' \subseteq Carts,
         new.pc \notin InHandPc, new.cart \notin Carts,
         call[c].pc \notin {"compare", "write"},
         new.op \in {"add", "update", "remove"} => new.product \in Products
  PROVE  CInv'
<1>1. EngineTypeOK'
  BY BooksUntouched DEF CInv, CartTypeOK, EngineTypeOK
<1> QED BY <1>1, CallAndStockMove

\* The step leaves calls alone, or what they know of carts, and expires k.
LEMMA ExpiredMoves ==
  ASSUME CInv, NEW k \in Carts, ReleaseExpiredCart(k),
         UNCHANGED <<ledger, late>>,
         cartSweep' \in [CartSweepers -> SUBSET Carts],
         call' \in [Calls -> CallState],
         \A d \in Calls : /\ call'[d].op = call[d].op /\ call'[d].pc = call[d].pc
                          /\ call'[d].product = call[d].product
                          /\ call'[d].cart = call[d].cart /\ call'[d].mem = call[d].mem
                          /\ call'[d].cols = call[d].cols
  PROVE  CInv'
<1>1. /\ CartTypeOK /\ cart[k] \in CartRow /\ cart[k].items \in Basket
      /\ stock \in [Products -> StockRow]
  BY DEF CInv, CartTypeOK, CartRow, EngineTypeOK
<1>2. \A d \in Calls, j \in Carts : (Holds(d, j)' <=> Holds(d, j)) /\ (Engaged(d, j)' <=> Engaged(d, j))
  BY DEF Holds, Engaged
<1>3. \A d \in Calls, j \in Carts : Engaged(d, j) => Holds(d, j)
  BY DEF Holds, Engaged
<1>4. CASE cart[k].status = "active" /\ ~cart[k].released
  <2> DEFINE row == [cart[k] EXCEPT !.status = "expired", !.released = TRUE]
             left == [p \in Products |-> share[k][p] - cart[k].items[p]]
  <2>1. /\ cart' = [cart EXCEPT ![k] = row]
        /\ stock' = Released(stock, cart[k].items)
        /\ Account(k, left, \E d \in Calls : Holds(d, k))
    BY <1>1, <1>4 DEF ReleaseExpiredCart, CartTypeOK
  <2>2. /\ row \in CartRow /\ row.status = "expired" /\ row.released
        /\ cart'[k] = row /\ \A j \in Carts \ {k} : cart'[j] = cart[j]
    BY <1>1, <2>1 DEF CartTypeOK, CartRow, CartStatus
  <2>3. left \in [Products -> Int]
    BY <1>1 DEF CartTypeOK, Basket
  <2>4. /\ torn' = IF \E d \in Calls : Holds(d, k) THEN torn \cup {k} ELSE torn
        /\ share'[k] = IF k \in torn' THEN EmptyBasket ELSE left
        /\ \A j \in Carts \ {k} : share'[j] = share[j]
        /\ share' \in [Carts -> [Products -> Int]]
    BY <1>1, <2>1, <2>3 DEF Account, CartTypeOK, EmptyBasket
  <2>5. /\ stock' \in [Products -> StockRow]
        /\ \A p \in Products : stock'[p].current = stock[p].current
        /\ \A p \in Products : stock'[p].reserved <= stock[p].reserved
    BY <1>1, <2>1, ReleaseKeeps DEF Released, Greatest0, StockRow, Basket
  <2> HIDE DEF row, left
  <2>6. CartTypeOK'
    <3>1. EngineTypeOK'
      BY <1>1, <2>5, BooksUntouched DEF CartTypeOK, EngineTypeOK
    <3>2. cart' \in [Carts -> CartRow]
      BY <1>1, <2>1, <2>2 DEF CartTypeOK
    <3> QED BY <1>1, <2>4, <3>1, <3>2 DEF CartTypeOK
  <2>7. ASSUME NEW d \in Calls PROVE CallSound(d)'
    BY <2>2, <2>7 DEF CInv, CallSound
  <2>8. ASSUME NEW j \in Carts \ torn' PROVE CartSound(j)'
    <3>1. j \notin torn /\ CartSound(j)
      BY <2>4, <2>8 DEF CInv
    <3>2. CASE j = k
      <4>1. \A d \in Calls : ~Holds(d, k) /\ ~Engaged(d, k)
        BY <1>3, <2>4, <2>8, <3>2
      <4>2. share[k] = cart[k].items
        BY <1>4, <3>1, <3>2, <4>1 DEF CartSound, Listed
      <4>3. left = EmptyBasket
        BY <1>1, <4>2 DEF left, EmptyBasket, Basket
      <4>4. share'[k] = EmptyBasket /\ Settled(row) /\ Listed(row) = EmptyBasket
        BY <2>2, <2>4, <4>3 DEF Settled, Listed
      <4>5. Settled(cart[k])' /\ share'[k] = Listed(cart[k])'
        BY <2>2, <4>4 DEF Settled, Listed
      <4> QED BY <1>2, <3>2, <4>1, <4>5 DEF CartSound
    <3>3. CASE j # k
      <4>1. cart'[j] = cart[j] /\ share'[j] = share[j]
        BY <2>2, <2>4, <3>3
      <4>2. \A d \in Calls : Engaged(d, j)' => EngagedSound(d, j)'
        BY <1>2, <3>1, <4>1 DEF CartSound, EngagedSound, Settled, Overlaid, Listed
      <4>3. Settled(cart[j])' /\ Listed(cart[j])' = Listed(cart[j])
        BY <3>1, <4>1 DEF CartSound, Settled, Listed
      <4> QED BY <1>2, <3>1, <4>1, <4>2, <4>3 DEF CartSound
    <3> QED BY <3>2, <3>3
  <2> QED BY <2>6, <2>7, <2>8 DEF CInv
<1>5. CASE ~(cart[k].status = "active" /\ ~cart[k].released)
  <2>1. UNCHANGED <<cart, stock, share, torn>>
    BY <1>5 DEF ReleaseExpiredCart
  <2>2. CartTypeOK'
    BY <2>1, BooksUntouched DEF CInv, CartTypeOK, EngineTypeOK
  <2>3. ASSUME NEW d \in Calls PROVE CallSound(d)'
    BY <2>1, <2>3 DEF CInv, CallSound
  <2>4. ASSUME NEW j \in Carts \ torn' PROVE CartSound(j)'
    <3>1. CartSound(j)
      BY <2>1, <2>4 DEF CInv
    <3>2. \A d \in Calls : Engaged(d, j)' => EngagedSound(d, j)'
      BY <1>2, <2>1, <3>1 DEF CartSound, EngagedSound, Settled, Overlaid, Listed
    <3>3. Settled(cart[j])' /\ Listed(cart[j])' = Listed(cart[j])
      BY <2>1, <3>1 DEF CartSound, Settled, Listed
    <3> QED BY <1>2, <2>1, <3>1, <3>2, <3>3 DEF CartSound
  <2> QED BY <2>2, <2>3, <2>4 DEF CInv
<1> QED BY <1>4, <1>5

\* A call changes the reservation of its cart and remembers the new row: what
\* it lists is what is now reserved, unless another call has done the same.
LEMMA EngineMoves ==
  ASSUME CInv, NEW c \in Calls, NEW row \in CartRow, NEW units, NEW isTorn,
         call[c].pc = "engine",
         Remember(c, row), row.status # "none",
         UNCHANGED <<ledger, cart, late, cartSweep>>,
         Account(call[c].cart, units, isTorn),
         isTorn \in BOOLEAN, units \in [Products -> Int],
         (\E d \in Calls \ {c} : Engaged(d, call[c].cart)) => isTorn,
         stock' \in [Products -> StockRow],
         ASSUME ~isTorn, Settled(call[c].mem),
                share[call[c].cart] = Listed(call[c].mem)
         PROVE  Settled(row) /\ units = Listed(row)
  PROVE  CInv'
<1>1. /\ call[c] \in CallState /\ CallSound(c) /\ CartTypeOK
      /\ call[c].cart \in Carts
  BY DEF CInv, CallSound, InHandPc, CartTypeOK
<1>0. PICK k \in Carts : k = call[c].cart
  BY <1>1
<1> DEFINE new == [call[c] EXCEPT !.mem = row, !.pc = "compare",
                     !.cols = IF row.status = "abandoned"
                                 /\ (call[c].op = "remove" \/ ~call[c].mem.released)
                              THEN {"released"} ELSE {}]
<1>2. call' = [call EXCEPT ![c] = new]
  BY <1>1 DEF Remember, CartTypeOK
<1>3. /\ new \in CallState
      /\ new.cart = k /\ new.pc = "compare" /\ new.mem = row
      /\ new.op = call[c].op /\ new.product = call[c].product
  BY <1>0, <1>1 DEF CallState
<1> HIDE DEF new
<1>4. /\ torn' = IF isTorn THEN torn \cup {k} ELSE torn
      /\ share'[k] = IF k \in torn' THEN EmptyBasket ELSE units
      /\ \A j \in Carts \ {k} : share'[j] = share[j]
      /\ share' \in [Carts -> [Products -> Int]]
  BY <1>0, <1>1 DEF Account, CartTypeOK, EmptyBasket
<1>5. CartTypeOK'
  <2>1. EngineTypeOK'
    BY <1>1, BooksUntouched DEF CartTypeOK, EngineTypeOK
  <2>2. call' \in [Calls -> CallState]
    BY <1>1, <1>2, <1>3 DEF CartTypeOK
  <2> QED BY <1>1, <1>4, <2>1, <2>2 DEF CartTypeOK
<1>6. /\ call'[c] = new
      /\ \A d \in Calls \ {c} : call'[d] = call[d]
  BY <1>1, <1>2 DEF CartTypeOK
<1>7. ASSUME k \notin torn' PROVE CartSound(k)'
  <2>1. ~isTorn /\ k \notin torn /\ CartSound(k)
    BY <1>4, <1>7 DEF CInv
  <2>2. \A d \in Calls : ~Engaged(d, k)
    BY <1>0, <2>1 DEF Engaged
  <2>3. call[c].mem = cart[k] /\ share[k] = Listed(call[c].mem) /\ Settled(call[c].mem)
    BY <1>0, <2>1, <2>2 DEF CartSound, Holds
  <2>4. Settled(row) /\ units = Listed(row)
    BY <1>0, <2>1, <2>3
  <2>5. share'[k] = Listed(row)
    BY <1>4, <1>7, <2>4
  <2>6. \A d \in Calls : Engaged(d, k)' <=> d = c
    BY <1>3, <1>6, <2>2 DEF Engaged
  <2>7. EngagedSound(c, k)'
    BY <1>3, <1>6, <2>4, <2>5 DEF EngagedSound, Settled, Listed
  <2>8. \A d \in Calls : (Holds(d, k) /\ ~Engaged(d, k))' => call'[d].mem = cart'[k]
    BY <1>6, <2>1, <2>2, <2>6 DEF CartSound, Holds
  <2>9. Settled(cart[k])'
    BY <2>1 DEF CartSound, Settled
  <2> QED BY <2>6, <2>7, <2>8, <2>9 DEF CartSound
<1>8. /\ \A j \in Carts \ {k} : ~Holds(c, j)
      /\ cart[k].status # "none"
  BY <1>0, <1>1 DEF Holds, CallSound
<1> QED BY <1>1, <1>2, <1>3, <1>4, <1>5, <1>7, <1>8, CallMoves DEF InHandPc, CallSound

-----------------------------------------------------------------------------
(* The steps of a call before it changes anything *)

\* An operation starts: it is given the list of old carts and no cart.
LEMMA BeginSound ==
  ASSUME CInv, NEW c \in Calls, NEW op \in Ops, NEW p \in Products \cup {NoProduct},
         NEW n \in Nat, Begin(c, op, p, n),
         op \in {"add", "update", "remove"} => p \in Products
  PROVE  CInv'
<1> DEFINE new == [NoCall EXCEPT !.op = op, !.product = p, !.qty = n, !.pc = "expire",
                                 !.todo = {k \in late \ Backlog : cart[k].status = "active"}]
<1>1. /\ call' = [call EXCEPT ![c] = new]
      /\ call[c].pc = "idle"
      /\ UNCHANGED <<stock, ledger, cart, late, cartSweep, share, torn>>
  BY DEF Begin
<1>2. late \subseteq Carts
  BY DEF CInv, CartTypeOK
<1>3. new = [NoCall EXCEPT !.op = op, !.product = p, !.qty = n, !.pc = "expire",
                           !.todo = new.todo] /\ new.todo \in SUBSET Carts
  BY <1>2 DEF NoCall
<1>4. /\ new \in CallState /\ new.pc = "expire" /\ new.cart = NoCart
      /\ new.op = op /\ new.product = p
  BY <1>2, <1>3, CartConstants DEF NoCall, CallState
<1> HIDE DEF new
<1> QED BY <1>1, <1>2, <1>4, CartAssumption, CallOnlyMoves DEF InHandPc

\* The call expires one of the customer's old carts.
LEMMA ExpireOldSound ==
  ASSUME CInv, NEW c \in Calls, NEW k \in Carts, ExpireOld(c, k)
  PROVE  CInv'
<1> DEFINE new == [call[c] EXCEPT !.todo = @ \ {k}]
<1>1. /\ call' = [call EXCEPT ![c] = new]
      /\ ReleaseExpiredCart(k)
      /\ UNCHANGED <<ledger, late, cartSweep>>
  BY DEF ExpireOld, CInv, CartTypeOK
<1>2. /\ call \in [Calls -> CallState]
      /\ cartSweep \in [CartSweepers -> SUBSET Carts]
  BY DEF CInv, CartTypeOK
<1>3. /\ new \in CallState
      /\ new.op = call[c].op /\ new.pc = call[c].pc /\ new.cart = call[c].cart
      /\ new.mem = call[c].mem /\ new.cols = call[c].cols /\ new.product = call[c].product
  BY <1>2 DEF CallState
<1> HIDE DEF new
<1>4. /\ call' \in [Calls -> CallState]
      /\ \A d \in Calls : call'[d] = IF d = c THEN new ELSE call[d]
  BY <1>1, <1>2, <1>3
<1> QED BY <1>1, <1>2, <1>3, <1>4, ExpiredMoves

\* getOrCreateCart hands over a cart; the copy is the row.
LEMMA GivenSound ==
  ASSUME CInv, NEW c \in Calls, call[c].pc \in {"expire", "create"},
         NEW k \in Carts, NEW row \in CartRow,
         Given(c, k, row), row.status = "active",
         cart' = [cart EXCEPT ![k] = row],
         cart[k].status = "none" \/ row = cart[k],
         cart[k].status = "none" => row = NewCartRow,
         UNCHANGED <<stock, ledger, late, cartSweep, share, torn>>
  PROVE  CInv'
<1> DEFINE new == [call[c] EXCEPT !.cart = k, !.mem = row,
                       !.pc = IF call[c].op = "add" THEN "engine" ELSE "read"]
<1>1. /\ CartTypeOK /\ call[c] \in CallState
      /\ call' = [call EXCEPT ![c] = new]
  BY DEF CInv, CartTypeOK, Given
<1>2. /\ new \in CallState
      /\ new.cart = k /\ new.mem = row /\ new.op = call[c].op
      /\ new.pc \in {"engine", "read"} /\ new.product = call[c].product
      /\ new.op = "add" => new.pc = "engine"
  BY <1>1 DEF CallState
<1> HIDE DEF new
<1>3. /\ cart' \in [Carts -> CartRow] /\ cart'[k] = row
      /\ \A j \in Carts \ {k} : cart'[j] = cart[j]
      /\ call'[c] = new
      /\ \A d \in Calls \ {c} : call'[d] = call[d]
      /\ call' \in [Calls -> CallState]
  BY <1>1, <1>2 DEF CartTypeOK
<1>4. CartTypeOK'
  BY <1>1, <1>3, BooksUntouched DEF CInv, CartTypeOK, EngineTypeOK
<1>5. ASSUME k \notin torn' PROVE CartSound(k)'
  <2>1. CartSound(k)
    BY <1>5 DEF CInv
  <2>2. \A d \in Calls : Engaged(d, k)' <=> d # c /\ Engaged(d, k)
    BY <1>2, <1>3 DEF Engaged
  <2>3. ~Engaged(c, k)
    BY DEF Engaged
  <2>4. CASE row = cart[k]
    <3>1. cart'[k] = cart[k]
      BY <1>3, <2>4
    <3>2. \A d \in Calls : Engaged(d, k)' => EngagedSound(d, k)'
      BY <1>3, <2>1, <2>2, <3>1 DEF CartSound, EngagedSound, Settled, Overlaid, Listed
    <3>3. \A d \in Calls : (Holds(d, k) /\ ~Engaged(d, k))' => call'[d].mem = cart'[k]
      BY <1>2, <1>3, <2>1, <2>2, <3>1 DEF CartSound, Holds
    <3>4. Settled(cart[k])' /\ Listed(cart[k])' = Listed(cart[k])
      BY <2>1, <3>1 DEF CartSound, Settled, Listed
    <3> QED BY <2>1, <2>2, <2>3, <3>2, <3>3, <3>4 DEF CartSound
  <2>5. CASE cart[k].status = "none"
    <3>1. cart[k] = NoCartRow /\ row = NewCartRow
      BY <2>1, <2>5 DEF CartSound, Settled
    <3>2. \A d \in Calls : ~Holds(d, k) /\ ~Engaged(d, k)
      BY <2>5 DEF CInv, CallSound, Holds, Engaged
    <3>3. share[k] = EmptyBasket
      BY <2>1, <3>1, <3>2 DEF CartSound, Listed, NoCartRow
    <3>4. Settled(row) /\ Listed(row) = EmptyBasket
      BY <3>1 DEF Settled, Listed, NewCartRow, NoCartRow
    <3>5. Settled(cart[k])' /\ share'[k] = Listed(cart[k])'
      BY <1>3, <3>3, <3>4 DEF Settled, Listed
    <3>6. \A d \in Calls : Holds(d, k)' => call'[d].mem = cart'[k]
      BY <1>2, <1>3, <3>2 DEF Holds
    <3> QED BY <2>2, <3>2, <3>5, <3>6 DEF CartSound
  <2> QED BY <2>4, <2>5
<1>6. CallSound(c) /\ \A j \in Carts \ {k} : ~Holds(c, j)
  BY DEF CInv, Holds
<1> QED BY <1>1, <1>2, <1>3, <1>4, <1>5, <1>6, CallMoves DEF InHandPc, CallSound

\* The newest active cart is handed to the call, if there is one.
LEMMA FindActiveCartSound ==
  ASSUME CInv, NEW c \in Calls, FindActiveCart(c)
  PROVE  CInv'
<1>1. /\ CartTypeOK /\ call[c] \in CallState /\ CallSound(c)
      /\ call[c].pc = "expire"
      /\ UNCHANGED <<stock, ledger, cart, late, cartSweep, share, torn>>
  BY DEF FindActiveCart, CInv, CartTypeOK
<1>2. CASE ActiveCarts = {}
  <2> DEFINE new == [call[c] EXCEPT !.pc = "create"]
  <2>1. /\ call' = [call EXCEPT ![c] = new]
        /\ new \in CallState /\ new.pc = "create" /\ new.cart = call[c].cart
        /\ new.op = call[c].op /\ new.product = call[c].product
    BY <1>1, <1>2 DEF FindActiveCart, CallState, CartTypeOK
  <2> QED
    BY <1>1, <2>1, CallOnlyMoves DEF InHandPc, CartTypeOK, CallSound
<1>3. CASE ActiveCarts # {}
  <2>1. PICK k \in ActiveCarts : Given(c, k, cart[k])
    BY <1>3 DEF FindActiveCart
  <2>2. k \in Carts /\ cart[k].status = "active" /\ cart[k] \in CartRow
    BY <1>1 DEF ActiveCarts, CartTypeOK
  <2>3. cart' = [cart EXCEPT ![k] = cart[k]]
    BY <1>1, <2>2 DEF CartTypeOK
  <2> QED BY <1>1, <2>1, <2>2, <2>3, GivenSound
<1> QED BY <1>2, <1>3

\* A new cart lists nothing, and nothing is reserved for it.
LEMMA CreateCartSound ==
  ASSUME CInv, NEW c \in Calls, NEW k \in Carts, CreateCart(c, k)
  PROVE  CInv'
<1>1. /\ Given(c, k, NewCartRow) /\ call[c].pc \in {"expire", "create"}
      /\ cart' = [cart EXCEPT ![k] = NewCartRow]
      /\ cart[k].status = "none"
      /\ UNCHANGED <<stock, ledger, late, cartSweep, share, torn>>
  BY DEF CreateCart
<1>2. NewCartRow \in CartRow /\ NewCartRow.status = "active"
  BY CartConstants DEF NewCartRow, NoCartRow
<1> QED BY <1>1, <1>2, GivenSound

\* The copy of a by-id operation is the row as it is.
LEMMA ReadCartSound ==
  ASSUME CInv, NEW c \in Calls, ReadCart(c)
  PROVE  CInv'
<1>1. /\ CartTypeOK /\ call[c] \in CallState /\ CallSound(c)
      /\ call[c].pc = "read" /\ call[c].cart \in Carts
      /\ UNCHANGED <<stock, ledger, cart, late, cartSweep, share, torn>>
  BY DEF CInv, CallSound, InHandPc, CartTypeOK, ReadCart
<1>2. PICK k \in Carts : k = call[c].cart
  BY <1>1
<1>3. PICK row \in CartRow : row = cart[k]
  BY <1>1 DEF CartTypeOK
<1> DEFINE new == [call[c] EXCEPT !.pc = "engine", !.mem = row]
<1>4. call' = [call EXCEPT ![c] = new]
  BY <1>1, <1>2, <1>3 DEF ReadCart, CartTypeOK
<1>5. /\ new \in CallState
      /\ new.cart = k /\ new.mem = row /\ new.op = call[c].op /\ new.pc = "engine"
      /\ new.product = call[c].product
  BY <1>1, <1>2 DEF CallState
<1> HIDE DEF new
<1>6. /\ call'[c] = new
      /\ \A d \in Calls \ {c} : call'[d] = call[d]
      /\ call' \in [Calls -> CallState]
  BY <1>1, <1>4, <1>5 DEF CartTypeOK
<1>7. CartTypeOK'
  BY <1>1, <1>6, BooksUntouched DEF CInv, CartTypeOK, EngineTypeOK
<1>8. ASSUME k \notin torn' PROVE CartSound(k)'
  <2>1. CartSound(k)
    BY <1>1, <1>8 DEF CInv
  <2>2. \A d \in Calls : (Engaged(d, k)' <=> Engaged(d, k)) /\ (Engaged(d, k) => d # c)
    BY <1>1, <1>5, <1>6 DEF Engaged
  <2>3. \A d \in Calls : Engaged(d, k)' => EngagedSound(d, k)'
    BY <1>1, <1>6, <2>1, <2>2 DEF CartSound, EngagedSound, Settled, Overlaid, Listed
  <2>4. \A d \in Calls : (Holds(d, k) /\ ~Engaged(d, k))' => call'[d].mem = cart'[k]
    BY <1>1, <1>3, <1>5, <1>6, <2>1, <2>2 DEF CartSound, Holds
  <2>5. Settled(cart[k])' /\ Listed(cart[k])' = Listed(cart[k])
    BY <1>1, <2>1 DEF CartSound, Settled, Listed
  <2> QED BY <1>1, <2>1, <2>2, <2>3, <2>4, <2>5 DEF CartSound
<1>9. /\ \A j \in Carts \ {k} : ~Holds(c, j)
      /\ cart[k].status # "none"
  BY <1>1, <1>2 DEF Holds, CallSound
<1> QED BY <1>1, <1>3, <1>4, <1>5, <1>7, <1>8, <1>9, CallMoves DEF InHandPc, CallSound

-----------------------------------------------------------------------------
(* The operations.  Each has to say what it reserves or releases, and that   *)
(* the row it remembers lists the difference.                                *)

\* reserve and release leave counters of the right form.
LEMMA ReserveTyped ==
  ASSUME CInv, NEW units \in Basket, CanReserve(units), stock' = Reserved(stock, units)
  PROVE  stock' \in [Products -> StockRow]
BY ReserveKeeps DEF CInv, CartTypeOK, EngineTypeOK

LEMMA ReleaseTyped ==
  ASSUME CInv, NEW units \in Basket, stock' = Released(stock, units)
  PROVE  stock' \in [Products -> StockRow]
BY ReleaseKeeps DEF CInv, CartTypeOK, EngineTypeOK

\* What a call at the engine knows.
LEMMA AtEngine ==
  ASSUME CInv, NEW c \in Calls, call[c].pc = "engine"
  PROVE  /\ call[c].cart \in Carts
         /\ call[c].mem \in CartRow /\ call[c].mem.items \in Basket
         /\ call[c].mem.status # "none"
         /\ call[c].mem.released \in BOOLEAN
         /\ call[c].qty \in Nat
         /\ share[call[c].cart] \in [Products -> Int]
         /\ stock \in [Products -> StockRow]
         /\ call[c].op = "add" => call[c].mem.status = "active"
<1>1. call[c] \in CallState /\ CallSound(c) /\ share \in [Carts -> [Products -> Int]]
  BY DEF CInv, CartTypeOK
<1>2. call[c].mem \in CartRow /\ call[c].qty \in Nat
  BY <1>1 DEF CallState
<1> QED BY <1>1, <1>2 DEF CallSound, InHandPc, CartRow, CInv, CartTypeOK, EngineTypeOK

\* A row whose quantity of one product changes.
LEMMA Requantified ==
  ASSUME NEW m \in CartRow, NEW p \in Products, NEW n \in Nat
  PROVE  /\ WithQuantity(m, p, n) \in CartRow
         /\ WithQuantity(m, p, n).status = m.status
         /\ WithQuantity(m, p, n).released = m.released
         /\ \A q \in Products :
              WithQuantity(m, p, n).items[q] = IF q = p THEN n ELSE m.items[q]
BY DEF WithQuantity, CartRow, Basket

\* addItem and updateItem: the quantity of one product and its reservation
\* change by the same number.
LEMMA QuantitySound ==
  ASSUME CInv, NEW c \in Calls, call[c].pc = "engine",
         NEW p \in Products, NEW n \in Nat,
         Remember(c, WithQuantity(call[c].mem, p, n)),
         UNCHANGED <<ledger, cart, late, cartSweep>>,
         stock' \in [Products -> StockRow],
         \E units \in [Products -> Int], isTorn \in BOOLEAN :
           /\ units[p] = share[call[c].cart][p] + (n - call[c].mem.items[p])
           /\ \A q \in Products \ {p} : units[q] = share[call[c].cart][q]
           /\ Account(call[c].cart, units, isTorn)
           /\ call[c].mem.status # "active" => isTorn
           /\ (\E d \in Calls \ {c} : Engaged(d, call[c].cart)) => isTorn
  PROVE  CInv'
<1>0. PICK units \in [Products -> Int], isTorn \in BOOLEAN :
           /\ units[p] = share[call[c].cart][p] + (n - call[c].mem.items[p])
           /\ \A q \in Products \ {p} : units[q] = share[call[c].cart][q]
           /\ Account(call[c].cart, units, isTorn)
           /\ call[c].mem.status # "active" => isTorn
           /\ (\E d \in Calls \ {c} : Engaged(d, call[c].cart)) => isTorn
  OBVIOUS
<1>1. PICK m \in CartRow : m = call[c].mem
  BY AtEngine
<1>2. PICK row \in CartRow : row = WithQuantity(m, p, n)
  BY <1>1, Requantified
<1>3. /\ row.status = m.status /\ row.released = m.released /\ row.items \in Basket
      /\ \A q \in Products : row.items[q] = IF q = p THEN n ELSE m.items[q]
  BY <1>1, <1>2, Requantified DEF CartRow
<1>4. row.status # "none" /\ m.items \in Basket
  BY <1>1, <1>3, AtEngine
<1>5. Remember(c, row)
  BY <1>1, <1>2
<1>6. ASSUME ~isTorn, Settled(m), share[call[c].cart] = Listed(m)
      PROVE  Settled(row) /\ units = Listed(row)
  <2>1. m.status = "active" /\ ~m.released /\ share[call[c].cart] = m.items
    BY <1>0, <1>1, <1>6 DEF Settled, Listed
  <2>2. Listed(row) = row.items /\ Settled(row)
    BY <1>3, <2>1 DEF Listed, Settled
  <2>3. ASSUME NEW q \in Products PROVE units[q] = row.items[q]
    <3>1. m.items[q] \in Nat /\ m.items[p] \in Nat
      BY <1>4 DEF Basket
    <3>2. CASE q = p
      <4>1. units[p] = m.items[p] + (n - m.items[p])
        BY <1>0, <1>1, <2>1
      <4> QED BY <1>3, <3>1, <3>2, <4>1
    <3>3. CASE q # p
      BY <1>0, <1>3, <2>1, <3>3
    <3> QED BY <3>2, <3>3
  <2> QED BY <1>0, <1>3, <2>2, <2>3 DEF Basket
<1> QED BY <1>0, <1>1, <1>2, <1>4, <1>5, <1>6, EngineMoves

\* What Reserve and Release account for.
LEMMA Accounted ==
  ASSUME CInv, NEW c \in Calls, call[c].pc = "engine", NEW basket \in Basket
  PROVE  /\ [q \in Products |-> share[call[c].cart][q] + basket[q]] \in [Products -> Int]
         /\ [q \in Products |-> share[call[c].cart][q] - basket[q]] \in [Products -> Int]
BY AtEngine DEF Basket

\* Reserving or releasing units of one product, as the engine does it.
LEMMA ReserveOnly ==
  ASSUME CInv, NEW c \in Calls, call[c].pc = "engine",
         NEW p \in Products, NEW n \in Nat, Reserve(c, Only(p, n))
  PROVE  /\ stock' \in [Products -> StockRow]
         /\ \E units \in [Products -> Int], isTorn \in BOOLEAN :
              /\ units[p] = share[call[c].cart][p] + n
              /\ \A q \in Products \ {p} : units[q] = share[call[c].cart][q]
              /\ isTorn = (Misplaced(c) \/ \E d \in Calls \ {c} : Engaged(d, call[c].cart))
              /\ Account(call[c].cart, units, isTorn)
<1>1. PICK basket \in Basket : basket = Only(p, n)
  BY CartConstants
<1>2. PICK held \in [Products -> Int] : held = share[call[c].cart]
  BY AtEngine
<1> DEFINE sum == [q \in Products |-> held[q] + basket[q]]
<1>8. sum \in [Products -> Int]
  BY <1>1, <1>2 DEF Basket
<1>3. PICK units \in [Products -> Int] : units = sum
  BY <1>8
<1>4. PICK isTorn \in BOOLEAN :
        isTorn = (Misplaced(c) \/ \E d \in Calls \ {c} : Engaged(d, call[c].cart))
  OBVIOUS
<1>5. /\ CanReserve(basket) /\ stock' = Reserved(stock, basket)
      /\ Account(call[c].cart, units, isTorn)
  BY <1>1, <1>2, <1>3, <1>4 DEF Reserve
<1>6. stock' \in [Products -> StockRow]
  BY <1>1, <1>5, ReserveTyped
<1>7. /\ units[p] = held[p] + n
      /\ \A q \in Products \ {p} : units[q] = held[q]
  BY <1>1, <1>2, <1>3 DEF Only
<1> QED BY <1>2, <1>3, <1>4, <1>5, <1>6, <1>7

\* The same for a release.
LEMMA ReleaseOnly ==
  ASSUME CInv, NEW c \in Calls, call[c].pc = "engine",
         NEW p \in Products, NEW n \in Nat, Release(c, Only(p, n))
  PROVE  /\ stock' \in [Products -> StockRow]
         /\ \E units \in [Products -> Int], isTorn \in BOOLEAN :
              /\ units[p] = share[call[c].cart][p] - n
              /\ \A q \in Products \ {p} : units[q] = share[call[c].cart][q]
              /\ isTorn = (Misplaced(c) \/ \E d \in Calls \ {c} : Engaged(d, call[c].cart))
              /\ Account(call[c].cart, units, isTorn)
<1>1. PICK basket \in Basket : basket = Only(p, n)
  BY CartConstants
<1>2. PICK held \in [Products -> Int] : held = share[call[c].cart]
  BY AtEngine
<1> DEFINE sum == [q \in Products |-> held[q] - basket[q]]
<1>8. sum \in [Products -> Int]
  BY <1>1, <1>2 DEF Basket
<1>3. PICK units \in [Products -> Int] : units = sum
  BY <1>8
<1>4. PICK isTorn \in BOOLEAN :
        isTorn = (Misplaced(c) \/ \E d \in Calls \ {c} : Engaged(d, call[c].cart))
  OBVIOUS
<1>5. /\ stock' = Released(stock, basket)
      /\ Account(call[c].cart, units, isTorn)
  BY <1>1, <1>2, <1>3, <1>4 DEF Release
<1>6. stock' \in [Products -> StockRow]
  BY <1>1, <1>5, ReleaseTyped
<1>7. /\ units[p] = held[p] - n
      /\ \A q \in Products \ {p} : units[q] = held[q]
  BY <1>1, <1>2, <1>3 DEF Only
<1> QED BY <1>2, <1>3, <1>4, <1>5, <1>6, <1>7

\* addItem reserves what it adds to the copy.
LEMMA AddItemSound ==
  ASSUME CInv, NEW c \in Calls, AddItem(c), call[c].product \in Products
  PROVE  CInv'
<1>1. call[c].pc = "engine" /\ call[c].op = "add"
  BY DEF AddItem, At
<1>2. PICK p \in Products, n \in Nat, old \in Nat :
        p = call[c].product /\ n = call[c].qty /\ old = call[c].mem.items[p]
  BY <1>1, AtEngine DEF Basket
<1>3. PICK new \in Nat : new = old + n /\ n = new - old
  BY <1>2
<1>4. /\ Reserve(c, Only(p, n)) /\ Remember(c, WithQuantity(call[c].mem, p, new))
      /\ UNCHANGED <<ledger, cart, late, cartSweep>>
  BY <1>2, <1>3 DEF AddItem
<1>5. stock' \in [Products -> StockRow]
  BY <1>1, <1>2, <1>4, ReserveOnly
<1>6. PICK units \in [Products -> Int], isTorn \in BOOLEAN :
              /\ units[p] = share[call[c].cart][p] + n
              /\ \A q \in Products \ {p} : units[q] = share[call[c].cart][q]
              /\ isTorn = (Misplaced(c) \/ \E d \in Calls \ {c} : Engaged(d, call[c].cart))
              /\ Account(call[c].cart, units, isTorn)
  BY <1>1, <1>2, <1>4, ReserveOnly
<1>7. call[c].mem.status = "active"
  BY <1>1, AtEngine
<1>8. units[p] = share[call[c].cart][p] + (new - call[c].mem.items[p])
  BY <1>2, <1>3, <1>6
<1>9. \E u \in [Products -> Int], i \in BOOLEAN :
           /\ u[p] = share[call[c].cart][p] + (new - call[c].mem.items[p])
           /\ \A q \in Products \ {p} : u[q] = share[call[c].cart][q]
           /\ Account(call[c].cart, u, i)
           /\ call[c].mem.status # "active" => i
           /\ (\E d \in Calls \ {c} : Engaged(d, call[c].cart)) => i
  BY <1>6, <1>7, <1>8
<1>10. p \in Products /\ new \in Nat /\ call[c].pc = "engine"
  BY <1>1, <1>2, <1>3
<1> QED BY <1>4, <1>5, <1>9, <1>10, QuantitySound

\* updateItem reserves or releases the difference.
LEMMA UpdateItemSound ==
  ASSUME CInv, NEW c \in Calls, UpdateItem(c), call[c].product \in Products
  PROVE  CInv'
<1>1. call[c].pc = "engine" /\ call[c].op = "update"
  BY DEF UpdateItem, At
<1>2. PICK p \in Products, n \in Nat, old \in Nat :
        p = call[c].product /\ n = call[c].qty /\ old = call[c].mem.items[p]
  BY <1>1, AtEngine DEF Basket
<1>3. /\ IF n >= old THEN Reserve(c, Only(p, n - old)) ELSE Release(c, Only(p, old - n))
      /\ Remember(c, WithQuantity(call[c].mem, p, n))
      /\ UNCHANGED <<ledger, cart, late, cartSweep>>
  BY <1>2 DEF UpdateItem
<1>4. PICK held \in [Products -> Int] : held = share[call[c].cart]
  BY <1>1, AtEngine
<1>5. CASE n >= old
  <2>1. PICK more \in Nat : more = n - old
    BY <1>2, <1>5
  <2>2. Reserve(c, Only(p, more))
    BY <1>3, <1>5, <2>1
  <2>3. stock' \in [Products -> StockRow]
    BY <1>1, <1>2, <2>1, <2>2, ReserveOnly
  <2>4. PICK units \in [Products -> Int], isTorn \in BOOLEAN :
              /\ units[p] = share[call[c].cart][p] + more
              /\ \A q \in Products \ {p} : units[q] = share[call[c].cart][q]
              /\ isTorn = (Misplaced(c) \/ \E d \in Calls \ {c} : Engaged(d, call[c].cart))
              /\ Account(call[c].cart, units, isTorn)
    BY <1>1, <1>2, <2>1, <2>2, ReserveOnly
  <2>5. call[c].mem.status # "active" => isTorn
    BY <1>1, <2>4 DEF Misplaced
  <2>6. units[p] = share[call[c].cart][p] + (n - call[c].mem.items[p])
    BY <1>2, <2>1, <2>4
  <2>7. \E u \in [Products -> Int], i \in BOOLEAN :
           /\ u[p] = share[call[c].cart][p] + (n - call[c].mem.items[p])
           /\ \A q \in Products \ {p} : u[q] = share[call[c].cart][q]
           /\ Account(call[c].cart, u, i)
           /\ call[c].mem.status # "active" => i
           /\ (\E d \in Calls \ {c} : Engaged(d, call[c].cart)) => i
    BY <2>4, <2>5, <2>6
  <2> QED BY <1>1, <1>2, <1>3, <2>3, <2>7, QuantitySound
<1>6. CASE n < old
  <2>1. PICK less \in Nat : less = old - n
    BY <1>2, <1>6
  <2>2. Release(c, Only(p, less))
    BY <1>2, <1>3, <1>6, <2>1
  <2>3. stock' \in [Products -> StockRow]
    BY <1>1, <1>2, <2>1, <2>2, ReleaseOnly
  <2>4. PICK units \in [Products -> Int], isTorn \in BOOLEAN :
              /\ units[p] = share[call[c].cart][p] - less
              /\ \A q \in Products \ {p} : units[q] = share[call[c].cart][q]
              /\ isTorn = (Misplaced(c) \/ \E d \in Calls \ {c} : Engaged(d, call[c].cart))
              /\ Account(call[c].cart, units, isTorn)
    BY <1>1, <1>2, <2>1, <2>2, ReleaseOnly
  <2>5. call[c].mem.status # "active" => isTorn
    BY <1>1, <2>4 DEF Misplaced
  <2>6. held[p] - less = held[p] + (n - old)
    BY <1>2, <1>4, <2>1
  <2>7. units[p] = share[call[c].cart][p] + (n - call[c].mem.items[p])
    BY <1>2, <1>4, <2>4, <2>6
  <2>8. \E u \in [Products -> Int], i \in BOOLEAN :
           /\ u[p] = share[call[c].cart][p] + (n - call[c].mem.items[p])
           /\ \A q \in Products \ {p} : u[q] = share[call[c].cart][q]
           /\ Account(call[c].cart, u, i)
           /\ call[c].mem.status # "active" => i
           /\ (\E d \in Calls \ {c} : Engaged(d, call[c].cart)) => i
    BY <2>4, <2>5, <2>7
  <2> QED BY <1>1, <1>2, <1>3, <2>3, <2>8, QuantitySound
<1> QED BY <1>2, <1>5, <1>6

\* Abandoning a row, with what is left of its items.
LEMMA AbandonedRow ==
  ASSUME NEW m \in CartRow
  PROVE  /\ Abandoned(m) \in CartRow
         /\ Abandoned(m).status = "abandoned" /\ Abandoned(m).released
         /\ Abandoned(m).items = m.items
         /\ [Abandoned(m) EXCEPT !.items = EmptyBasket] \in CartRow
         /\ [Abandoned(m) EXCEPT !.items = EmptyBasket].status = "abandoned"
         /\ [Abandoned(m) EXCEPT !.items = EmptyBasket].released
BY CartConstants DEF Abandoned, CartRow, CartStatus

\* An item of a released or converted row is not given back.
LEMMA RemoveItemSound ==
  ASSUME CInv, NEW c \in Calls, RemoveItem(c), call[c].product \in Products
  PROVE  CInv'
<1>1. call[c].pc = "engine" /\ call[c].op = "remove"
  BY DEF RemoveItem, At
<1>2. PICK m \in CartRow : m = call[c].mem
  BY <1>1, AtEngine
<1>3. m.items \in Basket /\ m.status # "none" /\ m.status \in CartStatus \cup {"none"}
      /\ m.released \in BOOLEAN
  BY <1>1, <1>2, AtEngine DEF CartRow
<1>4. PICK p \in Products, n \in Nat :
        p = call[c].product /\ n = IF m.status = "active" THEN m.items[p] ELSE 0
  BY <1>3 DEF Basket
<1>5. PICK rest \in CartRow :
        /\ rest = WithQuantity(m, p, 0)
        /\ rest.status = m.status /\ rest.released = m.released
        /\ \A q \in Products : rest.items[q] = IF q = p THEN 0 ELSE m.items[q]
  BY <1>4, <1>2, Requantified
<1>6. PICK row \in CartRow : row = IF Listing(rest.items) = {} THEN Abandoned(rest) ELSE rest
  BY <1>5, AbandonedRow
<1>7. /\ Release(c, Only(p, n)) /\ Remember(c, row)
      /\ UNCHANGED <<ledger, cart, late, cartSweep>>
  BY <1>2, <1>4, <1>5, <1>6 DEF RemoveItem
<1>8. stock' \in [Products -> StockRow]
  BY <1>1, <1>4, <1>7, ReleaseOnly
<1>9. PICK units \in [Products -> Int], isTorn \in BOOLEAN :
              /\ units[p] = share[call[c].cart][p] - n
              /\ \A q \in Products \ {p} : units[q] = share[call[c].cart][q]
              /\ isTorn = (Misplaced(c) \/ \E d \in Calls \ {c} : Engaged(d, call[c].cart))
              /\ Account(call[c].cart, units, isTorn)
  BY <1>1, <1>4, <1>7, ReleaseOnly
<1>10. row.status # "none"
  BY <1>3, <1>5, <1>6, AbandonedRow
<1>11. ASSUME ~isTorn, Settled(m), share[call[c].cart] = Listed(m)
       PROVE  Settled(row) /\ units = Listed(row)
  <2>1. m.status \in {"active", "abandoned", "expired"}
    BY <1>1, <1>2, <1>3, <1>9, <1>11 DEF Misplaced, CartStatus
  <2>2. rest.items \in Basket
    BY <1>5 DEF CartRow
  <2>3. units = Listed(rest)
    <3>1. CASE m.status = "active"
      <4>1. ~m.released /\ share[call[c].cart] = m.items /\ ~rest.released
        BY <1>5, <1>11, <3>1 DEF Settled, Listed
      <4>2. n = m.items[p] /\ m.items[p] \in Nat
        BY <1>3, <1>4, <3>1 DEF Basket
      <4>3. units[p] = 0 /\ \A q \in Products \ {p} : units[q] = m.items[q]
        BY <1>9, <4>1, <4>2
      <4>4. \A q \in Products : units[q] = rest.items[q]
        BY <1>5, <4>3
      <4>5. Listed(rest) = rest.items
        BY <4>1 DEF Listed
      <4> QED BY <1>9, <2>2, <4>4, <4>5 DEF Basket
    <3>2. CASE m.status # "active"
      <4>1. m.released /\ share[call[c].cart] = EmptyBasket /\ rest.released
        BY <1>5, <1>11, <2>1, <3>2 DEF Settled, Listed
      <4>2. n = 0
        BY <1>4, <3>2
      <4>5. \A q \in Products : share[call[c].cart][q] = 0
        BY <4>1 DEF EmptyBasket
      <4>6. units[p] = 0 - 0
        BY <1>4, <1>9, <4>2, <4>5
      <4>3. ASSUME NEW q \in Products PROVE units[q] = 0
        <5>1. CASE q = p
          BY <4>6, <5>1
        <5>2. CASE q # p
          BY <1>9, <4>5, <5>2
        <5> QED BY <5>1, <5>2
      <4>4. units = EmptyBasket
        BY <1>9, <4>3 DEF EmptyBasket
      <4> QED BY <4>1, <4>4 DEF Listed
    <3> QED BY <3>1, <3>2
  <2>4. Settled(rest)
    BY <1>5, <1>11, <2>1 DEF Settled
  <2>5. CASE Listing(rest.items) = {}
    <3>1. row = Abandoned(rest) /\ row.status = "abandoned" /\ row.released
      BY <1>5, <1>6, <2>5, AbandonedRow
    <3>2. \A q \in Products : rest.items[q] = 0
      BY <2>2, <2>5 DEF Listing, Basket
    <3>3. rest.items = EmptyBasket
      BY <2>2, <3>2 DEF EmptyBasket, Basket
    <3>4. Listed(rest) = EmptyBasket
      BY <3>3 DEF Listed
    <3> QED BY <2>3, <3>1, <3>4 DEF Listed, Settled
  <2>6. CASE Listing(rest.items) # {}
    BY <1>6, <2>3, <2>4, <2>6
  <2> QED BY <2>5, <2>6
<1> QED BY <1>1, <1>2, <1>6, <1>7, <1>8, <1>9, <1>10, <1>11, EngineMoves

\* What is listed is given back, and an emptied row lists nothing.
LEMMA ClearCartSound ==
  ASSUME CInv, NEW c \in Calls, ClearCart(c)
  PROVE  CInv'
<1>1. call[c].pc = "engine" /\ call[c].op = "clear"
  BY DEF ClearCart, At
<1>2. PICK m \in CartRow : m = call[c].mem
  BY <1>1, AtEngine
<1>3. m.items \in Basket /\ m.status # "none" /\ m.status \in CartStatus \cup {"none"}
      /\ m.released \in BOOLEAN
  BY <1>1, <1>2, AtEngine DEF CartRow
<1>4. PICK basket \in Basket :
        basket = IF m.status = "active" /\ ~m.released THEN m.items ELSE EmptyBasket
  BY <1>3, CartConstants
<1>5. PICK row \in CartRow : row = [Abandoned(m) EXCEPT !.items = EmptyBasket]
  BY <1>2, AbandonedRow
<1>6. row.status = "abandoned" /\ row.released
  BY <1>2, <1>5, AbandonedRow
<1>7. /\ Release(c, basket) /\ Remember(c, row)
      /\ UNCHANGED <<ledger, cart, late, cartSweep>>
  BY <1>2, <1>4, <1>5 DEF ClearCart
<1>8. PICK held \in [Products -> Int] : held = share[call[c].cart]
  BY <1>1, AtEngine
<1> DEFINE rest == [q \in Products |-> held[q] - basket[q]]
<1>9. rest \in [Products -> Int]
  BY <1>4, <1>8 DEF Basket
<1>10. PICK units \in [Products -> Int] : units = rest
  BY <1>9
<1>11. PICK isTorn \in BOOLEAN :
        isTorn = (Misplaced(c) \/ \E d \in Calls \ {c} : Engaged(d, call[c].cart))
  OBVIOUS
<1>12. Account(call[c].cart, units, isTorn) /\ stock' = Released(stock, basket)
  BY <1>7, <1>8, <1>10, <1>11 DEF Release
<1>13. stock' \in [Products -> StockRow]
  BY <1>4, <1>12, ReleaseTyped
<1>14. ASSUME ~isTorn, Settled(m), share[call[c].cart] = Listed(m)
       PROVE  Settled(row) /\ units = Listed(row)
  <2>1. m.status \in {"active", "abandoned", "expired"}
    BY <1>1, <1>2, <1>3, <1>11, <1>14 DEF Misplaced, CartStatus
  <2>2. Listed(m) = basket
    BY <1>4, <1>14, <2>1 DEF Settled, Listed
  <2>3. \A q \in Products : held[q] = basket[q] /\ basket[q] \in Nat
    BY <1>4, <1>8, <1>14, <2>2 DEF Basket
  <2>4. units = EmptyBasket
    BY <1>10, <2>3 DEF EmptyBasket
  <2> QED BY <1>6, <2>4 DEF Settled, Listed
<1>15. row.status # "none"
  BY <1>6
<1>16. (\E d \in Calls \ {c} : Engaged(d, call[c].cart)) => isTorn
  BY <1>11
<1> QED BY <1>1, <1>2, <1>5, <1>7, <1>10, <1>11, <1>12, <1>13, <1>14, <1>15, <1>16, EngineMoves

\* A converted row lists what it listed.
LEMMA MarkAsConvertedSound ==
  ASSUME CInv, NEW c \in Calls, MarkAsConverted(c)
  PROVE  CInv'
<1>1. call[c].pc = "engine" /\ UNCHANGED <<stock, ledger, cart, late, cartSweep>>
  BY DEF MarkAsConverted, At
<1>2. PICK m \in CartRow : m = call[c].mem
  BY <1>1, AtEngine
<1>3. PICK row \in CartRow : row = [m EXCEPT !.status = "converted"]
  BY <1>2 DEF CartRow, CartStatus
<1>4. /\ row.status = "converted" /\ row.items = m.items /\ row.released = m.released
  BY <1>2, <1>3 DEF CartRow
<1>5. PICK units \in [Products -> Int] : units = share[call[c].cart]
  BY <1>1, AtEngine
<1>6. PICK isTorn \in BOOLEAN :
        isTorn = \E d \in Calls \ {c} : Engaged(d, call[c].cart)
  OBVIOUS
<1>7. Account(call[c].cart, units, isTorn) /\ Remember(c, row)
  BY <1>2, <1>3, <1>5, <1>6 DEF MarkAsConverted
<1>8. stock' \in [Products -> StockRow]
  BY <1>1, AtEngine DEF CInv
<1>9. ASSUME ~isTorn, Settled(m), share[call[c].cart] = Listed(m)
      PROVE  Settled(row) /\ units = Listed(row)
  BY <1>4, <1>5, <1>9 DEF Settled, Listed
<1>10. row.status # "none" /\ ((\E d \in Calls \ {c} : Engaged(d, call[c].cart)) => isTorn)
  BY <1>4, <1>6
<1> QED BY <1>1, <1>2, <1>3, <1>5, <1>6, <1>7, <1>8, <1>9, <1>10, EngineMoves

-----------------------------------------------------------------------------
(* The save, and the end of a call *)

\* The columns the save will write make the row the copy.
LEMMA SaveComparesSound ==
  ASSUME CInv, NEW c \in Calls, SaveCompares(c)
  PROVE  CInv'
<1>1. /\ CartTypeOK /\ call[c] \in CallState /\ CallSound(c)
      /\ call[c].pc = "compare" /\ call[c].cart \in Carts
      /\ UNCHANGED <<stock, ledger, cart, late, cartSweep, share, torn>>
  BY DEF CInv, CallSound, InHandPc, CartTypeOK, SaveCompares
<1>2. PICK k \in Carts, m \in CartRow, row \in CartRow :
        k = call[c].cart /\ m = call[c].mem /\ row = cart[k]
  BY <1>1 DEF CartTypeOK, CallState
<1> DEFINE diff == {f \in {"status", "items", "released"} : m[f] # row[f]}
           new == [call[c] EXCEPT !.pc = "write", !.cols = call[c].cols \cup diff]
<1>3. call' = [call EXCEPT ![c] = new]
  BY <1>1, <1>2 DEF SaveCompares, CartTypeOK
<1>4. /\ new \in CallState
      /\ new.cart = k /\ new.mem = m /\ new.op = call[c].op /\ new.pc = "write"
      /\ new.product = call[c].product /\ new.cols = call[c].cols \cup diff
  <2>1. diff \subseteq {"status", "items", "released"}
    OBVIOUS
  <2> HIDE DEF diff
  <2> QED BY <1>1, <1>2, <2>1 DEF CallState
<1> HIDE DEF new
<1>5. Overlaid(row, m, new.cols) = m
  <2>1. /\ m.status # row.status => "status" \in new.cols
        /\ m.items # row.items => "items" \in new.cols
        /\ m.released # row.released => "released" \in new.cols
    BY <1>4
  <2>2. Overlaid(row, m, new.cols) =
          [status |-> m.status, items |-> m.items, released |-> m.released]
    BY <2>1 DEF Overlaid
  <2> QED BY <1>2, <2>2 DEF CartRow
<1>6. /\ call'[c] = new
      /\ \A d \in Calls \ {c} : call'[d] = call[d]
      /\ call' \in [Calls -> CallState]
  BY <1>1, <1>3, <1>4 DEF CartTypeOK
<1>7. CartTypeOK'
  BY <1>1, <1>6, BooksUntouched DEF CInv, CartTypeOK, EngineTypeOK
<1>8. ASSUME k \notin torn' PROVE CartSound(k)'
  <2>1. CartSound(k) /\ Engaged(c, k)
    BY <1>1, <1>2, <1>8 DEF CInv, Engaged
  <2>2. \A d \in Calls : (Engaged(d, k)' <=> Engaged(d, k))
    BY <1>1, <1>2, <1>4, <1>6 DEF Engaged
  <2>3. EngagedSound(c, k)'
    <3>1. Settled(m) /\ share[k] = Listed(m)
      BY <1>2, <2>1 DEF CartSound, EngagedSound
    <3>2. call'[c].mem = m /\ call'[c].cols = new.cols /\ cart'[k] = row /\ share'[k] = share[k]
      BY <1>1, <1>2, <1>4, <1>6
    <3>3. Overlaid(cart'[k], call'[c].mem, call'[c].cols) = m
      BY <1>5, <3>2
    <3> QED BY <3>1, <3>2, <3>3 DEF EngagedSound, Settled, Listed, Overlaid
  <2>4. \A d \in Calls : Engaged(d, k) => d = c
    BY <2>1 DEF CartSound
  <2>5. \A d \in Calls : (Holds(d, k) /\ ~Engaged(d, k))' => call'[d].mem = cart'[k]
    BY <1>1, <1>6, <2>1, <2>2 DEF CartSound, Holds
  <2>6. Settled(cart[k])'
    BY <1>1, <2>1 DEF CartSound, Settled
  <2> QED BY <2>1, <2>2, <2>3, <2>4, <2>5, <2>6 DEF CartSound
<1>9. /\ \A j \in Carts \ {k} : ~Holds(c, j)
      /\ cart[k].status # "none"
  BY <1>1, <1>2 DEF Holds, CallSound
<1>10. m.status # "none"
  BY <1>1, <1>2 DEF CallSound
<1> QED
  BY <1>1, <1>2, <1>3, <1>4, <1>7, <1>8, <1>9, <1>10, CallMoves DEF InHandPc, CallSound

\* What the save writes over the row is the copy, if the row is as it was.
LEMMA SaveWritesSound ==
  ASSUME CInv, NEW c \in Calls, SaveWrites(c)
  PROVE  CInv'
<1>1. /\ CartTypeOK /\ call[c] \in CallState /\ CallSound(c)
      /\ call[c].pc = "write" /\ call[c].cart \in Carts
      /\ UNCHANGED <<stock, ledger, cartSweep>>
  BY DEF CInv, CallSound, InHandPc, CartTypeOK, SaveWrites
<1>2. PICK k \in Carts, m \in CartRow : k = call[c].cart /\ m = call[c].mem
  BY <1>1 DEF CallState
<1>3. PICK cols \in SUBSET {"status", "items", "released"} : cols = call[c].cols
  BY <1>1 DEF CallState
<1>4. /\ cart[k] \in CartRow /\ m.status # "none" /\ cart[k].status # "none"
  BY <1>1, <1>2 DEF CartTypeOK, CallSound
<1>5. PICK row \in CartRow : row = Overlaid(cart[k], m, cols)
  BY <1>2, <1>4 DEF Overlaid, CartRow
<1>6. row.status # "none"
  BY <1>4, <1>5 DEF Overlaid
<1>7. /\ cart' = [cart EXCEPT ![k] = row]
      /\ call' = [call EXCEPT ![c] = NoCall]
      /\ Account(k, share[k], HeldByOther(c, k))
      /\ late' \subseteq Carts
  BY <1>1, <1>2, <1>3, <1>5 DEF SaveWrites, CartTypeOK
<1>8. /\ cart' \in [Carts -> CartRow] /\ cart'[k] = row
      /\ \A j \in Carts \ {k} : cart'[j] = cart[j]
      /\ call'[c] = NoCall
      /\ \A d \in Calls \ {c} : call'[d] = call[d]
      /\ call' \in [Calls -> CallState]
  BY <1>1, <1>5, <1>7, CartConstants DEF CartTypeOK
<1>9. /\ torn' = IF HeldByOther(c, k) THEN torn \cup {k} ELSE torn
      /\ share'[k] = IF k \in torn' THEN EmptyBasket ELSE share[k]
      /\ \A j \in Carts \ {k} : share'[j] = share[j]
      /\ share' \in [Carts -> [Products -> Int]]
  BY <1>1, <1>7 DEF Account, CartTypeOK, EmptyBasket
<1>10. CartTypeOK'
  <2>1. EngineTypeOK'
    BY <1>1, BooksUntouched DEF CInv, CartTypeOK, EngineTypeOK
  <2> QED BY <1>1, <1>7, <1>8, <1>9, <2>1 DEF CartTypeOK
<1>11. ASSUME k \notin torn' PROVE CartSound(k)'
  <2>1. k \notin torn /\ CartSound(k) /\ ~HeldByOther(c, k) /\ Engaged(c, k)
    BY <1>1, <1>2, <1>9, <1>11 DEF CInv, Engaged
  <2>2. row = m /\ Settled(m) /\ share[k] = Listed(m)
    BY <1>1, <1>2, <1>3, <1>5, <2>1 DEF CartSound, EngagedSound
  <2>3. \A d \in Calls : ~Holds(d, k)' /\ ~Engaged(d, k)'
    BY <1>8, <2>1 DEF HeldByOther, Holds, Engaged, NoCall
  <2>4. Settled(cart[k])' /\ share'[k] = Listed(cart[k])'
    BY <1>8, <1>9, <1>11, <2>2 DEF Settled, Listed
  <2> QED BY <2>3, <2>4 DEF CartSound
<1>12. /\ \A j \in Carts \ {k} : ~Holds(c, j)
       /\ torn \subseteq torn'
  BY <1>1, <1>2, <1>9 DEF Holds
<1>13. /\ NoCall \in CallState /\ NoCall.pc = "idle" /\ NoCall.cart = NoCart /\ NoCall.op = "none"
  BY CartConstants DEF NoCall
<1> QED
  BY <1>6, <1>7, <1>8, <1>9, <1>10, <1>11, <1>12, <1>13, CartAssumption, CallMoves DEF InHandPc

\* A call that dies after changing the reservation tears its cart; the counters
\* may move with it for reasons of their own.
LEMMA DropSound ==
  ASSUME CInv, NEW c \in Calls,
         call' = [call EXCEPT ![c] = NoCall],
         IF call[c].pc \in {"compare", "write"}
         THEN Account(call[c].cart, EmptyBasket, TRUE)
         ELSE UNCHANGED <<share, torn>>,
         UNCHANGED <<cart, late, cartSweep>>, EngineTypeOK'
  PROVE  CInv'
<1>1. CartTypeOK /\ CallSound(c) /\ call[c] \in CallState
  BY DEF CInv, CartTypeOK
<1>2. /\ NoCall \in CallState /\ NoCall.pc = "idle" /\ NoCall.cart = NoCart /\ NoCall.op = "none"
  BY CartConstants DEF NoCall
<1>3. CASE call[c].pc \notin {"compare", "write"}
  <2>1. UNCHANGED <<share, torn>> /\ late' \subseteq Carts
    BY <1>1, <1>3 DEF CartTypeOK
  <2> QED BY <1>1, <1>2, <1>3, <2>1, CartAssumption, CallAndStockMove DEF InHandPc
<1>4. CASE call[c].pc \in {"compare", "write"}
  <2>1. PICK k \in Carts : k = call[c].cart
    BY <1>1, <1>4 DEF CallSound, InHandPc
  <2>2. Account(k, EmptyBasket, TRUE)
    BY <1>4, <2>1
  <2>3. /\ torn' = torn \cup {k}
        /\ \A j \in Carts \ {k} : share'[j] = share[j]
        /\ share' \in [Carts -> [Products -> Int]]
    BY <1>1, <2>1, <2>2 DEF Account, CartTypeOK, EmptyBasket
  <2>4. call' \in [Calls -> CallState]
    BY <1>1, <1>2 DEF CartTypeOK
  <2>5. CartTypeOK'
    BY <1>1, <2>1, <2>3, <2>4 DEF CartTypeOK
  <2>6. /\ \A j \in Carts \ {k} : ~Holds(c, j)
        /\ k \in torn' /\ torn \subseteq torn'
    BY <1>1, <2>1, <2>3 DEF Holds
  <2> QED BY <1>1, <1>2, <2>1, <2>3, <2>5, <2>6, CartAssumption, CallMoves DEF InHandPc
<1> QED BY <1>3, <1>4

\* The operation throws, or its process dies.
LEMMA FailCallSound ==
  ASSUME CInv, NEW c \in Calls, FailCall(c)
  PROVE  CInv'
<1>1. EngineTypeOK'
  BY BooksUntouched DEF FailCall, CInv, CartTypeOK, EngineTypeOK
<1> QED BY <1>1, DropSound DEF FailCall

-----------------------------------------------------------------------------
(* Time and the sweeper *)

\* The sweeper's lists and the clock are no part of the match, nor are the
\* counters.
LEMMA AroundSound ==
  ASSUME CInv, UNCHANGED <<cart, call, share, torn>>, EngineTypeOK',
         late' \subseteq Carts, cartSweep' \in [CartSweepers -> SUBSET Carts]
  PROVE  CInv'
<1>1. CartTypeOK'
  BY DEF CInv, CartTypeOK
<1>2. ASSUME NEW d \in Calls PROVE CallSound(d)'
  BY <1>2 DEF CInv, CallSound
<1>3. ASSUME NEW j \in Carts \ torn' PROVE CartSound(j)'
  <2>1. CartSound(j)
    BY <1>3 DEF CInv
  <2> QED BY <2>1 DEF CartSound, EngagedSound, Holds, Engaged, Settled, Overlaid, Listed
<1> QED BY <1>1, <1>2, <1>3 DEF CInv

\* Where no counter moves either, their types are as before.
LEMMA OutsideSound ==
  ASSUME CInv, UNCHANGED <<stock, ledger, cart, call, share, torn>>,
         late' \subseteq Carts, cartSweep' \in [CartSweepers -> SUBSET Carts]
  PROVE  CInv'
<1>1. EngineTypeOK'
  BY BooksUntouched DEF CInv, CartTypeOK, EngineTypeOK
<1> QED BY <1>1, AroundSound

\* The sweeper expires a cart as a call does.
LEMMA SweepCartSound ==
  ASSUME CInv, NEW s \in CartSweepers, NEW k \in Carts, SweepCart(s, k)
  PROVE  CInv'
<1>1. /\ ReleaseExpiredCart(k)
      /\ UNCHANGED <<ledger, late, call>>
      /\ call \in [Calls -> CallState]
      /\ cartSweep' \in [CartSweepers -> SUBSET Carts]
  BY DEF SweepCart, CInv, CartTypeOK
<1> QED BY <1>1, ExpiredMoves

-----------------------------------------------------------------------------
(* The invariant is inductive *)

\* Nothing is reserved at first.
LEMMA CartInitSound == CartInit => CInv
<1> SUFFICES ASSUME CartInit PROVE CInv
  OBVIOUS
<1>1. EngineTypeOK
  BY CartAssumption, EngineStarts DEF CartInit
<1>2. CartTypeOK
  <2>1. EmptyBasket \in [Products -> Int]
    BY DEF EmptyBasket
  <2>2. cart \in [Carts -> CartRow] /\ late \subseteq Carts
    BY CartAssumption, CartConstants DEF CartInit
  <2> QED BY <1>1, <2>1, <2>2, CartConstants DEF CartInit, CartTypeOK
<1>3. ASSUME NEW c \in Calls PROVE CallSound(c)
  BY <1>3, CartAssumption DEF CartInit, CallSound, NoCall, InHandPc
<1>4. ASSUME NEW k \in Carts PROVE CartSound(k)
  <2>1. \A c \in Calls : ~Holds(c, k) /\ ~Engaged(c, k)
    BY DEF CartInit, NoCall, Holds, Engaged
  <2>2. cart[k] \in {NoCartRow, NewCartRow} /\ share[k] = EmptyBasket
    BY DEF CartInit
  <2>3. Settled(cart[k]) /\ share[k] = Listed(cart[k])
    <3>1. CASE cart[k] = NoCartRow
      BY <2>2, <3>1 DEF Settled, Listed, NoCartRow
    <3>2. CASE cart[k] = NewCartRow
      <4>1. /\ NewCartRow.status = "active" /\ ~NewCartRow.released
            /\ NewCartRow.items = EmptyBasket
        BY DEF NewCartRow, NoCartRow
      <4> QED BY <2>2, <3>2, <4>1 DEF Settled, Listed
    <3> QED BY <2>2, <3>1, <3>2
  <2> QED BY <2>1, <2>3 DEF CartSound
<1> QED BY <1>2, <1>3, <1>4 DEF CInv

\* Every operation may be asked for.
LEMMA BeginCallSound ==
  ASSUME CInv, NEW c \in Calls, BeginCall(c)
  PROVE  CInv'
<1>1. CASE \E op \in {"clear", "convert"} : Begin(c, op, NoProduct, 0)
  <2>1. PICK op \in {"clear", "convert"} : Begin(c, op, NoProduct, 0)
    BY <1>1
  <2>2. op \in Ops /\ op \notin {"add", "update", "remove"}
    BY DEF Ops
  <2> QED BY <2>1, <2>2, BeginSound
<1>2. CASE \E p \in Products : Begin(c, "remove", p, 0)
  <2>1. PICK p \in Products : Begin(c, "remove", p, 0)
    BY <1>2
  <2> QED BY <2>1, BeginSound DEF Ops
<1>3. CASE \E p \in Products, n \in Quantities \ {0} : Begin(c, "add", p, n)
  <2>1. PICK p \in Products, n \in Quantities \ {0} : Begin(c, "add", p, n)
    BY <1>3
  <2>2. n \in Nat
    BY <2>1, CartAssumption
  <2> QED BY <2>1, <2>2, BeginSound DEF Ops
<1>4. CASE \E p \in Products, n \in Quantities \cup {0} : Begin(c, "update", p, n)
  <2>1. PICK p \in Products, n \in Quantities \cup {0} : Begin(c, "update", p, n)
    BY <1>4
  <2>2. n \in Nat
    BY <2>1, CartAssumption
  <2> QED BY <2>1, <2>2, BeginSound DEF Ops
<1> QED BY <1>1, <1>2, <1>3, <1>4 DEF BeginCall

\* And every transaction of a call keeps the match.
LEMMA CallStepSound ==
  ASSUME CInv, NEW c \in Calls, CallStep(c)
  PROVE  CInv'
<1>1. CallSound(c)
  BY DEF CInv
<1>2. CASE \E k \in Carts : ExpireOld(c, k)
  BY <1>2, ExpireOldSound
<1>3. CASE FindActiveCart(c)
  BY <1>3, FindActiveCartSound
<1>4. CASE \E k \in Carts : CreateCart(c, k)
  BY <1>4, CreateCartSound
<1>5. CASE ReadCart(c)
  BY <1>5, ReadCartSound
<1>6. CASE AddItem(c)
  BY <1>1, <1>6, AddItemSound DEF AddItem, At, CallSound
<1>7. CASE UpdateItem(c)
  BY <1>1, <1>7, UpdateItemSound DEF UpdateItem, At, CallSound
<1>8. CASE RemoveItem(c)
  BY <1>1, <1>8, RemoveItemSound DEF RemoveItem, At, CallSound
<1>9. CASE ClearCart(c)
  BY <1>9, ClearCartSound
<1>10. CASE MarkAsConverted(c)
  BY <1>10, MarkAsConvertedSound
<1>11. CASE FailCall(c)
  BY <1>11, FailCallSound
<1>12. CASE SaveCompares(c)
  BY <1>12, SaveComparesSound
<1>13. CASE SaveWrites(c)
  BY <1>13, SaveWritesSound
<1> QED
  BY <1>2, <1>3, <1>4, <1>5, <1>6, <1>7, <1>8, <1>9, <1>10, <1>11, <1>12, <1>13
     DEF CallStep

\* A tick lists, releases, or logs and goes on.
LEMMA CartSweepStepSound ==
  ASSUME CInv, NEW s \in CartSweepers, CartSweepStep(s)
  PROVE  CInv'
<1>1. late \subseteq Carts /\ cartSweep \in [CartSweepers -> SUBSET Carts]
  BY DEF CInv, CartTypeOK
<1>2. CASE ListExpiredCarts(s)
  <2>1. PICK ids \in SUBSET OverdueCarts : cartSweep' = [cartSweep EXCEPT ![s] = ids]
    BY <1>2 DEF ListExpiredCarts
  <2>2. ids \subseteq Carts
    BY DEF OverdueCarts
  <2>3. cartSweep' \in [CartSweepers -> SUBSET Carts]
    BY <1>1, <2>1, <2>2
  <2> QED BY <1>1, <1>2, <2>3, OutsideSound DEF ListExpiredCarts
<1>3. CASE \E k \in Carts : SweepCart(s, k)
  BY <1>3, SweepCartSound
<1>4. CASE \E k \in Carts : SweepCartFails(s, k)
  <2>1. cartSweep' \in [CartSweepers -> SUBSET Carts]
    BY <1>1, <1>4 DEF SweepCartFails
  <2> QED BY <1>1, <1>4, <2>1, OutsideSound DEF SweepCartFails
<1> QED BY <1>2, <1>3, <1>4 DEF CartSweepStep

\* Every step preserves the invariant.
LEMMA CartNextSound == CInv /\ [CartNext]_cartVars => CInv'
<1> SUFFICES ASSUME CInv, [CartNext]_cartVars PROVE CInv'
  OBVIOUS
<1>1. late \subseteq Carts /\ cartSweep \in [CartSweepers -> SUBSET Carts]
  BY DEF CInv, CartTypeOK
<1>2. CASE \E c \in Calls : BeginCall(c)
  BY <1>2, BeginCallSound
<1>3. CASE \E c \in Calls : CallStep(c)
  BY <1>3, CallStepSound
<1>4. CASE \E k \in Carts : CartTtlPasses(k)
  <2>1. late' \subseteq Carts
    BY <1>1, <1>4 DEF CartTtlPasses
  <2> QED BY <1>1, <1>4, <2>1, OutsideSound DEF CartTtlPasses
<1>5. CASE \E s \in CartSweepers : CartSweepStep(s)
  BY <1>5, CartSweepStepSound
<1>6. CASE UNCHANGED cartVars
  BY <1>1, <1>6, OutsideSound DEF cartVars
<1> QED BY <1>2, <1>3, <1>4, <1>5, <1>6 DEF CartNext

\* What a cart lists, or the one call that has changed its reservation will
\* save, is what is reserved for it.
LEMMA SoundIsHeld == CInv => HeldAsListed
<1> SUFFICES ASSUME CInv, NEW k \in Carts \ torn PROVE share[k] = Promised(k)
  BY DEF HeldAsListed
<1>1. CartSound(k)
  BY DEF CInv
<1>2. CASE \E c \in Calls : Engaged(c, k)
  <2> DEFINE busy == CHOOSE c \in Calls : Engaged(c, k)
  <2>1. busy \in Calls /\ Engaged(busy, k)
    BY <1>2
  <2>2. share[k] = Listed(call[busy].mem)
    BY <1>1, <2>1 DEF CartSound, EngagedSound
  <2> QED BY <1>2, <2>2 DEF Promised
<1>3. CASE \A c \in Calls : ~Engaged(c, k)
  BY <1>1, <1>3 DEF CartSound, Promised
<1> QED BY <1>2, <1>3

-----------------------------------------------------------------------------
(* The shared counter.  As long as no cart is torn, every change of a        *)
(* reservation is a change of one cart's share by as much: a release never   *)
(* meets the GREATEST(0, ...) of the engine, because no share is larger than *)
(* the sum it is part of.                                                    *)

\* What is reserved is what the carts have a share of, and what others hold:
\* nobody here, the orders of the customer in Checkout.
ReservedBesides(others) ==
  torn = {} => \A p \in Products :
    stock[p].reserved = others[p] + Total([k \in Carts |-> share[k][p]], Carts)

SInv(others) == CInv /\ ReservedBesides(others)

\* A share that is followed is what some row or copy lists: never negative.
LEMMA ShareIsBasket ==
  ASSUME CInv, NEW k \in Carts \ torn
  PROVE  share[k] \in Basket
<1>1. CartSound(k) /\ CartTypeOK
  BY DEF CInv
<1>2. \A row \in CartRow : Listed(row) \in Basket
  BY CartConstants DEF Listed, CartRow
<1>3. CASE \E c \in Calls : Engaged(c, k)
  <2>1. PICK c \in Calls : Engaged(c, k)
    BY <1>3
  <2> QED BY <1>1, <1>2, <2>1, CallFields DEF CartSound, EngagedSound
<1>4. CASE \A c \in Calls : ~Engaged(c, k)
  BY <1>1, <1>2, <1>4 DEF CartSound, CartTypeOK
<1> QED BY <1>3, <1>4

\* One share is no more than all of them.
LEMMA ShareWithinCounter ==
  ASSUME NEW others \in Basket, SInv(others), torn = {}, NEW k \in Carts, NEW p \in Products
  PROVE  share[k][p] <= stock[p].reserved
<1>1. PICK f : f = [j \in Carts |-> share[j][p]]
  OBVIOUS
<1>2. \A j \in Carts : f[j] \in Int /\ f[j] >= 0
  BY <1>1, ShareIsBasket DEF SInv, Basket
<1>3. IsFiniteSet(Carts) /\ IsFiniteSet(Carts \ {k})
  BY CartAssumption, FS_Subset
<1>4. Total(f, Carts) = f[k] + Total(f, Carts \ {k})
  BY ONLY <1>2, <1>3, k \in Carts, TotalTakes
<1>5. Total(f, Carts \ {k}) \in Int /\ Total(f, Carts \ {k}) >= 0
  BY ONLY <1>2, <1>3, TotalType
<1>6. stock[p].reserved = others[p] + Total(f, Carts) /\ others[p] \in Nat
  BY <1>1 DEF SInv, ReservedBesides, Basket
<1> QED BY <1>1, <1>2, <1>4, <1>5, <1>6

\* One share and the counter change by the same number.
LEMMA ShareMoves ==
  ASSUME NEW others \in Basket, SInv(others), CInv', torn = {}, NEW k \in Carts,
         \A j \in Carts \ {k} : share'[j] = share[j],
         \A p \in Products :
           stock'[p].reserved = stock[p].reserved + (share'[k][p] - share[k][p])
  PROVE  ReservedBesides(others)'
<1> SUFFICES ASSUME NEW p \in Products
             PROVE  stock'[p].reserved
                      = others[p] + Total([j \in Carts |-> share'[j][p]], Carts)
  BY DEF ReservedBesides
<1>1. share \in [Carts -> [Products -> Int]] /\ share' \in [Carts -> [Products -> Int]]
  BY DEF SInv, CInv, CartTypeOK
<1>2. PICK f, g : f = [j \in Carts |-> share[j][p]] /\ g = [j \in Carts |-> share'[j][p]]
  OBVIOUS
<1>3. \A j \in Carts : f[j] \in Int /\ g[j] \in Int
  BY <1>1, <1>2
<1>4. \A j \in Carts \ {k} : g[j] = f[j]
  BY <1>2
<1>5. IsFiniteSet(Carts)
  BY CartAssumption
<1>6. Total(g, Carts) = Total(f, Carts) - f[k] + g[k]
  BY ONLY <1>3, <1>4, <1>5, k \in Carts, TotalChanges
<1>7. stock[p].reserved = others[p] + Total(f, Carts) /\ others[p] \in Nat
  BY <1>2 DEF SInv, ReservedBesides, Basket
<1>8. Total(f, Carts) \in Int
  BY ONLY <1>3, <1>5, TotalType
<1>9. stock'[p].reserved = stock[p].reserved + (g[k] - f[k])
  BY <1>2
<1> QED BY <1>2, <1>3, <1>6, <1>7, <1>8, <1>9

\* Where neither the books nor the shares change, nothing is to be shown.
LEMMA ShareStays ==
  ASSUME NEW others \in Basket, SInv(others), UNCHANGED <<stock, share, torn>>
  PROVE  ReservedBesides(others)'
BY DEF SInv, ReservedBesides

\* What an untorn cart's call at the engine has in hand is what is reserved.
LEMMA EngineHolds ==
  ASSUME CInv, NEW c \in Calls, call[c].pc = "engine", torn = {},
         \A d \in Calls \ {c} : ~Engaged(d, call[c].cart)
  PROVE  Settled(call[c].mem) /\ share[call[c].cart] = Listed(call[c].mem)
<1>1. PICK k \in Carts : k = call[c].cart
  BY AtEngine
<1>2. CartSound(k)
  BY DEF CInv
<1>3. \A d \in Calls : ~Engaged(d, k)
  BY <1>1 DEF Engaged
<1>4. call[c].mem = cart[k]
  BY <1>1, <1>2, <1>3 DEF CartSound, Holds
<1> QED BY <1>1, <1>2, <1>3, <1>4 DEF CartSound

\* A reservation adds to the counter what it adds to the share.
LEMMA ReserveCounts ==
  ASSUME NEW others \in Basket, SInv(others), CInv', NEW c \in Calls, call[c].pc = "engine",
         NEW units \in Basket, Reserve(c, units)
  PROVE  ReservedBesides(others)'
<1> SUFFICES ASSUME torn' = {} PROVE ReservedBesides(others)'
  BY DEF ReservedBesides
<1>1. PICK k \in Carts : k = call[c].cart
  BY AtEngine DEF SInv
<1>2. PICK sum : sum = [p \in Products |-> share[k][p] + units[p]]
  OBVIOUS
<1>3. /\ stock' = Reserved(stock, units)
      /\ Account(k, sum, Misplaced(c) \/ \E d \in Calls \ {c} : Engaged(d, k))
  BY <1>1, <1>2 DEF Reserve
<1>4. /\ torn = {} /\ share'[k] = sum
      /\ \A j \in Carts \ {k} : share'[j] = share[j]
  BY <1>3 DEF Account, SInv, CInv, CartTypeOK
<1>5. /\ stock \in [Products -> StockRow] /\ share[k] \in [Products -> Int]
  BY DEF SInv, CInv, CartTypeOK, EngineTypeOK
<1>6. ASSUME NEW p \in Products
      PROVE  stock'[p].reserved = stock[p].reserved + (share'[k][p] - share[k][p])
  <2>1. stock'[p].reserved = stock[p].reserved + units[p]
    BY <1>3, <1>5 DEF Reserved, StockRow
  <2>2. share'[k][p] = share[k][p] + units[p]
    BY <1>2, <1>4
  <2>3. stock[p].reserved \in Int /\ share[k][p] \in Int /\ units[p] \in Int
    BY <1>5 DEF StockRow, Basket
  <2> QED BY <2>1, <2>2, <2>3
<1> QED BY <1>4, <1>6, ShareMoves

\* A share gives back no more than it has, so neither does the counter.
LEMMA SharedRelease ==
  ASSUME NEW others \in Basket, SInv(others), CInv', torn = {}, NEW k \in Carts, NEW units \in Basket,
         stock' = Released(stock, units),
         share'[k] = [p \in Products |-> share[k][p] - units[p]],
         \A j \in Carts \ {k} : share'[j] = share[j],
         \A p \in Products : units[p] <= share[k][p]
  PROVE  ReservedBesides(others)'
<1>1. stock \in [Products -> StockRow] /\ share[k] \in [Products -> Int]
  BY DEF SInv, CInv, CartTypeOK, EngineTypeOK
<1>2. ASSUME NEW p \in Products
      PROVE  stock'[p].reserved = stock[p].reserved + (share'[k][p] - share[k][p])
  <2>1. stock'[p].reserved = Greatest0(stock[p].reserved - units[p])
    BY <1>1 DEF Released, StockRow
  <2>2. share'[k][p] = share[k][p] - units[p]
    OBVIOUS
  <2>3. stock[p].reserved \in Int /\ share[k][p] \in Int /\ units[p] \in Int
    BY <1>1 DEF StockRow, Basket
  <2>4. units[p] <= share[k][p] /\ share[k][p] <= stock[p].reserved
    BY ShareWithinCounter
  <2> QED BY <2>1, <2>2, <2>3, <2>4 DEF Greatest0
<1> QED BY <1>2, ShareMoves

\* The release of a call: what it gives back, its copy listed.
LEMMA ReleaseCounts ==
  ASSUME NEW others \in Basket, SInv(others), CInv', NEW c \in Calls, call[c].pc = "engine",
         NEW units \in Basket, Release(c, units),
         ASSUME ~Misplaced(c), Settled(call[c].mem),
                share[call[c].cart] = Listed(call[c].mem)
         PROVE  \A p \in Products : units[p] <= Listed(call[c].mem)[p]
  PROVE  ReservedBesides(others)'
<1> SUFFICES ASSUME torn' = {} PROVE ReservedBesides(others)'
  BY DEF ReservedBesides
<1>1. PICK k \in Carts : k = call[c].cart
  BY AtEngine DEF SInv
<1>2. PICK rest : rest = [p \in Products |-> share[k][p] - units[p]]
  OBVIOUS
<1>3. /\ stock' = Released(stock, units)
      /\ Account(k, rest, Misplaced(c) \/ \E d \in Calls \ {c} : Engaged(d, k))
  BY <1>1, <1>2 DEF Release
<1>4. /\ torn = {} /\ share'[k] = rest
      /\ \A j \in Carts \ {k} : share'[j] = share[j]
      /\ ~Misplaced(c)
      /\ \A d \in Calls \ {c} : ~Engaged(d, k)
  BY <1>3 DEF Account, SInv, CInv, CartTypeOK
<1>5. Settled(call[c].mem) /\ share[k] = Listed(call[c].mem)
  BY <1>1, <1>4, EngineHolds DEF SInv
<1>6. \A p \in Products : units[p] <= share[k][p]
  BY <1>1, <1>4, <1>5
<1> QED BY <1>2, <1>3, <1>4, <1>6, SharedRelease

\* An expiry gives back what the row lists.
LEMMA ExpiredCounts ==
  ASSUME NEW others \in Basket, SInv(others), CInv', NEW k \in Carts, ReleaseExpiredCart(k)
  PROVE  ReservedBesides(others)'
<1> SUFFICES ASSUME torn' = {} PROVE ReservedBesides(others)'
  BY DEF ReservedBesides
<1>1. CASE cart[k].status = "active" /\ ~cart[k].released
  <2>1. PICK items \in Basket : items = cart[k].items
    BY DEF SInv, CInv, CartTypeOK, CartRow
  <2>2. PICK rest : rest = [p \in Products |-> share[k][p] - items[p]]
    OBVIOUS
  <2>3. /\ stock' = Released(stock, items)
        /\ Account(k, rest, \E d \in Calls : Holds(d, k))
    BY <1>1, <2>1, <2>2 DEF ReleaseExpiredCart
  <2>4. /\ torn = {} /\ share'[k] = rest
        /\ \A j \in Carts \ {k} : share'[j] = share[j]
        /\ \A d \in Calls : ~Holds(d, k)
    BY <2>3 DEF Account, SInv, CInv, CartTypeOK
  <2>5. CartSound(k) /\ \A d \in Calls : ~Engaged(d, k)
    BY <2>4 DEF SInv, CInv, Holds, Engaged
  <2>6. share[k] = items
    BY <1>1, <2>1, <2>5 DEF CartSound, Listed
  <2>7. \A p \in Products : items[p] <= share[k][p]
    BY <2>6 DEF Basket
  <2> QED BY <2>2, <2>3, <2>4, <2>7, SharedRelease
<1>2. CASE ~(cart[k].status = "active" /\ ~cart[k].released)
  BY <1>2, ShareStays DEF ReleaseExpiredCart
<1> QED BY <1>1, <1>2

\* An account that leaves the share as it is, with the books as they are.
LEMMA SameShare ==
  ASSUME NEW others \in Basket, SInv(others), UNCHANGED stock, NEW k \in Carts, NEW isTorn,
         Account(k, share[k], isTorn)
  PROVE  ReservedBesides(others)'
<1>1. share \in [Carts -> [Products -> Int]]
  BY DEF SInv, CInv, CartTypeOK
<1>2. ASSUME torn' = {} PROVE UNCHANGED <<share, torn>>
  BY <1>1, <1>2 DEF Account
<1> QED BY <1>2, ShareStays DEF ReservedBesides

\* The operations of a call on the engine.
LEMMA OperationCounts ==
  ASSUME NEW others \in Basket, SInv(others), CInv', NEW c \in Calls,
         \/ AddItem(c) \/ UpdateItem(c) \/ RemoveItem(c)
         \/ ClearCart(c) \/ MarkAsConverted(c)
  PROVE  ReservedBesides(others)'
<1>1. call[c].pc = "engine" /\ CallSound(c)
  BY DEF AddItem, UpdateItem, RemoveItem, ClearCart, MarkAsConverted, At, SInv, CInv
<1>2. PICK m \in CartRow : m = call[c].mem /\ m.items \in Basket
  BY <1>1, AtEngine DEF SInv
<1>3. PICK n \in Nat : n = call[c].qty
  BY <1>1, AtEngine DEF SInv
<1>4. \A p \in Products : m.items[p] \in Nat
  BY <1>2 DEF Basket
<1>5. CASE AddItem(c)
  <2>1. Reserve(c, Only(call[c].product, n)) /\ call[c].product \in Products
    BY <1>1, <1>3, <1>5 DEF AddItem, At, CallSound
  <2> QED BY <1>1, <2>1, CartConstants, ReserveCounts
<1>6. CASE UpdateItem(c)
  <2>1. PICK p \in Products : p = call[c].product /\ call[c].op = "update"
    BY <1>1, <1>6 DEF UpdateItem, At, CallSound
  <2>2. CASE n >= m.items[p]
    <3>1. n - m.items[p] \in Nat
      BY <1>4, <2>2
    <3>2. Reserve(c, Only(p, n - m.items[p]))
      BY <1>2, <1>3, <1>6, <2>1, <2>2 DEF UpdateItem
    <3> QED BY <1>1, <3>1, <3>2, CartConstants, ReserveCounts
  <2>3. CASE ~(n >= m.items[p])
    <3>1. PICK units \in Basket : units = Only(p, m.items[p] - n)
      <4>1. m.items[p] - n \in Nat
        BY <1>4, <2>3
      <4> QED BY <4>1, CartConstants
    <3>2. Release(c, units)
      BY <1>2, <1>3, <1>6, <2>1, <2>3, <3>1 DEF UpdateItem
    <3>3. ASSUME ~Misplaced(c), Settled(call[c].mem)
          PROVE  \A q \in Products : units[q] <= Listed(call[c].mem)[q]
      <4>1. Listed(m) = m.items
        BY <1>2, <2>1, <3>3 DEF Misplaced, Settled, Listed
      <4> QED BY <1>2, <1>4, <3>1, <4>1 DEF Only
    <3> QED BY <1>1, <3>2, <3>3, ReleaseCounts
  <2> QED BY <2>2, <2>3
<1>7. CASE RemoveItem(c)
  <2>1. PICK p \in Products : p = call[c].product /\ call[c].op = "remove"
    BY <1>1, <1>7 DEF RemoveItem, At, CallSound
  <2>2. PICK units \in Basket : units = Only(p, IF m.status = "active" THEN m.items[p] ELSE 0)
    BY <1>4, CartConstants
  <2>3. Release(c, units)
    BY <1>2, <1>7, <2>1, <2>2 DEF RemoveItem
  <2>4. ASSUME ~Misplaced(c), Settled(call[c].mem)
        PROVE  \A q \in Products : units[q] <= Listed(call[c].mem)[q]
    <3>1. CASE m.status = "active"
      <4>1. Listed(m) = m.items
        BY <1>2, <2>4, <3>1 DEF Settled, Listed
      <4> QED BY <1>2, <1>4, <2>2, <3>1, <4>1 DEF Only
    <3>2. CASE m.status # "active"
      <4>1. \A q \in Products : units[q] = 0 /\ Listed(m)[q] >= 0
        BY <1>4, <2>2, <3>2 DEF Only, Listed, EmptyBasket
      <4> QED BY <1>2, <4>1
    <3> QED BY <3>1, <3>2
  <2> QED BY <1>1, <2>3, <2>4, ReleaseCounts
<1>8. CASE ClearCart(c)
  <2>1. PICK units \in Basket :
          units = IF m.status = "active" /\ ~m.released THEN m.items ELSE EmptyBasket
    BY <1>2, CartConstants
  <2>2. Release(c, units)
    BY <1>2, <1>8, <2>1 DEF ClearCart
  <2>3. ASSUME NEW q \in Products PROVE units[q] <= Listed(call[c].mem)[q]
    BY <1>2, <1>4, <2>1 DEF Listed, EmptyBasket
  <2> QED BY <1>1, <2>2, <2>3, ReleaseCounts
<1>9. CASE MarkAsConverted(c)
  <2>1. PICK k \in Carts : k = call[c].cart
    BY <1>1, AtEngine DEF SInv
  <2> QED BY <1>9, <2>1, SameShare DEF MarkAsConverted
<1> QED BY <1>5, <1>6, <1>7, <1>8, <1>9

\* Every transaction of a call changes the counter as it changes the shares.
LEMMA CallStepCounts ==
  ASSUME NEW others \in Basket, SInv(others), CInv', NEW c \in Calls, CallStep(c)
  PROVE  ReservedBesides(others)'
<1>1. CASE \E k \in Carts : ExpireOld(c, k)
  BY <1>1, ExpiredCounts DEF ExpireOld
<1>2. CASE FindActiveCart(c) \/ (\E k \in Carts : CreateCart(c, k)) \/ ReadCart(c) \/ SaveCompares(c)
  BY <1>2, ShareStays DEF FindActiveCart, CreateCart, ReadCart, SaveCompares
<1>3. CASE AddItem(c) \/ UpdateItem(c) \/ RemoveItem(c) \/ ClearCart(c) \/ MarkAsConverted(c)
  BY <1>3, OperationCounts
<1>4. CASE FailCall(c)
  <2>1. CASE call[c].pc \in {"compare", "write"}
    BY <1>4, <2>1 DEF FailCall, Account, ReservedBesides
  <2>2. CASE call[c].pc \notin {"compare", "write"}
    BY <1>4, <2>2, ShareStays DEF FailCall
  <2> QED BY <2>1, <2>2
<1>5. CASE SaveWrites(c)
  <2>1. PICK k \in Carts : k = call[c].cart
    BY <1>5 DEF SaveWrites, SInv, CInv, CallSound, InHandPc
  <2> QED BY <1>5, <2>1, SameShare DEF SaveWrites
<1> QED BY <1>1, <1>2, <1>3, <1>4, <1>5 DEF CallStep

\* And so does every step of a tick.
LEMMA CartSweepStepCounts ==
  ASSUME NEW others \in Basket, SInv(others), CInv', NEW s \in CartSweepers,
         CartSweepStep(s)
  PROVE  ReservedBesides(others)'
<1>1. CASE \E k \in Carts : SweepCart(s, k)
  BY <1>1, ExpiredCounts DEF SweepCart
<1>2. CASE ListExpiredCarts(s) \/ \E k \in Carts : SweepCartFails(s, k)
  BY <1>2, ShareStays DEF ListExpiredCarts, SweepCartFails
<1> QED BY <1>1, <1>2 DEF CartSweepStep

\* Every step keeps the counter at the sum of the shares.
LEMMA CartNextCounts ==
  ASSUME NEW others \in Basket, SInv(others), [CartNext]_cartVars
  PROVE  SInv(others)'
<1>1. CInv'
  BY CartNextSound DEF SInv
<1>2. CASE \E c \in Calls : BeginCall(c)
  BY <1>1, <1>2, ShareStays DEF BeginCall, Begin, SInv
<1>3. CASE \E c \in Calls : CallStep(c)
  BY <1>1, <1>3, CallStepCounts DEF SInv
<1>4. CASE \E k \in Carts : CartTtlPasses(k)
  BY <1>1, <1>4, ShareStays DEF CartTtlPasses, SInv
<1>5. CASE \E s \in CartSweepers : CartSweepStep(s)
  BY <1>1, <1>5, CartSweepStepCounts DEF SInv
<1>6. CASE UNCHANGED cartVars
  BY <1>1, <1>6, ShareStays DEF cartVars, SInv
<1> QED BY <1>2, <1>3, <1>4, <1>5, <1>6 DEF CartNext

\* Nothing is reserved at first, and no share is positive.
LEMMA CartInitCounts == CartInit => SInv(EmptyBasket)
<1> SUFFICES ASSUME CartInit, NEW p \in Products
             PROVE  stock[p].reserved
                      = EmptyBasket[p] + Total([k \in Carts |-> share[k][p]], Carts)
  BY CartInitSound DEF SInv, ReservedBesides
<1>1. PICK f : f = [k \in Carts |-> share[k][p]]
  OBVIOUS
<1>2. \A k \in Carts : f[k] = 0
  BY <1>1 DEF CartInit, EmptyBasket
<1>3. IsFiniteSet(Carts)
  BY CartAssumption
<1>4. Total(f, Carts) = 0
  BY ONLY <1>2, <1>3, TotalOfNothing
<1>5. stock[p].reserved = 0 /\ EmptyBasket[p] = 0
  BY DEF CartInit, EngineInit, EmptyBasket
<1> QED BY <1>1, <1>4, <1>5

\* The shares are what the carts list, so the counter is the sum of the lists.
LEMMA CountedIsListed ==
  ASSUME NEW others \in Basket, SInv(others), torn = {}, NEW p \in Products
  PROVE  stock[p].reserved = others[p] + Total([k \in Carts |-> Promised(k)[p]], Carts)
<1>1. \A k \in Carts : share[k] = Promised(k)
  BY SoundIsHeld DEF SInv, HeldAsListed
<1>2. [k \in Carts |-> share[k][p]] = [k \in Carts |-> Promised(k)[p]]
  BY <1>1
<1> QED BY <1>2 DEF SInv, ReservedBesides

-----------------------------------------------------------------------------
(* Theorems *)

\* The match of rows, copies and reservations holds from the first step on.
THEOREM CartInductive == CartSpec => []CInv
BY CartInitSound, CartNextSound, PTL DEF CartSpec

\* Every row, copy and list has the form the code gives it, and no counter
\* goes below 0, whatever calls, expiries, sweeps and failures do.
THEOREM CartTypeCorrect == CartSpec => []CartTypeOK
<1>1. CInv => CartTypeOK
  BY DEF CInv
<1> QED BY <1>1, CartInductive, PTL

\* A cart whose calls neither overlap nor die half-way has exactly its items
\* reserved until the reservation is stamped as released, through any sequence
\* of additions, changes, removals, conversions, expiries and sweeps.
THEOREM CartsHoldWhatTheyList == CartSpec => []HeldAsListed
BY SoundIsHeld, CartInductive, PTL

\* The match of the counter and the shares holds from the first step on.
THEOREM CartSharesInductive == CartSpec => []SInv(EmptyBasket)
<1>1. SInv(EmptyBasket) /\ [CartNext]_cartVars => SInv(EmptyBasket)'
  BY CartConstants, CartNextCounts
<1> QED BY <1>1, CartInitCounts, PTL DEF CartSpec

\* As long as no calls have overlapped on a cart or died half-way, the
\* counter all channels share is exactly the sum of what the carts list: no
\* operation, expiry or sweep leaks a unit or gives one back twice.
THEOREM ReservedIsWhatCartsList == CartSpec => []ReservedIsListed
<1>1. SInv(EmptyBasket) => ReservedIsListed
  <2> SUFFICES ASSUME SInv(EmptyBasket), torn = {}, NEW p \in Products
               PROVE  stock[p].reserved = Total([k \in Carts |-> Promised(k)[p]], Carts)
    BY DEF ReservedIsListed
  <2>1. PICK f : f = [k \in Carts |-> share[k][p]]
    OBVIOUS
  <2>2. f = [k \in Carts |-> Promised(k)[p]]
    BY <2>1, SoundIsHeld DEF SInv, HeldAsListed
  <2>3. \A k \in Carts : f[k] \in Int
    BY <2>1 DEF SInv, CInv, CartTypeOK
  <2>4. Total(f, Carts) \in Int
    BY ONLY <2>3, CartAssumption, TotalType
  <2>5. stock[p].reserved = 0 + Total(f, Carts)
    BY <2>1 DEF SInv, ReservedBesides, EmptyBasket
  <2> QED BY <2>2, <2>4, <2>5
<1> QED BY <1>1, CartSharesInductive, PTL
=============================================================================
