--------------------------- MODULE CheckoutProofs ---------------------------
(***************************************************************************)
(* Theorems about Checkout, for any number of messages, carts, orders and  *)
(* sweepers: types, where every reserved unit belongs, and what a repeated *)
(* or late confirmation cannot do.  All of them rest on the turn: only the *)
(* message that has it works on a cart or has an order of its own.         *)
(***************************************************************************)
EXTENDS Checkout, CartProofs

-----------------------------------------------------------------------------
(* The inductive invariant *)

BeforeTurn == {"idle", "reset", "seen", "wait"}
Placing == {"pay", "convert", "end"}

\* How far the call of a message is, by what the message does with the cart.
TaskSound(m) ==
  /\ msg[m].pc \notin Tasks \cup {"pay", "convert"} => call[m] = NoCall
  /\ msg[m].pc \in {"look", "start", "checkout"} =>
       call[m].op = "convert" /\ call[m].pc \in {"expire", "create", "read"}
  /\ msg[m].pc \in {"add", "remove", "clear"} => call[m].op = msg[m].pc
  /\ msg[m].pc = "pay" => call[m].op = "convert" /\ call[m].pc = "read"
  /\ msg[m].pc = "convert" =>
       call[m].op = "convert" /\ call[m].pc \in {"read", "engine", "compare", "write"}

\* The order R has not committed yet is pending, and its units are reserved:
\* nobody else can give them back while R has the stock rows locked.
OrderSound(m) ==
  /\ msg[m].pc \in Placing <=> msg[m].order # NoOrder
  /\ msg[m].order # NoOrder =>
       /\ order[msg[m].order].status = "pendente_pagamento"
       /\ \A p \in Products : order[msg[m].order].items[p] <= stock[p].reserved

MsgSound(m) ==
  /\ msg[m].pc \in BeforeTurn <=> turn # m
  /\ TaskSound(m)
  /\ OrderSound(m)
  /\ msg[m].word \in {"produto", "remover"} => msg[m].product \in Products

\* A message never works on a cart that is converted already.
InHandIsOpen(m) == call[m].cart \in Carts => cart[call[m].cart].status # "converted"

BotTypeOK ==
  /\ conv \in Context
  /\ turn \in Calls \cup {NoMessage}
  /\ msg \in [Calls -> MessageState]
  /\ order \in [Orders -> OrderRow]
  /\ waiting \in [CartSweepers -> Carts \cup {NoCart}]

BInv ==
  /\ CInv
  /\ BotTypeOK
  /\ \A m \in Calls : MsgSound(m) /\ InHandIsOpen(m)

-----------------------------------------------------------------------------
(* Types *)

\* Contexts stay contexts when a handler moves them on.
LEMMA ContextTypes ==
  /\ NewContext \in Context
  /\ \A ctx \in Context :
       /\ \A q \in BOOLEAN : [ctx EXCEPT !.quiet = q] \in Context
       /\ [ctx EXCEPT !.stale = TRUE] \in Context
       /\ [ctx EXCEPT !.quiet = TRUE, !.stale = (ctx.product # NoProduct)] \in Context
       /\ [ctx EXCEPT !.state = "idle", !.stage = "none", !.delivery = "none",
                      !.product = NoProduct, !.qty = 0, !.stale = FALSE] \in Context
       /\ \A s \in {"idle", "collecting_order", "waiting_payment"} :
            [ctx EXCEPT !.state = s] \in Context
       /\ \A stage \in Stages \cup {"none"}, d \in {"none", "delivery", "pickup"} :
            WithCheckout(ctx, stage, d) \in Context
       /\ \A p \in Products \cup {NoProduct}, n \in Nat : WithProposal(ctx, p, n) \in Context
<1>1. NewContext \in Context
  BY DEF NewContext, Context
<1>2. ASSUME NEW ctx \in Context
      PROVE  /\ \A q \in BOOLEAN : [ctx EXCEPT !.quiet = q] \in Context
             /\ [ctx EXCEPT !.stale = TRUE] \in Context
             /\ [ctx EXCEPT !.quiet = TRUE, !.stale = (ctx.product # NoProduct)] \in Context
             /\ [ctx EXCEPT !.state = "idle", !.stage = "none", !.delivery = "none",
                            !.product = NoProduct, !.qty = 0, !.stale = FALSE] \in Context
             /\ \A s \in {"idle", "collecting_order", "waiting_payment"} :
                  [ctx EXCEPT !.state = s] \in Context
  BY DEF Context
<1>3. ASSUME NEW ctx \in Context,
             NEW stage \in Stages \cup {"none"}, NEW d \in {"none", "delivery", "pickup"}
      PROVE  WithCheckout(ctx, stage, d) \in Context
  BY DEF Context, WithCheckout
<1>4. ASSUME NEW ctx \in Context, NEW p \in Products \cup {NoProduct}, NEW n \in Nat
      PROVE  WithProposal(ctx, p, n) \in Context
  BY DEF Context, WithProposal
<1> QED BY <1>1, <1>2, <1>3, <1>4

\* What a message writes into the conversation is a context.
LEMMA Replies ==
  ASSUME NEW ctx \in Context
  PROVE  /\ Closed(ctx) \in Context
         /\ WithoutProposal(ctx) \in Context
         /\ \A stage \in Stages \cup {"none"}, d \in {"none", "delivery", "pickup"} :
              \A s \in {"idle", "collecting_order", "waiting_payment"} :
                [WithCheckout(ctx, stage, d) EXCEPT !.state = s] \in Context
<1>1. \A stage \in Stages \cup {"none"}, d \in {"none", "delivery", "pickup"} :
        WithCheckout(ctx, stage, d) \in Context
  BY ContextTypes
<1>2. \A stage \in Stages \cup {"none"}, d \in {"none", "delivery", "pickup"} :
        \A s \in {"idle", "collecting_order", "waiting_payment"} :
          [WithCheckout(ctx, stage, d) EXCEPT !.state = s] \in Context
  BY <1>1, ContextTypes
<1>3. WithoutProposal(ctx) \in Context
  BY ContextTypes DEF WithoutProposal
<1> QED BY <1>2, <1>3 DEF Closed

\* The fields of a typed message, as facts of their own.
LEMMA MessageFields ==
  ASSUME BotTypeOK, NEW m \in Calls
  PROVE  /\ msg[m] \in MessageState
         /\ msg[m].ctx \in Context
         /\ msg[m].ctx.delivery \in {"none", "delivery", "pickup"}
         /\ msg[m].ctx.product \in Products \cup {NoProduct}
         /\ msg[m].ctx.qty \in Nat
         /\ msg[m].product \in Products \cup {NoProduct}
         /\ msg[m].qty \in Nat
         /\ msg[m].order \in Orders \cup {NoOrder}
         /\ Base(m) \in Context
<1>1. msg[m] \in MessageState /\ conv \in Context
  BY DEF BotTypeOK
<1>2. msg[m].ctx \in Context
  BY <1>1 DEF MessageState
<1>3. Base(m) \in Context
  BY <1>1, <1>2, ContextTypes DEF Base
<1> QED BY <1>1, <1>2, <1>3 DEF MessageState, Context

\* The message that is over has no order and says nothing.
LEMMA NoMsgType ==
  /\ NoMsg \in MessageState
  /\ NoMsg.pc = "idle" /\ NoMsg.order = NoOrder /\ NoMsg.word = "none"
BY ContextTypes DEF NoMsg, MessageState

-----------------------------------------------------------------------------
(* What a step has to show *)

\* Who has not the turn has no call and no order.
LEMMA OthersWait ==
  ASSUME BInv, NEW d \in Calls, turn # d
  PROVE  /\ msg[d].pc \in BeforeTurn
         /\ call[d] = NoCall
         /\ msg[d].order = NoOrder
BY DEF BInv, MsgSound, TaskSound, OrderSound, BeforeTurn, Placing, Tasks

\* And stays like this whatever the one does that has the turn.
LEMMA WaitingSound ==
  ASSUME BInv, NEW d \in Calls, turn # d, turn' # d,
         msg'[d] = msg[d], call'[d] = call[d]
  PROVE  MsgSound(d)' /\ InHandIsOpen(d)'
<1>1. /\ msg[d].pc \in BeforeTurn
      /\ call[d] = NoCall
      /\ msg[d].order = NoOrder
  BY OthersWait
<1>2. MsgSound(d)
  BY DEF BInv
<1>3. NoCall.cart \notin Carts
  BY CartAssumption DEF NoCall
<1>4. TaskSound(d)' /\ InHandIsOpen(d)'
  BY <1>1, <1>3 DEF TaskSound, BeforeTurn, Tasks, InHandIsOpen
<1>5. OrderSound(d)'
  BY <1>1 DEF OrderSound, BeforeTurn, Placing
<1> QED BY <1>1, <1>2, <1>4, <1>5 DEF MsgSound

\* The message that has the turn moves.
LEMMA TurnMoves ==
  ASSUME BInv, NEW m \in Calls, turn = m, turn' \in {m, NoMessage},
         \A d \in Calls \ {m} : msg'[d] = msg[d] /\ call'[d] = call[d],
         CInv', BotTypeOK', MsgSound(m)', InHandIsOpen(m)'
  PROVE  BInv'
<1>1. ASSUME NEW d \in Calls \ {m} PROVE MsgSound(d)' /\ InHandIsOpen(d)'
  BY CheckoutAssumption, WaitingSound
<1> QED BY <1>1 DEF BInv

\* A message moves that has not the turn, or takes it.
LEMMA MessageMoves ==
  ASSUME BInv, NEW m \in Calls, UNCHANGED <<cartVars, order, waiting>>,
         turn # m, turn' = turn \/ (turn = NoMessage /\ turn' = m),
         NEW new \in MessageState, msg' = [msg EXCEPT ![m] = new],
         conv' \in Context,
         new.pc \in BeforeTurn <=> turn' # m,
         new.pc \in BeforeTurn \cup {"turn"},
         new.order = NoOrder,
         new.word \in {"produto", "remover"} => new.product \in Products
  PROVE  BInv'
<1>1. /\ msg \in [Calls -> MessageState] /\ order \in [Orders -> OrderRow]
      /\ turn \in Calls \cup {NoMessage}
      /\ late \subseteq Carts /\ cartSweep \in [CartSweepers -> SUBSET Carts]
  BY DEF BInv, BotTypeOK, CInv, CartTypeOK
<1>2. CInv'
  BY <1>1, OutsideSound DEF BInv, cartVars
<1>3. BotTypeOK'
  BY <1>1 DEF BInv, BotTypeOK
<1>4. MsgSound(m)' /\ InHandIsOpen(m)'
  <2>1. call'[m] = NoCall /\ NoCall.cart \notin Carts
    BY OthersWait, CartAssumption DEF cartVars, NoCall
  <2>2. msg'[m] = new
    BY <1>1
  <2> QED BY <2>1, <2>2 DEF MsgSound, TaskSound, OrderSound, InHandIsOpen, BeforeTurn, Tasks, Placing
<1>5. ASSUME NEW d \in Calls \ {m} PROVE MsgSound(d)' /\ InHandIsOpen(d)'
  <2>1. msg'[d] = msg[d] /\ UNCHANGED <<call, cart, stock, order>>
    BY <1>1 DEF cartVars
  <2>2. turn' = d <=> turn = d
    BY CheckoutAssumption
  <2> QED BY <2>1, <2>2 DEF BInv, MsgSound, TaskSound, OrderSound, InHandIsOpen
<1> QED BY <1>2, <1>3, <1>4, <1>5 DEF BInv

\* R commits: the message ends with its call over.
LEMMA CommitSound ==
  ASSUME BInv, NEW m \in Calls, turn = m, NEW ctx \in Context, Commit(m, ctx),
         CInv', call'[m] = NoCall, \A d \in Calls \ {m} : call'[d] = call[d],
         UNCHANGED waiting, order' \in [Orders -> OrderRow]
  PROVE  BInv'
<1>1. /\ turn' = NoMessage /\ conv' = ctx
      /\ msg \in [Calls -> MessageState]
      /\ msg' = [msg EXCEPT ![m] = NoMsg]
  BY DEF Commit, BInv, BotTypeOK
<1>2. msg'[m] = NoMsg /\ \A d \in Calls \ {m} : msg'[d] = msg[d]
  BY <1>1
<1>3. BotTypeOK'
  BY <1>1, NoMsgType DEF BInv, BotTypeOK
<1>4. MsgSound(m)' /\ InHandIsOpen(m)'
  <2>1. NoMessage \notin Calls /\ NoCall.cart \notin Carts
    BY CheckoutAssumption, CartAssumption DEF NoCall
  <2> QED BY <1>1, <1>2, <2>1, NoMsgType
          DEF MsgSound, TaskSound, OrderSound, InHandIsOpen, BeforeTurn, Tasks, Placing
<1> QED BY <1>1, <1>2, <1>3, <1>4, TurnMoves

-----------------------------------------------------------------------------
(* The conversation *)

\* A reply that leaves cart and orders alone.
LEMMA ReplySound ==
  ASSUME BInv, NEW m \in Calls, msg[m].pc \in {"turn", "end"}, NEW ctx \in Context,
         Reply(m, ctx)
  PROVE  BInv'
<1>1. turn = m /\ call[m] = NoCall
  BY DEF BInv, MsgSound, TaskSound, BeforeTurn, Tasks
<1>2. late \subseteq Carts /\ cartSweep \in [CartSweepers -> SUBSET Carts]
  BY DEF BInv, CInv, CartTypeOK
<1>3. /\ Commit(m, ctx) /\ UNCHANGED <<cartVars, order, waiting>>
      /\ order' \in [Orders -> OrderRow]
  BY DEF Reply, BInv, BotTypeOK
<1>4. CInv'
  BY <1>2, <1>3, OutsideSound DEF BInv, cartVars
<1>5. UNCHANGED <<call, waiting>>
  BY <1>3 DEF cartVars
<1> QED BY <1>1, <1>3, <1>4, <1>5, CommitSound

\* What a message is about is one of the words handlers tell apart.
LEMMA HeardIsSaid ==
  ASSUME Topics \subseteq Words, NEW ctx PROVE Heard(ctx) \subseteq Words
<1>1. /\ {"cancelar", "entrega", "retirada", "outra"} \subseteq Words
      /\ {"cancelar", "outra"} \subseteq Words
      /\ {"cancelar", "endereco", "outra"} \subseteq Words
      /\ {"cancelar", "sim", "outra"} \subseteq Words
      /\ {"cancelar", "numero", "outra"} \subseteq Words
      /\ {"sim", "nao", "numero", "outra"} \subseteq Words
  BY DEF Words
<1>2. \E heard \in {{"cancelar", "entrega", "retirada", "outra"}, {"cancelar", "outra"},
                    {"cancelar", "endereco", "outra"}, {"cancelar", "sim", "outra"},
                    {"cancelar", "numero", "outra"}, {"sim", "nao", "numero", "outra"},
                    Topics} : Heard(ctx) = heard
  BY DEF Heard
<1> QED BY <1>1, <1>2

\* A message comes in, and waits for its turn.
LEMMA ReceiveSound ==
  ASSUME BInv, NEW m \in Calls, NEW in \in Inputs(conv), Receive(m, in)
  PROVE  BInv'
<1>1. /\ conv \in Context /\ msg \in [Calls -> MessageState]
      /\ msg[m].pc = "idle" /\ turn # m
  BY DEF Receive, BInv, BotTypeOK, MsgSound, BeforeTurn
<1>2. in.word \in Words /\ in.product \in Products \cup {NoProduct} /\ in.qty \in Nat
  <2>1. Topics \subseteq Words
    BY CheckoutAssumption DEF Words
  <2>2. Heard(conv) \subseteq Words
    BY <2>1, HeardIsSaid
  <2>3. Quantities \cup {0} \subseteq Nat
    BY CartAssumption
  <2>4. PICK w \in Heard(conv), p \in Products \cup {NoProduct}, n \in Quantities \cup {0} :
          in = [word |-> w, product |-> p, qty |-> n]
    BY DEF Inputs
  <2> QED BY <2>2, <2>3, <2>4
<1>3. PICK pc \in {"reset", "seen"} : pc = IF TimedOut THEN "reset" ELSE "seen"
  OBVIOUS
<1>4. PICK new : new = [NoMsg EXCEPT !.pc = pc, !.word = in.word, !.product = in.product,
                                     !.qty = in.qty, !.ctx = conv]
  OBVIOUS
<1>5. /\ new \in MessageState /\ new.pc = pc /\ new.order = NoOrder
      /\ new.word = in.word /\ new.product = in.product
  BY <1>1, <1>2, <1>4, NoMsgType DEF MessageState
<1>6. /\ msg' = [msg EXCEPT ![m] = new]
      /\ UNCHANGED <<cartVars, conv, turn, order, waiting>>
  BY <1>3, <1>4 DEF Receive
<1>7. new.word \in {"produto", "remover"} => new.product \in Products
  BY <1>2, <1>5 DEF Receive, Names
<1> QED BY <1>1, <1>5, <1>6, <1>7, MessageMoves DEF BeforeTurn

\* After a silence it ends with the conversation reset; else it compares what it
\* read and takes its turn.
LEMMA TurnSound ==
  ASSUME BInv, NEW m \in Calls,
         ResetConversation(m) \/ CompareConversation(m) \/ TakeTurn(m)
  PROVE  BInv'
<1>1. /\ conv \in Context /\ msg \in [Calls -> MessageState] /\ MsgSound(m)
      /\ turn # m /\ msg[m].order = NoOrder
  BY OthersWait
     DEF BInv, BotTypeOK, MsgSound, BeforeTurn, ResetConversation, CompareConversation, TakeTurn
<1>2. CASE ResetConversation(m)
  <2>1. PICK ctx \in Context : Commit(m, ctx)
    BY <1>1, <1>2, ContextTypes DEF ResetConversation
  <2>2. /\ conv' \in Context /\ turn' = turn
        /\ msg' = [msg EXCEPT ![m] = NoMsg] /\ UNCHANGED <<cartVars, order, waiting>>
    BY <1>2, <2>1 DEF Commit, ResetConversation
  <2> QED BY <1>1, <2>2, NoMsgType, MessageMoves DEF BeforeTurn
<1>3. CASE CompareConversation(m)
  <2>1. PICK dirty \in BOOLEAN : msg' = [msg EXCEPT ![m].pc = "wait", ![m].dirty = dirty]
    BY <1>3 DEF CompareConversation
  <2>2. PICK new : new = [msg[m] EXCEPT !.pc = "wait", !.dirty = dirty]
    OBVIOUS
  <2>3. /\ new \in MessageState /\ new.pc = "wait" /\ new.order = NoOrder
        /\ new.word = msg[m].word /\ new.product = msg[m].product
    BY <1>1, <2>2 DEF MessageState
  <2>4. /\ msg' = [msg EXCEPT ![m] = new]
        /\ UNCHANGED <<cartVars, conv, turn, order, waiting>>
    BY <1>1, <1>3, <2>1, <2>2 DEF CompareConversation
  <2> QED BY <1>1, <2>3, <2>4, MessageMoves DEF BeforeTurn, MsgSound
<1>4. CASE TakeTurn(m)
  <2>1. PICK new : new = [msg[m] EXCEPT !.pc = "turn"]
    OBVIOUS
  <2>2. /\ new \in MessageState /\ new.pc = "turn" /\ new.order = NoOrder
        /\ new.word = msg[m].word /\ new.product = msg[m].product
    BY <1>1, <2>1 DEF MessageState
  <2>3. /\ msg' = [msg EXCEPT ![m] = new] /\ turn = NoMessage /\ turn' = m
        /\ UNCHANGED <<cartVars, conv, order, waiting>>
    BY <1>1, <1>4, <2>1 DEF TakeTurn
  <2> QED BY <1>1, <2>2, <2>3, MessageMoves DEF BeforeTurn, MsgSound
<1> QED BY <1>2, <1>3, <1>4

\* A handler needs the cart: the task and the call begin together.
LEMMA BeginTaskSound ==
  ASSUME BInv, NEW m \in Calls, msg[m].pc = "turn",
         NEW task \in Tasks, NEW op \in Ops, NEW p \in Products \cup {NoProduct},
         NEW n \in Nat, NEW ctx \in Context,
         BeginTask(m, task, op, p, n, ctx),
         op \in {"add", "update", "remove"} => p \in Products,
         op = IF task \in {"add", "remove", "clear"} THEN task ELSE "convert"
  PROVE  BInv'
<1>1. /\ Begin(m, op, p, n) /\ UNCHANGED <<conv, turn, order, waiting>>
      /\ turn = m /\ msg \in [Calls -> MessageState] /\ call \in [Calls -> CallState]
  BY DEF BeginTask, BInv, MsgSound, BotTypeOK, BeforeTurn, CInv, CartTypeOK
<1>2. CInv'
  BY <1>1, BeginSound DEF BInv
<1>3. PICK new : new = [NoMsg EXCEPT !.pc = task, !.ctx = ctx]
  OBVIOUS
<1>4. /\ new \in MessageState /\ new.pc = task /\ new.order = NoOrder /\ new.word = "none"
  BY <1>3, NoMsgType DEF MessageState, Tasks
<1>5. msg' = [msg EXCEPT ![m] = new]
  BY <1>3 DEF BeginTask
<1>6. msg'[m] = new /\ \A d \in Calls \ {m} : msg'[d] = msg[d] /\ call'[d] = call[d]
  BY <1>1, <1>5 DEF Begin
<1>7. call'[m].op = op /\ call'[m].pc = "expire" /\ call'[m].cart = NoCart
  BY <1>1 DEF Begin, NoCall
<1>8. BotTypeOK'
  BY <1>1, <1>4, <1>5 DEF BInv, BotTypeOK
<1>9. MsgSound(m)' /\ InHandIsOpen(m)'
  <2>1. TaskSound(m)'
    BY <1>4, <1>6, <1>7 DEF TaskSound, Tasks
  <2>2. OrderSound(m)'
    BY <1>4, <1>6 DEF OrderSound, Tasks, Placing
  <2>3. turn' = m /\ msg'[m].pc \notin BeforeTurn
    BY <1>1, <1>4, <1>6 DEF BeforeTurn, Tasks
  <2> QED BY <1>4, <1>6, <1>7, <2>1, <2>2, <2>3, CartAssumption DEF MsgSound, InHandIsOpen
<1> QED BY <1>1, <1>2, <1>6, <1>8, <1>9, TurnMoves

\* Everything the handlers of the conversation do is a reply or the beginning of
\* a task, with a context.
LEMMA HandlerSound ==
  ASSUME BInv, NEW m \in Calls,
         \/ CancelCheckout(m) \/ AskFulfillment(m) \/ CollectName(m)
         \/ CollectPhone(m) \/ CollectAddress(m) \/ ConfirmAddress(m)
         \/ SelectPickupSlot(m) \/ AnswerProposal(m) \/ ProposeCartAdd(m)
         \/ HandleCart(m) \/ Answer(m) \/ EndCheckout(m)
  PROVE  BInv'
<1>1. /\ Base(m) \in Context /\ msg[m].ctx \in Context
      /\ msg[m].ctx.delivery \in {"none", "delivery", "pickup"}
      /\ msg[m].ctx.product \in Products \cup {NoProduct} /\ msg[m].ctx.qty \in Nat
      /\ msg[m].product \in Products \cup {NoProduct} /\ msg[m].qty \in Nat
      /\ MsgSound(m)
  BY MessageFields DEF BInv
<1>2. \A d \in {"none", "delivery", "pickup"}, stage \in Stages \cup {"none"} :
        WithCheckout(Base(m), stage, d) \in Context
  BY <1>1, ContextTypes
<1>3. \A p \in Products \cup {NoProduct}, n \in Nat : WithProposal(Base(m), p, n) \in Context
  BY <1>1, ContextTypes
<1>4. Closed(Base(m)) \in Context /\ WithoutProposal(Base(m)) \in Context
  BY <1>1, Replies
<1>5. ASSUME NEW ctx \in Context, Reply(m, ctx), msg[m].pc \in {"turn", "end"} PROVE BInv'
  BY <1>5, ReplySound
<1>6. CASE CancelCheckout(m)
  <2>1. Reply(m, Closed(Base(m))) /\ msg[m].pc = "turn"
    BY <1>6 DEF CancelCheckout, InCheckout
  <2> QED BY <1>4, <1>5, <2>1
<1>7. CASE AskFulfillment(m)
  <2>1. \E ctx \in {WithCheckout(Base(m), "collecting_name", "pickup"), Closed(Base(m)),
                    WithCheckout(Base(m), "collecting_name", "delivery"), Base(m)} :
          Reply(m, ctx)
    BY <1>7 DEF AskFulfillment
  <2>2. WithCheckout(Base(m), "collecting_name", "pickup") \in Context
        /\ WithCheckout(Base(m), "collecting_name", "delivery") \in Context
    BY <1>2 DEF Stages
  <2>3. msg[m].pc = "turn"
    BY <1>7 DEF AskFulfillment, InCheckout
  <2> QED BY <1>1, <1>4, <1>5, <2>1, <2>2, <2>3
<1>8. CASE CollectName(m)
  <2>1. /\ Reply(m, WithCheckout(Base(m), "collecting_phone", msg[m].ctx.delivery))
        /\ msg[m].pc = "turn" /\ "collecting_phone" \in Stages
    BY <1>8 DEF CollectName, InCheckout, Stages
  <2> QED BY <1>1, <1>2, <1>5, <2>1
<1>9. CASE CollectPhone(m)
  <2>1. \E ctx \in {WithCheckout(Base(m), "selecting_pickup_slot", "pickup"), Closed(Base(m)),
                    WithCheckout(Base(m), "collecting_address", "delivery")} : Reply(m, ctx)
    BY <1>9 DEF CollectPhone
  <2>2. WithCheckout(Base(m), "selecting_pickup_slot", "pickup") \in Context
        /\ WithCheckout(Base(m), "collecting_address", "delivery") \in Context
    BY <1>2 DEF Stages
  <2>3. msg[m].pc = "turn"
    BY <1>9 DEF CollectPhone, InCheckout
  <2> QED BY <1>4, <1>5, <2>1, <2>2, <2>3
<1>10. CASE CollectAddress(m)
  <2>1. \E ctx \in {WithCheckout(Base(m), "confirming_address", msg[m].ctx.delivery), Base(m)} :
          Reply(m, ctx)
    BY <1>10 DEF CollectAddress
  <2>2. WithCheckout(Base(m), "confirming_address", msg[m].ctx.delivery) \in Context
    BY <1>1, <1>2 DEF Stages
  <2>3. msg[m].pc = "turn"
    BY <1>10 DEF CollectAddress, InCheckout
  <2> QED BY <1>1, <1>5, <2>1, <2>2, <2>3
<1>11. ASSUME NEW ctx \in Context, BeginTask(m, "checkout", "convert", NoProduct, 0, ctx),
              msg[m].pc = "turn"
       PROVE  BInv'
  <2>1. "checkout" \in Tasks /\ "convert" \in Ops
    BY DEF Tasks, Ops
  <2> QED BY <1>11, <2>1, BeginTaskSound
<1>12. CASE ConfirmAddress(m)
  <2>1. \/ Reply(m, WithCheckout(Base(m), "collecting_address", msg[m].ctx.delivery))
        \/ BeginTask(m, "checkout", "convert", NoProduct, 0, Base(m))
    BY <1>12 DEF ConfirmAddress
  <2>2. msg[m].pc = "turn" /\ "collecting_address" \in Stages
    BY <1>12 DEF ConfirmAddress, InCheckout, Stages
  <2> QED BY <1>1, <1>2, <1>5, <1>11, <2>1, <2>2
<1>13. CASE SelectPickupSlot(m)
  <2>1. WithCheckout(Base(m), "selecting_pickup_slot", "pickup") \in Context
    BY <1>2 DEF Stages
  <2>2. msg[m].pc = "turn"
    BY <1>13 DEF SelectPickupSlot, InCheckout
  <2>3. \/ \E ctx \in {Base(m), Closed(Base(m))} : Reply(m, ctx)
        \/ BeginTask(m, "checkout", "convert", NoProduct, 0,
                     WithCheckout(Base(m), "selecting_pickup_slot", "pickup"))
    BY <1>13 DEF SelectPickupSlot
  <2> QED BY <1>1, <1>4, <1>5, <1>11, <2>1, <2>2, <2>3
<1>14. CASE AnswerProposal(m)
  <2>1. \/ \E ctx \in {WithProposal(Base(m), msg[m].ctx.product, msg[m].qty),
                        WithoutProposal(Base(m)), Base(m)} : Reply(m, ctx)
        \/ BeginTask(m, "add", "add", msg[m].ctx.product, msg[m].ctx.qty,
                     WithoutProposal(Base(m)))
    BY <1>14 DEF AnswerProposal
  <2>2. msg[m].pc = "turn" /\ msg[m].ctx.product \in Products
    BY <1>1, <1>14 DEF AnswerProposal, Proposing, Proposed, InCheckout
  <2>3. WithProposal(Base(m), msg[m].ctx.product, msg[m].qty) \in Context
    BY <1>1, <1>3
  <2>4. "add" \in Tasks /\ "add" \in Ops
    BY DEF Tasks, Ops
  <2>5. CASE \E ctx \in {WithProposal(Base(m), msg[m].ctx.product, msg[m].qty),
                         WithoutProposal(Base(m)), Base(m)} : Reply(m, ctx)
    BY <1>1, <1>4, <1>5, <2>2, <2>3, <2>5
  <2>6. CASE BeginTask(m, "add", "add", msg[m].ctx.product, msg[m].ctx.qty,
                       WithoutProposal(Base(m)))
    BY <1>1, <1>4, <2>2, <2>4, <2>6, BeginTaskSound
  <2> QED BY <2>1, <2>5, <2>6
<1>15. CASE ProposeCartAdd(m)
  <2>1. Reply(m, WithProposal(Base(m), msg[m].product, msg[m].qty)) /\ msg[m].pc = "turn"
    BY <1>15 DEF ProposeCartAdd, Free, InCheckout
  <2> QED BY <1>1, <1>3, <1>5, <2>1
<1>16. CASE HandleCart(m)
  <2>1. msg[m].pc = "turn"
    BY <1>16 DEF HandleCart, Free, InCheckout
  <2>2. {"look", "start", "remove", "clear"} \subseteq Tasks /\ {"convert", "remove", "clear"} \subseteq Ops
    BY DEF Tasks, Ops
  <2>3. CASE Says(m, "remover") /\ BeginTask(m, "remove", "remove", msg[m].product, 0, Base(m))
    <3>1. msg[m].product \in Products
      BY <1>1, <2>3 DEF MsgSound, Says
    <3> QED BY <1>1, <2>1, <2>2, <2>3, <3>1, BeginTaskSound
  <2>4. CASE \/ BeginTask(m, "look", "convert", NoProduct, 0, Base(m))
             \/ BeginTask(m, "start", "convert", NoProduct, 0, Base(m))
             \/ BeginTask(m, "clear", "clear", NoProduct, 0, Base(m))
    BY <1>1, <2>1, <2>2, <2>4, BeginTaskSound
  <2> QED BY <1>16, <2>3, <2>4 DEF HandleCart
<1>17. CASE Answer(m)
  <2>1. Reply(m, Base(m)) /\ msg[m].pc = "turn"
    BY <1>17 DEF Answer, Free, InCheckout
  <2> QED BY <1>1, <1>5, <2>1
<1>18. CASE EndCheckout(m)
  <2>1. [WithCheckout(msg[m].ctx, "none", "none") EXCEPT !.state = "waiting_payment"] \in Context
    BY <1>1, Replies
  <2> QED BY <1>5, <1>18, <2>1 DEF EndCheckout
<1> QED BY <1>6, <1>7, <1>8, <1>9, <1>10, <1>12, <1>13, <1>14, <1>15, <1>16, <1>17, <1>18

-----------------------------------------------------------------------------
(* The message works on the cart *)

\* A step of one call leaves the others alone.
LEMMA OthersUntouched ==
  ASSUME NEW c \in Calls, NEW d \in Calls \ {c}, call \in [Calls -> CallState], CallStep(c)
  PROVE  call'[d] = call[d]
BY DEF CallStep, ExpireOld, FindActiveCart, CreateCart, ReadCart, AddItem, UpdateItem,
       RemoveItem, ClearCart, MarkAsConverted, FailCall, SaveCompares, SaveWrites,
       Given, Remember

\* What a step of a call leaves of its operation, its place, its cart and its copy.
LEMMA LookUpSteps ==
  ASSUME CartTypeOK, NEW c \in Calls
  PROVE  /\ \A k \in Carts : ExpireOld(c, k) =>
              /\ call[c].pc = "expire" /\ call'[c].pc = "expire"
              /\ call'[c].op = call[c].op /\ call'[c].cart = call[c].cart
              /\ call'[c].mem = call[c].mem
         /\ FindActiveCart(c) =>
              /\ call[c].pc = "expire" /\ call'[c].op = call[c].op
              /\ \/ /\ call'[c].pc = "create" /\ call'[c].cart = call[c].cart
                    /\ call'[c].mem = call[c].mem
                 \/ /\ call'[c].pc = IF call[c].op = "add" THEN "engine" ELSE "read"
                    /\ call'[c].cart \in ActiveCarts /\ call'[c].mem = cart[call'[c].cart]
         /\ \A k \in Carts : CreateCart(c, k) =>
              /\ call[c].pc = "create" /\ call'[c].op = call[c].op
              /\ call'[c].pc = IF call[c].op = "add" THEN "engine" ELSE "read"
              /\ call'[c].cart = k /\ call'[c].mem = NewCartRow
<1>1. call \in [Calls -> CallState] /\ call[c] \in CallState
  BY DEF CartTypeOK
<1>2. ASSUME NEW k \in Carts, ExpireOld(c, k)
      PROVE  /\ call[c].pc = "expire" /\ call'[c].pc = "expire"
             /\ call'[c].op = call[c].op /\ call'[c].cart = call[c].cart
             /\ call'[c].mem = call[c].mem
  <2>1. PICK todo : call' = [call EXCEPT ![c].todo = todo]
    BY <1>1, <1>2 DEF ExpireOld
  <2> QED BY <1>1, <1>2, <2>1 DEF ExpireOld, CallState
<1>3. ASSUME NEW k, NEW row, Given(c, k, row)
      PROVE  /\ call'[c].op = call[c].op /\ call'[c].cart = k /\ call'[c].mem = row
             /\ call'[c].pc = IF call[c].op = "add" THEN "engine" ELSE "read"
  <2>1. call'[c] = [call[c] EXCEPT !.cart = k, !.mem = row,
                                   !.pc = IF call[c].op = "add" THEN "engine" ELSE "read"]
    BY <1>1, <1>3 DEF Given
  <2> QED BY <1>1, <2>1 DEF CallState
<1>4. ASSUME FindActiveCart(c)
      PROVE  /\ call[c].pc = "expire" /\ call'[c].op = call[c].op
             /\ \/ /\ call'[c].pc = "create" /\ call'[c].cart = call[c].cart
                   /\ call'[c].mem = call[c].mem
                \/ /\ call'[c].pc = IF call[c].op = "add" THEN "engine" ELSE "read"
                   /\ call'[c].cart \in ActiveCarts /\ call'[c].mem = cart[call'[c].cart]
  <2>1. CASE ActiveCarts = {}
    <3>1. call' = [call EXCEPT ![c].pc = "create"]
      BY <1>4, <2>1 DEF FindActiveCart
    <3> QED BY <1>1, <1>4, <3>1 DEF FindActiveCart, CallState
  <2>2. CASE ActiveCarts # {}
    <3>1. PICK k \in ActiveCarts : Given(c, k, cart[k])
      BY <1>4, <2>2 DEF FindActiveCart
    <3> QED BY <1>3, <1>4, <3>1 DEF FindActiveCart
  <2> QED BY <2>1, <2>2
<1>5. ASSUME NEW k \in Carts, CreateCart(c, k)
      PROVE  /\ call[c].pc = "create" /\ call'[c].op = call[c].op
             /\ call'[c].pc = IF call[c].op = "add" THEN "engine" ELSE "read"
             /\ call'[c].cart = k /\ call'[c].mem = NewCartRow
  BY <1>3, <1>5 DEF CreateCart
<1> QED BY <1>2, <1>4, <1>5

\* The same of its work on the cart.
LEMMA WorkSteps ==
  ASSUME CartTypeOK, NEW c \in Calls
  PROVE  /\ ReadCart(c) => /\ call[c].pc = "read" /\ call'[c].pc = "engine"
                           /\ call'[c].mem = cart[call[c].cart]
                           /\ call'[c].op = call[c].op /\ call'[c].cart = call[c].cart
         /\ SaveCompares(c) =>
              /\ call[c].pc = "compare" /\ call'[c].pc = "write"
              /\ call'[c].mem = call[c].mem
              /\ call'[c].cols = call[c].cols
                   \cup {f \in {"status", "items", "released"} :
                           call[c].mem[f] # cart[call[c].cart][f]}
              /\ call'[c].op = call[c].op /\ call'[c].cart = call[c].cart
         /\ \A row \in CartRow : Remember(c, row) =>
              /\ call'[c].pc = "compare" /\ call'[c].mem = row
              /\ call'[c].op = call[c].op /\ call'[c].cart = call[c].cart
<1>1. call \in [Calls -> CallState] /\ call[c] \in CallState
  BY DEF CartTypeOK
<1>2. ASSUME ReadCart(c)
      PROVE  /\ call[c].pc = "read" /\ call'[c].pc = "engine"
             /\ call'[c].mem = cart[call[c].cart]
             /\ call'[c].op = call[c].op /\ call'[c].cart = call[c].cart
  <2>1. PICK row : row = cart[call[c].cart]
    OBVIOUS
  <2>2. call' = [call EXCEPT ![c].pc = "engine", ![c].mem = row]
    BY <1>2, <2>1 DEF ReadCart
  <2> QED BY <1>1, <1>2, <2>1, <2>2 DEF ReadCart, CallState
<1>3. ASSUME SaveCompares(c)
      PROVE  /\ call[c].pc = "compare" /\ call'[c].pc = "write"
             /\ call'[c].mem = call[c].mem
             /\ call'[c].cols = call[c].cols
                  \cup {f \in {"status", "items", "released"} :
                          call[c].mem[f] # cart[call[c].cart][f]}
             /\ call'[c].op = call[c].op /\ call'[c].cart = call[c].cart
  <2>1. PICK changed : changed = {f \in {"status", "items", "released"} :
                                   call[c].mem[f] # cart[call[c].cart][f]}
    OBVIOUS
  <2>2. call' = [call EXCEPT ![c].pc = "write", ![c].cols = @ \cup changed]
    BY <1>3, <2>1 DEF SaveCompares
  <2> QED BY <1>1, <1>3, <2>1, <2>2 DEF SaveCompares, CallState
<1>4. ASSUME NEW row \in CartRow, Remember(c, row)
      PROVE  /\ call'[c].pc = "compare" /\ call'[c].mem = row
             /\ call'[c].op = call[c].op /\ call'[c].cart = call[c].cart
  <2>1. PICK cols : call' = [call EXCEPT ![c].mem = row, ![c].pc = "compare", ![c].cols = cols]
    BY <1>4 DEF Remember
  <2> QED BY <1>1, <2>1 DEF CallState
<1> QED BY <1>2, <1>3, <1>4

\* A copy whose items or status change keeps its type and the rest.
LEMMA RowTypes ==
  ASSUME NEW row \in CartRow
  PROVE  /\ \A p \in Products, n \in Nat :
              WithQuantity(row, p, n) \in CartRow /\ WithQuantity(row, p, n).status = row.status
         /\ Abandoned(row) \in CartRow /\ Abandoned(row).status = "abandoned"
         /\ [Abandoned(row) EXCEPT !.items = EmptyBasket] \in CartRow
         /\ [Abandoned(row) EXCEPT !.items = EmptyBasket].status = "abandoned"
         /\ [row EXCEPT !.status = "converted"] \in CartRow
         /\ [row EXCEPT !.status = "converted"].items = row.items
<1>1. /\ [row EXCEPT !.status = "converted"] \in CartRow
      /\ [row EXCEPT !.status = "converted"].items = row.items
  BY DEF CartRow, CartStatus
<1> QED BY <1>1, Requantified, AbandonedRow

\* And of the operations on the engine.
LEMMA EngineSteps ==
  ASSUME CInv, NEW c \in Calls,
         AddItem(c) \/ UpdateItem(c) \/ RemoveItem(c) \/ ClearCart(c) \/ MarkAsConverted(c)
  PROVE  /\ call[c].pc = "engine" /\ call'[c].pc = "compare" /\ UNCHANGED cart
         /\ call'[c].op = call[c].op /\ call'[c].cart = call[c].cart
         /\ IF call[c].op = "convert"
            THEN call'[c].mem.items = call[c].mem.items
            ELSE call'[c].mem.status \in {call[c].mem.status, "abandoned"}
<1>1. /\ call[c].pc = "engine" /\ UNCHANGED cart /\ CallSound(c) /\ CartTypeOK
  BY DEF AddItem, UpdateItem, RemoveItem, ClearCart, MarkAsConverted, At, CInv
<1>2. PICK m \in CartRow : m = call[c].mem /\ m.items \in Basket
  BY <1>1, AtEngine
<1>3. PICK n \in Nat : n = call[c].qty
  BY <1>1, AtEngine
<1>4. ASSUME NEW p \in Products PROVE m.items[p] + n \in Nat
  BY <1>2 DEF Basket
<1>5. ASSUME NEW p \in Products, NEW q \in Nat
      PROVE  \E row \in CartRow : row = WithQuantity(m, p, q) /\ row.status = m.status
  <2>1. WithQuantity(m, p, q) \in CartRow /\ WithQuantity(m, p, q).status = m.status
    BY RowTypes
  <2> QED BY <2>1
<1>6. \E row \in CartRow :
        /\ Remember(c, row)
        /\ IF call[c].op = "convert" THEN row.items = m.items
                                     ELSE row.status \in {m.status, "abandoned"}
  <2>1. CASE AddItem(c)
    <3>1. call[c].product \in Products
      BY <1>1, <2>1 DEF AddItem, At, CallSound
    <3>2. Remember(c, WithQuantity(m, call[c].product, m.items[call[c].product] + n))
      BY <1>2, <1>3, <2>1 DEF AddItem
    <3>3. PICK row \in CartRow : Remember(c, row) /\ row.status = m.status
      BY <1>4, <1>5, <3>1, <3>2
    <3> QED BY <2>1, <3>3 DEF AddItem, At
  <2>2. CASE UpdateItem(c)
    <3>1. call[c].product \in Products
      BY <1>1, <2>2 DEF UpdateItem, At, CallSound
    <3>2. Remember(c, WithQuantity(m, call[c].product, n))
      BY <1>2, <1>3, <2>2 DEF UpdateItem
    <3>3. PICK row \in CartRow : Remember(c, row) /\ row.status = m.status
      BY <1>3, <1>5, <3>1, <3>2
    <3> QED BY <2>2, <3>3 DEF UpdateItem, At
  <2>3. CASE RemoveItem(c)
    <3>1. call[c].product \in Products
      BY <1>1, <2>3 DEF RemoveItem, At, CallSound
    <3>2. PICK rest \in CartRow :
            rest = WithQuantity(m, call[c].product, 0) /\ rest.status = m.status
      BY <1>5, <3>1
    <3>3. \/ Remember(c, rest) \/ Remember(c, Abandoned(rest))
      BY <1>2, <2>3, <3>2 DEF RemoveItem
    <3> QED BY <2>3, <3>2, <3>3, RowTypes DEF RemoveItem, At
  <2>4. CASE ClearCart(c)
    <3>1. Remember(c, [Abandoned(m) EXCEPT !.items = EmptyBasket])
      BY <1>2, <2>4 DEF ClearCart
    <3> QED BY <2>4, <3>1, RowTypes DEF ClearCart, At
  <2>5. CASE MarkAsConverted(c)
    <3>1. Remember(c, [m EXCEPT !.status = "converted"])
      BY <1>2, <2>5 DEF MarkAsConverted
    <3> QED BY <2>5, <3>1, RowTypes DEF MarkAsConverted, At
  <2> QED BY <2>1, <2>2, <2>3, <2>4, <2>5
<1> QED BY <1>1, <1>2, <1>6, WorkSteps

\* The carts are expired, looked up, created, read and worked on in transactions
\* of their own, while R waits.
LEMMA CartWorkSound ==
  ASSUME BInv, NEW m \in Calls, FindCart(m) \/ ChangeCart(m) \/ ConvertCart(m)
  PROVE  BInv'
<1>1. /\ turn = m /\ call \in [Calls -> CallState] /\ call[m] \in CallState
      /\ TaskSound(m) /\ OrderSound(m) /\ MsgSound(m) /\ InHandIsOpen(m) /\ CallSound(m)
      /\ cart \in [Carts -> CartRow] /\ msg[m].pc \in Tasks \cup {"convert"}
      /\ CInv
  BY DEF BInv, MsgSound, FindCart, ChangeCart, ConvertCart, InCart, BeforeTurn, Tasks,
         CInv, CartTypeOK
<1>2. CallStep(m) /\ UNCHANGED botVars
  BY DEF FindCart, ChangeCart, ConvertCart, CallStep
<1>3. CInv' /\ BotTypeOK'
  BY <1>1, <1>2, CallStepSound DEF BInv, BotTypeOK, botVars
<1>4. \A d \in Calls \ {m} : msg'[d] = msg[d] /\ call'[d] = call[d]
  BY <1>1, <1>2, OthersUntouched DEF botVars
<1>5. TaskSound(m)'
  <2>1. CASE FindCart(m)
    <3>1. /\ call'[m].op = call[m].op /\ call[m].pc \in {"expire", "create"}
          /\ call'[m].pc \in {"expire", "create", "read", "engine"}
          /\ call'[m].pc = "engine" => call[m].op = "add"
      BY <1>1, <2>1, LookUpSteps DEF FindCart, CInv
    <3> QED BY <1>1, <1>2, <3>1 DEF TaskSound, botVars, Tasks
  <2>2. CASE ChangeCart(m)
    <3>1. CASE AddItem(m) \/ RemoveItem(m) \/ ClearCart(m)
      <4>1. call'[m].op = call[m].op /\ msg[m].pc \in {"add", "remove", "clear"}
        BY <1>1, <3>1, EngineSteps DEF TaskSound, Tasks, AddItem, RemoveItem, ClearCart, At
      <4> QED BY <1>1, <1>2, <4>1 DEF TaskSound, botVars, Tasks
    <3>2. CASE ReadCart(m) \/ SaveCompares(m)
      <4>1. /\ call'[m].op = call[m].op
            /\ \/ call[m].pc = "read" /\ msg[m].pc \in {"remove", "clear"}
               \/ call[m].pc = "compare" /\ call'[m].pc = "write"
        BY <1>1, <2>2, <3>2, WorkSteps DEF ChangeCart, Found, AddItem, RemoveItem, ClearCart,
                                           At, CInv, ReadCart, SaveCompares
      <4> QED BY <1>1, <1>2, <4>1 DEF TaskSound, botVars, Tasks
    <3> QED BY <2>2, <3>1, <3>2 DEF ChangeCart
  <2>3. CASE ConvertCart(m)
    <3>1. /\ call'[m].op = call[m].op /\ msg[m].pc = "convert"
          /\ call'[m].pc \in {"engine", "compare"}
      BY <1>1, <2>3, WorkSteps, EngineSteps DEF ConvertCart, CInv
    <3> QED BY <1>1, <1>2, <3>1 DEF TaskSound, botVars, Tasks
  <2> QED BY <2>1, <2>2, <2>3
<1>6. OrderSound(m)'
  <2>1. msg[m].pc = "convert" => UNCHANGED stock
    BY <1>1 DEF TaskSound, FindCart, ExpireOld, FindActiveCart, CreateCart,
                ChangeCart, AddItem, Found, ReadCart, RemoveItem, ClearCart, SaveCompares,
                ConvertCart, MarkAsConverted, At
  <2>2. msg[m].order # NoOrder => msg[m].pc = "convert"
    BY <1>1 DEF OrderSound, Placing, Tasks
  <2> QED BY <1>1, <1>2, <2>1, <2>2 DEF OrderSound, botVars
<1>7. InHandIsOpen(m)'
  <2>1. CASE \E k \in Carts : ExpireOld(m, k)
    <3>1. call'[m].cart = call[m].cart /\ call[m].cart \notin Carts
      BY <1>1, <2>1, LookUpSteps DEF CInv, CallSound, InHandPc
    <3> QED BY <3>1 DEF InHandIsOpen
  <2>2. CASE FindActiveCart(m)
    <3>1. UNCHANGED cart /\ (call'[m].cart = call[m].cart \/ call'[m].cart \in ActiveCarts)
      BY <1>1, <2>2, LookUpSteps DEF FindActiveCart, CInv
    <3> QED BY <1>1, <3>1 DEF ActiveCarts, InHandIsOpen
  <2>3. CASE \E k \in Carts : CreateCart(m, k)
    <3>1. PICK k \in Carts : CreateCart(m, k)
      BY <2>3
    <3>2. call'[m].cart = k /\ cart'[k] = NewCartRow
      BY <1>1, <3>1, LookUpSteps DEF CreateCart, CInv
    <3> QED BY <3>2 DEF NewCartRow, NoCartRow, InHandIsOpen
  <2>4. CASE ReadCart(m) \/ AddItem(m) \/ RemoveItem(m) \/ ClearCart(m) \/ SaveCompares(m)
             \/ MarkAsConverted(m)
    <3>1. call'[m].cart = call[m].cart /\ UNCHANGED cart
      BY <1>1, <2>4, WorkSteps, EngineSteps DEF ReadCart, SaveCompares, CInv
    <3> QED BY <1>1, <3>1 DEF InHandIsOpen
  <2> QED BY <2>1, <2>2, <2>3, <2>4 DEF FindCart, ChangeCart, ConvertCart
<1>8. MsgSound(m)'
  BY <1>1, <1>2, <1>5, <1>6 DEF MsgSound, botVars
<1> QED BY <1>1, <1>2, <1>3, <1>4, <1>7, <1>8, TurnMoves DEF botVars

\* A task ends with what it found.
LEMMA TaskOverSound ==
  ASSUME BInv, NEW m \in Calls,
         ShowCart(m) \/ StartCheckout(m) \/ NothingToRemove(m) \/ NothingToCheckOut(m)
  PROVE  BInv'
<1>1. /\ msg[m].pc \in Tasks /\ call[m].pc = "read" /\ DropCall(m)
      /\ msg[m].ctx \in Context /\ turn = m
      /\ call \in [Calls -> CallState] /\ order \in [Orders -> OrderRow]
  BY MessageFields DEF ShowCart, StartCheckout, NothingToRemove, NothingToCheckOut, Found,
                       Tasks, BInv, MsgSound, BeforeTurn, CInv, CartTypeOK, BotTypeOK
<1>2. [WithCheckout(msg[m].ctx, "ask_fulfillment", "none") EXCEPT !.state = "collecting_order"]
        \in Context
  BY <1>1, Replies DEF Stages
<1>3. PICK ctx \in Context : Commit(m, ctx)
  BY <1>1, <1>2, Replies DEF ShowCart, StartCheckout, NothingToRemove, NothingToCheckOut
<1>4. CInv'
  BY <1>1, DropSound, BooksUntouched
     DEF DropCall, BInv, CInv, CartTypeOK, EngineTypeOK
<1>5. call'[m] = NoCall /\ \A d \in Calls \ {m} : call'[d] = call[d]
  BY <1>1 DEF DropCall
<1> QED BY <1>1, <1>3, <1>4, <1>5, CommitSound DEF DropCall

\* The save ends the task, and so does an error that the handler catches.
LEMMA TaskEndsSound ==
  ASSUME BInv, NEW m \in Calls, SaveCart(m) \/ TaskFails(m)
  PROVE  BInv'
<1>1. /\ msg[m].ctx \in Context /\ CInv /\ MsgSound(m)
      /\ call \in [Calls -> CallState] /\ order \in [Orders -> OrderRow]
      /\ Commit(m, msg[m].ctx) /\ UNCHANGED <<order, waiting>>
      /\ SaveWrites(m) \/ FailCall(m)
  BY MessageFields DEF BInv, CInv, CartTypeOK, BotTypeOK, SaveCart, TaskFails
<1>2. turn = m
  <2>1. call[m].pc # "idle" /\ NoCall.pc = "idle"
    BY <1>1 DEF SaveWrites, FailCall, NoCall
  <2>2. msg[m].pc \in Tasks \cup {"pay", "convert"}
    BY <1>1, <2>1 DEF MsgSound, TaskSound
  <2> QED BY <1>1, <2>2 DEF MsgSound, BeforeTurn, Tasks
<1>3. CInv'
  BY <1>1, CallStepSound DEF CallStep
<1>4. call'[m] = NoCall /\ \A d \in Calls \ {m} : call'[d] = call[d]
  BY <1>1 DEF SaveWrites, FailCall
<1> QED BY <1>1, <1>2, <1>3, <1>4, CommitSound

-----------------------------------------------------------------------------
(* Orders *)

\* The latest order is one of the orders.
LEMMA LatestIsPlaced == Placed # {} => Max(Placed) \in Placed /\ \A o \in Placed : o <= Max(Placed)
<1> SUFFICES ASSUME Placed # {}
             PROVE  \E x \in Placed : \A y \in Placed : x >= y
  BY DEF Max, Placed, CheckoutAssumption
<1>1. IsFiniteSet(Orders) /\ Orders \subseteq Nat /\ Placed \subseteq Orders
  BY CheckoutAssumption DEF Placed
<1>2. PICK B : B = {{y \in Placed : y >= x} : x \in Placed}
  OBVIOUS
<1>3. B \in SUBSET (SUBSET Orders) /\ B # {}
  BY <1>1, <1>2
<1>4. \E T \in B : \A U \in B : U \subseteq T => U = T
  <2>1. IsFiniteSet(Orders)
    BY <1>1
  <2>2. B \in SUBSET (SUBSET Orders)
    BY <1>3
  <2>3. B # {}
    BY <1>3
  <2> QED BY ONLY <2>1, <2>2, <2>3, SmallestSubset
<1>5. PICK T \in B : \A U \in B : U \subseteq T => U = T
  BY <1>4
<1>6. PICK x \in Placed : T = {y \in Placed : y >= x}
  BY <1>2, <1>5
<1>7. ASSUME NEW y \in Placed PROVE x >= y
  <2> SUFFICES ASSUME ~(x >= y) PROVE FALSE
    OBVIOUS
  <2>1. x \in Nat /\ y \in Nat
    BY <1>1
  <2>2. PICK U \in B : U = {z \in Placed : z >= y}
    BY <1>2
  <2>3. U \subseteq T
    <3> SUFFICES ASSUME NEW z \in U PROVE z \in T
      OBVIOUS
    <3>1. z \in Placed /\ z >= y /\ z \in Nat
      BY <1>1, <2>2
    <3>2. z >= x
      BY <2>1, <3>1
    <3> QED BY <1>6, <3>1, <3>2
  <2>4. x \in T /\ x \notin U
    BY <1>6, <2>1, <2>2
  <2> QED BY <1>5, <2>3, <2>4
<1> QED BY <1>7

\* What a step leaves of the books.
LEMMA BooksTyped ==
  ASSUME CInv, UNCHANGED ledger, stock' \in [Products -> StockRow]
  PROVE  EngineTypeOK'
BY BooksUntouched DEF CInv, CartTypeOK, EngineTypeOK

\* The customer cancels: units go back while nobody has an order of their own.
LEMMA HandleCancelOrderSound ==
  ASSUME BInv, NEW m \in Calls, HandleCancelOrder(m)
  PROVE  BInv'
<1>1. PICK o \in Placed : o = Max(Placed)
  BY LatestIsPlaced DEF HandleCancelOrder, LastIsPending
<1>2. /\ o \in Orders /\ order \in [Orders -> OrderRow] /\ CInv
      /\ turn = m /\ call[m] = NoCall
      /\ late \subseteq Carts /\ cartSweep \in [CartSweepers -> SUBSET Carts]
  BY DEF Placed, BInv, BotTypeOK, HandleCancelOrder, Free, InCheckout, MsgSound, TaskSound,
         BeforeTurn, Tasks, CInv, CartTypeOK
<1>3. PICK items \in Basket : items = order[o].items
  BY <1>2 DEF OrderRow
<1>4. /\ order' = [order EXCEPT ![o].status = "cancelado"]
      /\ stock' = Released(stock, items) /\ Commit(m, Base(m))
      /\ UNCHANGED <<ledger, cart, late, call, cartSweep, share, torn, waiting>>
  BY <1>1, <1>3 DEF HandleCancelOrder
<1>5. order' \in [Orders -> OrderRow]
  BY <1>2, <1>4 DEF OrderRow
<1>6. CInv'
  BY <1>2, <1>4, ReleaseTyped, BooksTyped, AroundSound
<1>7. Base(m) \in Context
  BY MessageFields DEF BInv
<1> QED BY <1>2, <1>4, <1>5, <1>6, <1>7, CommitSound

\* orders.create reserves what it writes down.
LEMMA PlaceOrderSound ==
  ASSUME BInv, NEW m \in Calls, NEW o \in Orders, PlaceOrder(m, o)
  PROVE  BInv'
<1>1. /\ order \in [Orders -> OrderRow] /\ CInv /\ msg \in [Calls -> MessageState]
      /\ msg[m] \in MessageState /\ MsgSound(m) /\ InHandIsOpen(m)
      /\ turn = m /\ call[m] \in CallState /\ call[m].cart \in Carts \cup {NoCart}
      /\ stock \in [Products -> StockRow]
      /\ late \subseteq Carts /\ cartSweep \in [CartSweepers -> SUBSET Carts]
  BY CallFields DEF BInv, BotTypeOK, PlaceOrder, Found, MsgSound, BeforeTurn,
                    CInv, CartTypeOK, EngineTypeOK
<1>2. PICK items \in Basket : items = call[m].mem.items
  BY CallFields DEF BInv, CInv
<1>3. PICK row : row = [status |-> "pendente_pagamento", cart |-> call[m].cart,
                        items |-> items, payment |-> "none"]
  OBVIOUS
<1>4. PICK new : new = [msg[m] EXCEPT !.pc = "pay", !.order = o]
  OBVIOUS
<1>5. /\ CanReserve(items) /\ stock' = Reserved(stock, items)
      /\ order' = [order EXCEPT ![o] = row] /\ msg' = [msg EXCEPT ![m] = new]
      /\ UNCHANGED <<ledger, cart, late, call, cartSweep, share, torn, conv, turn, waiting>>
      /\ msg[m].pc = "checkout" /\ call[m].pc = "read"
  BY <1>1, <1>2, <1>3, <1>4 DEF PlaceOrder, Found
<1>6. /\ new \in MessageState /\ new.pc = "pay" /\ new.order = o
      /\ new.word = msg[m].word /\ new.product = msg[m].product
  BY <1>1, <1>4 DEF MessageState
<1>7. row \in OrderRow /\ row.status = "pendente_pagamento" /\ row.items = items
  BY <1>1, <1>3 DEF OrderRow
<1>8. stock' \in [Products -> StockRow]
  BY <1>1, <1>5, ReserveTyped
<1>9. CInv'
  BY <1>1, <1>5, <1>8, BooksTyped, AroundSound
<1>10. BotTypeOK'
  BY <1>5, <1>6, <1>7 DEF BInv, BotTypeOK
<1>11. /\ msg'[m] = new /\ order'[o] = row
       /\ \A d \in Calls \ {m} : msg'[d] = msg[d] /\ call'[d] = call[d]
  BY <1>1, <1>5
<1>12. ASSUME NEW p \in Products PROVE items[p] <= stock'[p].reserved
  <2>1. stock'[p].reserved = stock[p].reserved + items[p]
    BY <1>1, <1>5 DEF Reserved, StockRow
  <2>2. stock[p].reserved \in Nat /\ items[p] \in Nat
    BY <1>1 DEF StockRow, Basket
  <2> QED BY <2>1, <2>2
<1>13. OrderSound(m)'
  BY <1>6, <1>7, <1>11, <1>12, EngineAssumption DEF OrderSound, Placing
<1>14. TaskSound(m)'
  BY <1>1, <1>5, <1>6, <1>11 DEF TaskSound, MsgSound, Tasks
<1>15. MsgSound(m)' /\ InHandIsOpen(m)'
  BY <1>1, <1>5, <1>6, <1>11, <1>13, <1>14 DEF MsgSound, InHandIsOpen, BeforeTurn
<1> QED BY <1>1, <1>5, <1>9, <1>10, <1>11, <1>15, TurnMoves

\* The payment is created, or its failure noted on the order.
LEMMA CreatePaymentSound ==
  ASSUME BInv, NEW m \in Calls, CreatePayment(m)
  PROVE  BInv'
<1>1. /\ order \in [Orders -> OrderRow] /\ CInv /\ msg \in [Calls -> MessageState]
      /\ msg[m] \in MessageState /\ MsgSound(m) /\ InHandIsOpen(m)
      /\ turn = m /\ msg[m].pc = "pay"
      /\ late \subseteq Carts /\ cartSweep \in [CartSweepers -> SUBSET Carts]
  BY DEF BInv, BotTypeOK, CreatePayment, MsgSound, BeforeTurn, CInv, CartTypeOK
<1>2. PICK o \in Orders : o = msg[m].order
  BY <1>1 DEF MsgSound, OrderSound, Placing, MessageState
<1>3. PICK outcome \in {"pix", "issue"} : order' = [order EXCEPT ![o].payment = outcome]
  BY <1>2 DEF CreatePayment
<1>4. PICK new : new = [msg[m] EXCEPT !.pc = "convert"]
  OBVIOUS
<1>5. /\ msg' = [msg EXCEPT ![m] = new] /\ UNCHANGED <<cartVars, conv, turn, waiting>>
  BY <1>1, <1>4 DEF CreatePayment
<1>6. /\ new \in MessageState /\ new.pc = "convert" /\ new.order = o
      /\ new.word = msg[m].word /\ new.product = msg[m].product
  BY <1>1, <1>2, <1>4 DEF MessageState
<1>7. order[o] \in OrderRow
  BY <1>1
<1>8. PICK row : row = [order[o] EXCEPT !.payment = outcome]
  OBVIOUS
<1>9. /\ row \in OrderRow /\ row.status = order[o].status /\ row.items = order[o].items
  BY <1>7, <1>8 DEF OrderRow
<1>10. order' = [order EXCEPT ![o] = row]
  BY <1>1, <1>3, <1>8
<1>11. CInv'
  BY <1>1, <1>5, OutsideSound DEF cartVars
<1>12. BotTypeOK'
  BY <1>5, <1>6, <1>9, <1>10 DEF BInv, BotTypeOK
<1>13. /\ msg'[m] = new /\ order'[o] = row /\ UNCHANGED <<stock, call, cart>>
       /\ \A d \in Calls \ {m} : msg'[d] = msg[d] /\ call'[d] = call[d]
  BY <1>1, <1>5, <1>10 DEF cartVars
<1>14. OrderSound(m)' /\ TaskSound(m)'
  BY <1>1, <1>2, <1>6, <1>9, <1>13 DEF MsgSound, TaskSound, OrderSound, Placing, Tasks
<1>15. MsgSound(m)' /\ InHandIsOpen(m)'
  BY <1>1, <1>5, <1>6, <1>13, <1>14 DEF MsgSound, InHandIsOpen, BeforeTurn
<1> QED BY <1>1, <1>5, <1>11, <1>12, <1>13, <1>15, TurnMoves

\* The cart of the order is saved as converted.
LEMMA CartIsConvertedSound ==
  ASSUME BInv, NEW m \in Calls, CartIsConverted(m)
  PROVE  BInv'
<1>1. /\ CInv /\ msg \in [Calls -> MessageState] /\ call \in [Calls -> CallState]
      /\ msg[m] \in MessageState /\ MsgSound(m) /\ turn = m
  BY DEF BInv, BotTypeOK, CartIsConverted, MsgSound, BeforeTurn, CInv, CartTypeOK
<1>2. PICK new : new = [msg[m] EXCEPT !.pc = "end"]
  OBVIOUS
<1>3. /\ msg[m].pc = "convert" /\ SaveWrites(m) /\ msg' = [msg EXCEPT ![m] = new]
      /\ UNCHANGED <<conv, turn, order, waiting>>
  BY <1>1, <1>2 DEF CartIsConverted
<1>4. /\ new \in MessageState /\ new.pc = "end" /\ new.order = msg[m].order
      /\ new.word = msg[m].word /\ new.product = msg[m].product
  BY <1>1, <1>2 DEF MessageState
<1>5. CInv'
  BY <1>1, <1>3, CallStepSound DEF CallStep
<1>6. BotTypeOK'
  BY <1>3, <1>4 DEF BInv, BotTypeOK
<1>7. /\ msg'[m] = new /\ call'[m] = NoCall /\ UNCHANGED stock
      /\ \A d \in Calls \ {m} : msg'[d] = msg[d] /\ call'[d] = call[d]
  BY <1>1, <1>3 DEF SaveWrites
<1>8. OrderSound(m)' /\ TaskSound(m)'
  BY <1>1, <1>3, <1>4, <1>7 DEF MsgSound, TaskSound, OrderSound, Placing, Tasks
<1>9. MsgSound(m)' /\ InHandIsOpen(m)'
  BY <1>1, <1>3, <1>4, <1>7, <1>8, CartAssumption
     DEF MsgSound, InHandIsOpen, BeforeTurn, NoCall
<1> QED BY <1>1, <1>3, <1>5, <1>6, <1>7, <1>9, TurnMoves

\* R is rolled back: its order was reserved in full, and is taken back in full.
LEMMA RollBackSound ==
  ASSUME BInv, NEW m \in Calls, RollBack(m)
  PROVE  BInv'
<1>1. /\ CInv /\ msg \in [Calls -> MessageState] /\ call \in [Calls -> CallState]
      /\ MsgSound(m) /\ order \in [Orders -> OrderRow] /\ stock \in [Products -> StockRow]
      /\ turn \in Calls \cup {NoMessage}
  BY DEF BInv, BotTypeOK, CInv, CartTypeOK, EngineTypeOK
<1>2. CASE turn # m
  <2>1. call[m] = NoCall /\ msg[m].order = NoOrder
    BY <1>2, OthersWait
  <2>2. /\ UNCHANGED <<order, stock, ledger, cart, late, cartSweep, conv, waiting, share, torn>>
        /\ msg' = [msg EXCEPT ![m] = NoMsg] /\ turn' = turn
        /\ call' = [call EXCEPT ![m] = NoCall]
    BY <1>2, <2>1 DEF RollBack, NoCall
  <2>3. UNCHANGED cartVars
    BY <1>1, <2>1, <2>2 DEF cartVars
  <2>4. conv' \in Context
    BY <2>2 DEF BInv, BotTypeOK
  <2> QED BY <1>2, <2>2, <2>3, <2>4, NoMsgType, MessageMoves DEF BeforeTurn
<1>3. CASE turn = m
  <2>1. PICK o : o = msg[m].order
    OBVIOUS
  <2>2. /\ msg' = [msg EXCEPT ![m] = NoMsg] /\ turn' = NoMessage
        /\ call' = [call EXCEPT ![m] = NoCall]
        /\ UNCHANGED <<ledger, cart, late, cartSweep, conv, waiting>>
    BY <1>3 DEF RollBack
  <2>3. /\ order' \in [Orders -> OrderRow] /\ stock' \in [Products -> StockRow]
    <3>1. CASE o = NoOrder
      <4>1. UNCHANGED <<order, stock>>
        BY <2>1, <3>1 DEF RollBack
      <4> QED BY <1>1, <4>1 DEF CInv
    <3>2. CASE o # NoOrder
      <4>1. o \in Orders
        BY <1>1, <2>1, <3>2 DEF MessageState
      <4>2. PICK items \in Basket : items = order[o].items
        BY <1>1, <4>1 DEF OrderRow
      <4>3. /\ order' = [order EXCEPT ![o] = NoOrderRow]
            /\ stock' = [p \in Products |-> [stock[p] EXCEPT !.reserved = @ - items[p]]]
        BY <2>1, <3>2, <4>2 DEF RollBack
      <4>4. NoOrderRow \in OrderRow
        BY CartConstants DEF NoOrderRow, OrderRow
      <4>5. ASSUME NEW p \in Products PROVE stock'[p] \in StockRow
        <5>1. stock[p] \in StockRow /\ items[p] \in Nat /\ items[p] <= stock[p].reserved
          BY <1>1, <2>1, <3>2, <4>2 DEF MsgSound, OrderSound, Basket, CInv
        <5>2. stock'[p] = [stock[p] EXCEPT !.reserved = stock[p].reserved - items[p]]
          BY <4>3
        <5> QED BY <5>1, <5>2 DEF StockRow
      <4>6. stock' \in [Products -> StockRow]
        <5>1. \A p \in Products : [stock[p] EXCEPT !.reserved = @ - items[p]] \in StockRow
          BY <4>3, <4>5
        <5> QED BY <4>3, <5>1
      <4> QED BY <1>1, <4>3, <4>4, <4>6
    <3> QED BY <3>1, <3>2
  <2>4. CInv'
    BY <1>1, <2>2, <2>3, BooksTyped, DropSound DEF RollBack
  <2>5. Commit(m, conv) /\ conv \in Context
    BY <2>2 DEF Commit, BInv, BotTypeOK
  <2>6. call'[m] = NoCall /\ \A d \in Calls \ {m} : call'[d] = call[d]
    BY <1>1, <2>2
  <2> QED BY <1>3, <2>2, <2>3, <2>4, <2>5, <2>6, CommitSound
<1> QED BY <1>2, <1>3

-----------------------------------------------------------------------------
(* The sweeper and time *)

\* The messages stay sound when carts expire under them: a cart never becomes
\* converted by that, and the stock a message has locked does not move.
LEMMA AroundMessages ==
  ASSUME BInv, CInv', BotTypeOK', UNCHANGED <<call, msg, turn, order>>,
         \A k \in Carts : cart'[k].status = "converted" => cart[k].status = "converted",
         \A m \in Calls : OrderSound(m)'
  PROVE  BInv'
<1>1. ASSUME NEW m \in Calls PROVE MsgSound(m)' /\ InHandIsOpen(m)'
  <2>1. MsgSound(m) /\ InHandIsOpen(m)
    BY DEF BInv
  <2>2. TaskSound(m)' /\ InHandIsOpen(m)'
    BY <2>1 DEF MsgSound, TaskSound, InHandIsOpen
  <2> QED BY <2>1, <2>2 DEF MsgSound
<1> QED BY <1>1 DEF BInv

\* A tick sweeps a cart only when no order that is still in R has its units.
LEMMA SweepsSound ==
  ASSUME BInv, NEW s \in CartSweepers, NEW k \in Carts, Sweeps(s, k)
  PROVE  BInv'
<1>1. /\ CInv /\ cart \in [Carts -> CartRow] /\ stock \in [Products -> StockRow]
      /\ order \in [Orders -> OrderRow] /\ waiting \in [CartSweepers -> Carts \cup {NoCart}]
  BY DEF BInv, BotTypeOK, CInv, CartTypeOK, EngineTypeOK
<1>2. /\ SweepCart(s, k) /\ UNCHANGED <<conv, turn, msg, order, call>> /\ ~Blocked(k)
      /\ waiting' = [waiting EXCEPT ![s] = NoCart] /\ ReleaseExpiredCart(k)
  BY DEF Sweeps, SweepCart
<1>3. CInv'
  BY <1>1, <1>2, CartSweepStepSound DEF CartSweepStep
<1>4. BotTypeOK'
  BY <1>1, <1>2 DEF BInv, BotTypeOK
<1>5. \A j \in Carts : cart'[j].status = "converted" => cart[j].status = "converted"
  <2> SUFFICES ASSUME NEW j \in Carts, cart'[j].status = "converted"
               PROVE  cart[j].status = "converted"
    OBVIOUS
  <2>1. CASE UNCHANGED cart
    BY <2>1
  <2>2. CASE cart' = [cart EXCEPT ![k].status = "expired", ![k].released = TRUE]
    BY <1>1, <2>2 DEF CartRow
  <2> QED BY <1>2, <2>1, <2>2 DEF ReleaseExpiredCart
<1>6. ASSUME NEW m \in Calls PROVE OrderSound(m)'
  <2>1. OrderSound(m)
    BY DEF BInv, MsgSound
  <2>2. ASSUME msg[m].order # NoOrder, NEW p \in Products
        PROVE  order[msg[m].order].items[p] <= stock'[p].reserved
    <3>1. PICK o \in Orders : o = msg[m].order
      BY <2>2 DEF BInv, BotTypeOK, MessageState
    <3>2. order[o].items[p] \in Nat /\ order[o].items[p] <= stock[p].reserved
      BY <1>1, <2>1, <2>2, <3>1 DEF OrderSound, OrderRow, Basket
    <3>3. CASE order[o].items[p] = 0
      BY <1>3, <3>1, <3>3 DEF CInv, CartTypeOK, EngineTypeOK, StockRow
    <3>4. CASE order[o].items[p] > 0
      <4>1. StockLocked(p)
        BY <3>1, <3>4 DEF StockLocked, Uncommitted
      <4>2. CASE cart[k].status = "active" /\ ~cart[k].released
        <5>1. cart[k].items[p] = 0
          BY <1>1, <1>2, <4>1, <4>2 DEF Blocked, CartRow, Basket
        <5>2. stock'[p].reserved = Greatest0(stock[p].reserved - cart[k].items[p])
          BY <1>1, <1>2, <4>2 DEF ReleaseExpiredCart, Released, StockRow
        <5>3. stock[p].reserved \in Nat
          BY <1>1 DEF StockRow
        <5> QED BY <3>1, <3>2, <5>1, <5>2, <5>3 DEF Greatest0
      <4>3. CASE ~(cart[k].status = "active" /\ ~cart[k].released)
        BY <1>2, <3>1, <3>2, <4>3 DEF ReleaseExpiredCart
      <4> QED BY <4>2, <4>3
    <3> QED BY <3>2, <3>3, <3>4
  <2> QED BY <1>2, <2>1, <2>2 DEF OrderSound
<1> QED BY <1>2, <1>3, <1>4, <1>5, <1>6, AroundMessages

\* The rest of a tick, and time, leave carts and orders alone.
LEMMA QuietStepSound ==
  ASSUME BInv,
         \/ \E s \in CartSweepers : SweepLists(s)
         \/ \E s \in CartSweepers, k \in Carts : SweepWaits(s, k) \/ SweepFails(s, k)
         \/ \E k \in Carts : TtlPasses(k)
         \/ ProposalAges \/ Silence
         \/ UNCHANGED checkoutVars
  PROVE  BInv'
<1>1. /\ CInv /\ conv \in Context /\ waiting \in [CartSweepers -> Carts \cup {NoCart}]
      /\ late \subseteq Carts /\ cartSweep \in [CartSweepers -> SUBSET Carts]
  BY DEF BInv, BotTypeOK, CInv, CartTypeOK
<1>2. UNCHANGED <<stock, ledger, cart, call, share, torn, msg, turn, order>>
  BY DEF SweepLists, ListExpiredCarts, SweepWaits, SweepFails, SweepCartFails, TtlPasses,
         CartTtlPasses, ProposalAges, Silence, checkoutVars, cartVars, botVars
<1>3. late' \subseteq Carts /\ cartSweep' \in [CartSweepers -> SUBSET Carts]
  <2>1. ASSUME NEW s \in CartSweepers, SweepLists(s)
        PROVE  late' \subseteq Carts /\ cartSweep' \in [CartSweepers -> SUBSET Carts]
    BY <1>1, <2>1 DEF SweepLists, ListExpiredCarts, OverdueCarts
  <2> QED BY <1>1, <2>1 DEF SweepWaits, SweepFails, SweepCartFails, TtlPasses,
                  CartTtlPasses, ProposalAges, Silence, checkoutVars, cartVars
<1>4. conv' \in Context
  <2>1. CASE Silence
    BY <1>1, <2>1, ContextTypes DEF Silence
  <2>2. CASE ProposalAges
    BY <1>1, <2>2, ContextTypes DEF ProposalAges
  <2>3. CASE UNCHANGED conv
    BY <1>1, <2>3
  <2> QED BY <2>1, <2>2, <2>3 DEF SweepLists, SweepWaits, SweepFails, TtlPasses, checkoutVars, botVars
<1>5. waiting' \in [CartSweepers -> Carts \cup {NoCart}]
  BY <1>1 DEF SweepLists, SweepWaits, SweepFails, TtlPasses, ProposalAges, Silence,
              checkoutVars, botVars
<1>6. CInv'
  BY <1>1, <1>2, <1>3, OutsideSound
<1>7. BotTypeOK'
  BY <1>2, <1>4, <1>5 DEF BInv, BotTypeOK
<1>8. ASSUME NEW m \in Calls PROVE OrderSound(m)'
  BY <1>2 DEF BInv, MsgSound, OrderSound
<1> QED BY <1>2, <1>6, <1>7, <1>8, AroundMessages

-----------------------------------------------------------------------------
(* The inductive invariant *)

\* Nothing has happened: no message, no order, an empty conversation.
LEMMA CheckoutInitSound == CheckoutInit => BInv
<1> SUFFICES ASSUME CheckoutInit PROVE BInv
  OBVIOUS
<1>1. CInv
  BY CartInitSound DEF CheckoutInit
<1>2. NoOrderRow \in OrderRow
  BY CartConstants DEF NoOrderRow, OrderRow
<1>3. BotTypeOK
  BY <1>2, ContextTypes, NoMsgType DEF CheckoutInit, BotTypeOK
<1>4. ASSUME NEW m \in Calls PROVE MsgSound(m) /\ InHandIsOpen(m)
  <2>1. msg[m] = NoMsg /\ call[m] = NoCall /\ turn # m
    BY CheckoutAssumption DEF CheckoutInit, CartInit
  <2> QED BY <2>1, NoMsgType, CartAssumption
          DEF MsgSound, TaskSound, OrderSound, InHandIsOpen, BeforeTurn, Placing, Tasks, NoCall
<1> QED BY <1>1, <1>3, <1>4 DEF BInv

\* Every step of the bot, the sweeper and time keeps the invariant.
LEMMA CheckoutNextSound == BInv /\ [CheckoutNext]_checkoutVars => BInv'
<1> SUFFICES ASSUME BInv, [CheckoutNext]_checkoutVars PROVE BInv'
  OBVIOUS
<1>1. CASE \E m \in Calls, in \in Inputs(conv) : Receive(m, in)
  BY <1>1, ReceiveSound
<1>2. ASSUME NEW m \in Calls, HandleMessage(m) \/ TaskFails(m) \/ RollBack(m) PROVE BInv'
  <2>1. CASE ResetConversation(m) \/ CompareConversation(m) \/ TakeTurn(m)
    BY <2>1, TurnSound
  <2>2. CASE \/ CancelCheckout(m) \/ AskFulfillment(m) \/ CollectName(m)
             \/ CollectPhone(m) \/ CollectAddress(m) \/ ConfirmAddress(m)
             \/ SelectPickupSlot(m) \/ AnswerProposal(m) \/ ProposeCartAdd(m)
             \/ HandleCart(m) \/ Answer(m) \/ EndCheckout(m)
    BY <2>2, HandlerSound
  <2>3. CASE FindCart(m) \/ ChangeCart(m) \/ ConvertCart(m)
    BY <2>3, CartWorkSound
  <2>4. CASE ShowCart(m) \/ StartCheckout(m) \/ NothingToRemove(m) \/ NothingToCheckOut(m)
    BY <2>4, TaskOverSound
  <2>5. CASE SaveCart(m) \/ TaskFails(m) \/ RefuseTask(m)
    BY <2>5, TaskEndsSound DEF RefuseTask
  <2>6. CASE HandleCancelOrder(m)
    BY <2>6, HandleCancelOrderSound
  <2>7. CASE \E o \in Orders : PlaceOrder(m, o)
    BY <2>7, PlaceOrderSound
  <2>8. CASE CreatePayment(m)
    BY <2>8, CreatePaymentSound
  <2>9. CASE CartIsConverted(m)
    BY <2>9, CartIsConvertedSound
  <2>10. CASE RollBack(m)
    BY <2>10, RollBackSound
  <2> QED BY <1>2, <2>1, <2>2, <2>3, <2>4, <2>5, <2>6, <2>7, <2>8, <2>9, <2>10 DEF HandleMessage
<1>3. CASE \E s \in CartSweepers, k \in Carts : Sweeps(s, k)
  BY <1>3, SweepsSound
<1>4. CASE \/ \E s \in CartSweepers : SweepLists(s)
           \/ \E s \in CartSweepers, k \in Carts : SweepWaits(s, k) \/ SweepFails(s, k)
           \/ \E k \in Carts : TtlPasses(k)
           \/ ProposalAges \/ Silence
           \/ UNCHANGED checkoutVars
  BY <1>4, QuietStepSound
<1> QED BY <1>1, <1>2, <1>3, <1>4 DEF CheckoutNext, SweepStep

-----------------------------------------------------------------------------
(* Every reserved unit has a cart or an order: the counter is the sum of the *)
(* shares of the carts (CartProofs) and of what the pending orders ask for.  *)

AskedFor == [p \in Products |-> Total([o \in Orders |-> order[o].items[p]], Pending)]

AInv == BInv /\ ReservedBesides(AskedFor)

\* The orders stay as they are; the books stay, or move as they do in Cart.
OrdersStay ==
  /\ UNCHANGED order
  /\ \/ UNCHANGED <<stock, share, torn>>
     \/ \E m \in Calls : CallStep(m)
     \/ \E s \in CartSweepers : CartSweepStep(s)

OrdersMove ==
  \/ \E m \in Calls, o \in Orders : PlaceOrder(m, o)
  \/ \E m \in Calls : CreatePayment(m)
  \/ \E m \in Calls : HandleCancelOrder(m)
  \/ \E m \in Calls : RollBack(m)

\* Which steps touch the orders.
LEMMA StepKinds == ASSUME [CheckoutNext]_checkoutVars PROVE OrdersStay \/ OrdersMove
<1>1. ASSUME NEW m \in Calls,
             \/ \E in \in Inputs(conv) : Receive(m, in)
             \/ ResetConversation(m) \/ CompareConversation(m) \/ TakeTurn(m)
      PROVE  UNCHANGED <<order, stock, share, torn>>
  BY <1>1 DEF Receive, ResetConversation, CompareConversation, TakeTurn, cartVars
<1>2. ASSUME NEW m \in Calls, NEW ctx, Reply(m, ctx)
      PROVE  UNCHANGED <<order, stock, share, torn>>
  BY <1>2 DEF Reply, cartVars
<1>3. ASSUME NEW m \in Calls, NEW task, NEW op, NEW p, NEW n, NEW ctx,
             BeginTask(m, task, op, p, n, ctx)
      PROVE  UNCHANGED <<order, stock, share, torn>>
  BY <1>3 DEF BeginTask, Begin
<1>4. ASSUME NEW m \in Calls,
             \/ CancelCheckout(m) \/ AskFulfillment(m) \/ CollectName(m)
             \/ CollectPhone(m) \/ CollectAddress(m) \/ ConfirmAddress(m)
             \/ SelectPickupSlot(m) \/ AnswerProposal(m) \/ ProposeCartAdd(m)
             \/ HandleCart(m) \/ Answer(m) \/ EndCheckout(m)
      PROVE  UNCHANGED <<order, stock, share, torn>>
  BY <1>2, <1>3, <1>4
     DEF CancelCheckout, AskFulfillment, CollectName, CollectPhone, CollectAddress,
         ConfirmAddress, SelectPickupSlot, AnswerProposal, ProposeCartAdd, HandleCart, Answer,
         EndCheckout
<1>5. ASSUME NEW m \in Calls,
             ShowCart(m) \/ StartCheckout(m) \/ NothingToRemove(m) \/ NothingToCheckOut(m)
      PROVE  UNCHANGED <<order, stock, share, torn>>
  BY <1>5 DEF ShowCart, StartCheckout, NothingToRemove, NothingToCheckOut, DropCall
<1>6. ASSUME NEW m \in Calls,
             \/ FindCart(m) \/ ChangeCart(m) \/ ConvertCart(m)
             \/ SaveCart(m) \/ CartIsConverted(m) \/ TaskFails(m) \/ RefuseTask(m)
      PROVE  UNCHANGED order /\ CallStep(m)
  BY <1>6 DEF FindCart, ChangeCart, ConvertCart, SaveCart, CartIsConverted, TaskFails, RefuseTask,
              CallStep, botVars
<1>7. ASSUME NEW m \in Calls, HandleMessage(m) \/ TaskFails(m) \/ RollBack(m)
      PROVE  OrdersStay \/ OrdersMove
  BY <1>1, <1>4, <1>5, <1>6, <1>7 DEF HandleMessage, OrdersStay, OrdersMove
<1>8. ASSUME NEW s \in CartSweepers, SweepStep(s)
      PROVE  UNCHANGED order /\ (UNCHANGED <<stock, share, torn>> \/ CartSweepStep(s))
  BY <1>8 DEF SweepStep, SweepLists, SweepWaits, Sweeps, SweepFails, CartSweepStep, cartVars,
              botVars
<1>9. ASSUME \/ \E k \in Carts : TtlPasses(k)
             \/ ProposalAges \/ Silence \/ UNCHANGED checkoutVars
      PROVE  UNCHANGED <<order, stock, share, torn>>
  BY <1>9 DEF TtlPasses, CartTtlPasses, ProposalAges, Silence, checkoutVars, cartVars, botVars
<1>10. CASE \E m \in Calls, in \in Inputs(conv) : Receive(m, in)
  BY <1>1, <1>10 DEF OrdersStay
<1>11. CASE \E m \in Calls : HandleMessage(m) \/ TaskFails(m) \/ RollBack(m)
  BY <1>7, <1>11
<1>12. CASE \E s \in CartSweepers : SweepStep(s)
  BY <1>8, <1>12 DEF OrdersStay
<1>13. CASE \/ \E k \in Carts : TtlPasses(k)
            \/ ProposalAges \/ Silence \/ UNCHANGED checkoutVars
  BY <1>9, <1>13 DEF OrdersStay
<1> QED BY <1>10, <1>11, <1>12, <1>13 DEF CheckoutNext

\* What a set of orders asks for is a basket.
LEMMA AskedIsBasket ==
  ASSUME NEW rows \in [Orders -> OrderRow], NEW S \in SUBSET Orders
  PROVE  [p \in Products |-> Total([o \in Orders |-> rows[o].items[p]], S)] \in Basket
<1> SUFFICES ASSUME NEW p \in Products
             PROVE  Total([o \in Orders |-> rows[o].items[p]], S) \in Nat
  BY DEF Basket
<1>1. PICK f : f = [o \in Orders |-> rows[o].items[p]]
  OBVIOUS
<1>2. \A o \in S : f[o] \in Int /\ f[o] >= 0
  <2>1. ASSUME NEW o \in S PROVE f[o] \in Nat
    <3>1. rows[o].items \in Basket
      BY DEF OrderRow
    <3> QED BY <1>1, <3>1 DEF Basket
  <2> QED BY <2>1
<1>3. IsFiniteSet(S)
  BY CheckoutAssumption, FS_Subset
<1>4. Total(f, S) \in Int /\ Total(f, S) >= 0
  BY ONLY <1>2, <1>3, TotalType
<1> QED BY <1>1, <1>4

\* What pending orders ask for, as numbers.
LEMMA AskedForTypes ==
  ASSUME BInv
  PROVE  /\ AskedFor \in Basket
         /\ \A p \in Products, o \in Pending : order[o].items[p] \in Nat
         /\ \A o \in Pending : order[o].items \in Basket
         /\ IsFiniteSet(Pending) /\ Pending \subseteq Orders
<1>1. Pending \subseteq Orders /\ order \in [Orders -> OrderRow]
  BY DEF Pending, BInv, BotTypeOK
<1>2. IsFiniteSet(Pending)
  BY <1>1, CheckoutAssumption, FS_Subset
<1>3. \A o \in Pending : order[o].items \in Basket
  BY <1>1 DEF OrderRow
<1>4. \A p \in Products, o \in Pending : order[o].items[p] \in Nat
  BY <1>3 DEF Basket
<1>5. AskedFor \in Basket
  BY <1>1, AskedIsBasket DEF AskedFor
<1> QED BY <1>1, <1>2, <1>3, <1>4, <1>5

\* And the basket of the next state is one.
LEMMA AskedForNext ==
  ASSUME BInv'
  PROVE  AskedFor' \in Basket
<1>1. order' \in [Orders -> OrderRow] /\ Pending' \in SUBSET Orders
  BY DEF Pending, BInv, BotTypeOK
<1>2. PICK rows, S : rows = order' /\ S = Pending'
  OBVIOUS
<1>3. [p \in Products |-> Total([o \in Orders |-> rows[o].items[p]], S)] \in Basket
  BY <1>1, <1>2, AskedIsBasket
<1> QED BY <1>2, <1>3 DEF AskedFor

\* One pending order asks for no more than is reserved.
LEMMA OrderWithinCounter ==
  ASSUME AInv, torn = {}, NEW o \in Pending, NEW p \in Products
  PROVE  order[o].items[p] <= stock[p].reserved
<1>1. PICK f, g : /\ f = [x \in Orders |-> order[x].items[p]]
                  /\ g = [k \in Carts |-> share[k][p]]
  OBVIOUS
<1>2. /\ IsFiniteSet(Pending) /\ IsFiniteSet(Pending \ {o}) /\ IsFiniteSet(Carts)
      /\ f[o] = order[o].items[p]
  BY <1>1, AskedForTypes, CartAssumption, FS_Subset DEF AInv
<1>3. \A x \in Pending : f[x] \in Int /\ f[x] >= 0
  BY <1>1, AskedForTypes DEF AInv
<1>4. Total(f, Pending) = f[o] + Total(f, Pending \ {o})
  BY ONLY <1>2, <1>3, o \in Pending, TotalTakes
<1>5. Total(f, Pending \ {o}) \in Int /\ Total(f, Pending \ {o}) >= 0
  BY ONLY <1>2, <1>3, TotalType
<1>6. \A k \in Carts : g[k] \in Int /\ g[k] >= 0
  BY <1>1, ShareIsBasket DEF AInv, BInv, Basket
<1>7. Total(g, Carts) \in Int /\ Total(g, Carts) >= 0
  BY ONLY <1>2, <1>6, TotalType
<1>8. stock[p].reserved = Total(f, Pending) + Total(g, Carts)
  BY <1>1 DEF AInv, ReservedBesides, AskedFor
<1> QED BY <1>2, <1>3, <1>4, <1>5, <1>7, <1>8

\* The counter and what orders ask for change by the same number.
LEMMA AskedForMoves ==
  ASSUME NEW old \in Basket, NEW new \in Basket, CInv, ReservedBesides(old),
         torn' = {} => torn = {}, UNCHANGED share,
         \A p \in Products : stock'[p].reserved = stock[p].reserved + (new[p] - old[p])
  PROVE  torn' = {} => \A p \in Products :
           stock'[p].reserved = new[p] + Total([k \in Carts |-> share'[k][p]], Carts)
<1> SUFFICES ASSUME torn' = {}, NEW p \in Products
             PROVE  stock'[p].reserved = new[p] + Total([k \in Carts |-> share'[k][p]], Carts)
  OBVIOUS
<1>1. PICK g : g = [k \in Carts |-> share[k][p]]
  OBVIOUS
<1>2. \A k \in Carts : g[k] \in Int
  BY <1>1 DEF CInv, CartTypeOK
<1>3. IsFiniteSet(Carts)
  BY CartAssumption
<1>4. Total(g, Carts) \in Int
  BY ONLY <1>2, <1>3, TotalType
<1>5. stock[p].reserved = old[p] + Total(g, Carts) /\ old[p] \in Nat /\ new[p] \in Nat
  BY <1>1 DEF ReservedBesides, Basket
<1>6. stock'[p].reserved = stock[p].reserved + (new[p] - old[p])
  OBVIOUS
<1> QED BY <1>1, <1>4, <1>5, <1>6

\* An order leaves: what it asked for goes back to the shelf.
LEMMA OrderLeaves ==
  ASSUME AInv, BInv', NEW o \in Pending, NEW items \in Basket, items = order[o].items,
         Pending' = Pending \ {o},
         \A x \in Orders \ {o} : order'[x] = order[x],
         torn' = {} => torn = {} /\ UNCHANGED share,
         torn' = {} => \A p \in Products : stock'[p].reserved = stock[p].reserved - items[p]
  PROVE  ReservedBesides(AskedFor)'
<1> SUFFICES ASSUME torn' = {} PROVE ReservedBesides(AskedFor)'
  BY DEF ReservedBesides
<1>1. PICK old, new : old = AskedFor /\ new = AskedFor'
  OBVIOUS
<1>2. old \in Basket /\ new \in Basket
  BY <1>1, AskedForTypes, AskedForNext DEF AInv
<1>3. ASSUME NEW p \in Products PROVE new[p] = old[p] - items[p]
  <2>1. PICK S : S = Pending \ {o}
    OBVIOUS
  <2>2. PICK f, g : /\ f = [x \in Orders |-> order[x].items[p]]
                    /\ g = [x \in Orders |-> order'[x].items[p]]
    OBVIOUS
  <2>3. /\ IsFiniteSet(Pending) /\ \A x \in Pending : f[x] \in Int
        /\ f[o] = items[p] /\ IsFiniteSet(S) /\ \A x \in S : g[x] = f[x]
    BY <2>1, <2>2, AskedForTypes, FS_Subset DEF AInv
  <2>4. Total(f, Pending) = f[o] + Total(f, Pending \ {o})
    BY ONLY <2>3, o \in Pending, TotalTakes
  <2>5. Total(g, S) = Total(f, S)
    <3>1. IsFiniteSet(S) /\ \A x \in S : g[x] = f[x]
      BY <2>3
    <3> QED BY ONLY <3>1, TotalSame
  <2>6. old[p] = Total(f, Pending) /\ new[p] = Total(g, S)
    BY <1>1, <2>1, <2>2 DEF AskedFor
  <2>7. old[p] \in Nat /\ new[p] \in Nat /\ items[p] \in Nat
    BY <1>2 DEF Basket
  <2> QED BY <2>1, <2>3, <2>4, <2>5, <2>6, <2>7
<1>4. ASSUME NEW p \in Products
      PROVE  stock'[p].reserved = stock[p].reserved + (new[p] - old[p])
  <2>1. stock[p].reserved \in Nat /\ old[p] \in Nat /\ items[p] \in Nat
    BY <1>2 DEF AInv, BInv, CInv, CartTypeOK, EngineTypeOK, StockRow, Basket
  <2> QED BY <1>3, <2>1
<1>5. \A p \in Products :
        stock'[p].reserved = new[p] + Total([k \in Carts |-> share'[k][p]], Carts)
  BY <1>1, <1>2, <1>4, AskedForMoves DEF AInv, BInv
<1> QED BY <1>1, <1>5 DEF ReservedBesides

\* An order is placed: it asks for what it has reserved.
LEMMA PlaceOrderCounts ==
  ASSUME AInv, BInv', NEW m \in Calls, NEW o \in Orders, PlaceOrder(m, o)
  PROVE  ReservedBesides(AskedFor)'
<1> SUFFICES ASSUME torn' = {} PROVE ReservedBesides(AskedFor)'
  BY DEF ReservedBesides
<1>1. PICK items \in Basket : items = call[m].mem.items
  BY CallFields DEF AInv, BInv, CInv
<1>2. PICK row : row = [status |-> "pendente_pagamento", cart |-> call[m].cart,
                        items |-> items, payment |-> "none"]
  OBVIOUS
<1>3. /\ order' = [order EXCEPT ![o] = row] /\ order \in [Orders -> OrderRow]
      /\ row.status = "pendente_pagamento" /\ row.items = items
      /\ stock' = Reserved(stock, items) /\ UNCHANGED <<share, torn>>
      /\ o \notin Pending
  BY <1>1, <1>2 DEF PlaceOrder, AInv, BInv, BotTypeOK, Placed, Pending
<1>4. Pending' = Pending \cup {o}
  BY <1>3 DEF Pending
<1>5. PICK old, new : old = AskedFor /\ new = AskedFor'
  OBVIOUS
<1>6. old \in Basket /\ new \in Basket
  BY <1>5, AskedForTypes, AskedForNext DEF AInv
<1>7. ASSUME NEW p \in Products PROVE new[p] = old[p] + items[p]
  <2>1. PICK S : S = Pending
    OBVIOUS
  <2>2. PICK f, g : /\ f = [x \in Orders |-> order[x].items[p]]
                    /\ g = [x \in Orders |-> order'[x].items[p]]
    OBVIOUS
  <2>3. IsFiniteSet(S) /\ S \subseteq Orders /\ o \notin S
    BY <1>3, <2>1, AskedForTypes DEF AInv
  <2>4. \A x \in S : f[x] \in Int
    BY <2>1, <2>2, <2>3, AskedForTypes DEF AInv
  <2>5. \A x \in S : g[x] = f[x]
    BY <1>3, <2>2, <2>3
  <2>6. g[o] = items[p] /\ items[p] \in Nat
    BY <1>3, <2>2 DEF Basket
  <2>7. g[o] \in Int /\ \A x \in S : g[x] \in Int
    BY <2>4, <2>5, <2>6
  <2>8. Total(g, S) = Total(f, S)
    BY ONLY <2>3, <2>5, TotalSame
  <2>9. Total(g, S \cup {o}) = Total(g, S) + g[o]
    BY ONLY <2>3, <2>7, TotalGrows
  <2>10. old[p] = Total(f, S) /\ new[p] = Total(g, S \cup {o})
    BY <1>4, <1>5, <2>1, <2>2 DEF AskedFor
  <2> QED BY <2>6, <2>8, <2>9, <2>10
<1>8. ASSUME NEW p \in Products
      PROVE  stock'[p].reserved = stock[p].reserved + (new[p] - old[p])
  <2>1. stock[p].reserved \in Nat /\ old[p] \in Nat /\ items[p] \in Nat
    BY <1>6 DEF AInv, BInv, CInv, CartTypeOK, EngineTypeOK, StockRow, Basket
  <2>2. stock'[p].reserved = stock[p].reserved + items[p]
    BY <1>3 DEF AInv, BInv, CInv, CartTypeOK, EngineTypeOK, Reserved, StockRow
  <2> QED BY <1>7, <2>1, <2>2
<1>9. \A p \in Products :
        stock'[p].reserved = new[p] + Total([k \in Carts |-> share'[k][p]], Carts)
  BY <1>3, <1>5, <1>6, <1>8, AskedForMoves DEF AInv, BInv
<1> QED BY <1>5, <1>9 DEF ReservedBesides

\* The outcome of a payment moves no units.
LEMMA CreatePaymentCounts ==
  ASSUME AInv, NEW m \in Calls, CreatePayment(m)
  PROVE  ReservedBesides(AskedFor)'
<1>1. PICK o : o = msg[m].order
  OBVIOUS
<1>2. PICK outcome : order' = [order EXCEPT ![o].payment = outcome]
  BY <1>1 DEF CreatePayment
<1>3. order \in [Orders -> OrderRow] /\ UNCHANGED <<stock, share, torn>>
  BY DEF CreatePayment, cartVars, AInv, BInv, BotTypeOK
<1>4. ASSUME NEW x \in Orders
      PROVE  order'[x].status = order[x].status /\ order'[x].items = order[x].items
  BY <1>2, <1>3 DEF OrderRow
<1>5. Pending' = Pending
  BY <1>4 DEF Pending
<1>6. ASSUME NEW p \in Products
      PROVE  [x \in Orders |-> order'[x].items[p]] = [x \in Orders |-> order[x].items[p]]
  BY <1>4
<1>7. AskedFor' = AskedFor
  BY <1>5, <1>6 DEF AskedFor
<1> QED BY <1>3, <1>7 DEF AInv, ReservedBesides

\* A cancelled order gives back its units, clamped at 0 by the engine: but they
\* were reserved for it.
LEMMA HandleCancelOrderCounts ==
  ASSUME AInv, BInv', NEW m \in Calls, HandleCancelOrder(m)
  PROVE  ReservedBesides(AskedFor)'
<1>1. PICK o \in Pending : o = Max(Placed)
  BY LatestIsPlaced DEF HandleCancelOrder, LastIsPending, Pending, Placed
<1>2. PICK items \in Basket : items = order[o].items
  BY AskedForTypes DEF AInv
<1>3. /\ order' = [order EXCEPT ![o].status = "cancelado"] /\ order \in [Orders -> OrderRow]
      /\ stock' = Released(stock, items) /\ UNCHANGED <<share, torn>>
  BY <1>1, <1>2 DEF HandleCancelOrder, AInv, BInv, BotTypeOK
<1>4. Pending' = Pending \ {o}
  BY <1>3 DEF Pending, OrderRow
<1>5. \A x \in Orders \ {o} : order'[x] = order[x]
  BY <1>3
<1>6. ASSUME torn' = {}, NEW p \in Products
      PROVE  stock'[p].reserved = stock[p].reserved - items[p]
  <2>1. items[p] <= stock[p].reserved
    BY <1>2, <1>3, <1>6, OrderWithinCounter
  <2>2. stock'[p].reserved = Greatest0(stock[p].reserved - items[p])
    BY <1>3 DEF AInv, BInv, CInv, CartTypeOK, EngineTypeOK, Released, StockRow
  <2>3. stock[p].reserved \in Nat /\ items[p] \in Nat
    BY DEF AInv, BInv, CInv, CartTypeOK, EngineTypeOK, StockRow, Basket
  <2> QED BY <2>1, <2>2, <2>3 DEF Greatest0
<1> QED BY <1>2, <1>3, <1>4, <1>5, <1>6, OrderLeaves

\* A request that is rolled back takes its order with it, and what it reserved.
LEMMA RollBackCounts ==
  ASSUME AInv, BInv', NEW m \in Calls, RollBack(m)
  PROVE  ReservedBesides(AskedFor)'
<1>1. torn' = {} => torn = {} /\ UNCHANGED share
  BY DEF RollBack, Account
<1>2. CASE msg[m].order = NoOrder
  <2>1. UNCHANGED <<order, stock>>
    BY <1>2 DEF RollBack
  <2>2. AskedFor' = AskedFor
    BY <2>1 DEF AskedFor, Pending
  <2> QED BY <1>1, <2>1, <2>2 DEF AInv, ReservedBesides
<1>3. CASE msg[m].order # NoOrder
  <2>1. PICK o \in Orders : o = msg[m].order
    BY <1>3 DEF AInv, BInv, BotTypeOK, MessageState
  <2>2. o \in Pending
    BY <1>3, <2>1 DEF AInv, BInv, MsgSound, OrderSound, Pending
  <2>3. PICK items \in Basket : items = order[o].items
    BY <2>2, AskedForTypes DEF AInv
  <2>4. /\ order' = [order EXCEPT ![o] = NoOrderRow] /\ order \in [Orders -> OrderRow]
        /\ stock' = [p \in Products |-> [stock[p] EXCEPT !.reserved = @ - items[p]]]
    BY <1>3, <2>1, <2>3 DEF RollBack, AInv, BInv, BotTypeOK
  <2>5. Pending' = Pending \ {o}
    BY <2>4 DEF Pending, NoOrderRow
  <2>6. \A x \in Orders \ {o} : order'[x] = order[x]
    BY <2>4
  <2>7. \A p \in Products : stock'[p].reserved = stock[p].reserved - items[p]
    BY <2>4 DEF AInv, BInv, CInv, CartTypeOK, EngineTypeOK, StockRow
  <2> QED BY <1>1, <2>2, <2>3, <2>5, <2>6, <2>7, OrderLeaves
<1> QED BY <1>2, <1>3

\* Every step keeps the counter at the sum of shares and orders.
LEMMA CheckoutNextCounts == AInv /\ [CheckoutNext]_checkoutVars => AInv'
<1> SUFFICES ASSUME AInv, [CheckoutNext]_checkoutVars PROVE AInv'
  OBVIOUS
<1>1. BInv'
  BY CheckoutNextSound DEF AInv
<1>2. CASE OrdersStay
  <2>1. PICK others \in Basket : others = AskedFor
    BY AskedForTypes DEF AInv
  <2>2. SInv(others) /\ CInv'
    BY <1>1, <2>1 DEF AInv, BInv, SInv, ReservedBesides
  <2>3. ReservedBesides(others)'
    BY <1>2, <2>2, ShareStays, CallStepCounts, CartSweepStepCounts DEF OrdersStay
  <2>4. AskedFor' = others
    BY <1>2, <2>1 DEF AskedFor, Pending, OrdersStay
  <2> QED BY <1>1, <2>3, <2>4 DEF AInv, ReservedBesides
<1>3. CASE OrdersMove
  BY <1>1, <1>3, PlaceOrderCounts, CreatePaymentCounts, HandleCancelOrderCounts, RollBackCounts
     DEF AInv, OrdersMove
<1> QED BY <1>2, <1>3, StepKinds

\* Nothing is reserved at first.
LEMMA CheckoutInitCounts == CheckoutInit => AInv
<1> SUFFICES ASSUME CheckoutInit PROVE AInv
  OBVIOUS
<1>1. BInv
  BY CheckoutInitSound
<1>2. Pending = {}
  BY DEF CheckoutInit, Pending, NoOrderRow
<1>3. ASSUME NEW p \in Products PROVE AskedFor[p] = EmptyBasket[p]
  <2>1. PICK f : f = [o \in Orders |-> order[o].items[p]]
    OBVIOUS
  <2>2. IsFiniteSet({}) /\ \A o \in {} : f[o] = 0
    BY FS_EmptySet
  <2>3. Total(f, {}) = 0
    BY ONLY <2>2, TotalOfNothing
  <2> QED BY <1>2, <2>1, <2>3 DEF AskedFor, EmptyBasket
<1>4. SInv(EmptyBasket)
  BY CartInitCounts DEF CheckoutInit
<1> QED BY <1>1, <1>3, <1>4 DEF AInv, SInv, ReservedBesides

-----------------------------------------------------------------------------
(* A converted cart has the items of its order.  Both copy the row of the    *)
(* cart, at different times; while a message has the turn nobody else writes *)
(* the items, and a converted row is never written again.                    *)

PlacedInOrder == \A i, j \in Orders : i < j /\ j \in Placed => i \in Placed

\* What a message has copied of its cart, into its call and into its order.
Copied(m) ==
  /\ msg[m].pc \in Tasks => call[m].mem.status # "converted"
  /\ msg[m].pc = "checkout" /\ call[m].cart \in Carts =>
       call[m].mem.items = cart[call[m].cart].items
  /\ msg[m].pc \in Placing => \A j \in Placed : j <= msg[m].order
  /\ msg[m].pc \in {"pay", "convert"} =>
       /\ order[msg[m].order].cart = call[m].cart
       /\ call[m].mem.items = order[msg[m].order].items
       /\ cart[call[m].cart].items = order[msg[m].order].items

ListInv ==
  /\ PlacedInOrder
  /\ \A o \in Placed : order[o].cart \in Carts
  /\ \A o \in Orders \ Placed : order[o].cart = NoCart
  /\ \A m \in Calls : Copied(m)
  /\ OrderedAsListed

\* A message that is not at work has copied nothing.
LEMMA NothingCopied ==
  ASSUME NEW m, msg'[m].pc \notin Tasks \cup Placing PROVE Copied(m)'
BY DEF Copied, Tasks, Placing

\* The messages without the turn are not at work.
LEMMA OthersCopied ==
  ASSUME BInv, NEW m \in Calls, turn = m, NEW d \in Calls \ {m}, msg'[d] = msg[d]
  PROVE  Copied(d)'
<1>1. msg[d].pc \in BeforeTurn
  BY OthersWait
<1> QED BY <1>1, NothingCopied DEF BeforeTurn, Tasks, Placing

\* Orders keep their carts and items, and no row becomes converted.
LEMMA ListKept ==
  ASSUME ListInv,
         \A o \in Orders : /\ order'[o].status = "none" <=> order[o].status = "none"
                           /\ order'[o].cart = order[o].cart
                           /\ order'[o].items = order[o].items,
         \A k \in Carts : cart'[k].status = "converted" => cart'[k] = cart[k],
         \A m \in Calls : Copied(m)'
  PROVE  ListInv'
<1>1. Placed' = Placed
  BY DEF Placed
<1>2. PlacedInOrder'
  BY <1>1 DEF ListInv, PlacedInOrder
<1>3. ASSUME NEW o \in Placed' PROVE order'[o].cart \in Carts
  BY <1>1 DEF ListInv, Placed
<1>4. OrderedAsListed'
  BY <1>1, <1>3 DEF ListInv, OrderedAsListed, Placed
<1>5. \A o \in Orders \ Placed' : order'[o].cart = NoCart
  BY <1>1 DEF ListInv
<1> QED BY <1>2, <1>3, <1>4, <1>5 DEF ListInv

\* Orders and carts stay, and so does every message that goes on working.
LEMMA ListStays ==
  ASSUME ListInv, UNCHANGED <<order, cart>>,
         \A m \in Calls : msg'[m].pc \in Tasks \cup Placing =>
                           msg'[m] = msg[m] /\ call'[m] = call[m]
  PROVE  ListInv'
<1>1. ASSUME NEW m \in Calls PROVE Copied(m)'
  <2>1. CASE msg'[m].pc \notin Tasks \cup Placing
    BY <2>1, NothingCopied
  <2>2. CASE msg'[m] = msg[m] /\ call'[m] = call[m]
    BY <2>2 DEF ListInv, Copied, Placed
  <2> QED BY <2>1, <2>2
<1> QED BY <1>1, ListKept

\* What the handlers of the conversation come to.
LEMMA HandlerKinds ==
  ASSUME NEW m \in Calls,
         \/ CancelCheckout(m) \/ AskFulfillment(m) \/ CollectName(m)
         \/ CollectPhone(m) \/ CollectAddress(m) \/ ConfirmAddress(m)
         \/ SelectPickupSlot(m) \/ AnswerProposal(m) \/ ProposeCartAdd(m)
         \/ HandleCart(m) \/ Answer(m) \/ EndCheckout(m)
  PROVE  \/ \E ctx : Reply(m, ctx)
         \/ /\ msg[m].pc = "turn"
            /\ \E task \in Tasks : \E op, p, n, ctx : BeginTask(m, task, op, p, n, ctx)
<1>1. ASSUME NEW task \in {"look", "start", "add", "remove", "clear", "checkout"},
             NEW op, NEW p, NEW n, NEW ctx, BeginTask(m, task, op, p, n, ctx)
      PROVE  \E t \in Tasks : \E o, q, k, c : BeginTask(m, t, o, q, k, c)
  <2>1. task \in Tasks
    BY DEF Tasks
  <2> QED BY <1>1, <2>1
<1>2. CASE CancelCheckout(m)
  BY <1>2 DEF CancelCheckout
<1>3. CASE AskFulfillment(m)
  BY <1>3 DEF AskFulfillment
<1>4. CASE CollectName(m)
  BY <1>4 DEF CollectName
<1>5. CASE CollectPhone(m)
  BY <1>5 DEF CollectPhone
<1>6. CASE CollectAddress(m)
  BY <1>6 DEF CollectAddress
<1>7. CASE ConfirmAddress(m)
  BY <1>1, <1>7 DEF ConfirmAddress, InCheckout
<1>8. CASE SelectPickupSlot(m)
  BY <1>1, <1>8 DEF SelectPickupSlot, InCheckout
<1>9. CASE AnswerProposal(m)
  BY <1>1, <1>9 DEF AnswerProposal, Proposing, InCheckout
<1>10. CASE ProposeCartAdd(m)
  BY <1>10 DEF ProposeCartAdd
<1>11. CASE HandleCart(m)
  BY <1>1, <1>11 DEF HandleCart, Free, InCheckout
<1>12. CASE Answer(m)
  BY <1>12 DEF Answer
<1>13. CASE EndCheckout(m)
  BY <1>13 DEF EndCheckout
<1> QED BY <1>2, <1>3, <1>4, <1>5, <1>6, <1>7, <1>8, <1>9, <1>10, <1>11, <1>12, <1>13

\* The steps that neither write a cart nor place an order.
LEMMA ConversationLists ==
  ASSUME BInv, ListInv, NEW m \in Calls,
         \/ \E in \in Inputs(conv) : Receive(m, in)
         \/ ResetConversation(m) \/ CompareConversation(m) \/ TakeTurn(m)
         \/ \E ctx : Reply(m, ctx)
         \/ ShowCart(m) \/ StartCheckout(m) \/ NothingToRemove(m) \/ NothingToCheckOut(m)
         \/ TaskFails(m)
  PROVE  ListInv'
<1>1. msg \in [Calls -> MessageState] /\ call \in [Calls -> CallState]
  BY DEF BInv, BotTypeOK, CInv, CartTypeOK
<1>2. UNCHANGED <<order, cart>>
  BY DEF Receive, ResetConversation, CompareConversation, TakeTurn, Reply, ShowCart,
         StartCheckout, NothingToRemove, NothingToCheckOut, DropCall, TaskFails, FailCall, cartVars
<1>3. ASSUME NEW d \in Calls \ {m} PROVE msg'[d] = msg[d] /\ call'[d] = call[d]
  BY <1>1 DEF Receive, ResetConversation, CompareConversation, TakeTurn, Reply, ShowCart, Commit,
              StartCheckout, NothingToRemove, NothingToCheckOut, DropCall, TaskFails, FailCall,
              cartVars
<1>4. msg'[m].pc \in {"idle", "reset", "seen", "wait", "turn"}
  <2>1. CASE \E in \in Inputs(conv) : Receive(m, in)
    <3>1. PICK in \in Inputs(conv) : Receive(m, in)
      BY <2>1
    <3>2. PICK pc \in {"reset", "seen"} : pc = IF TimedOut THEN "reset" ELSE "seen"
      OBVIOUS
    <3>3. msg' = [msg EXCEPT ![m] = [NoMsg EXCEPT !.pc = pc, !.word = in.word,
                                       !.product = in.product, !.qty = in.qty, !.ctx = conv]]
      BY <3>1, <3>2 DEF Receive
    <3> QED BY <1>1, <3>2, <3>3 DEF NoMsg
  <2>2. CASE CompareConversation(m)
    <3>1. PICK dirty : msg' = [msg EXCEPT ![m].pc = "wait", ![m].dirty = dirty]
      BY <2>2 DEF CompareConversation
    <3> QED BY <1>1, <3>1 DEF MessageState
  <2>3. CASE TakeTurn(m)
    BY <1>1, <2>3 DEF TakeTurn, MessageState
  <2>4. CASE msg' = [msg EXCEPT ![m] = NoMsg]
    BY <1>1, <2>4 DEF NoMsg
  <2> QED BY <2>1, <2>2, <2>3, <2>4
          DEF ResetConversation, Reply, ShowCart, StartCheckout, NothingToRemove,
              NothingToCheckOut, TaskFails, Commit
<1>5. msg'[m].pc \notin Tasks \cup Placing
  BY <1>4 DEF Tasks, Placing
<1>6. \A d \in Calls : msg'[d].pc \in Tasks \cup Placing =>
                         msg'[d] = msg[d] /\ call'[d] = call[d]
  BY <1>3, <1>5
<1> QED BY <1>2, <1>6, ListStays

\* A task begins with no copy.
LEMMA BeginTaskLists ==
  ASSUME BInv, ListInv, NEW m \in Calls, msg[m].pc = "turn", NEW task \in Tasks,
         NEW op, NEW p, NEW n, NEW ctx, BeginTask(m, task, op, p, n, ctx)
  PROVE  ListInv'
<1>1. /\ msg \in [Calls -> MessageState] /\ call \in [Calls -> CallState] /\ turn = m
  BY DEF BInv, BotTypeOK, CInv, CartTypeOK, MsgSound, BeforeTurn
<1>2. /\ UNCHANGED <<order, cart>>
      /\ msg' = [msg EXCEPT ![m] = [NoMsg EXCEPT !.pc = task, !.ctx = ctx]]
  BY DEF BeginTask, Begin
<1>3. PICK todo : call' = [call EXCEPT ![m] =
                [NoCall EXCEPT !.op = op, !.product = p, !.qty = n, !.pc = "expire",
                               !.todo = todo]]
  BY DEF BeginTask, Begin
<1>4. /\ msg'[m].pc = task /\ call'[m].mem = NoCartRow /\ call'[m].cart = NoCart
      /\ \A d \in Calls \ {m} : msg'[d] = msg[d]
  BY <1>1, <1>2, <1>3 DEF NoMsg, NoCall
<1>5. Copied(m)'
  BY <1>4, CartAssumption DEF Copied, Tasks, Placing, NoCartRow
<1> QED BY <1>1, <1>2, <1>4, <1>5, OthersCopied, ListKept

\* An expiry leaves converted rows alone, and the items of all others.
LEMMA ExpiredRow ==
  ASSUME CartTypeOK, NEW k \in Carts, ReleaseExpiredCart(k), NEW j \in Carts
  PROVE  /\ cart'[j].items = cart[j].items
         /\ cart'[j].status = "converted" => cart'[j] = cart[j]
<1>1. cart \in [Carts -> CartRow] /\ cart[j] \in CartRow
  BY DEF CartTypeOK
<1>2. CASE UNCHANGED cart
  BY <1>2
<1>3. CASE cart' = [cart EXCEPT ![k].status = "expired", ![k].released = TRUE]
  BY <1>1, <1>3 DEF CartRow
<1> QED BY <1>2, <1>3 DEF ReleaseExpiredCart

\* Looking up, creating, reading and changing the cart, while R waits.
LEMMA CartWorkLists ==
  ASSUME BInv, ListInv, NEW m \in Calls, FindCart(m) \/ ChangeCart(m) \/ ConvertCart(m)
  PROVE  ListInv'
<1>1. /\ turn = m /\ msg[m].pc \in Tasks \cup {"convert"} /\ UNCHANGED botVars /\ CallStep(m)
      /\ TaskSound(m) /\ CallSound(m) /\ Copied(m) /\ InHandIsOpen(m) /\ CartTypeOK /\ CInv
      /\ cart \in [Carts -> CartRow] /\ OrderSound(m)
  BY DEF BInv, MsgSound, FindCart, ChangeCart, ConvertCart, InCart, BeforeTurn, Tasks, CallStep,
         CInv, CartTypeOK, ListInv
<1>2. UNCHANGED <<order, msg>>
  BY <1>1 DEF botVars
<1>3. msg[m].pc = "convert" =>
        /\ call[m].cart \in Carts /\ call[m].op = "convert"
        /\ call[m].pc \in {"read", "engine", "compare"}
        /\ order[msg[m].order].cart = call[m].cart
        /\ call[m].mem.items = order[msg[m].order].items
        /\ cart[call[m].cart].items = order[msg[m].order].items
  <2>1. msg[m].pc = "convert" => call[m].pc # "write" /\ call[m].pc \in InHandPc
    BY <1>1 DEF TaskSound, InHandPc, FindCart, ExpireOld, FindActiveCart, CreateCart, ChangeCart,
                AddItem, RemoveItem, ClearCart, At, Found, SaveCompares, ConvertCart, ReadCart,
                MarkAsConverted
  <2> QED BY <1>1, <2>1 DEF TaskSound, CallSound, Copied
<1>4. ASSUME NEW k \in Carts, ExpireOld(m, k) PROVE ListInv'
  <2>1. /\ call[m].pc = "expire" /\ call'[m].cart = call[m].cart /\ call'[m].mem = call[m].mem
        /\ call[m].cart \notin Carts /\ msg[m].pc \in Tasks
    BY <1>1, <1>3, <1>4, LookUpSteps DEF CallSound, InHandPc
  <2>2. Copied(m)'
    BY <1>1, <1>2, <2>1 DEF Copied, Placing, Tasks
  <2>3. \A j \in Carts : cart'[j].status = "converted" => cart'[j] = cart[j]
    BY <1>1, <1>4, ExpiredRow DEF ExpireOld
  <2> QED BY <1>1, <1>2, <2>2, <2>3, OthersCopied, ListKept
<1>5. ASSUME FindActiveCart(m) PROVE ListInv'
  <2>1. /\ UNCHANGED cart /\ call[m].pc = "expire" /\ msg[m].pc \in Tasks
        /\ \/ call'[m].cart \notin Carts /\ call'[m].mem = call[m].mem
           \/ call'[m].cart \in ActiveCarts /\ call'[m].mem = cart[call'[m].cart]
    BY <1>1, <1>3, <1>5, LookUpSteps DEF FindActiveCart, CallSound, InHandPc
  <2>2. Copied(m)'
    BY <1>1, <1>2, <2>1 DEF Copied, Placing, Tasks, ActiveCarts
  <2> QED BY <1>1, <1>2, <2>1, <2>2, OthersCopied, ListKept
<1>6. ASSUME NEW k \in Carts, CreateCart(m, k) PROVE ListInv'
  <2>1. /\ cart' = [cart EXCEPT ![k] = NewCartRow] /\ msg[m].pc \in Tasks
        /\ call'[m].cart = k /\ call'[m].mem = NewCartRow
    BY <1>1, <1>3, <1>6, LookUpSteps DEF CreateCart
  <2>2. NewCartRow.status = "active" /\ cart'[k] = NewCartRow
    BY <1>1, <2>1 DEF NewCartRow, NoCartRow
  <2>3. Copied(m)'
    BY <1>2, <2>1, <2>2 DEF Copied, Placing, Tasks
  <2>4. \A j \in Carts : cart'[j].status = "converted" => cart'[j] = cart[j]
    BY <1>1, <2>1, <2>2
  <2> QED BY <1>1, <1>2, <2>3, <2>4, OthersCopied, ListKept
<1>7. ASSUME UNCHANGED cart, call'[m].cart = call[m].cart, msg[m].pc # "checkout",
             call'[m].mem.items = call[m].mem.items \/ msg[m].pc \in Tasks,
             msg[m].pc \in Tasks => call'[m].mem.status # "converted"
      PROVE  ListInv'
  <2>1. Copied(m)'
    BY <1>1, <1>2, <1>3, <1>7 DEF Copied, Placing, Tasks, Placed
  <2> QED BY <1>1, <1>2, <1>7, <2>1, OthersCopied, ListKept
<1>8. CASE ChangeCart(m)
  <2>1. msg[m].pc # "checkout"
    BY <1>1, <1>8 DEF ChangeCart, AddItem, RemoveItem, ClearCart, SaveCompares, Found, At, TaskSound
  <2>2. CASE AddItem(m) \/ RemoveItem(m) \/ ClearCart(m)
    <3>1. /\ call[m].op # "convert" /\ UNCHANGED cart /\ call'[m].cart = call[m].cart
          /\ call'[m].mem.status \in {call[m].mem.status, "abandoned"}
      BY <1>1, <2>2, EngineSteps DEF AddItem, RemoveItem, ClearCart, At
    <3>2. msg[m].pc \in Tasks
      BY <1>1, <1>3, <3>1
    <3> QED BY <1>1, <1>7, <2>1, <3>1, <3>2 DEF Copied
  <2>3. CASE SaveCompares(m)
    <3>1. UNCHANGED cart /\ call'[m].cart = call[m].cart /\ call'[m].mem = call[m].mem
      BY <1>1, <2>3, WorkSteps DEF SaveCompares
    <3> QED BY <1>1, <1>7, <2>1, <3>1 DEF Copied
  <2>4. CASE (Found(m, "remove") \/ Found(m, "clear")) /\ ReadCart(m)
    <3>1. /\ UNCHANGED cart /\ call'[m].cart = call[m].cart /\ call'[m].mem = cart[call[m].cart]
          /\ msg[m].pc \in Tasks /\ call[m].cart \in Carts
      BY <1>1, <2>4, WorkSteps DEF ReadCart, Found, Tasks, CallSound, InHandPc
    <3>2. call'[m].mem.status # "converted"
      BY <1>1, <3>1 DEF InHandIsOpen
    <3> QED BY <1>7, <2>1, <3>1, <3>2
  <2> QED BY <1>8, <2>2, <2>3, <2>4 DEF ChangeCart
<1>9. CASE ConvertCart(m)
  <2>1. msg[m].pc = "convert" /\ "convert" \notin Tasks
    BY <1>9 DEF ConvertCart, Tasks
  <2>2. CASE ReadCart(m)
    <3>1. UNCHANGED cart /\ call'[m].cart = call[m].cart /\ call'[m].mem = cart[call[m].cart]
      BY <1>1, <2>2, WorkSteps DEF ReadCart
    <3> QED BY <1>3, <1>7, <2>1, <3>1
  <2>3. CASE MarkAsConverted(m)
    <3>1. /\ UNCHANGED cart /\ call'[m].cart = call[m].cart
          /\ call'[m].mem.items = call[m].mem.items
      BY <1>1, <2>3, EngineSteps DEF MarkAsConverted, At
    <3> QED BY <1>7, <2>1, <3>1
  <2> QED BY <1>9, <2>2, <2>3 DEF ConvertCart
<1> QED BY <1>4, <1>5, <1>6, <1>8, <1>9 DEF FindCart

\* The save of a task does not convert the cart.
LEMMA SaveCartLists ==
  ASSUME BInv, ListInv, NEW m \in Calls, SaveCart(m)
  PROVE  ListInv'
<1>1. PICK k \in Carts : k = call[m].cart
  BY DEF SaveCart, SaveWrites, BInv, CInv, CallSound, InHandPc
<1>2. /\ msg[m].pc \in Tasks /\ turn = m /\ Copied(m) /\ InHandIsOpen(m)
      /\ cart \in [Carts -> CartRow] /\ msg \in [Calls -> MessageState]
      /\ UNCHANGED order
      /\ cart' = [cart EXCEPT ![k] = Overlaid(@, call[m].mem, call[m].cols)]
      /\ msg' = [msg EXCEPT ![m] = NoMsg]
  BY <1>1 DEF SaveCart, InCart, SaveWrites, Commit, BInv, MsgSound, BeforeTurn, Tasks, CInv,
              CartTypeOK, BotTypeOK, ListInv
<1>3. cart'[k].status \in {call[m].mem.status, cart[k].status}
  BY <1>2 DEF Overlaid
<1>4. cart'[k].status # "converted"
  BY <1>1, <1>2, <1>3 DEF Copied, InHandIsOpen
<1>5. \A j \in Carts : cart'[j].status = "converted" => cart'[j] = cart[j]
  BY <1>2, <1>4
<1>6. msg'[m].pc \notin Tasks \cup Placing /\ \A d \in Calls \ {m} : msg'[d] = msg[d]
  BY <1>2 DEF NoMsg, Tasks, Placing
<1> QED BY <1>2, <1>5, <1>6, NothingCopied, OthersCopied, ListKept

\* An order is placed with a copy of the items of its cart.
LEMMA PlaceOrderLists ==
  ASSUME BInv, ListInv, NEW m \in Calls, NEW o \in Orders, PlaceOrder(m, o)
  PROVE  ListInv'
<1>1. /\ order \in [Orders -> OrderRow] /\ msg \in [Calls -> MessageState] /\ turn = m
      /\ Copied(m) /\ InHandIsOpen(m) /\ msg[m].pc = "checkout"
      /\ UNCHANGED <<cart, call>> /\ o \notin Placed /\ \A j \in Orders : j < o => j \in Placed
      /\ call[m].cart \in Carts
  BY DEF BInv, BotTypeOK, PlaceOrder, Found, MsgSound, BeforeTurn, ListInv, CInv, CallSound,
         InHandPc
<1>2. PICK row : row = [status |-> "pendente_pagamento", cart |-> call[m].cart,
                        items |-> call[m].mem.items, payment |-> "none"]
  OBVIOUS
<1>3. /\ order' = [order EXCEPT ![o] = row] /\ row.status # "none"
      /\ row.cart = call[m].cart /\ row.items = call[m].mem.items
      /\ msg' = [msg EXCEPT ![m].pc = "pay", ![m].order = o]
  BY <1>2 DEF PlaceOrder
<1>4. /\ order'[o] = row /\ \A x \in Orders \ {o} : order'[x] = order[x]
      /\ msg'[m].pc = "pay" /\ msg'[m].order = o
      /\ \A d \in Calls \ {m} : msg'[d] = msg[d]
  BY <1>1, <1>3 DEF MessageState
<1>5. Placed' = Placed \cup {o}
  BY <1>3, <1>4 DEF Placed
<1>6. \A x \in Placed : x < o
  <2> SUFFICES ASSUME NEW x \in Placed, ~(x < o) PROVE FALSE
    OBVIOUS
  <2>1. x \in Orders /\ x \in Nat /\ o \in Nat /\ x # o
    BY <1>1, CheckoutAssumption DEF Placed
  <2>2. o < x
    BY <2>1
  <2> QED BY <1>1, <2>1, <2>2 DEF ListInv, PlacedInOrder
<1>7. PlacedInOrder'
  <2> SUFFICES ASSUME NEW i \in Orders, NEW j \in Orders, i < j, j \in Placed'
               PROVE  i \in Placed'
    BY DEF PlacedInOrder
  <2>1. CASE j \in Placed
    BY <1>5, <2>1 DEF ListInv, PlacedInOrder
  <2>2. CASE j = o
    BY <1>1, <1>5, <2>2
  <2> QED BY <1>5, <2>1, <2>2
<1>8. Copied(m)'
  <2>1. "pay" \notin Tasks /\ o \in Nat /\ Placed \subseteq Nat
    BY CheckoutAssumption DEF Tasks, Placed
  <2>2. \A x \in Placed' : x <= o
    BY <1>5, <1>6, <2>1
  <2>3. call[m].mem.items = cart[call[m].cart].items
    BY <1>1 DEF Copied
  <2> QED BY <1>1, <1>3, <1>4, <2>1, <2>2, <2>3 DEF Copied
<1>9. \A x \in Placed' : order'[x].cart \in Carts
  BY <1>1, <1>3, <1>4, <1>5 DEF ListInv, Placed
<1>10. \A x \in Orders \ Placed' : order'[x].cart = NoCart
  BY <1>4, <1>5 DEF ListInv
<1>11. OrderedAsListed'
  <2> SUFFICES ASSUME NEW x \in Orders, order'[x].status # "none",
                      cart'[order'[x].cart].status = "converted",
                      \A j \in Orders : j > x => order'[j].cart # order'[x].cart
               PROVE  cart'[order'[x].cart].items = order'[x].items
    BY DEF OrderedAsListed
  <2>1. x # o
    BY <1>1, <1>3, <1>4 DEF InHandIsOpen
  <2>2. order'[x] = order[x] /\ x \in Placed /\ x < o
    BY <1>4, <1>6, <2>1 DEF Placed
  <2>3. \A j \in Orders : j > x => order[j].cart # order[x].cart
    <3> SUFFICES ASSUME NEW j \in Orders, j > x PROVE order[j].cart # order[x].cart
      OBVIOUS
    <3>1. CASE j = o
      <4>1. order[x].cart \in Carts /\ order[o].cart = NoCart
        BY <1>1, <2>2 DEF ListInv
      <4> QED BY <3>1, <4>1, CartAssumption
    <3>2. CASE j # o
      BY <1>4, <2>2, <3>2
    <3> QED BY <3>1, <3>2
  <2> QED BY <1>1, <2>2, <2>3 DEF ListInv, OrderedAsListed, Placed
<1>12. \A d \in Calls : Copied(d)'
  BY <1>1, <1>4, <1>8, OthersCopied
<1> QED BY <1>7, <1>9, <1>10, <1>11, <1>12 DEF ListInv

\* A cancelled order keeps its items, and its cart.
LEMMA HandleCancelOrderLists ==
  ASSUME BInv, ListInv, NEW m \in Calls, HandleCancelOrder(m)
  PROVE  ListInv'
<1>1. PICK o \in Placed : order' = [order EXCEPT ![o].status = "cancelado"]
  BY LatestIsPlaced DEF HandleCancelOrder, LastIsPending
<1>2. /\ order \in [Orders -> OrderRow] /\ msg \in [Calls -> MessageState] /\ turn = m
      /\ UNCHANGED cart /\ msg' = [msg EXCEPT ![m] = NoMsg]
  BY DEF BInv, BotTypeOK, HandleCancelOrder, Free, InCheckout, Commit, MsgSound, BeforeTurn
<1>3. msg'[m].pc \notin Tasks \cup Placing /\ \A d \in Calls \ {m} : msg'[d] = msg[d]
  BY <1>2 DEF NoMsg, Tasks, Placing
<1>4. \A d \in Calls : Copied(d)'
  BY <1>2, <1>3, NothingCopied, OthersCopied
<1>5. ASSUME NEW x \in Orders
      PROVE  /\ order'[x].status = "none" <=> order[x].status = "none"
             /\ order'[x].cart = order[x].cart /\ order'[x].items = order[x].items
  BY <1>1, <1>2 DEF OrderRow, Placed
<1> QED BY <1>2, <1>4, <1>5, ListKept

\* The payment is written into the order the message has placed.
LEMMA CreatePaymentLists ==
  ASSUME BInv, ListInv, NEW m \in Calls, CreatePayment(m)
  PROVE  ListInv'
<1>1. PICK o, outcome : /\ o = msg[m].order
                        /\ order' = [order EXCEPT ![o].payment = outcome]
  BY DEF CreatePayment
<1>2. /\ order \in [Orders -> OrderRow] /\ msg \in [Calls -> MessageState] /\ turn = m
      /\ UNCHANGED <<cart, call>> /\ msg' = [msg EXCEPT ![m].pc = "convert"]
      /\ msg[m].pc = "pay" /\ Copied(m) /\ o \in Orders
  BY <1>1 DEF BInv, BotTypeOK, CreatePayment, MsgSound, OrderSound, Placing, BeforeTurn, cartVars,
              ListInv, MessageState
<1>3. ASSUME NEW x \in Orders
      PROVE  /\ order'[x].status = order[x].status
             /\ order'[x].cart = order[x].cart /\ order'[x].items = order[x].items
  BY <1>1, <1>2 DEF OrderRow
<1>4. /\ msg'[m].pc = "convert" /\ msg'[m].order = o
      /\ \A d \in Calls \ {m} : msg'[d] = msg[d]
  BY <1>1, <1>2 DEF MessageState
<1>5. Placed' = Placed
  BY <1>3 DEF Placed
<1>6. Copied(m)'
  <2>1. "convert" \notin Tasks /\ "pay" \in Placing
    BY DEF Tasks, Placing
  <2> QED BY <1>1, <1>2, <1>3, <1>4, <1>5, <2>1 DEF Copied
<1>7. \A d \in Calls : Copied(d)'
  BY <1>2, <1>4, <1>6, OthersCopied
<1> QED BY <1>2, <1>3, <1>7, ListKept

\* The row that becomes converted has the items that its latest order has: the
\* one the message has placed.
LEMMA CartIsConvertedLists ==
  ASSUME BInv, ListInv, NEW m \in Calls, CartIsConverted(m)
  PROVE  ListInv'
<1>1. PICK k \in Carts, o \in Orders : k = call[m].cart /\ o = msg[m].order
  BY DEF CartIsConverted, SaveWrites, BInv, CInv, CallSound, InHandPc, MsgSound, OrderSound,
         Placing, BotTypeOK, MessageState
<1>2. /\ msg[m].pc = "convert" /\ turn = m /\ Copied(m)
      /\ cart \in [Carts -> CartRow] /\ msg \in [Calls -> MessageState]
      /\ UNCHANGED order
      /\ cart' = [cart EXCEPT ![k] = Overlaid(@, call[m].mem, call[m].cols)]
      /\ msg' = [msg EXCEPT ![m].pc = "end"]
  BY <1>1 DEF CartIsConverted, SaveWrites, BInv, MsgSound, BeforeTurn, CInv, CartTypeOK, BotTypeOK,
              ListInv
<1>3. order[o].cart = k /\ \A j \in Placed : j <= o
  BY <1>1, <1>2 DEF Copied, Placing
<1>4. cart'[k].items = order[o].items /\ \A j \in Carts \ {k} : cart'[j] = cart[j]
  BY <1>1, <1>2 DEF Copied, Overlaid
<1>5. /\ msg'[m].pc = "end" /\ msg'[m].order = o
      /\ \A d \in Calls \ {m} : msg'[d] = msg[d]
  BY <1>1, <1>2 DEF MessageState
<1>6. Copied(m)'
  BY <1>2, <1>3, <1>5 DEF Copied, Tasks, Placed
<1>7. OrderedAsListed'
  <2> SUFFICES ASSUME NEW x \in Orders, order[x].status # "none",
                      cart'[order[x].cart].status = "converted",
                      \A j \in Orders : j > x => order[j].cart # order[x].cart
               PROVE  cart'[order[x].cart].items = order[x].items
    BY <1>2 DEF OrderedAsListed
  <2>1. x \in Placed /\ order[x].cart \in Carts
    BY DEF Placed, ListInv
  <2>2. CASE order[x].cart = k
    <3>1. x <= o /\ ~(o > x)
      BY <1>1, <1>3, <2>1, <2>2
    <3>2. x \in Nat /\ o \in Nat
      BY <1>1, CheckoutAssumption
    <3>3. x = o
      BY <3>1, <3>2
    <3> QED BY <1>3, <1>4, <3>3
  <2>3. CASE order[x].cart # k
    BY <1>4, <2>1, <2>3 DEF ListInv, OrderedAsListed
  <2> QED BY <2>2, <2>3
<1>8. \A d \in Calls : Copied(d)'
  BY <1>2, <1>5, <1>6, OthersCopied
<1>9. Placed' = Placed
  BY <1>2 DEF Placed
<1> QED BY <1>2, <1>7, <1>8, <1>9 DEF ListInv, PlacedInOrder

\* A request that is rolled back before it has converted the cart takes back the
\* latest order, of a cart that is open.
LEMMA RollBackLists ==
  ASSUME BInv, ListInv, NEW m \in Calls, RollBack(m), msg[m].pc # "end"
  PROVE  ListInv'
<1>1. /\ order \in [Orders -> OrderRow] /\ msg \in [Calls -> MessageState]
      /\ call \in [Calls -> CallState] /\ MsgSound(m) /\ InHandIsOpen(m) /\ Copied(m)
      /\ UNCHANGED cart /\ msg' = [msg EXCEPT ![m] = NoMsg]
      /\ call' = [call EXCEPT ![m] = NoCall]
  BY DEF BInv, BotTypeOK, CInv, CartTypeOK, RollBack, ListInv
<1>2. /\ msg'[m].pc \notin Tasks \cup Placing
      /\ \A d \in Calls \ {m} : msg'[d] = msg[d] /\ call'[d] = call[d]
  BY <1>1 DEF NoMsg, Tasks, Placing
<1>3. CASE msg[m].order = NoOrder
  <2>1. UNCHANGED order
    BY <1>3 DEF RollBack
  <2>2. \A d \in Calls : msg'[d].pc \in Tasks \cup Placing =>
                           msg'[d] = msg[d] /\ call'[d] = call[d]
    BY <1>2
  <2> QED BY <1>1, <2>1, <2>2, ListStays
<1>4. CASE msg[m].order # NoOrder
  <2>1. PICK o \in Orders : o = msg[m].order
    BY <1>1, <1>4 DEF MessageState
  <2>2. /\ msg[m].pc \in {"pay", "convert"} /\ turn = m
        /\ order[o].cart = call[m].cart /\ \A j \in Placed : j <= o
    BY <1>1, <1>4, <2>1 DEF MsgSound, OrderSound, Placing, BeforeTurn, Copied
  <2>3. order' = [order EXCEPT ![o] = NoOrderRow]
    BY <1>4, <2>1 DEF RollBack
  <2>4. order'[o] = NoOrderRow /\ \A x \in Orders \ {o} : order'[x] = order[x]
    BY <1>1, <2>3
  <2>5. NoOrderRow.status = "none" /\ NoOrderRow.cart = NoCart
    BY DEF NoOrderRow
  <2>6. Placed' = Placed \ {o} /\ o \in Placed /\ Placed \subseteq Orders
    BY <1>1, <1>4, <2>1, <2>4, <2>5 DEF Placed, MsgSound, OrderSound
  <2>7. PlacedInOrder'
    <3> SUFFICES ASSUME NEW i \in Orders, NEW j \in Orders, i < j, j \in Placed'
                 PROVE  i \in Placed'
      BY DEF PlacedInOrder
    <3>1. i \in Placed /\ j <= o /\ i \in Nat /\ j \in Nat /\ o \in Nat
      BY <2>2, <2>6, CheckoutAssumption DEF ListInv, PlacedInOrder
    <3> QED BY <2>6, <3>1
  <2>8. /\ \A x \in Placed' : order'[x].cart \in Carts
        /\ \A x \in Orders \ Placed' : order'[x].cart = NoCart
    BY <2>4, <2>5, <2>6 DEF ListInv
  <2>9. OrderedAsListed'
    <3> SUFFICES ASSUME NEW x \in Orders, order'[x].status # "none",
                        cart[order'[x].cart].status = "converted",
                        \A j \in Orders : j > x => order'[j].cart # order'[x].cart
                 PROVE  cart[order'[x].cart].items = order'[x].items
      BY <1>1 DEF OrderedAsListed
    <3>1. x # o /\ order'[x] = order[x] /\ x \in Placed /\ order[x].cart \in Carts
      BY <2>4, <2>5, <2>6 DEF Placed, ListInv
    <3>2. order[o].cart \in Carts /\ order[x].cart # order[o].cart
      BY <1>1, <2>2, <2>6, <3>1 DEF InHandIsOpen, ListInv
    <3>3. \A j \in Orders : j > x => order[j].cart # order[x].cart
      BY <2>4, <3>1, <3>2
    <3> QED BY <3>1, <3>3 DEF ListInv, OrderedAsListed, Placed
  <2>10. \A d \in Calls : Copied(d)'
    BY <1>2, <2>2, NothingCopied, OthersCopied
  <2> QED BY <2>7, <2>8, <2>9, <2>10 DEF ListInv
<1> QED BY <1>3, <1>4

\* An expiry keeps the items, and converts nothing.
LEMMA SweepsLists ==
  ASSUME BInv, ListInv, NEW s \in CartSweepers, NEW k \in Carts, Sweeps(s, k)
  PROVE  ListInv'
<1>1. /\ UNCHANGED <<order, msg, call>> /\ ReleaseExpiredCart(k) /\ CartTypeOK
      /\ cart \in [Carts -> CartRow]
  BY DEF Sweeps, SweepCart, BInv, CInv, CartTypeOK
<1>2. \A j \in Carts : /\ cart'[j].items = cart[j].items
                       /\ cart'[j].status = "converted" => cart'[j] = cart[j]
  BY <1>1, ExpiredRow
<1>3. ASSUME NEW m \in Calls PROVE Copied(m)'
  <2>1. msg[m].pc \in {"pay", "convert"} => call[m].cart \in Carts
    BY DEF BInv, MsgSound, TaskSound, CInv, CallSound, InHandPc
  <2>2. PICK j : j = call[m].cart
    OBVIOUS
  <2>3. j \in Carts => cart'[j].items = cart[j].items
    BY <1>2
  <2>4. Placed' = Placed /\ Copied(m)
    BY <1>1 DEF Placed, ListInv
  <2> QED BY <1>1, <2>1, <2>2, <2>3, <2>4 DEF Copied
<1> QED BY <1>1, <1>2, <1>3, ListKept

\* No request is rolled back after it has converted the cart, which commits by
\* itself, and before it commits its order.
ConversionsCommit == [][\A m \in Calls : msg[m].pc = "end" => ~RollBack(m)]_checkoutVars

\* Every step that is not such a roll-back keeps orders and carts in agreement.
LEMMA CheckoutNextLists ==
  ASSUME BInv, ListInv, [CheckoutNext]_checkoutVars,
         [\A m \in Calls : msg[m].pc = "end" => ~RollBack(m)]_checkoutVars
  PROVE  ListInv'
<1>1. ASSUME UNCHANGED <<order, cart, msg, call>> PROVE ListInv'
  BY <1>1, ListStays
<1>2. CASE UNCHANGED checkoutVars
  BY <1>1, <1>2 DEF checkoutVars, cartVars, botVars
<1>3. CASE \E m \in Calls, in \in Inputs(conv) : Receive(m, in)
  BY <1>3, ConversationLists
<1>4. ASSUME NEW m \in Calls, HandleMessage(m) PROVE ListInv'
  <2>1. CASE ResetConversation(m) \/ CompareConversation(m) \/ TakeTurn(m)
    BY <2>1, ConversationLists
  <2>2. CASE \/ CancelCheckout(m) \/ AskFulfillment(m) \/ CollectName(m)
             \/ CollectPhone(m) \/ CollectAddress(m) \/ ConfirmAddress(m)
             \/ SelectPickupSlot(m) \/ AnswerProposal(m) \/ ProposeCartAdd(m)
             \/ HandleCart(m) \/ Answer(m) \/ EndCheckout(m)
    BY <2>2, HandlerKinds, ConversationLists, BeginTaskLists
  <2>3. CASE HandleCancelOrder(m)
    BY <2>3, HandleCancelOrderLists
  <2>4. CASE FindCart(m) \/ ChangeCart(m) \/ ConvertCart(m)
    BY <2>4, CartWorkLists
  <2>5. CASE \/ ShowCart(m) \/ StartCheckout(m) \/ NothingToRemove(m)
             \/ NothingToCheckOut(m) \/ RefuseTask(m)
    BY <2>5, ConversationLists DEF RefuseTask
  <2>6. CASE SaveCart(m)
    BY <2>6, SaveCartLists
  <2>7. CASE \E o \in Orders : PlaceOrder(m, o)
    BY <2>7, PlaceOrderLists
  <2>8. CASE CreatePayment(m)
    BY <2>8, CreatePaymentLists
  <2>9. CASE CartIsConverted(m)
    BY <2>9, CartIsConvertedLists
  <2> QED BY <1>4, <2>1, <2>2, <2>3, <2>4, <2>5, <2>6, <2>7, <2>8, <2>9 DEF HandleMessage
<1>5. ASSUME NEW m \in Calls, RollBack(m) PROVE ListInv'
  <2>1. CASE msg[m].pc = "end"
    BY <1>2, <1>5, <2>1
  <2>2. CASE msg[m].pc # "end"
    BY <1>5, <2>2, RollBackLists
  <2> QED BY <2>1, <2>2
<1>6. ASSUME NEW s \in CartSweepers, SweepStep(s) PROVE ListInv'
  <2>1. CASE \E k \in Carts : Sweeps(s, k)
    BY <2>1, SweepsLists
  <2>2. CASE SweepLists(s) \/ \E k \in Carts : SweepWaits(s, k) \/ SweepFails(s, k)
    BY <1>1, <2>2 DEF SweepLists, ListExpiredCarts, SweepWaits, SweepFails, SweepCartFails,
                      cartVars, botVars
  <2> QED BY <1>6, <2>1, <2>2 DEF SweepStep
<1>7. CASE (\E k \in Carts : TtlPasses(k)) \/ ProposalAges \/ Silence
  BY <1>1, <1>7 DEF TtlPasses, CartTtlPasses, ProposalAges, Silence, cartVars, botVars
<1> QED BY <1>2, <1>3, <1>4, <1>5, <1>6, <1>7, ConversationLists DEF CheckoutNext

\* Nothing is ordered at first.
LEMMA CheckoutInitLists == CheckoutInit => ListInv
<1> SUFFICES ASSUME CheckoutInit PROVE ListInv
  OBVIOUS
<1>1. \A o \in Orders : order[o].status = "none" /\ order[o].cart = NoCart
  BY DEF CheckoutInit, NoOrderRow
<1>2. Placed = {}
  BY <1>1 DEF Placed
<1>3. ASSUME NEW m \in Calls PROVE Copied(m)
  BY DEF CheckoutInit, NoMsg, Copied, Tasks, Placing
<1> QED BY <1>1, <1>2, <1>3 DEF ListInv, PlacedInOrder, OrderedAsListed

-----------------------------------------------------------------------------
(* Silence.  While messages come one at a time, each decides on the context  *)
(* that is committed: one without a state has no checkout, and one that fell *)
(* silent has no proposal that is not stale.                                 *)

OneAtATime == \A m, n \in Calls : msg[m].pc # "idle" /\ msg[n].pc # "idle" => m = n

Fresh(ctx) ==
  /\ ctx.state = "idle" => ctx.stage = "none"
  /\ ctx.quiet /\ ctx.product # NoProduct => ctx.stale

\* What a message has read, before its turn and after it.
UpToDate(m) ==
  /\ msg[m].pc \in {"seen", "wait", "turn"} =>
       msg[m].ctx = conv /\ ~msg[m].dirty /\ (conv.quiet => conv.state = "idle")
  /\ msg[m].pc \in Tasks \cup Placing => Fresh(msg[m].ctx) /\ ~msg[m].ctx.quiet

QInv == Fresh(conv) /\ \A m \in Calls : UpToDate(m)

\* Nobody else is in flight when a message commits.
LEMMA CommitFresh ==
  ASSUME BInv, QInv, OneAtATime, NEW m \in Calls, msg[m].pc # "idle", NEW ctx, Fresh(ctx),
         Commit(m, ctx)
  PROVE  QInv'
<1>1. msg \in [Calls -> MessageState] /\ conv' = ctx /\ msg' = [msg EXCEPT ![m] = NoMsg]
  BY DEF BInv, BotTypeOK, Commit
<1>2. ASSUME NEW d \in Calls PROVE msg'[d].pc = "idle"
  BY <1>1, <1>2 DEF OneAtATime, NoMsg
<1>3. \A d \in Calls : UpToDate(d)'
  BY <1>2 DEF UpToDate, Tasks, Placing
<1>4. Fresh(conv)'
  BY <1>1 DEF Fresh
<1> QED BY <1>3, <1>4 DEF QInv

\* A message goes on, and the conversation stays as it is.
LEMMA GoesOnFresh ==
  ASSUME BInv, QInv, UNCHANGED conv, NEW m \in Calls, NEW new, msg' = [msg EXCEPT ![m] = new],
         new.pc \in {"seen", "wait", "turn"} =>
           new.ctx = conv /\ ~new.dirty /\ (conv.quiet => conv.state = "idle"),
         new.pc \in Tasks \cup Placing => Fresh(new.ctx) /\ ~new.ctx.quiet
  PROVE  QInv'
<1>1. msg'[m] = new /\ \A d \in Calls \ {m} : msg'[d] = msg[d]
  BY DEF BInv, BotTypeOK
<1>2. Fresh(conv)'
  BY DEF QInv, Fresh
<1>3. ASSUME NEW d \in Calls PROVE UpToDate(d)'
  <2>1. CASE d = m
    BY <1>1, <2>1 DEF UpToDate, Fresh
  <2>2. CASE d # m
    BY <1>1, <2>2 DEF QInv, UpToDate, Fresh
  <2> QED BY <2>1, <2>2
<1> QED BY <1>2, <1>3 DEF QInv

\* The message comes in, compares what it read, and takes its turn.
LEMMA TurnFresh ==
  ASSUME BInv, QInv, OneAtATime, NEW m \in Calls,
         \/ \E in \in Inputs(conv) : Receive(m, in)
         \/ ResetConversation(m) \/ CompareConversation(m) \/ TakeTurn(m)
  PROVE  QInv'
<1>1. /\ msg \in [Calls -> MessageState] /\ msg[m] \in MessageState /\ conv \in Context
      /\ UpToDate(m)
  BY DEF BInv, BotTypeOK, QInv
<1>2. CASE \E in \in Inputs(conv) : Receive(m, in)
  <2>1. PICK in \in Inputs(conv) : Receive(m, in)
    BY <1>2
  <2>2. PICK pc \in {"reset", "seen"} : pc = IF TimedOut THEN "reset" ELSE "seen"
    OBVIOUS
  <2>3. PICK new : new = [NoMsg EXCEPT !.pc = pc, !.word = in.word, !.product = in.product,
                                       !.qty = in.qty, !.ctx = conv]
    OBVIOUS
  <2>4. new.pc = pc /\ new.ctx = conv /\ ~new.dirty
    BY <2>3 DEF NoMsg
  <2>5. UNCHANGED conv /\ msg' = [msg EXCEPT ![m] = new]
    BY <2>1, <2>2, <2>3 DEF Receive
  <2>6. new.pc = "seen" => (conv.quiet => conv.state = "idle")
    BY <2>2, <2>4 DEF TimedOut
  <2>7. new.pc \notin Tasks \cup Placing \cup {"wait", "turn"}
    BY <2>2, <2>4 DEF Tasks, Placing
  <2> QED BY <2>4, <2>5, <2>6, <2>7, GoesOnFresh
<1>3. CASE ResetConversation(m)
  <2>1. PICK ctx : ctx = [conv EXCEPT !.state = "idle", !.stage = "none", !.delivery = "none",
                                      !.product = NoProduct, !.qty = 0, !.stale = FALSE]
    OBVIOUS
  <2>2. Fresh(ctx)
    BY <1>1, <2>1 DEF Fresh, Context
  <2> QED BY <1>3, <2>1, <2>2, CommitFresh DEF ResetConversation
<1>4. CASE CompareConversation(m)
  <2>1. msg[m].ctx = conv /\ (conv.quiet => conv.state = "idle")
    BY <1>1, <1>4 DEF CompareConversation, UpToDate
  <2>2. [conv EXCEPT !.quiet = conv.quiet] = conv
    BY <1>1 DEF Context
  <2>3. /\ msg' = [msg EXCEPT ![m].pc = "wait", ![m].dirty = FALSE]
        /\ UNCHANGED conv
    BY <1>4, <2>1, <2>2 DEF CompareConversation
  <2>4. PICK new : new = [msg[m] EXCEPT !.pc = "wait", !.dirty = FALSE]
    OBVIOUS
  <2>5. msg' = [msg EXCEPT ![m] = new]
    BY <1>1, <2>3, <2>4
  <2>6. new.pc = "wait" /\ ~new.dirty /\ new.ctx = conv
    BY <1>1, <2>1, <2>4 DEF MessageState
  <2>7. new.pc \notin Tasks \cup Placing
    BY <2>6 DEF Tasks, Placing
  <2> QED BY <2>1, <2>3, <2>5, <2>6, <2>7, GoesOnFresh
<1>5. CASE TakeTurn(m)
  <2>1. PICK new : new = [msg[m] EXCEPT !.pc = "turn"]
    OBVIOUS
  <2>2. msg' = [msg EXCEPT ![m] = new] /\ UNCHANGED conv
    BY <1>5, <2>1 DEF TakeTurn
  <2>3. new.pc = "turn" /\ new.dirty = msg[m].dirty /\ new.ctx = msg[m].ctx
    BY <1>1, <2>1 DEF MessageState
  <2>4. msg[m].ctx = conv /\ ~msg[m].dirty /\ (conv.quiet => conv.state = "idle")
    BY <1>1, <1>5 DEF TakeTurn, UpToDate
  <2>5. new.pc \notin Tasks \cup Placing
    BY <2>3 DEF Tasks, Placing
  <2> QED BY <2>2, <2>3, <2>4, <2>5, GoesOnFresh
<1> QED BY <1>2, <1>3, <1>4, <1>5

\* What a message has in hand at its turn.
LEMMA BaseFresh ==
  ASSUME BInv, QInv, NEW m \in Calls, msg[m].pc = "turn"
  PROVE  /\ msg[m].ctx.stage = "none" \/ msg[m].ctx.state # "idle"
         /\ Base(m) \in Context /\ Base(m).quiet = FALSE
         /\ Base(m).state = msg[m].ctx.state /\ Base(m).stage = msg[m].ctx.stage
         /\ msg[m].ctx.quiet => msg[m].ctx.stage = "none" /\ ~Proposed(msg[m].ctx)
<1>1. /\ msg[m].ctx = conv /\ ~msg[m].dirty /\ (conv.quiet => conv.state = "idle")
      /\ Fresh(conv) /\ conv \in Context
  BY DEF QInv, UpToDate, BInv, BotTypeOK
<1>2. Base(m) = [conv EXCEPT !.quiet = FALSE]
  BY <1>1 DEF Base
<1>3. /\ Base(m) \in Context /\ Base(m).quiet = FALSE
      /\ Base(m).state = conv.state /\ Base(m).stage = conv.stage
  BY <1>1, <1>2 DEF Context
<1> QED BY <1>1, <1>3 DEF Fresh, Proposed

\* What the handlers make of it has a state if it has a stage.
LEMMA MovedOnFresh ==
  ASSUME NEW ctx \in Context, ctx.quiet = FALSE
  PROVE  /\ \A stage, d : stage = "none" \/ ctx.state # "idle" =>
              /\ Fresh(WithCheckout(ctx, stage, d))
              /\ WithCheckout(ctx, stage, d).quiet = FALSE
         /\ Fresh(Closed(ctx))
         /\ \A p, n : ctx.stage = "none" =>
              /\ Fresh(WithProposal(ctx, p, n))
              /\ WithProposal(ctx, p, n).quiet = FALSE
         /\ ctx.stage = "none" \/ ctx.state # "idle" => Fresh(ctx)
<1>1. ASSUME NEW stage, NEW d, stage = "none" \/ ctx.state # "idle"
      PROVE  /\ Fresh(WithCheckout(ctx, stage, d))
             /\ WithCheckout(ctx, stage, d).quiet = FALSE
  BY <1>1 DEF Fresh, WithCheckout, Context
<1>2. Fresh(Closed(ctx))
  BY DEF Fresh, Closed, WithCheckout, Context
<1>3. ASSUME NEW p, NEW n, ctx.stage = "none"
      PROVE  /\ Fresh(WithProposal(ctx, p, n))
             /\ WithProposal(ctx, p, n).quiet = FALSE
  BY <1>3 DEF Fresh, WithProposal, Context
<1>4. ctx.stage = "none" \/ ctx.state # "idle" => Fresh(ctx)
  BY DEF Fresh
<1> QED BY <1>1, <1>2, <1>3, <1>4

\* A handler replies, or begins a task; no checkout and no proposal is carried
\* out on a context that fell silent.
RepliesFresh(m) == \E ctx : Fresh(ctx) /\ Reply(m, ctx)
BeginsFresh(m) ==
  \E task \in Tasks : \E op, p, n, ctx :
    /\ Fresh(ctx) /\ ctx.quiet = FALSE
    /\ msg[m].ctx.quiet => task \notin {"checkout", "add"}
    /\ BeginTask(m, task, op, p, n, ctx)

LEMMA HandlersFresh ==
  ASSUME BInv, QInv, NEW m \in Calls,
         \/ CancelCheckout(m) \/ AskFulfillment(m) \/ CollectName(m)
         \/ CollectPhone(m) \/ CollectAddress(m) \/ ConfirmAddress(m)
         \/ SelectPickupSlot(m) \/ AnswerProposal(m) \/ ProposeCartAdd(m)
         \/ HandleCart(m) \/ Answer(m)
  PROVE  /\ msg[m].pc = "turn"
         /\ RepliesFresh(m) \/ BeginsFresh(m)
<1>1. msg[m].pc = "turn"
  BY DEF CancelCheckout, AskFulfillment, CollectName, CollectPhone, CollectAddress,
         ConfirmAddress, SelectPickupSlot, AnswerProposal, ProposeCartAdd, HandleCart, Answer,
         Proposing, Free, InCheckout
<1>2. PICK b : b = Base(m)
  OBVIOUS
<1>3. /\ b \in Context /\ b.quiet = FALSE
      /\ b.stage = msg[m].ctx.stage
      /\ b.stage = "none" \/ b.state # "idle"
      /\ msg[m].ctx.quiet => msg[m].ctx.stage = "none" /\ ~Proposed(msg[m].ctx)
  BY <1>1, <1>2, BaseFresh
<1>4. Fresh(b) /\ Fresh(Closed(b))
  BY <1>3, MovedOnFresh
<1>5. ASSUME msg[m].ctx.stage # "none", NEW stage, NEW d
      PROVE  /\ Fresh(WithCheckout(b, stage, d))
             /\ WithCheckout(b, stage, d).quiet = FALSE
  BY <1>3, <1>5, MovedOnFresh
<1>6. ASSUME msg[m].ctx.stage = "none", NEW p, NEW n
      PROVE  Fresh(WithProposal(b, p, n)) /\ WithProposal(b, p, n).quiet = FALSE
  BY <1>3, <1>6, MovedOnFresh
<1>7. /\ \A stage \in Stages : stage # "none"
      /\ {"look", "start", "add", "remove", "clear", "checkout"} \subseteq Tasks
  BY DEF Stages, Tasks
<1>8. CASE CancelCheckout(m) \/ AskFulfillment(m) \/ CollectName(m) \/ CollectPhone(m)
           \/ CollectAddress(m)
  BY <1>2, <1>4, <1>5, <1>7, <1>8, <1>1
     DEF CancelCheckout, AskFulfillment, CollectName, CollectPhone, CollectAddress, InCheckout,
         RepliesFresh
<1>9. CASE ConfirmAddress(m) \/ SelectPickupSlot(m)
  BY <1>1, <1>2, <1>3, <1>4, <1>5, <1>7, <1>9
     DEF ConfirmAddress, SelectPickupSlot, InCheckout, RepliesFresh, BeginsFresh
<1>10. CASE AnswerProposal(m)
  BY <1>1, <1>2, <1>3, <1>4, <1>6, <1>7, <1>10
     DEF AnswerProposal, Proposing, InCheckout, WithoutProposal, RepliesFresh, BeginsFresh
<1>11. CASE ProposeCartAdd(m) \/ Answer(m)
  BY <1>1, <1>2, <1>4, <1>6, <1>11
     DEF ProposeCartAdd, Answer, Free, InCheckout, RepliesFresh
<1>12. CASE HandleCart(m)
  BY <1>1, <1>2, <1>3, <1>4, <1>7, <1>12 DEF HandleCart, BeginsFresh
<1> QED BY <1>8, <1>9, <1>10, <1>11, <1>12

\* A task begins, and an order is placed, paid and converted, on the context the
\* message had at its turn.
LEMMA TaskFresh ==
  ASSUME BInv, QInv, NEW m \in Calls,
         \/ msg[m].pc = "turn" /\ BeginsFresh(m)
         \/ \E o \in Orders : PlaceOrder(m, o)
         \/ CreatePayment(m) \/ CartIsConverted(m)
  PROVE  QInv'
<1>1. msg \in [Calls -> MessageState] /\ msg[m] \in MessageState /\ UpToDate(m)
  BY DEF BInv, BotTypeOK, QInv
<1>2. {"seen", "wait", "turn"} \cap (Tasks \cup Placing) = {}
  BY DEF Tasks, Placing
<1>3. CASE BeginsFresh(m)
  <2>1. PICK task, ctx : /\ task \in Tasks /\ Fresh(ctx) /\ ctx.quiet = FALSE
                         /\ \E op, p, n : BeginTask(m, task, op, p, n, ctx)
    BY <1>3 DEF BeginsFresh
  <2>2. PICK new : new = [NoMsg EXCEPT !.pc = task, !.ctx = ctx]
    OBVIOUS
  <2>3. /\ UNCHANGED conv /\ msg' = [msg EXCEPT ![m] = new]
        /\ new.pc = task /\ new.ctx = ctx
    BY <2>1, <2>2 DEF BeginTask, NoMsg
  <2> QED BY <1>2, <2>1, <2>3, GoesOnFresh
<1>4. ASSUME NEW new, UNCHANGED conv, msg' = [msg EXCEPT ![m] = new], new.pc \in Placing,
             new.ctx = msg[m].ctx, msg[m].pc \in Tasks \cup Placing
      PROVE  QInv'
  <2>1. new.pc \notin {"seen", "wait", "turn"} /\ Fresh(new.ctx) /\ ~new.ctx.quiet
    BY <1>1, <1>2, <1>4 DEF UpToDate
  <2> QED BY <1>4, <2>1, GoesOnFresh
<1>5. CASE \E o \in Orders : PlaceOrder(m, o)
  <2>1. PICK o \in Orders : PlaceOrder(m, o)
    BY <1>5
  <2>2. PICK new : new = [msg[m] EXCEPT !.pc = "pay", !.order = o]
    OBVIOUS
  <2>3. msg' = [msg EXCEPT ![m] = new] /\ UNCHANGED conv /\ msg[m].pc = "checkout"
    BY <1>1, <2>1, <2>2 DEF PlaceOrder, Found
  <2>4. new.pc \in Placing /\ new.ctx = msg[m].ctx /\ "checkout" \in Tasks
    BY <1>1, <2>2 DEF MessageState, Placing, Tasks
  <2> QED BY <1>4, <2>3, <2>4
<1>6. CASE CreatePayment(m)
  <2>1. PICK new : new = [msg[m] EXCEPT !.pc = "convert"]
    OBVIOUS
  <2>2. msg' = [msg EXCEPT ![m] = new] /\ UNCHANGED conv /\ msg[m].pc = "pay"
    BY <1>6, <2>1 DEF CreatePayment
  <2>3. new.pc \in Placing /\ new.ctx = msg[m].ctx /\ "pay" \in Placing
    BY <1>1, <2>1 DEF MessageState, Placing
  <2> QED BY <1>4, <2>2, <2>3
<1>7. CASE CartIsConverted(m)
  <2>1. PICK new : new = [msg[m] EXCEPT !.pc = "end"]
    OBVIOUS
  <2>2. msg' = [msg EXCEPT ![m] = new] /\ UNCHANGED conv /\ msg[m].pc = "convert"
    BY <1>7, <2>1 DEF CartIsConverted
  <2>3. new.pc \in Placing /\ new.ctx = msg[m].ctx /\ "convert" \in Placing
    BY <1>1, <2>1 DEF MessageState, Placing
  <2> QED BY <1>4, <2>2, <2>3
<1> QED BY <1>3, <1>5, <1>6, <1>7

\* The task or the checkout is over, or R is rolled back.
LEMMA TaskOverFresh ==
  ASSUME BInv, QInv, OneAtATime, NEW m \in Calls,
         \/ ShowCart(m) \/ StartCheckout(m) \/ NothingToRemove(m) \/ NothingToCheckOut(m)
         \/ SaveCart(m) \/ TaskFails(m) \/ HandleCancelOrder(m) \/ EndCheckout(m)
         \/ RollBack(m)
  PROVE  QInv'
<1>1. /\ msg[m].ctx \in Context /\ UpToDate(m) /\ MsgSound(m) /\ conv \in Context /\ Fresh(conv)
  BY MessageFields DEF BInv, BotTypeOK, QInv
<1>2. CASE /\ msg[m].pc \in Tasks \cup Placing
           /\ \E ctx \in {msg[m].ctx, Closed(msg[m].ctx),
                          [WithCheckout(msg[m].ctx, "ask_fulfillment", "none")
                             EXCEPT !.state = "collecting_order"],
                          [WithCheckout(msg[m].ctx, "none", "none")
                             EXCEPT !.state = "waiting_payment"]} : Commit(m, ctx)
  <2>1. Fresh(msg[m].ctx) /\ ~msg[m].ctx.quiet /\ msg[m].pc # "idle"
    BY <1>1, <1>2 DEF UpToDate, Tasks, Placing
  <2>2. PICK c \in Context : c = msg[m].ctx
    BY <1>1
  <2>3. /\ Fresh(Closed(c))
        /\ Fresh([WithCheckout(c, "ask_fulfillment", "none") EXCEPT !.state = "collecting_order"])
        /\ Fresh([WithCheckout(c, "none", "none") EXCEPT !.state = "waiting_payment"])
    BY <2>1, <2>2 DEF Fresh, Closed, WithCheckout, Context
  <2> QED BY <1>2, <2>1, <2>2, <2>3, CommitFresh
<1>3. CASE \/ ShowCart(m) \/ StartCheckout(m) \/ NothingToRemove(m) \/ NothingToCheckOut(m)
           \/ SaveCart(m) \/ EndCheckout(m)
  BY <1>2, <1>3 DEF ShowCart, StartCheckout, NothingToRemove, NothingToCheckOut, SaveCart,
                    EndCheckout, Found, InCart, Reply, Tasks, Placing
<1>4. CASE TaskFails(m)
  <2>1. msg[m].pc \in Tasks \cup Placing
    BY <1>1, <1>4 DEF TaskFails, FailCall, MsgSound, TaskSound, NoCall, Placing
  <2> QED BY <1>2, <1>4, <2>1 DEF TaskFails
<1>5. CASE HandleCancelOrder(m)
  <2>1. msg[m].pc = "turn" /\ msg[m].ctx.stage = "none" /\ Commit(m, Base(m))
    BY <1>5 DEF HandleCancelOrder, Free, InCheckout
  <2>2. Fresh(Base(m))
    BY <2>1, BaseFresh, MovedOnFresh
  <2> QED BY <2>1, <2>2, CommitFresh
<1>6. CASE RollBack(m)
  <2>1. UNCHANGED conv /\ msg' = [msg EXCEPT ![m] = NoMsg]
    BY <1>6 DEF RollBack
  <2>2. NoMsg.pc \notin Tasks \cup Placing \cup {"seen", "wait", "turn"}
    BY DEF NoMsg, Tasks, Placing
  <2> QED BY <2>1, <2>2, GoesOnFresh
<1> QED BY <1>3, <1>4, <1>5, <1>6

\* Silence falls, and a proposal ages, only between messages.
LEMMA QuietFresh ==
  ASSUME BInv, QInv, ProposalAges \/ Silence
  PROVE  QInv'
<1>1. conv \in Context /\ UNCHANGED msg /\ \A m \in Calls : msg[m].pc = "idle"
  BY DEF BInv, BotTypeOK, ProposalAges, Silence, AllIdle
<1>2. Fresh(conv)'
  <2>1. CASE ProposalAges
    BY <1>1, <2>1 DEF ProposalAges, QInv, Fresh, Context
  <2>2. CASE Silence
    BY <1>1, <2>2 DEF Silence, QInv, Fresh, Context
  <2> QED BY <2>1, <2>2
<1>3. \A m \in Calls : UpToDate(m)'
  BY <1>1 DEF UpToDate, Tasks, Placing
<1> QED BY <1>2, <1>3 DEF QInv

\* Every step keeps what messages know up to date, one message at a time.
LEMMA CheckoutNextFresh ==
  ASSUME BInv, QInv, OneAtATime, [CheckoutNext]_checkoutVars
  PROVE  QInv'
<1>1. ASSUME UNCHANGED <<conv, msg>> PROVE QInv'
  BY <1>1 DEF QInv, UpToDate, Fresh
<1>2. CASE UNCHANGED checkoutVars
  BY <1>1, <1>2 DEF checkoutVars, botVars
<1>3. CASE \E m \in Calls, in \in Inputs(conv) : Receive(m, in)
  BY <1>3, TurnFresh
<1>4. ASSUME NEW m \in Calls, HandleMessage(m) PROVE QInv'
  <2>1. CASE ResetConversation(m) \/ CompareConversation(m) \/ TakeTurn(m)
    BY <2>1, TurnFresh
  <2>2. CASE \/ CancelCheckout(m) \/ AskFulfillment(m) \/ CollectName(m)
             \/ CollectPhone(m) \/ CollectAddress(m) \/ ConfirmAddress(m)
             \/ SelectPickupSlot(m) \/ AnswerProposal(m) \/ ProposeCartAdd(m)
             \/ HandleCart(m) \/ Answer(m)
    <3>1. msg[m].pc = "turn"
      BY <2>2, HandlersFresh
    <3>2. CASE RepliesFresh(m)
      BY <3>1, <3>2, CommitFresh DEF RepliesFresh, Reply
    <3>3. CASE BeginsFresh(m)
      BY <3>1, <3>3, TaskFresh
    <3> QED BY <2>2, <3>2, <3>3, HandlersFresh
  <2>3. CASE FindCart(m) \/ ChangeCart(m) \/ ConvertCart(m)
    BY <1>1, <2>3 DEF FindCart, ChangeCart, ConvertCart, botVars
  <2>4. CASE \/ ShowCart(m) \/ StartCheckout(m) \/ NothingToRemove(m) \/ NothingToCheckOut(m)
             \/ SaveCart(m) \/ RefuseTask(m) \/ HandleCancelOrder(m) \/ EndCheckout(m)
    BY <2>4, TaskOverFresh DEF RefuseTask
  <2>5. CASE (\E o \in Orders : PlaceOrder(m, o)) \/ CreatePayment(m) \/ CartIsConverted(m)
    BY <2>5, TaskFresh
  <2> QED BY <1>4, <2>1, <2>2, <2>3, <2>4, <2>5 DEF HandleMessage
<1>5. ASSUME NEW m \in Calls, TaskFails(m) \/ RollBack(m) PROVE QInv'
  BY <1>5, TaskOverFresh
<1>6. ASSUME NEW s \in CartSweepers, SweepStep(s) PROVE QInv'
  BY <1>1, <1>6 DEF SweepStep, SweepLists, SweepWaits, Sweeps, SweepFails, botVars
<1>7. CASE \E k \in Carts : TtlPasses(k)
  BY <1>1, <1>7 DEF TtlPasses, botVars
<1> QED BY <1>2, <1>3, <1>4, <1>5, <1>6, <1>7, QuietFresh DEF CheckoutNext

\* A message at its turn goes on to a task only through a handler.
LEMMA HandlersBegin ==
  ASSUME BInv, QInv, [CheckoutNext]_checkoutVars, NEW m \in Calls,
         msg[m].pc = "turn", msg[m].ctx.quiet
  PROVE  msg'[m].pc \notin {"checkout", "add"}
<1>1. msg \in [Calls -> MessageState] /\ NoMsg.pc = "idle" /\ call[m] = NoCall
  BY NoMsgType DEF BInv, BotTypeOK, MsgSound, TaskSound, Tasks
<1>2. ASSUME \/ UNCHANGED msg
             \/ \E d \in Calls : msg' = [msg EXCEPT ![d] = NoMsg]
             \/ \E d \in Calls \ {m} : \E new : msg' = [msg EXCEPT ![d] = new]
      PROVE  msg'[m].pc \notin {"checkout", "add"}
  BY <1>1, <1>2
<1>3. ASSUME NEW d \in Calls, HandleMessage(d) PROVE msg'[m].pc \notin {"checkout", "add"}
  <2>1. CASE \/ CancelCheckout(d) \/ AskFulfillment(d) \/ CollectName(d)
             \/ CollectPhone(d) \/ CollectAddress(d) \/ ConfirmAddress(d)
             \/ SelectPickupSlot(d) \/ AnswerProposal(d) \/ ProposeCartAdd(d)
             \/ HandleCart(d) \/ Answer(d)
    <3>1. CASE RepliesFresh(d)
      BY <1>2, <3>1 DEF RepliesFresh, Reply, Commit
    <3>2. CASE BeginsFresh(d) /\ d # m
      BY <1>2, <3>2 DEF BeginsFresh, BeginTask
    <3>3. CASE BeginsFresh(d) /\ d = m
      <4>1. PICK task, ctx : /\ task \notin {"checkout", "add"}
                             /\ msg' = [msg EXCEPT ![m] = [NoMsg EXCEPT !.pc = task, !.ctx = ctx]]
        BY <3>3 DEF BeginsFresh, BeginTask
      <4> QED BY <1>1, <4>1 DEF NoMsg
    <3> QED BY <2>1, <3>1, <3>2, <3>3, HandlersFresh
  <2>2. CASE FindCart(d) \/ ChangeCart(d) \/ ConvertCart(d)
    BY <1>2, <2>2 DEF FindCart, ChangeCart, ConvertCart, botVars
  <2>3. CASE \/ ResetConversation(d) \/ ShowCart(d) \/ StartCheckout(d) \/ NothingToRemove(d)
             \/ NothingToCheckOut(d) \/ SaveCart(d) \/ RefuseTask(d) \/ HandleCancelOrder(d)
             \/ EndCheckout(d)
    BY <1>2, <2>3 DEF ResetConversation, ShowCart, StartCheckout, NothingToRemove,
                      NothingToCheckOut, SaveCart, RefuseTask, TaskFails, HandleCancelOrder,
                      EndCheckout, Reply, Commit
  <2>4. CASE \/ CompareConversation(d) \/ TakeTurn(d)
             \/ (\E o \in Orders : PlaceOrder(d, o)) \/ CreatePayment(d) \/ CartIsConverted(d)
    <3>1. d # m
      BY <2>4 DEF CompareConversation, TakeTurn, PlaceOrder, CreatePayment, CartIsConverted, Found
    <3>2. CASE CompareConversation(d)
      BY <1>1, <3>1, <3>2 DEF CompareConversation
    <3>3. CASE \E o \in Orders : PlaceOrder(d, o)
      BY <1>1, <3>1, <3>3 DEF PlaceOrder
    <3>4. CASE TakeTurn(d) \/ CreatePayment(d) \/ CartIsConverted(d)
      BY <1>1, <3>1, <3>4 DEF TakeTurn, CreatePayment, CartIsConverted
    <3> QED BY <2>4, <3>2, <3>3, <3>4
  <2> QED BY <1>3, <2>1, <2>2, <2>3, <2>4 DEF HandleMessage
<1>4. CASE \E d \in Calls, in \in Inputs(conv) : Receive(d, in)
  <2>1. PICK d \in Calls : msg[d].pc = "idle" /\ \E new : msg' = [msg EXCEPT ![d] = new]
    BY <1>4 DEF Receive
  <2> QED BY <1>2, <2>1
<1>5. ASSUME NEW d \in Calls, TaskFails(d) \/ RollBack(d)
      PROVE  msg'[m].pc \notin {"checkout", "add"}
  BY <1>2, <1>5 DEF TaskFails, Commit, RollBack
<1>6. CASE \/ \E s \in CartSweepers : SweepStep(s)
           \/ \E k \in Carts : TtlPasses(k)
           \/ ProposalAges \/ Silence \/ UNCHANGED checkoutVars
  <2>1. UNCHANGED msg
    BY <1>6 DEF SweepStep, SweepLists, SweepWaits, Sweeps, SweepFails, TtlPasses, ProposalAges,
                Silence, checkoutVars, botVars
  <2> QED BY <1>2, <2>1
<1> QED BY <1>3, <1>4, <1>5, <1>6 DEF CheckoutNext

-----------------------------------------------------------------------------
(* Theorems *)

\* The turn keeps its meaning from the first step on: only the message that has
\* it works on a cart, or has an order that is not committed.
THEOREM CheckoutInductive == CheckoutSpec => []BInv
BY CheckoutInitSound, CheckoutNextSound, PTL DEF CheckoutSpec

\* Every conversation, message and order has the form the code gives it, and no
\* counter goes below 0, also when a request is rolled back.
THEOREM CheckoutTypeCorrect == CheckoutSpec => []CheckoutTypeOK
<1>1. BInv => CheckoutTypeOK
  BY DEF BInv, BotTypeOK, CInv, CheckoutTypeOK
<1> QED BY <1>1, CheckoutInductive, PTL

\* In the whole bot as in the carts alone: a cart whose calls neither overlap nor
\* die has exactly its items reserved until its release is stamped, through
\* checkouts, cancellations and requests that are rolled back.
THEOREM BotCartsHoldWhatTheyList == CheckoutSpec => []HeldAsListed
<1>1. BInv => HeldAsListed
  BY SoundIsHeld DEF BInv
<1> QED BY <1>1, CheckoutInductive, PTL

\* The match of counter, carts and orders holds from the first step on.
THEOREM AccountsInductive == CheckoutSpec => []AInv
BY CheckoutInitCounts, CheckoutNextCounts, PTL DEF CheckoutSpec

\* As long as no call died between reservation and save, every reserved unit
\* belongs to exactly one cart or one pending order, through expiries,
\* checkouts, cancellations and requests that are rolled back, for any number
\* of messages and ticks that interleave.
THEOREM EveryUnitIsAccounted == CheckoutSpec => []ReservedIsAccounted
<1>1. AInv => ReservedIsAccounted
  <2> SUFFICES ASSUME AInv, torn = {}, NEW p \in Products
               PROVE  stock[p].reserved
                        = Total([k \in Carts |-> Promised(k)[p]], Carts)
                            + Total([o \in Orders |-> order[o].items[p]], Pending)
    BY DEF ReservedIsAccounted
  <2>1. PICK others \in Basket : others = AskedFor
    BY AskedForTypes DEF AInv
  <2>2. SInv(others)
    BY <2>1 DEF AInv, BInv, SInv, ReservedBesides
  <2>3. stock[p].reserved = others[p] + Total([k \in Carts |-> Promised(k)[p]], Carts)
    BY <2>2, CountedIsListed
  <2>4. others[p] = Total([o \in Orders |-> order[o].items[p]], Pending) /\ others[p] \in Int
    BY <2>1 DEF AskedFor, Basket
  <2>5. PICK f : f = [k \in Carts |-> Promised(k)[p]]
    OBVIOUS
  <2>6. \A k \in Carts : f[k] \in Int
    BY <2>5, SoundIsHeld DEF AInv, BInv, CInv, CartTypeOK, HeldAsListed
  <2>7. Total(f, Carts) \in Int
    BY ONLY <2>6, CartAssumption, TotalType
  <2> QED BY <2>3, <2>4, <2>5, <2>7
<1> QED BY <1>1, AccountsInductive, PTL

\* Whatever conversation a repeated confirmation is based on, no order is placed
\* for a cart that is converted already: the message works on a cart that was
\* active when it had the turn, and nobody converts one without it.
THEOREM CartsAreCheckedOutOnce == CheckoutSpec => CheckedOutOnce
<1>1. ASSUME BInv, [CheckoutNext]_checkoutVars, NEW o \in Orders,
             order[o].status = "none", order'[o].status # "none"
      PROVE  cart[order'[o].cart].status # "converted"
  <2>1. order \in [Orders -> OrderRow]
    BY <1>1 DEF BInv, BotTypeOK
  <2>2. CASE \E m \in Calls, x \in Orders : PlaceOrder(m, x)
    <3>1. PICK m \in Calls, x \in Orders : PlaceOrder(m, x)
      BY <2>2
    <3>2. x = o /\ order'[o].cart = call[m].cart
      BY <1>1, <2>1, <3>1 DEF PlaceOrder
    <3>3. call[m].cart \in Carts /\ InHandIsOpen(m)
      BY <1>1, <3>1 DEF PlaceOrder, Found, BInv, CInv, CallSound, InHandPc
    <3> QED BY <3>2, <3>3 DEF InHandIsOpen
  <2>3. CASE OrdersStay
    BY <1>1, <2>3 DEF OrdersStay
  <2>4. CASE \E m \in Calls : CreatePayment(m)
    <3>1. PICK x, outcome : order' = [order EXCEPT ![x].payment = outcome]
      BY <2>4 DEF CreatePayment
    <3>2. order'[o].status = order[o].status
      BY <2>1, <3>1 DEF OrderRow
    <3> QED BY <1>1, <3>2
  <2>5. CASE \E m \in Calls : HandleCancelOrder(m)
    <3>1. PICK x \in Placed : order' = [order EXCEPT ![x].status = "cancelado"]
      BY <2>5, LatestIsPlaced DEF HandleCancelOrder, LastIsPending
    <3> QED BY <1>1, <2>1, <3>1 DEF Placed
  <2>6. CASE \E m \in Calls : RollBack(m)
    BY <1>1, <2>1, <2>6 DEF RollBack, NoOrderRow
  <2> QED BY <1>1, <2>2, <2>3, <2>4, <2>5, <2>6, StepKinds DEF OrdersMove
<1>2. BInv /\ [CheckoutNext]_checkoutVars =>
        [\A o \in Orders : order[o].status = "none" /\ order'[o].status # "none" =>
           cart[order'[o].cart].status # "converted"]_checkoutVars
  BY <1>1
<1> QED BY <1>2, CheckoutInductive, PTL DEF CheckoutSpec, CheckedOutOnce

\* A converted cart has the items of its latest order, however messages overlap
\* and carts expire around it: what the message copies into the order is still
\* in the row when the row becomes converted.  It takes requests that commit
\* once they have converted their cart.
THEOREM OrdersMatchTheirCarts == CheckoutSpec /\ ConversionsCommit => []OrderedAsListed
<1>1. CheckoutInit => BInv /\ ListInv
  BY CheckoutInitSound, CheckoutInitLists
<1>2. BInv /\ ListInv /\ [CheckoutNext]_checkoutVars
        /\ [\A m \in Calls : msg[m].pc = "end" => ~RollBack(m)]_checkoutVars
      => (BInv /\ ListInv)'
  BY CheckoutNextSound, CheckoutNextLists
<1>3. ListInv => OrderedAsListed
  BY DEF ListInv
<1> QED BY <1>1, <1>2, <1>3, PTL DEF CheckoutSpec, ConversionsCommit

\* So they do where nothing fails.
COROLLARY OrdersMatchIfNothingFails == ~MayFail /\ CheckoutSpec => []OrderedAsListed
<1>1. ~MayFail =>
        [\A m \in Calls : msg[m].pc = "end" => ~RollBack(m)]_checkoutVars
  BY DEF RollBack
<1>2. ~MayFail => (~MayFail)'
  OBVIOUS
<1> QED BY <1>1, <1>2, OrdersMatchTheirCarts, PTL DEF ConversionsCommit

\* Whoever comes back after five minutes of silence starts anew, when messages
\* come one at a time: no order is placed and no proposal carried out on a
\* context that fell silent.  (Two messages at once can leave a checkout without
\* a state, which no silence ends.)
THEOREM SilenceStartsAnew == CheckoutSpec /\ []OneAtATime => SilenceEndsCheckout
<1>1. CheckoutInit => BInv /\ QInv
  <2> SUFFICES ASSUME CheckoutInit PROVE QInv
    BY CheckoutInitSound
  <2>1. Fresh(conv)
    BY DEF CheckoutInit, NewContext, Fresh
  <2>2. \A m \in Calls : UpToDate(m)
    BY DEF CheckoutInit, NoMsg, UpToDate, Tasks, Placing
  <2> QED BY <2>1, <2>2 DEF QInv
<1>2. BInv /\ QInv /\ OneAtATime /\ [CheckoutNext]_checkoutVars => (BInv /\ QInv)'
  BY CheckoutNextSound, CheckoutNextFresh
<1>3. BInv /\ QInv /\ [CheckoutNext]_checkoutVars =>
        [\A m \in Calls : msg[m].pc = "turn" /\ msg[m].ctx.quiet =>
           msg'[m].pc \notin {"checkout", "add"}]_checkoutVars
  BY HandlersBegin
<1> QED BY <1>1, <1>2, <1>3, PTL DEF CheckoutSpec, SilenceEndsCheckout

\* So it is for a customer with one message at a time.
COROLLARY SilenceStartsAnewAlone ==
  (\A m, n \in Calls : m = n) /\ CheckoutSpec => SilenceEndsCheckout
<1> DEFINE Alone == \A m, n \in Calls : m = n
<1>1. Alone => OneAtATime
  BY DEF OneAtATime
<1>2. Alone => Alone'
  OBVIOUS
<1> HIDE DEF Alone
<1>3. Alone /\ CheckoutSpec => SilenceEndsCheckout
  BY <1>1, <1>2, SilenceStartsAnew, PTL
<1> QED BY <1>3 DEF Alone
=============================================================================
