------------------------------- MODULE Tracking -------------------------------
(***************************************************************************)
(* The public page of an order (OrderTracking) against the status of its   *)
(* order.  The customer asks once; from then on the page asks every 30     *)
(* seconds while the status it shows is not final, without waiting for the *)
(* answers, which may come late, out of order or not at all.               *)
(***************************************************************************)
EXTENDS Naturals

CONSTANTS Asks,      \* bound: requests of the page under way
          NoOrder,   \* the page shows its form, no order
          NotRead,
          MayFail    \* bound: whether requests may fail

Statuses == {"pendente_pagamento", "confirmado", "em_producao", "pronto",
             "em_transito", "entregue", "cancelado"}

ASSUME TrackingAssumption == /\ {NoOrder, NotRead} \cap Statuses = {}
                             /\ NoOrder # NotRead
                             /\ MayFail \in BOOLEAN

VARIABLES status,  \* of the order
          been,    \* history: every status the order has been in
          shown,   \* the status on the page
          loading, \* the button of the form is disabled
          ask      \* fetchOrder

trackingVars == <<status, been, shown, loading, ask>>

Idle == [pc |-> "idle", read |-> NotRead]

TrackingInit == /\ status = "pendente_pagamento" /\ been = {status}
                /\ shown = NoOrder /\ loading = FALSE
                /\ ask = [a \in Asks |-> Idle]

\* Mutant: an order that is ready is taken for done.
IsTerminalStatusAtPickup(s) == s \in {"pronto", "entregue", "cancelado"}

IsTerminalStatus(s) == s \in {"entregue", "cancelado"}

\* every actor's transitions together
Transitions ==
  ({"pendente_pagamento"} \X {"confirmado", "cancelado"})
  \cup ({"confirmado"} \X {"em_producao", "cancelado"})
  \cup ({"em_producao"} \X {"pronto", "cancelado"})
  \cup ({"pronto"} \X {"em_transito", "entregue"})
  \cup ({"em_transito"} \X {"entregue"})

\* updateStatus judges a transition on a row it reads before it has the lock,
\* so that the order may leave a status it is no longer in, a final one too.
StatusMoves(to) ==
  /\ \E from \in been : <<from, to>> \in Transitions
  /\ to # status
  /\ status' = to
  /\ been' = been \cup {to}
  /\ UNCHANGED <<shown, loading, ask>>

FetchOrder(a) ==
  /\ ask[a] = Idle
  /\ ask' = [ask EXCEPT ![a].pc = "asked"]
  /\ loading' = TRUE
  /\ UNCHANGED <<status, been, shown>>

Submit(a) == shown = NoOrder /\ ~loading /\ FetchOrder(a)

Poll(a) == shown # NoOrder /\ ~IsTerminalStatus(shown) /\ FetchOrder(a)

TrackPublicOrder(a) ==
  /\ ask[a].pc = "asked"
  /\ ask' = [ask EXCEPT ![a] = [pc |-> "answered", read |-> status]]
  /\ UNCHANGED <<status, been, shown, loading>>

Settled(a) == /\ loading' = FALSE
              /\ ask' = [ask EXCEPT ![a] = Idle]
              /\ UNCHANGED <<status, been>>

Found(a) == ask[a].pc = "answered" /\ shown' = ask[a].read /\ Settled(a)

\* refused, a server error, a broken connection
NotFound(a) == MayFail /\ ask[a].pc # "idle" /\ shown' = NoOrder /\ Settled(a)

TrackingNext ==
  \/ \E to \in Statuses : StatusMoves(to)
  \/ \E a \in Asks : \/ Submit(a) \/ Poll(a)
                     \/ TrackPublicOrder(a) \/ Found(a) \/ NotFound(a)

TrackingSpec == TrackingInit /\ [][TrackingNext]_trackingVars

\* The interval fires, and a request is answered or fails.  Nothing makes the
\* customer ask or the order move.
FairTrackingSpec ==
  /\ TrackingSpec
  /\ WF_trackingVars(\E a \in Asks : Poll(a))
  /\ \A a \in Asks : WF_trackingVars(TrackPublicOrder(a) \/ Found(a) \/ NotFound(a))

-----------------------------------------------------------------------------
(* Properties *)

\* the order ends in t and was in no other final status
Final == {"entregue", "cancelado"}
EndsIn(t) == <>[](status = t /\ been \cap Final = {t})

\* However late and in whatever order answers come, and whatever fails, the
\* page does not stay with an outdated status: an order that has ended is shown
\* as ended from some time on, or the page has gone back to its form.
EndIsShown ==
  \A t \in Final : EndsIn(t) => <>[](shown \in {NoOrder, t})
===============================================================================
