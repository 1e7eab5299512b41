---------------------------- MODULE OrderPayments ----------------------------
(***************************************************************************)
(* An order from checkout to its end: the stock it reserves, the payment   *)
(* sessions opened for it, the gateway that charges it and calls back, the *)
(* customer, the staff and the periodic expiry that also move it.          *)
(*                                                                         *)
(* One step is one database transaction of the code, or one statement      *)
(* where the code runs in autocommit; what a request read earlier and acts *)
(* on later is kept in job[w], the request worker w is serving.            *)
(***************************************************************************)
EXTENDS Naturals, FiniteSets, Functions

CONSTANTS
    Orders,        \* orders that may be placed
    Products,      \* products with a stock row
    Trans,         \* transactions (payment sessions) the gateway may open
    Workers,       \* web workers; each serves one request at a time
    NoOrder, NoTrans,
    Lines,         \* Lines[o][p]: units of p in the cart order o is made from
    InitialStock,  \* InitialStock[p]: units on hand before any order
    StaffTargets,  \* statuses the staff move orders to
    LateReplays,   \* TRUE: the network may deliver any old callback again
    OneSession,    \* TRUE: a customer opens one session per order
    MaxReturns     \* bound on how often one order's stock is returned

LiveStatus   == {"new", "awaiting_payment", "processing", "assembled",
                 "shipped", "ready_for_pickup", "completed"}
ClosedStatus == {"cancelled", "refunded"}
OrderStatus  == LiveStatus \cup ClosedStatus \cup {"none"}

UnpaidStatus == {"new", "awaiting_payment"}
CustomerCancellable == UnpaidStatus \cup {"processing"}
Unpayable    == ClosedStatus \cup {"completed"}

PaymentStatus == {"none", "pending", "succeeded", "cancelled", "failed",
                  "refunded"}
SessionState == {"none", "waiting", "prepared", "confirmed", "rejected",
                 "refunded", "voided", "abandoned"}
Callbacks    == {"ok", "fail"}

ASSUME NullAssumption == NoOrder \notin Orders /\ NoTrans \notin Trans
ASSUME LinesAssumption == Lines \in [Orders -> [Products -> Nat]]
ASSUME StockAssumption == InitialStock \in [Products -> Nat]
ASSUME StaffAssumption == StaffTargets \subseteq OrderStatus \ {"none"}
ASSUME FlagsAssumption == LateReplays \in BOOLEAN /\ OneSession \in BOOLEAN
ASSUME BoundAssumption == MaxReturns \in Nat \ {0}

VARIABLES
    status,    \* Order.status; "none" before checkout
    card,      \* Order.payment_method = card
    paid,      \* Order.paid_at is set
    aged,      \* Order.created_at is older than UNPAID_ORDER_TTL_MINUTES
    stock,     \* Stock.quantity
    payment,   \* the Payment row of each transaction
    session,   \* the gateway's own record of each transaction
    job,       \* what each worker's request has read and not yet acted on
    batch,     \* candidates of the running expiry that are still to visit
    returned,  \* history: how often each order's stock was returned
    released,  \* history: the orders the expiry cancelled
    acked      \* history: the callbacks answered with error 0

orderVars == <<status, card, paid, aged>>
history   == <<returned, released, acked>>
vars == <<status, card, paid, aged, stock, payment, session, job, batch,
          returned, released, acked>>

NoRow   == [status |-> "none", prepared |-> FALSE, confirmed |-> FALSE]
NewRow  == [NoRow EXCEPT !.status = "pending"]
Idle    == [pc |-> "idle", order |-> NoOrder, trans |-> NoTrans,
            seen |-> "none", paid |-> FALSE]

Row     == [status : PaymentStatus, prepared : BOOLEAN, confirmed : BOOLEAN]
Session == [order : Orders \cup {NoOrder}, state : SessionState]
JobPc   == {"idle", "cancel", "opening", "charging", "saving", "recording",
            "asking", "syncing", "reading", "stamping", "editing"}
Job     == [pc    : JobPc,
            order : Orders \cup {NoOrder},
            trans : Trans \cup {NoTrans},
            seen  : OrderStatus \cup PaymentStatus,
            paid  : BOOLEAN]

(***************************************************************************)
(* Types, and what the rows and the requests in flight refer to: a row's   *)
(* transaction names an order, and so does that of a request beyond its    *)
(* call of the gateway.                                                    *)
(***************************************************************************)
References ==
    /\ \A t \in Trans :
        /\ session[t].state # "none" => session[t].order \in Orders
        /\ payment[t].status # "none" => session[t].state # "none"
    /\ \A w \in Workers :
        /\ job[w].pc \in {"cancel", "opening", "charging", "editing"}
              => job[w].order \in Orders
        /\ job[w].pc \in {"saving", "recording", "asking", "syncing",
                          "reading", "stamping"}
              => /\ job[w].trans \in Trans
                 /\ session[job[w].trans].state # "none"
        /\ job[w].pc \in {"asking", "syncing"} => job[w].seen \in PaymentStatus
        /\ job[w].pc = "editing" => job[w].seen \in OrderStatus \ {"none"}

\* The type invariant.
TypeOK ==
    /\ status \in [Orders -> OrderStatus]
    /\ card \in [Orders -> BOOLEAN]
    /\ paid \in [Orders -> BOOLEAN]
    /\ aged \in [Orders -> BOOLEAN]
    /\ stock \in [Products -> Nat]
    /\ payment \in [Trans -> Row]
    /\ session \in [Trans -> Session]
    /\ job \in [Workers -> Job]
    /\ batch \subseteq Orders
    /\ returned \in [Orders -> Nat]
    /\ released \subseteq Orders
    /\ acked \subseteq Trans \X Callbacks
    /\ References

Init ==
    /\ status = [o \in Orders |-> "none"]
    /\ card = [o \in Orders |-> FALSE]
    /\ paid = [o \in Orders |-> FALSE]
    /\ aged = [o \in Orders |-> FALSE]
    /\ stock = InitialStock
    /\ payment = [t \in Trans |-> NoRow]
    /\ session = [t \in Trans |-> [order |-> NoOrder, state |-> "none"]]
    /\ job = [w \in Workers |-> Idle]
    /\ batch = {}
    /\ returned = [o \in Orders |-> 0]
    /\ released = {}
    /\ acked = {}

Placed(o) == status[o] # "none"

\* Mistake, for TLC to catch: the units are taken a second time.
Restock_takes(o) ==
    /\ returned[o] < MaxReturns
    /\ returned' = [returned EXCEPT ![o] = @ + 1]
    /\ stock' = [p \in Products |-> stock[p] - Lines[o][p]]

\* restock_order: every line of the order goes back on its stock row.
Restock(o) ==
    /\ returned[o] < MaxReturns
    /\ returned' = [returned EXCEPT ![o] = @ + 1]
    /\ stock' = [p \in Products |-> stock[p] + Lines[o][p]]

Finish(w) == job' = [job EXCEPT ![w] = Idle]

Begin(w, request) ==
    /\ job[w] = Idle
    /\ job' = [job EXCEPT ![w] = request]

(***************************************************************************)
(* Checkout and the customer's cancellation.                               *)
(***************************************************************************)
\* The cart's lines are compared with the locked stock rows and taken.
Checkout(o, byCard) ==
    /\ status[o] = "none"
    /\ \A p \in Products : Lines[o][p] <= stock[p]
    /\ status' = [status EXCEPT ![o] = IF byCard THEN "awaiting_payment"
                                                 ELSE "processing"]
    /\ card' = [card EXCEPT ![o] = byCard]
    /\ stock' = [p \in Products |-> stock[p] - Lines[o][p]]
    /\ UNCHANGED <<paid, aged, payment, session, job, batch, history>>

\* The view fetches the order without a lock; its status is judged then.
CancelRead(w, o) ==
    /\ status[o] \in CustomerCancellable
    /\ Begin(w, [Idle EXCEPT !.pc = "cancel", !.order = o])
    /\ UNCHANGED <<orderVars, stock, payment, session, batch, history>>

\* Mistake, for TLC to catch: the stock stays reserved.
CancelSave_keepsStock(w) ==
    /\ job[w].pc = "cancel"
    /\ status' = [status EXCEPT ![job[w].order] = "cancelled"]
    /\ Finish(w)
    /\ UNCHANGED <<card, paid, aged, stock, payment, session, batch, history>>

\* The transaction of cancel_order writes whatever the row holds by now.
CancelSave(w) ==
    /\ job[w].pc = "cancel"
    /\ Restock(job[w].order)
    /\ status' = [status EXCEPT ![job[w].order] = "cancelled"]
    /\ Finish(w)
    /\ UNCHANGED <<card, paid, aged, payment, session, batch, released, acked>>

(***************************************************************************)
(* Opening a payment session.                                              *)
(***************************************************************************)
HasPending(o) ==
    \E t \in Trans : session[t].order = o /\ payment[t].status = "pending"

\* start_payment up to its call of the gateway: a payable order with no
\* pending payment.  With one, the stored row is returned and nothing changes.
StartRead(w, o) ==
    /\ Placed(o)
    /\ status[o] \notin Unpayable
    /\ ~HasPending(o)
    /\ Begin(w, [Idle EXCEPT !.pc = "opening", !.order = o,
                             !.seen = status[o]])
    /\ UNCHANGED <<orderVars, stock, payment, session, batch, history>>

\* Charging a card token asks only whether the order is paid.
CardRead(w, o) ==
    /\ Placed(o)
    /\ ~paid[o]
    /\ Begin(w, [Idle EXCEPT !.pc = "charging", !.order = o])
    /\ UNCHANGED <<orderVars, stock, payment, session, batch, history>>

CanOpen(o, t) ==
    /\ session[t].state = "none"
    /\ OneSession => \A u \in Trans : session[u].order # o

\* The gateway serves the call: a new transaction that names the order.
OpenSession(w, t) ==
    /\ job[w].pc \in {"opening", "charging"}
    /\ CanOpen(job[w].order, t)
    /\ session' = [session EXCEPT ![t] = [order |-> job[w].order,
                                          state |-> "waiting"]]
    /\ job' = [job EXCEPT ![w] =
                 [@ EXCEPT !.trans = t,
                           !.pc = IF job[w].pc = "opening" THEN "saving"
                                                           ELSE "recording"]]
    /\ UNCHANGED <<orderVars, stock, payment, batch, history>>

\* Mistake, for TLC to catch: the order always moves on.
SaveSession_always(w) ==
    LET t == job[w].trans
    IN  /\ job[w].pc = "saving"
        /\ payment[t].status = "none"
        /\ payment' = [payment EXCEPT ![t] = NewRow]
        /\ status' = [status EXCEPT ![session[t].order] = "awaiting_payment"]
        /\ Finish(w)
        /\ UNCHANGED <<card, paid, aged, stock, session, batch, history>>

\* The rest of start_payment.  A callback that came first already created the
\* row: the unique constraint fails and the transaction rolls back.
SaveSession(w) ==
    LET t == job[w].trans
        o == session[t].order
    IN  /\ job[w].pc = "saving"
        /\ \/ /\ payment[t].status # "none"
              /\ UNCHANGED <<payment, status>>
           \/ /\ payment[t].status = "none"
              /\ payment' = [payment EXCEPT ![t] = NewRow]
              /\ status' = IF job[w].seen = "new"
                           THEN [status EXCEPT ![o] = "awaiting_payment"]
                           ELSE status
        /\ Finish(w)
        /\ UNCHANGED <<card, paid, aged, stock, session, batch, history>>

\* Mistake, for TLC to catch: an existing row starts over.
RecordCharge_overwrites(w) ==
    /\ job[w].pc = "recording"
    /\ payment' = [payment EXCEPT ![job[w].trans] = NewRow]
    /\ Finish(w)
    /\ UNCHANGED <<orderVars, stock, session, batch, history>>

\* update_or_create after a card charge: an existing row keeps its status.
RecordCharge(w) ==
    LET t == job[w].trans
    IN  /\ job[w].pc = "recording"
        /\ payment' = IF payment[t].status = "none"
                      THEN [payment EXCEPT ![t] = NewRow]
                      ELSE payment
        /\ Finish(w)
        /\ UNCHANGED <<orderVars, stock, session, batch, history>>

\* QR codes, invoices and the staff gateway console open a session for an
\* order in any status and store nothing.
OpenUnrecorded(o, t) ==
    /\ Placed(o)
    /\ CanOpen(o, t)
    /\ session' = [session EXCEPT ![t] = [order |-> o, state |-> "waiting"]]
    /\ UNCHANGED <<orderVars, stock, payment, job, batch, history>>

(***************************************************************************)
(* The unpaid-order expiry, run by the beat schedule.                      *)
(***************************************************************************)
StillUnpaid(o) == card[o] /\ ~paid[o] /\ status[o] \in UnpaidStatus

\* Time passes UNPAID_ORDER_TTL_MINUTES for an order.
Age(o) ==
    /\ Placed(o)
    /\ ~aged[o]
    /\ aged' = [aged EXCEPT ![o] = TRUE]
    /\ UNCHANGED <<status, card, paid, stock, payment, session, job, batch,
                   history>>

\* Mistake, for TLC to catch: only new orders are looked for.
Scan_newOnly ==
    /\ batch = {}
    /\ batch' = {o \in Orders : aged[o] /\ StillUnpaid(o) /\ status[o] = "new"}
    /\ batch' # {}
    /\ UNCHANGED <<orderVars, stock, payment, session, job, history>>

\* The expiry's query: the card orders still unpaid past their deadline.
Scan ==
    /\ batch = {}
    /\ batch' = {o \in Orders : aged[o] /\ StillUnpaid(o)}
    /\ batch' # {}
    /\ UNCHANGED <<orderVars, stock, payment, session, job, history>>

\* Mistake, for TLC to catch: the order is not read again.
Release_unread(o) ==
    /\ o \in batch
    /\ batch' = batch \ {o}
    /\ Restock(o)
    /\ status' = [status EXCEPT ![o] = "cancelled"]
    /\ released' = released \cup {o}
    /\ UNCHANGED <<card, paid, aged, payment, session, job, acked>>

\* One order of the batch, re-read under its row lock.
Release(o) ==
    /\ o \in batch
    /\ batch' = batch \ {o}
    /\ \/ /\ StillUnpaid(o)
          /\ Restock(o)
          /\ status' = [status EXCEPT ![o] = "cancelled"]
          /\ released' = released \cup {o}
       \/ /\ ~StillUnpaid(o)
          /\ UNCHANGED <<status, stock, returned, released>>
    /\ UNCHANGED <<card, paid, aged, payment, session, job, acked>>

\* The expiry stops between two orders: what it released stays released.
ExpiryStops ==
    /\ batch # {}
    /\ batch' = {}
    /\ UNCHANGED <<orderVars, stock, payment, session, job, history>>

(***************************************************************************)
(* Shop API callbacks.  Both handlers hold the order's row lock, so each   *)
(* is one step; its reply may be lost on the way back (heard = FALSE).     *)
(***************************************************************************)
\* The callbacks the gateway has sent for a transaction in each state.
Sent(state) ==
    CASE state \in {"waiting", "prepared", "abandoned"} -> {"prepare"}
      [] state \in {"confirmed", "voided"} -> {"prepare", "ok"}
      [] state = "rejected" -> {"prepare", "fail"}
      [] state = "refunded" -> {"prepare", "ok", "fail"}
      [] OTHER -> {}

Latest(state) ==
    CASE state \in {"waiting", "prepared", "abandoned"} -> {"prepare"}
      [] state \in {"confirmed", "voided"} -> {"ok"}
      [] state \in {"rejected", "refunded"} -> {"fail"}
      [] OTHER -> {}

\* An unanswered callback is sent again.  With LateReplays the network may
\* also deliver one the gateway has since moved on from.
Deliverable(t) == IF LateReplays THEN Sent(session[t].state)
                                 ELSE Latest(session[t].state)

\* handle_prepare for an order in status s and the row it finds.
PrepareOutcome(s, row) ==
    IF s \in ClosedStatus
    THEN [reply |-> "cancelled", row |-> row]
    ELSE LET found == IF row.status = "none" THEN NewRow ELSE row
         IN  IF found.status = "succeeded"
             THEN [reply |-> "already_paid", row |-> found]
             ELSE [reply |-> "success", row |-> [found EXCEPT !.prepared = TRUE]]

Prepare(t, heard) ==
    LET out == PrepareOutcome(status[session[t].order], payment[t])
    IN  /\ "prepare" \in Deliverable(t)
        /\ payment' = [payment EXCEPT ![t] = out.row]
        /\ session' = IF heard /\ session[t].state = "waiting"
                      THEN [session EXCEPT ![t].state =
                              IF out.reply = "success" THEN "prepared"
                                                       ELSE "abandoned"]
                      ELSE session
        /\ UNCHANGED <<orderVars, stock, job, batch, history>>

\* handle_complete: what each of its exits leaves in the order and the row.
Exit(reply, s, p, row, restock) ==
    [reply |-> reply, status |-> s, paid |-> p, row |-> row,
     restock |-> restock]

\* Mistake, for TLC to catch: a repeated reversal works again.
RefundExit_again(s, p, row) ==
    Exit("success", "refunded", p,
         [row EXCEPT !.status = "refunded", !.confirmed = TRUE], TRUE)

\* Mistake, for TLC to catch: the order closes, its stock stays reserved.
RefundExit_keepsStock(s, p, row) ==
    Exit("success", "refunded", p,
         [row EXCEPT !.status = "refunded", !.confirmed = TRUE], FALSE)

\* _apply_refund.
RefundExit(s, p, row) ==
    IF row.status = "refunded"
    THEN Exit("success", s, p, row, FALSE)
    ELSE Exit("success", "refunded", p,
              [row EXCEPT !.status = "refunded", !.confirmed = TRUE], TRUE)

\* Mistake, for TLC to catch: paid_at is left out of the save.
ConfirmExit_unstamped(s, p, row) ==
    IF row.status = "succeeded"
    THEN Exit("success", s, p, row, FALSE)
    ELSE Exit("success", IF s \in UnpaidStatus THEN "processing" ELSE s, p,
              [row EXCEPT !.status = "succeeded", !.confirmed = TRUE], FALSE)

\* handle_complete from its replay check to its end.
ConfirmExit(s, p, row) ==
    IF row.status = "succeeded"
    THEN Exit("success", s, p, row, FALSE)
    ELSE Exit("success", IF s \in UnpaidStatus THEN "processing" ELSE s, TRUE,
              [row EXCEPT !.status = "succeeded", !.confirmed = TRUE], FALSE)

\* Mistake, for TLC to catch: error 0 is taken for a reversal.
CompleteOutcome_zeroReverses(s, p, row, callback) ==
    IF row.status = "none" \/ ~row.prepared
    THEN Exit("not_found", s, p, row, FALSE)
    ELSE IF s = "cancelled" /\ row.status # "succeeded"
    THEN Exit("cancelled", s, p, [row EXCEPT !.status = "cancelled"], FALSE)
    ELSE RefundExit(s, p, row)

\* Mistake, for TLC to catch: a cancelled order is not refused.
CompleteOutcome_unrefused(s, p, row, callback) ==
    IF row.status = "none" \/ ~row.prepared
    THEN Exit("not_found", s, p, row, FALSE)
    ELSE IF callback = "fail" THEN RefundExit(s, p, row)
                              ELSE ConfirmExit(s, p, row)

\* Mistake, for TLC to catch: a cancelled order is answered "not found".
CompleteOutcome_notFound(s, p, row, callback) ==
    IF row.status = "none" \/ ~row.prepared \/ s = "cancelled"
    THEN Exit("not_found", s, p, row, FALSE)
    ELSE IF callback = "fail" THEN RefundExit(s, p, row)
                              ELSE ConfirmExit(s, p, row)

\* handle_complete for an order in status s, with paid_at set or not (p), and
\* the row it finds.
CompleteOutcome(s, p, row, callback) ==
    IF row.status = "none" \/ ~row.prepared
    THEN Exit("not_found", s, p, row, FALSE)
    ELSE IF s = "cancelled" /\ row.status # "succeeded"
    THEN Exit("cancelled", s, p, [row EXCEPT !.status = "cancelled"], FALSE)
    ELSE IF callback = "fail" THEN RefundExit(s, p, row)
                              ELSE ConfirmExit(s, p, row)

\* An answer "cancelled" that arrives makes the gateway void the charge.
Complete(t, callback, heard) ==
    LET o == session[t].order
        out == CompleteOutcome(status[o], paid[o], payment[t], callback)
    IN  /\ callback \in Deliverable(t)
        /\ payment' = [payment EXCEPT ![t] = out.row]
        /\ status' = [status EXCEPT ![o] = out.status]
        /\ paid' = [paid EXCEPT ![o] = out.paid]
        /\ IF out.restock THEN Restock(o) ELSE UNCHANGED <<stock, returned>>
        /\ acked' = IF out.reply = "success"
                    THEN acked \cup {<<t, callback>>}
                    ELSE acked
        /\ session' = IF /\ heard
                         /\ out.reply = "cancelled"
                         /\ session[t].state = "confirmed"
                      THEN [session EXCEPT ![t].state = "voided"]
                      ELSE session
        /\ UNCHANGED <<card, aged, job, batch, released>>

(***************************************************************************)
(* The gateway's own moves, known only through the calls it makes and      *)
(* answers: it charges or rejects a prepared transaction, and reverses a   *)
(* confirmed one at the request of the staff, the bank or the customer.    *)
(***************************************************************************)
GatewayMove(t, from, to) ==
    /\ session[t].state = from
    /\ session' = [session EXCEPT ![t].state = to]
    /\ UNCHANGED <<orderVars, stock, payment, job, batch, history>>

Charge(t)  == GatewayMove(t, "prepared", "confirmed")
Reject(t)  == GatewayMove(t, "prepared", "rejected")
Reverse(t) == GatewayMove(t, "confirmed", "refunded")

(***************************************************************************)
(* sync_payment_status: no transaction and no lock, so the row, the        *)
(* gateway's answer, the payment's save, the order's read and the order's  *)
(* save are steps of their own.                                            *)
(***************************************************************************)
\* Mistake, for TLC to catch: a payment under way reads as confirmed.
GatewayAnswer_early(state) ==
    CASE state \in {"prepared", "confirmed"} -> "succeeded"
      [] state = "rejected" -> "failed"
      [] state = "refunded" -> "refunded"
      [] state \in {"voided", "abandoned"} -> "cancelled"
      [] OTHER -> "none"

\* What the gateway answers, as the payment status it maps to.
GatewayAnswer(state) ==
    CASE state = "confirmed" -> "succeeded"
      [] state = "rejected" -> "failed"
      [] state = "refunded" -> "refunded"
      [] state \in {"voided", "abandoned"} -> "cancelled"
      [] OTHER -> "none"

SyncRead(w, t) ==
    /\ payment[t].status # "none"
    /\ Begin(w, [Idle EXCEPT !.pc = "asking", !.trans = t,
                             !.seen = payment[t].status])
    /\ UNCHANGED <<orderVars, stock, payment, session, batch, history>>

SyncAsk(w) ==
    LET answer == GatewayAnswer(session[job[w].trans].state)
    IN  /\ job[w].pc = "asking"
        /\ job' = [job EXCEPT ![w] = IF answer \in {"none", job[w].seen}
                                     THEN Idle
                                     ELSE [@ EXCEPT !.pc = "syncing",
                                                    !.seen = answer]]
        /\ UNCHANGED <<orderVars, stock, payment, session, batch, history>>

SyncPayment(w) ==
    /\ job[w].pc = "syncing"
    /\ payment' = [payment EXCEPT ![job[w].trans].status = job[w].seen]
    /\ job' = [job EXCEPT ![w] = IF @.seen = "succeeded"
                                 THEN [@ EXCEPT !.pc = "reading"]
                                 ELSE Idle]
    /\ UNCHANGED <<orderVars, stock, session, batch, history>>

SyncReadOrder(w) ==
    LET o == session[job[w].trans].order
    IN  /\ job[w].pc = "reading"
        /\ job' = [job EXCEPT ![w] =
                     IF ~paid[o] /\ status[o] \in UnpaidStatus
                     THEN [@ EXCEPT !.pc = "stamping"]
                     ELSE Idle]
        /\ UNCHANGED <<orderVars, stock, payment, session, batch, history>>

SyncOrder(w) ==
    LET o == session[job[w].trans].order
    IN  /\ job[w].pc = "stamping"
        /\ paid' = [paid EXCEPT ![o] = TRUE]
        /\ status' = [status EXCEPT ![o] = "processing"]
        /\ Finish(w)
        /\ UNCHANGED <<card, aged, stock, payment, session, batch, history>>

(***************************************************************************)
(* Staff.  set-status writes one column; an edit through PUT, PATCH or an  *)
(* admin form saves a whole row: paid_at as it was read, and the status    *)
(* that was read or shown unless another is named.  The admin list reads   *)
(* its rows again, and keeps of the page it showed the status alone.       *)
(***************************************************************************)
SetStatus(o) ==
    /\ Placed(o)
    /\ \E s \in StaffTargets : status' = [status EXCEPT ![o] = s]
    /\ UNCHANGED <<card, paid, aged, stock, payment, session, job, batch,
                   history>>

EditRead(w, o) ==
    /\ Placed(o)
    /\ Begin(w, [Idle EXCEPT !.pc = "editing", !.order = o, !.paid = paid[o],
                             !.seen = status[o]])
    /\ UNCHANGED <<orderVars, stock, payment, session, batch, history>>

EditSave(w) ==
    LET o == job[w].order
    IN  /\ job[w].pc = "editing"
        /\ \E s \in StaffTargets \cup {job[w].seen} : status' = [status EXCEPT ![o] = s]
        /\ \E stamp \in {job[w].paid, paid[o]} : paid' = [paid EXCEPT ![o] = stamp]
        /\ Finish(w)
        /\ UNCHANGED <<card, aged, stock, payment, session, batch, history>>

\* A worker dies, or its call of the gateway fails: what its request had
\* committed stays, an open transaction rolls back.
Crash(w) ==
    /\ job[w] # Idle
    /\ Finish(w)
    /\ UNCHANGED <<orderVars, stock, payment, session, batch, history>>

(***************************************************************************)
(* The system, by actor.                                                   *)
(***************************************************************************)
CheckoutNext == \E o \in Orders, byCard \in BOOLEAN : Checkout(o, byCard)

CancelNext == \E w \in Workers : CancelSave(w) \/ \E o \in Orders : CancelRead(w, o)

StartNext ==
    \E w \in Workers :
        \/ SaveSession(w)
        \/ \E o \in Orders : StartRead(w, o)
        \/ \E t \in Trans : OpenSession(w, t)

CardNext ==
    \E w \in Workers :
        \/ RecordCharge(w)
        \/ \E o \in Orders : CardRead(w, o)

UnrecordedNext == \E o \in Orders, t \in Trans : OpenUnrecorded(o, t)

ExpiryNext == Scan \/ \E o \in Orders : Age(o) \/ Release(o)

CallbackNext ==
    \E t \in Trans, heard \in BOOLEAN :
        \/ Prepare(t, heard)
        \/ \E callback \in Callbacks : Complete(t, callback, heard)

GatewayNext == \E t \in Trans : Charge(t) \/ Reject(t) \/ Reverse(t)

SyncNext ==
    \E w \in Workers :
        \/ SyncAsk(w) \/ SyncPayment(w) \/ SyncReadOrder(w) \/ SyncOrder(w)
        \/ \E t \in Trans : SyncRead(w, t)

SetStatusNext == \E o \in Orders : SetStatus(o)

EditNext == \E w \in Workers : EditSave(w) \/ \E o \in Orders : EditRead(w, o)

CrashNext == ExpiryStops \/ \E w \in Workers : Crash(w)

Next ==
    \/ CheckoutNext \/ CancelNext
    \/ StartNext \/ CardNext \/ UnrecordedNext
    \/ ExpiryNext \/ CallbackNext \/ GatewayNext
    \/ SyncNext \/ SetStatusNext \/ EditNext \/ CrashNext

Spec == Init /\ [][Next]_vars

\* Without the actors that write an order they did not lock: what the locks
\* of the callbacks and of the expiry are there to make correct.
LockingNext ==
    \/ CheckoutNext \/ StartNext \/ CardNext \/ UnrecordedNext
    \/ ExpiryNext \/ CallbackNext \/ GatewayNext \/ CrashNext

LockingSpec == Init /\ [][LockingNext]_vars

(***************************************************************************)
(* Properties.                                                             *)
(***************************************************************************)
Live(o) == status[o] \in LiveStatus

\* The gateway has taken the money of a transaction, at least for a time.
Charged(t) == session[t].state \in {"confirmed", "refunded", "voided"}

ChargedFor(o) == \E t \in Trans : session[t].order = o /\ Charged(t)

\* An order carries paid_at, and a payment reads succeeded, only if the
\* gateway charged a transaction for that order: whatever callbacks, syncs,
\* staff edits and crashes come in between.
MoneyBacksPaid ==
    /\ \A o \in Orders : paid[o] => ChargedFor(o)
    /\ \A t \in Trans : payment[t].status = "succeeded" => Charged(t)

\* The gateway gave the money of a transaction back, or never took it.
LetGo(t) == session[t].state \in {"rejected", "refunded"}

\* A payment reads refunded only after the gateway let the money go: the shop
\* does not write off a charge that still stands.
RefundedMeansLetGo ==
    \A t \in Trans : payment[t].status = "refunded" => LetGo(t)

\* What a request has read and will write agrees with the gateway as well.
RequestSound(w) ==
    /\ job[w].pc = "syncing" /\ job[w].seen = "succeeded"
          => Charged(job[w].trans)
    /\ job[w].pc = "syncing" /\ job[w].seen = "refunded" => LetGo(job[w].trans)
    /\ job[w].pc \in {"reading", "stamping"} => Charged(job[w].trans)
    /\ job[w].pc = "editing" /\ job[w].paid => ChargedFor(job[w].order)

MoneyInFlight == \A w \in Workers : RequestSound(w)

\* Inductive together with TypeOK.
MoneyInv == MoneyBacksPaid /\ RefundedMeansLetGo /\ MoneyInFlight

\* Each handler, run again at once on the state it left, changes nothing and
\* answers the same: an immediate replay of a callback is harmless.
CallbacksIdempotent ==
    \A t \in Trans : session[t].order # NoOrder =>
        LET o == session[t].order
            ready == PrepareOutcome(status[o], payment[t])
        IN  /\ PrepareOutcome(status[o], ready.row) = ready
            /\ \A c \in Callbacks :
                LET one == CompleteOutcome(status[o], paid[o], payment[t], c)
                IN  CompleteOutcome(one.status, one.paid, one.row, c)
                        = Exit(one.reply, one.status, one.paid, one.row, FALSE)

\* An order the code cancelled or refunded has given its stock back.
ClosedGaveStockBack ==
    \A o \in Orders : status[o] \in ClosedStatus => returned[o] >= 1

\* The units of p that order o holds: all of its line while it is live.
HeldBy(o, p) == IF Live(o) THEN Lines[o][p] ELSE 0

Reserved(p) == SumFunction([o \in Orders |-> HeldBy(o, p)])

\* No unit leaks: what is on the shelf and what live orders hold is never
\* less than the initial stock, however cancellations and refunds interleave.
NoUnitLost == \A p \in Products : stock[p] + Reserved(p) >= InitialStock[p]

\* A callback that confirms and is answered with success leaves the order
\* stamped paid: the gateway is never told "done" for an unrecorded payment.
AckedMeansPaid ==
    \A t \in Trans : <<t, "ok">> \in acked => paid[session[t].order]

\* A reversal answered with success returned the order's stock.
AckedRefundMeansReturned ==
    \A t \in Trans : <<t, "fail">> \in acked => returned[session[t].order] >= 1

\* Once the expiry released an order, no confirmation of a payment for it is
\* accepted any more: release_expired_orders' promise about the callbacks.
RefusedOnceReleased ==
    [][\A t \in Trans :
        <<t, "ok">> \in acked' \ acked => session[t].order \notin released]_vars

\* Comment of sync_payment_status: a cancelled order must not come back to
\* life.
CancelledStaysClosed ==
    [][\A o \in Orders : status[o] = "cancelled"
                            => status'[o] \in ClosedStatus]_vars

\* A payment the gateway reversed never reads succeeded again, and the work
\* of its reversal is not repeated.
RefundIsFinal ==
    [][\A t \in Trans : payment[t].status = "refunded"
                            => payment'[t].status = "refunded"]_vars

\* No order has two charges standing at the gateway.
ChargedOnce ==
    \A t, u \in Trans :
        (/\ session[t].state = "confirmed" /\ session[u].state = "confirmed"
         /\ session[t].order = session[u].order) => t = u

\* Comment of handle_complete: a cancelled order gave its stock back, and is
\* never restocked twice.
CancelledNotRestocked ==
    [][\A o \in Orders : status[o] = "cancelled"
                            => returned'[o] = returned[o]]_vars

(***************************************************************************)
(* The orderly system: the locking actors, at most one session per order   *)
(* and callbacks that are repeated but not overtaken.  It implements the   *)
(* promise of module Reservation.                                          *)
(***************************************************************************)
Reservation == INSTANCE Reservation WITH
    held <- {o \in Orders : Live(o)},
    ended <- {o \in Orders : status[o] \in ClosedStatus},
    onHand <- stock

\* An order takes its units at once, holds them while it lives and gives them
\* back exactly once, whatever expiry, callbacks and reversals interleave.
ReservesAndReturnsOnce == Reservation!Spec

OrderlyNext ==
    \/ CheckoutNext \/ StartNext \/ CardNext \/ UnrecordedNext
    \/ ExpiryNext \/ CallbackNext \/ GatewayNext
    \/ \E w \in Workers : Crash(w)

OrderlySpec == Init /\ [][OrderlyNext]_vars

(***************************************************************************)
(* Fairness.  The beat schedule starts the expiry again and again, and it  *)
(* is not killed every single time before it gets to an order; the gateway *)
(* repeats a confirmation until an answer arrives.  Nothing is assumed of  *)
(* customers, staff or requests.                                           *)
(***************************************************************************)
Fairness ==
    /\ WF_vars(Scan)
    /\ \A o \in Orders : SF_vars(Release(o))
    /\ \A t \in Trans : WF_vars(Complete(t, "ok", TRUE))

FairSpec == LockingSpec /\ Fairness

\* A card order left unpaid past its deadline is eventually paid or closed.
ExpiredIsSettled ==
    \A o \in Orders : (aged[o] /\ StillUnpaid(o)) ~> ~StillUnpaid(o)

\* A charge that lands on an order already cancelled does not stand.
LateChargeIsVoided ==
    \A t \in Trans :
        (/\ session[t].state = "confirmed"
         /\ status[session[t].order] = "cancelled")
            ~> session[t].state # "confirmed"
==============================================================================
