---------------------------- MODULE LockingProofs ----------------------------
(***************************************************************************)
(* What the row locks of the callbacks and of the expiry make correct, for *)
(* every set of orders, products, transactions and workers; and that the   *)
(* orderly system reserves and returns an order's stock exactly once.      *)
(***************************************************************************)
EXTENDS OrderPaymentsProofs, PricingProofs

(***************************************************************************)
(* handle_complete once more, as a function of the order and the row.      *)
(***************************************************************************)

\* If a succeeded row means a paid order, handle_complete keeps that so,
\* answers "success" only for what it recorded, and refuses a cancelled order
\* that was never paid.
LEMMA CompleteSettles ==
    ASSUME NEW s \in OrderStatus, NEW p \in BOOLEAN, NEW row \in Row,
           NEW c \in Callbacks, row.status = "succeeded" => p
    PROVE  LET out == CompleteOutcome(s, p, row, c)
           IN  /\ p => out.paid
               /\ out.row.status = "succeeded" => out.paid
               /\ out.row.status = "refunded"
                    => row.status = "refunded" \/ out.restock
               /\ out.reply = "success" /\ c = "ok" => out.paid
               /\ out.reply = "success" /\ c = "fail"
                    => row.status = "refunded" \/ out.restock
               /\ s = "cancelled" /\ ~p
                    => /\ out.reply # "success"
                       /\ out.status = "cancelled"
                       /\ ~out.paid
                       /\ ~out.restock
               /\ s \in ClosedStatus => out.status \in ClosedStatus
               /\ s # "new" => out.status # "new"
<1> USE DEF Row, ClosedStatus, UnpaidStatus, Callbacks
<1>1. CASE row.status = "none" \/ ~row.prepared
  BY <1>1 DEF CompleteOutcome, Exit
<1>2. CASE /\ ~(row.status = "none" \/ ~row.prepared)
           /\ s = "cancelled" /\ row.status # "succeeded"
  BY <1>2 DEF CompleteOutcome, Exit
<1>3. CASE /\ ~(row.status = "none" \/ ~row.prepared)
           /\ ~(s = "cancelled" /\ row.status # "succeeded")
  <2>1. CASE c = "fail"
    BY <1>3, <2>1 DEF CompleteOutcome, RefundExit, Exit
  <2>2. CASE c # "fail"
    BY <1>3, <2>2 DEF CompleteOutcome, ConfirmExit, Exit
  <2>3. QED
    BY <2>1, <2>2
<1>4. QED
  BY <1>1, <1>2, <1>3

\* What a delivered callback says of the gateway, and whose order it is about.
LEMMA DeliveredIsTrue ==
    ASSUME TypeOK, NEW t \in Trans, NEW c \in Callbacks, c \in Deliverable(t)
    PROVE  /\ session[t].state # "none"
           /\ session[t].order \in Orders
           /\ c = "ok" => Charged(t)
           /\ c = "fail" => LetGo(t)
<1>1. Latest(session[t].state) \subseteq Sent(session[t].state)
  BY DEF Latest, Sent
<1>2. c \in Sent(session[t].state)
  BY <1>1 DEF Deliverable
<1>3. /\ session[t].state # "none"
      /\ c = "ok" => Charged(t)
      /\ c = "fail" => LetGo(t)
  BY <1>2 DEF Sent, Charged, LetGo
<1>4. QED
  BY <1>3 DEF TypeOK, References

(***************************************************************************)
(* A closed order has given its stock back.                                *)
(***************************************************************************)
\* A form that shows an order as closed was opened after its stock came back:
\* saved as it is, it closes the order again and returns nothing.
ShownClosed ==
    \A w \in Workers :
        job[w].pc = "editing" /\ job[w].seen \in ClosedStatus
            => returned[job[w].order] >= 1

\* Before its checkout an order is named by no request and no session, and
\* none of its stock came back.
NamesPlaced ==
    \A o \in Orders :
        status[o] = "none"
            => /\ \A w \in Workers : job[w].order # o
               /\ \A t \in Trans : session[t].order # o
               /\ returned[o] = 0

ClosingInv == ClosedGaveStockBack /\ ShownClosed /\ NamesPlaced

Gave(o) ==
    /\ returned'[o] >= returned[o]
    /\ status'[o] \in ClosedStatus
         => status[o] \in ClosedStatus \/ returned'[o] >= 1

\* If the staff do not name a closing status themselves, every step that closes
\* an order returns its stock, or finds it returned.
LEMMA ClosingRestocks ==
    ASSUME TypeOK, ShownClosed, [Next]_vars, StaffTargets \cap ClosedStatus = {}
    PROVE  \A o \in Orders : Gave(o)
<1> USE DEF TypeOK
<1>0. ASSUME NEW q \in Orders, Restock(q)
      PROVE  \A o \in Orders : returned'[o] >= returned[o]
                               /\ (o = q => returned'[o] >= 1)
  BY <1>0 DEF Restock
<1>1. CASE status' = status /\ returned' = returned
  BY <1>1 DEF Gave
<1>2. ASSUME NEW o \in Orders, NEW byCard \in BOOLEAN, Checkout(o, byCard)
      PROVE  \A q \in Orders : Gave(q)
  BY <1>2 DEF Checkout, history, Gave, ClosedStatus
<1>3. ASSUME NEW w \in Workers, CancelSave(w)
      PROVE  \A q \in Orders : Gave(q)
  <2>1. job[w].order \in Orders
    BY <1>3 DEF CancelSave, References
  <2>2. QED
    BY <1>0, <1>3, <2>1 DEF CancelSave, Gave
<1>4. ASSUME NEW w \in Workers, SaveSession(w) \/ SyncOrder(w)
      PROVE  \A q \in Orders : Gave(q)
  BY <1>4 DEF SaveSession, SyncOrder, history, Gave, ClosedStatus
<1>5. ASSUME NEW o \in Orders, Release(o)
      PROVE  \A q \in Orders : Gave(q)
  <2>1. CASE StillUnpaid(o)
    BY <1>0, <1>5, <2>1 DEF Release, Gave
  <2>2. CASE ~StillUnpaid(o)
    BY <1>1, <1>5, <2>2 DEF Release
  <2>3. QED
    BY <2>1, <2>2
<1>6. ASSUME NEW t \in Trans, NEW c \in Callbacks, NEW heard \in BOOLEAN,
             Complete(t, c, heard)
      PROVE  \A q \in Orders : Gave(q)
  <2> DEFINE o == session[t].order
             out == CompleteOutcome(status[o], paid[o], payment[t], c)
  <2>1. o \in Orders
    BY <1>6, DeliveredIsTrue DEF Complete
  <2>2. out.status \in ClosedStatus => status[o] \in ClosedStatus \/ out.restock
    BY <2>1, CompleteOutcomeMeaning
  <2>3. /\ status' = [status EXCEPT ![o] = out.status]
        /\ IF out.restock THEN Restock(o) ELSE UNCHANGED <<stock, returned>>
    BY <1>6 DEF Complete
  <2> HIDE DEF out, o
  <2>4. CASE out.restock
    BY <1>0, <2>1, <2>3, <2>4 DEF Gave
  <2>5. CASE ~out.restock
    BY <2>1, <2>2, <2>3, <2>5 DEF Gave
  <2>6. QED
    BY <2>4, <2>5
<1>7. ASSUME NEW o \in Orders, SetStatus(o)
      PROVE  \A q \in Orders : Gave(q)
  BY <1>7 DEF SetStatus, history, Gave
<1>8. ASSUME NEW w \in Workers, EditSave(w)
      PROVE  \A q \in Orders : Gave(q)
  <2>1. returned' = returned
    BY <1>8 DEF EditSave, history
  <2>2. PICK x \in StaffTargets \cup {job[w].seen} :
            status' = [status EXCEPT ![job[w].order] = x]
    BY <1>8 DEF EditSave
  <2>3. x \in ClosedStatus => returned[job[w].order] >= 1
    BY <1>8, <2>2 DEF EditSave, ShownClosed
  <2>4. QED
    BY <2>1, <2>2, <2>3 DEF Gave
<1>9. QED
  BY <1>1, <1>2, <1>3, <1>4, <1>5, <1>6, <1>7, <1>8
     DEF Next, CheckoutNext, CancelNext, StartNext, CardNext, UnrecordedNext,
         ExpiryNext, CallbackNext, GatewayNext, SyncNext, SetStatusNext,
         EditNext, CrashNext, vars, orderVars, history, CancelRead, StartRead,
         CardRead, OpenSession, RecordCharge, OpenUnrecorded, Scan, Age,
         Prepare, Charge, Reject, Reverse, GatewayMove, SyncRead, SyncAsk,
         SyncPayment, SyncReadOrder, EditRead, ExpiryStops, Crash

\* A form shows the status its order has when it is opened.
LEMMA FormsShown ==
    ASSUME TypeOK, [Next]_vars, NEW w \in Workers
    PROVE  \/ /\ job'[w].order \in {job[w].order, NoOrder}
              /\ job'[w] = job[w] \/ job'[w].pc # "editing"
           \/ /\ job'[w].order \in Orders /\ Placed(job'[w].order)
              /\ job'[w].pc = "editing" => job'[w].seen = status[job'[w].order]
              /\ returned' = returned
<1> USE DEF TypeOK
<1> DEFINE Goal ==
      \/ /\ job'[w].order \in {job[w].order, NoOrder}
         /\ job'[w] = job[w] \/ job'[w].pc # "editing"
      \/ /\ job'[w].order \in Orders /\ Placed(job'[w].order)
         /\ job'[w].pc = "editing" => job'[w].seen = status[job'[w].order]
         /\ returned' = returned
<1> SUFFICES Goal
  OBVIOUS
<1>0. ASSUME NEW v \in Workers, NEW r, job' = [job EXCEPT ![v] = r],
             \/ r.order \in {job[v].order, NoOrder} /\ r.pc # "editing"
             \/ /\ r.order \in Orders /\ Placed(r.order) /\ returned' = returned
                /\ r.pc = "editing" => r.seen = status[r.order]
      PROVE  Goal
  <2>1. job'[w] = IF w = v THEN r ELSE job[w]
    BY <1>0
  <2> QED
    BY <1>0, <2>1
<1>1. ASSUME NEW v \in Workers, NEW o \in Orders,
             CancelRead(v, o) \/ StartRead(v, o) \/ CardRead(v, o) \/ EditRead(v, o)
      PROVE  Goal
  <2>1. PICK r \in {[Idle EXCEPT !.pc = "cancel", !.order = o],
                    [Idle EXCEPT !.pc = "opening", !.order = o, !.seen = status[o]],
                    [Idle EXCEPT !.pc = "charging", !.order = o],
                    [Idle EXCEPT !.pc = "editing", !.order = o, !.paid = paid[o],
                                 !.seen = status[o]]} :
            job' = [job EXCEPT ![v] = r]
    BY <1>1 DEF CancelRead, StartRead, CardRead, EditRead, Begin
  <2>2. r.order = o /\ (r.pc = "editing" => r.seen = status[o])
    BY <2>1 DEF Idle
  <2>3. Placed(o) /\ returned' = returned
    BY <1>1 DEF CancelRead, StartRead, CardRead, EditRead, Placed,
       CustomerCancellable, UnpaidStatus, history
  <2> HIDE DEF Goal
  <2> QED
    BY <1>0, <2>1, <2>2, <2>3
<1>2. ASSUME NEW v \in Workers, Finish(v) PROVE Goal
  <2>1. Idle.order = NoOrder /\ Idle.pc # "editing"
    BY DEF Idle
  <2> HIDE DEF Goal
  <2> QED
    BY <1>0, <1>2, <2>1 DEF Finish
<1>3. ASSUME NEW v \in Workers, NEW t \in Trans, OpenSession(v, t) \/ SyncRead(v, t)
      PROVE  Goal
  <2>1. PICK r \in {[job[v] EXCEPT !.trans = t,
                                   !.pc = IF job[v].pc = "opening" THEN "saving"
                                                                  ELSE "recording"],
                    [Idle EXCEPT !.pc = "asking", !.trans = t, !.seen = payment[t].status]} :
            job' = [job EXCEPT ![v] = r]
    BY <1>3 DEF OpenSession, SyncRead, Begin
  <2>2. r.order \in {job[v].order, NoOrder} /\ r.pc # "editing"
    BY <2>1 DEF Idle, Job
  <2> HIDE DEF Goal
  <2> QED
    BY <1>0, <2>1, <2>2
<1>4. ASSUME NEW v \in Workers, SyncAsk(v) \/ SyncPayment(v) \/ SyncReadOrder(v)
      PROVE  Goal
  <2>1. PICK r \in {Idle, [job[v] EXCEPT !.pc = "reading"], [job[v] EXCEPT !.pc = "stamping"],
                    [job[v] EXCEPT !.pc = "syncing",
                                   !.seen = GatewayAnswer(session[job[v].trans].state)]} :
            job' = [job EXCEPT ![v] = r]
    BY <1>4 DEF SyncAsk, SyncPayment, SyncReadOrder
  <2> DEFINE answer == GatewayAnswer(session[job[v].trans].state)
  <2>a. job[v] \in Job
    OBVIOUS
  <2>b. \/ r = Idle \/ r = [job[v] EXCEPT !.pc = "reading"]
        \/ r = [job[v] EXCEPT !.pc = "stamping"]
        \/ r = [job[v] EXCEPT !.pc = "syncing", !.seen = answer]
    BY <2>1
  <2> HIDE DEF answer
  <2>2. r.order \in {job[v].order, NoOrder} /\ r.pc # "editing"
    <3>1. CASE r = Idle
      BY <3>1 DEF Idle
    <3>2. CASE r = [job[v] EXCEPT !.pc = "reading"]
      BY <2>a, <3>2 DEF Job
    <3>3. CASE r = [job[v] EXCEPT !.pc = "stamping"]
      BY <2>a, <3>3 DEF Job
    <3>4. CASE r = [job[v] EXCEPT !.pc = "syncing", !.seen = answer]
      BY <2>a, <3>4 DEF Job
    <3> QED
      BY <2>b, <3>1, <3>2, <3>3, <3>4
  <2> HIDE DEF Goal
  <2> QED
    BY <1>0, <2>1, <2>2
<1>5. CASE job' = job
  BY <1>5
<1> HIDE DEF Goal
<1>6. CASE \/ CheckoutNext \/ UnrecordedNext \/ ExpiryNext \/ CallbackNext
           \/ GatewayNext \/ SetStatusNext \/ ExpiryStops \/ UNCHANGED vars
  <2>1. job' = job
    BY <1>6 DEF CheckoutNext, UnrecordedNext, ExpiryNext, CallbackNext,
       GatewayNext, SetStatusNext, Checkout, OpenUnrecorded, Scan, Age, Release,
       Prepare, Complete, Charge, Reject, Reverse, GatewayMove, SetStatus,
       ExpiryStops, vars
  <2> QED
    BY <1>5, <2>1
<1>7. CASE CancelNext \/ StartNext \/ CardNext
  BY <1>1, <1>2, <1>3, <1>7 DEF CancelNext, StartNext, CardNext, CancelSave,
     SaveSession, RecordCharge
<1>8. CASE SyncNext \/ EditNext \/ \E v \in Workers : Crash(v)
  BY <1>1, <1>2, <1>3, <1>4, <1>8 DEF SyncNext, EditNext, SyncOrder, EditSave, Crash
<1> QED
  BY <1>6, <1>7, <1>8 DEF Next, CrashNext

\* No exit of handle_complete writes the status an order has before checkout.
LEMMA CompleteOfAnOrder ==
    ASSUME NEW s \in OrderStatus, NEW p \in BOOLEAN, NEW row \in Row,
           NEW c \in Callbacks
    PROVE  CompleteOutcome(s, p, row, c).status = "none" => s = "none"
<1>1. RefundExit(s, p, row).status \in {s, "refunded"}
  BY DEF RefundExit, Exit
<1>2. ConfirmExit(s, p, row).status \in {s, "processing"}
  BY DEF ConfirmExit, Exit
<1>3. CompleteOutcome(s, p, row, c).status
        \in {s, RefundExit(s, p, row).status, ConfirmExit(s, p, row).status}
  BY DEF CompleteOutcome, Exit
<1>4. QED
  BY <1>1, <1>2, <1>3

\* A placed order stays one, and only the stock of a placed order comes back.
Stays(o) ==
    /\ status[o] = "none" => returned'[o] = returned[o]
    /\ status[o] # "none" => status'[o] # "none"

LEMMA PlacedStays ==
    ASSUME TypeOK, NamesPlaced, [Next]_vars
    PROVE  \A o \in Orders : Stays(o)
<1> USE DEF TypeOK
<1>a. ASSUME NEW q \in Orders, status[q] # "none", NEW s,
             s # "none", status' = [status EXCEPT ![q] = s],
             Restock(q) \/ returned' = returned
      PROVE  \A o \in Orders : Stays(o)
  BY <1>a DEF Restock, Stays
<1>b. ASSUME NEW q \in Orders, returned' = returned, NEW s, s # "none",
             status' = [status EXCEPT ![q] = s]
      PROVE  \A o \in Orders : Stays(o)
  BY <1>b DEF Stays
<1>1. CASE status' = status /\ returned' = returned
  BY <1>1 DEF Stays
<1>2. ASSUME NEW o \in Orders, NEW byCard \in BOOLEAN, Checkout(o, byCard)
      PROVE  \A q \in Orders : Stays(q)
  BY <1>2 DEF Checkout, history, Stays
<1>3. ASSUME NEW w \in Workers, CancelSave(w)
      PROVE  \A q \in Orders : Stays(q)
  <2>1. job[w].order \in Orders /\ status[job[w].order] # "none"
    BY <1>3 DEF CancelSave, References, NamesPlaced
  <2>2. QED
    BY <1>a, <1>3, <2>1 DEF CancelSave
<1>4. ASSUME NEW w \in Workers, SaveSession(w) \/ SyncOrder(w)
      PROVE  \A q \in Orders : Stays(q)
  <2> DEFINE o == session[job[w].trans].order
  <2>1. o \in Orders
    BY <1>4 DEF SaveSession, SyncOrder, References
  <2>2. returned' = returned
    BY <1>4 DEF SaveSession, SyncOrder, history
  <2>3. \/ status' = status
        \/ status' = [status EXCEPT ![o] = "awaiting_payment"]
        \/ status' = [status EXCEPT ![o] = "processing"]
    BY <1>4 DEF SaveSession, SyncOrder
  <2> HIDE DEF o
  <2>4. QED
    BY <1>1, <1>b, <2>1, <2>2, <2>3
<1>5. ASSUME NEW o \in Orders, Release(o)
      PROVE  \A q \in Orders : Stays(q)
  <2>1. CASE StillUnpaid(o)
    <3>1. status[o] # "none"
      BY <2>1 DEF StillUnpaid, UnpaidStatus
    <3>2. QED
      BY <1>a, <1>5, <2>1, <3>1 DEF Release
  <2>2. CASE ~StillUnpaid(o)
    BY <1>1, <1>5, <2>2 DEF Release
  <2>3. QED
    BY <2>1, <2>2
<1>6. ASSUME NEW t \in Trans, NEW c \in Callbacks, NEW heard \in BOOLEAN,
             Complete(t, c, heard)
      PROVE  \A q \in Orders : Stays(q)
  <2> DEFINE o == session[t].order
             out == CompleteOutcome(status[o], paid[o], payment[t], c)
  <2>1. o \in Orders /\ status[o] # "none"
    BY <1>6, DeliveredIsTrue DEF Complete, NamesPlaced
  <2>2. out.status # "none"
    BY <2>1, CompleteOfAnOrder
  <2>3. /\ status' = [status EXCEPT ![o] = out.status]
        /\ IF out.restock THEN Restock(o) ELSE UNCHANGED <<stock, returned>>
    BY <1>6 DEF Complete
  <2> HIDE DEF out, o
  <2>4. QED
    BY <1>a, <2>1, <2>2, <2>3
<1>7. ASSUME NEW o \in Orders, SetStatus(o)
      PROVE  \A q \in Orders : Stays(q)
  <2>1. PICK x \in StaffTargets : status' = [status EXCEPT ![o] = x]
    BY <1>7 DEF SetStatus
  <2>2. x # "none" /\ returned' = returned
    BY <1>7, StaffAssumption DEF SetStatus, history
  <2>3. QED
    BY <1>b, <2>1, <2>2
<1>8. ASSUME NEW w \in Workers, EditSave(w)
      PROVE  \A q \in Orders : Stays(q)
  <2>1. PICK x \in StaffTargets \cup {job[w].seen} :
            status' = [status EXCEPT ![job[w].order] = x]
    BY <1>8 DEF EditSave
  <2>2. x # "none" /\ job[w].order \in Orders /\ returned' = returned
    BY <1>8, StaffAssumption DEF EditSave, history, References
  <2>3. QED
    BY <1>b, <2>1, <2>2
<1>9. QED
  BY <1>1, <1>2, <1>3, <1>4, <1>5, <1>6, <1>7, <1>8
     DEF Next, CheckoutNext, CancelNext, StartNext, CardNext, UnrecordedNext,
         ExpiryNext, CallbackNext, GatewayNext, SyncNext, SetStatusNext,
         EditNext, CrashNext, vars, orderVars, history, CancelRead, StartRead,
         CardRead, OpenSession, RecordCharge, OpenUnrecorded, Scan, Age,
         Prepare, Charge, Reject, Reverse, GatewayMove, SyncRead, SyncAsk,
         SyncPayment, SyncReadOrder, EditRead, ExpiryStops, Crash

\* A session is opened for an order that is placed, and keeps it.
LEMMA SessionsNamePlaced ==
    ASSUME TypeOK, NamesPlaced, [Next]_vars, NEW t \in Trans
    PROVE  \/ session'[t].order = session[t].order
           \/ session'[t].order \in Orders /\ Placed(session'[t].order)
<1> USE DEF TypeOK
<1>1. CASE session' = session
  BY <1>1
<1>2. ASSUME NEW u \in Trans, NEW o \in Orders, Placed(o),
             session' = [session EXCEPT ![u] = [order |-> o, state |-> "waiting"]]
      PROVE  \/ session'[t].order = session[t].order
             \/ session'[t].order \in Orders /\ Placed(session'[t].order)
  BY <1>2
<1>3. ASSUME NEW u \in Trans, NEW x,
             session' = [session EXCEPT ![u].state = x]
      PROVE  session'[t].order = session[t].order
  BY <1>3 DEF Session
<1>4. CASE StartNext
  <2>1. ASSUME NEW w \in Workers, NEW u \in Trans, OpenSession(w, u)
        PROVE  job[w].order \in Orders /\ Placed(job[w].order)
    BY <2>1 DEF OpenSession, References, NamesPlaced, Placed
  <2>2. QED
    BY <1>1, <1>2, <1>4, <2>1 DEF StartNext, OpenSession, SaveSession, StartRead
<1>5. CASE UnrecordedNext
  BY <1>2, <1>5 DEF UnrecordedNext, OpenUnrecorded
<1>6. CASE CallbackNext \/ GatewayNext
  BY <1>1, <1>3, <1>6 DEF CallbackNext, GatewayNext, Prepare, Complete, Charge,
     Reject, Reverse, GatewayMove
<1>7. CASE \/ CheckoutNext \/ CancelNext \/ CardNext \/ ExpiryNext \/ SyncNext
           \/ SetStatusNext \/ EditNext \/ CrashNext \/ UNCHANGED vars
  BY <1>1, <1>7
     DEF CheckoutNext, CancelNext, CardNext, ExpiryNext, SyncNext, SetStatusNext,
         EditNext, CrashNext, vars, Checkout, CancelRead, CancelSave, CardRead,
         RecordCharge, Scan, Age, Release, SyncRead, SyncAsk, SyncPayment,
         SyncReadOrder, SyncOrder, SetStatus, EditRead, EditSave, ExpiryStops,
         Crash
<1>8. QED
  BY <1>4, <1>5, <1>6, <1>7 DEF Next

LEMMA NamesStep ==
    ASSUME TypeOK, NamesPlaced, [Next]_vars
    PROVE  NamesPlaced'
<1> SUFFICES ASSUME NEW o \in Orders, status'[o] = "none"
             PROVE  /\ \A w \in Workers : job'[w].order # o
                    /\ \A t \in Trans : session'[t].order # o
                    /\ returned'[o] = 0
  BY DEF NamesPlaced
<1>1. status[o] = "none" /\ returned'[o] = returned[o]
  BY PlacedStays DEF Stays
<1>2. \A w \in Workers : job'[w].order # o
  BY <1>1, FormsShown, NullAssumption DEF NamesPlaced, Placed
<1>3. \A t \in Trans : session'[t].order # o
  BY <1>1, SessionsNamePlaced DEF NamesPlaced, Placed
<1> QED
  BY <1>1, <1>2, <1>3 DEF NamesPlaced

LEMMA ClosingStep ==
    ASSUME TypeOK, ClosingInv, [Next]_vars, StaffTargets \cap ClosedStatus = {}
    PROVE  ClosingInv'
<1>1. \A o \in Orders : Gave(o)
  BY ClosingRestocks DEF ClosingInv
<1>2. \A o \in Orders : returned[o] \in Nat /\ returned'[o] \in Nat
  <2>1. TypeOK'
    BY TypeStep
  <2>2. QED
    BY <2>1 DEF TypeOK
<1>3. ClosedGaveStockBack'
  BY <1>1, <1>2 DEF Gave, ClosingInv, ClosedGaveStockBack
<1>4. ASSUME NEW w \in Workers, job'[w].pc = "editing", job'[w].seen \in ClosedStatus
      PROVE  returned'[job'[w].order] >= 1
  <2>1. CASE job'[w] = job[w]
    <3>1. job[w].order \in Orders /\ returned[job[w].order] >= 1
      BY <1>4, <2>1 DEF ClosingInv, ShownClosed, TypeOK, References
    <3> QED
      BY <1>1, <1>2, <2>1, <3>1 DEF Gave
  <2>2. CASE /\ job'[w].order \in Orders /\ job'[w].seen = status[job'[w].order]
             /\ returned' = returned
    BY <1>4, <2>2 DEF ClosingInv, ClosedGaveStockBack
  <2> QED
    BY <1>4, <2>1, <2>2, FormsShown
<1> QED
  BY <1>3, <1>4, NamesStep DEF ClosingInv, ShownClosed

\* An order that is cancelled or refunded has given its stock back, through
\* any interleaving, wherever the staff leave the closing of orders to the
\* code.  Where they do not, set-status alone breaks it.
THEOREM ClosingReturnsStock ==
    ASSUME StaffTargets \cap ClosedStatus = {}
    PROVE  Spec => []ClosedGaveStockBack
<1>1. Init => ClosingInv
  BY NullAssumption DEF Init, ClosingInv, ClosedGaveStockBack, ShownClosed,
     NamesPlaced, ClosedStatus, Idle
<1>2. TypeOK /\ ClosingInv /\ [Next]_vars => ClosingInv'
  BY ClosingStep
<1>3. ClosingInv => ClosedGaveStockBack
  BY DEF ClosingInv
<1>4. QED
  BY <1>1, <1>2, <1>3, TypeCorrect, PTL DEF Spec

(***************************************************************************)
(* No unit is lost.                                                        *)
(***************************************************************************)

\* The units of p that o holds and never gave back: what an order that came to
\* life again holds was returned already, and may go without a trace.
Kept(o, p) == IF Live(o) /\ returned[o] = 0 THEN Lines[o][p] ELSE 0

\* A step that changes one order o leaves at least as many units on the shelf
\* and kept by o, and no other order is touched.
Balances(o) ==
    /\ \A q \in Orders \ {o} : status'[q] = status[q] /\ returned'[q] = returned[q]
    /\ \A p \in Products :
         stock'[p] + Kept(o, p)' >= stock[p] + Kept(o, p)

Even == UNCHANGED <<status, stock, returned>> \/ \E o \in Orders : Balances(o)

\* Where the staff leave closing to the code, every step is of this kind.  Units
\* may appear, as when an order is returned twice.
LEMMA StepsBalance ==
    ASSUME TypeOK, TypeOK', ClosingInv, [Next]_vars, StaffTargets \cap ClosedStatus = {}
    PROVE  Even
<1> USE DEF TypeOK
<1>0. \A o \in Orders, p \in Products : Lines[o][p] \in Nat
  BY LinesAssumption
<1>a. ASSUME NEW o \in Orders, Restock(o), NEW s, status' = [status EXCEPT ![o] = s]
      PROVE  Even
  <2>1. Balances(o)
    BY <1>0, <1>a DEF Restock, Balances, Kept
  <2>2. QED
    BY <2>1 DEF Even
<1>b. ASSUME NEW o \in Orders, stock' = stock, returned' = returned, NEW s,
             status' = [status EXCEPT ![o] = s],
             Live(o) /\ returned[o] = 0 => s \in LiveStatus
      PROVE  Even
  <2>1. Balances(o)
    BY <1>0, <1>b DEF Balances, Kept, Live
  <2>2. QED
    BY <2>1 DEF Even
<1>1. CASE UNCHANGED <<status, stock, returned>>
  BY <1>1 DEF Even
<1>2. ASSUME NEW o \in Orders, NEW byCard \in BOOLEAN, Checkout(o, byCard)
      PROVE  Even
  <2>1. ~Live(o)
    BY <1>2 DEF Checkout, Live, LiveStatus
  <2>2. \A p \in Products : stock'[p] = stock[p] - Lines[o][p]
    BY <1>2 DEF Checkout
  <2>3. status'[o] \in LiveStatus /\ returned'[o] = 0
    BY <1>2 DEF Checkout, history, ClosingInv, NamesPlaced, LiveStatus
  <2>a. \A p \in Products : Kept(o, p) = 0 /\ Kept(o, p)' = Lines[o][p]
    BY <2>1, <2>3 DEF Kept, Live
  <2>4. \A q \in Orders \ {o} : status'[q] = status[q] /\ returned'[q] = returned[q]
    BY <1>2 DEF Checkout, history
  <2>5. Balances(o)
    BY <1>0, <2>2, <2>a, <2>4 DEF Balances
  <2>6. QED
    BY <2>5 DEF Even
<1>3. ASSUME NEW w \in Workers, CancelSave(w)
      PROVE  Even
  <2>1. job[w].order \in Orders
    BY <1>3 DEF CancelSave, References
  <2>2. QED
    BY <1>a, <1>3, <2>1 DEF CancelSave
<1>4. ASSUME NEW w \in Workers, SaveSession(w) \/ SyncOrder(w)
      PROVE  Even
  <2> DEFINE o == session[job[w].trans].order
  <2>1. o \in Orders
    BY <1>4 DEF SaveSession, SyncOrder, References
  <2>2. stock' = stock /\ returned' = returned
    BY <1>4 DEF SaveSession, SyncOrder, history
  <2>3. \/ status' = status
        \/ status' = [status EXCEPT ![o] = "awaiting_payment"]
        \/ status' = [status EXCEPT ![o] = "processing"]
    BY <1>4 DEF SaveSession, SyncOrder
  <2> HIDE DEF o
  <2>4. QED
    BY <1>1, <1>b, <2>1, <2>2, <2>3 DEF LiveStatus
<1>5. ASSUME NEW o \in Orders, Release(o)
      PROVE  Even
  BY <1>a, <1>1, <1>5 DEF Release
<1>6. ASSUME NEW t \in Trans, NEW c \in Callbacks, NEW heard \in BOOLEAN,
             Complete(t, c, heard)
      PROVE  Even
  <2> DEFINE o == session[t].order
             out == CompleteOutcome(status[o], paid[o], payment[t], c)
  <2>1. o \in Orders
    BY <1>6, DeliveredIsTrue DEF Complete
  <2>2. out.status \in ClosedStatus => status[o] \in ClosedStatus \/ out.restock
    BY <2>1, CompleteOutcomeMeaning
  <2>3. out.status \in OrderStatus
    BY <2>1, CompleteOutcomeType
  <2>4. /\ status' = [status EXCEPT ![o] = out.status]
        /\ IF out.restock THEN Restock(o) ELSE UNCHANGED <<stock, returned>>
    BY <1>6 DEF Complete
  <2>5. out.status = "none" => status[o] = "none"
    BY <2>1, CompleteOfAnOrder
  <2> HIDE DEF out, o
  <2>6. CASE out.restock
    BY <1>a, <2>1, <2>4, <2>6
  <2>7. CASE ~out.restock
    <3>1. Live(o) => out.status \in LiveStatus
      BY <2>1, <2>2, <2>3, <2>5, <2>7 DEF Live, OrderStatus, ClosedStatus, LiveStatus
    <3>2. QED
      BY <1>b, <2>1, <2>4, <2>7, <3>1
  <2>8. QED
    BY <2>6, <2>7
<1>c. StaffTargets \subseteq LiveStatus
  BY StaffAssumption DEF OrderStatus
<1>7. ASSUME NEW o \in Orders, SetStatus(o)
      PROVE  Even
  <2>1. stock' = stock /\ returned' = returned
    BY <1>7 DEF SetStatus, history
  <2>2. QED
    BY <1>b, <1>c, <1>7, <2>1 DEF SetStatus
<1>d. ASSUME NEW w \in Workers, EditSave(w)
      PROVE  Even
  <2>1. PICK x \in StaffTargets \cup {job[w].seen} :
            status' = [status EXCEPT ![job[w].order] = x]
    BY <1>d DEF EditSave
  <2>2. /\ job[w].order \in Orders
        /\ stock' = stock /\ returned' = returned
        /\ job[w].seen \in LiveStatus \cup ClosedStatus
        /\ job[w].seen \in ClosedStatus => returned[job[w].order] >= 1
    BY <1>d DEF EditSave, history, References, OrderStatus, ClosingInv, ShownClosed
  <2>3. returned[job[w].order] = 0 => x \in LiveStatus
    BY <1>c, <2>1, <2>2
  <2>4. QED
    BY <1>b, <2>1, <2>2, <2>3
<1>8. QED
  BY <1>1, <1>2, <1>3, <1>4, <1>5, <1>6, <1>7, <1>d
     DEF Next, CheckoutNext, CancelNext, StartNext, CardNext, UnrecordedNext,
         ExpiryNext, CallbackNext, GatewayNext, SyncNext, SetStatusNext,
         EditNext, CrashNext, vars, orderVars, history, CancelRead, StartRead,
         CardRead, OpenSession, RecordCharge, OpenUnrecorded, Scan, Age,
         Prepare, Charge, Reject, Reverse, GatewayMove, SyncRead, SyncAsk,
         SyncPayment, SyncReadOrder, EditRead, ExpiryStops, Crash

\* No unit leaks from the shelf: however cancellations, expiry, callbacks,
\* reversals, syncs and the staff's own moves interleave, what is on hand and
\* what live orders hold is never less than there was at first.  It needs that
\* the staff leave closing to the code (set-status returns no stock), and that
\* there are finitely many orders, for their units to have a sum.
THEOREM NothingLeaks ==
    ASSUME StaffTargets \cap ClosedStatus = {}, IsFiniteSet(Orders)
    PROVE  Spec => []NoUnitLost
<1> DEFINE K(p) == [o \in Orders |-> Kept(o, p)]
           Sum(p)  == SumFunction(K(p))
           KeptInv == \A p \in Products : stock[p] + Sum(p) >= InitialStock[p]
<1>0. \A p \in Products : InitialStock[p] \in Nat
  BY StockAssumption
<1>1. ASSUME NEW p \in Products
      PROVE  K(p) \in [Orders -> Nat] /\ Sum(p) \in Nat
  <2>1. K(p) \in [Orders -> Nat]
    BY LinesAssumption DEF Kept
  <2>2. QED
    BY <2>1, SumIsNat
<1>a. ASSUME NEW p \in Products
      PROVE  K(p)' \in [Orders -> Nat] /\ Sum(p)' \in Nat
  <2>1. K(p)' \in [Orders -> Nat]
    BY LinesAssumption DEF Kept
  <2>2. QED
    BY <2>1, SumIsNat
<1>2. Init /\ TypeOK => KeptInv
  <2> SUFFICES ASSUME Init, TypeOK, NEW p \in Products
               PROVE  stock[p] + Sum(p) >= InitialStock[p]
    OBVIOUS
  <2>1. stock[p] = InitialStock[p]
    BY DEF Init
  <2> HIDE DEF Sum
  <2>2. QED
    BY <1>0, <1>1, <2>1
<1>3. TypeOK /\ TypeOK' /\ ClosingInv /\ KeptInv /\ [Next]_vars => KeptInv'
  <2> SUFFICES ASSUME TypeOK, TypeOK', ClosingInv, KeptInv, [Next]_vars,
                      NEW p \in Products
               PROVE  stock'[p] + Sum(p)' >= InitialStock[p]
    OBVIOUS
  <2>1. stock[p] \in Nat /\ stock'[p] \in Nat /\ stock[p] + Sum(p) >= InitialStock[p]
    BY DEF TypeOK
  <2>2. CASE UNCHANGED <<status, stock, returned>>
    <3>1. K(p)' = K(p)
      BY <2>2 DEF Kept, Live
    <3>2. QED
      BY <2>1, <2>2, <3>1
  <2>3. ASSUME NEW o \in Orders, Balances(o)
        PROVE  stock'[p] + Sum(p)' >= stock[p] + Sum(p)
    <3>1. \A q \in Orders \ {o} : K(p)'[q] = K(p)[q]
      BY <2>3 DEF Balances, Kept, Live
    <3>2. Sum(p)' + K(p)[o] = Sum(p) + K(p)'[o]
      BY <1>1, <1>a, <3>1, SumChange
    <3>3. K(p)[o] = Kept(o, p) /\ K(p)'[o] = Kept(o, p)'
      OBVIOUS
    <3>4. K(p)[o] \in Nat /\ K(p)'[o] \in Nat
      BY <1>1, <1>a
    <3>5. stock'[p] + K(p)'[o] >= stock[p] + K(p)[o]
      BY <2>3, <3>3 DEF Balances
    <3> HIDE DEF Sum, K
    <3>6. QED
      BY <1>1, <1>a, <2>1, <3>2, <3>4, <3>5
  <2> HIDE DEF Sum
  <2>4. QED
    BY <1>0, <1>1, <1>a, <2>1, <2>2, <2>3, StepsBalance DEF Even
<1>4. KeptInv /\ TypeOK => NoUnitLost
  <2> SUFFICES ASSUME KeptInv, TypeOK, NEW p \in Products
               PROVE  stock[p] + Reserved(p) >= InitialStock[p]
    BY DEF NoUnitLost
  <2> DEFINE H == [o \in Orders |-> HeldBy(o, p)]
  <2>1. H \in [Orders -> Nat]
    BY LinesAssumption DEF HeldBy
  <2>2. \A o \in Orders : K(p)[o] <= H[o]
    BY LinesAssumption DEF HeldBy, Kept
  <2>3. Reserved(p) = SumFunction(H)
    BY DEF Reserved
  <2>4. SumFunction(H) \in Nat
    BY <2>1, SumIsNat
  <2> HIDE DEF H
  <2>5. Sum(p) <= SumFunction(H)
    BY <1>1, <2>1, <2>2, SumGrows
  <2>6. stock[p] \in Nat
    BY DEF TypeOK
  <2> HIDE DEF Sum
  <2>7. QED
    BY <1>0, <1>1, <2>3, <2>4, <2>5, <2>6
<1>5. Init => ClosingInv
  BY NullAssumption DEF Init, ClosingInv, ClosedGaveStockBack, ShownClosed,
     NamesPlaced, ClosedStatus, Idle
<1>6. TypeOK /\ ClosingInv /\ [Next]_vars => ClosingInv'
  BY ClosingStep
<1> HIDE DEF KeptInv
<1>7. QED
  BY <1>2, <1>3, <1>4, <1>5, <1>6, TypeCorrect, PTL DEF Spec

(***************************************************************************)
(* The locking actors.                                                     *)
(***************************************************************************)

\* They are some of the system's.
LEMMA LockingIsSpec == LockingSpec => Spec
<1>1. [LockingNext]_vars => [Next]_vars
  BY DEF LockingNext, Next
<1>2. QED
  BY <1>1, PTL DEF LockingSpec, Spec

\* No order is ever "new", so no session waits to move one on.
NeverNew ==
    /\ \A o \in Orders : status[o] # "new"
    /\ \A w \in Workers :
         job[w].pc \in {"opening", "saving"} => job[w].seen # "new"

\* A payment's row says what became of its order.
RowsMeanIt ==
    \A t \in Trans :
        /\ payment[t].status = "succeeded" => paid[session[t].order]
        /\ payment[t].status = "refunded" => returned[session[t].order] >= 1

\* So does an answer the gateway was given.
AcksMeanIt ==
    \A t \in Trans :
        /\ <<t, "ok">> \in acked => Charged(t) /\ paid[session[t].order]
        /\ <<t, "fail">> \in acked
             => LetGo(t) /\ returned[session[t].order] >= 1

\* An order the expiry released is closed and was never paid.
ReleasedUnpaid ==
    \A o \in released : status[o] = "cancelled" /\ ~paid[o]

LockingInv == NeverNew /\ RowsMeanIt /\ AcksMeanIt /\ ReleasedUnpaid

\* What a step of the locking actors does to what the rows and answers say.
Settles(t) ==
    /\ payment'[t].status = "succeeded"
         => payment[t].status = "succeeded"
              \/ (session[t].state # "none" /\ paid'[session[t].order])
    /\ payment'[t].status = "refunded"
         => payment[t].status = "refunded"
              \/ (session[t].state # "none" /\ returned'[session[t].order] >= 1)
    /\ <<t, "ok">> \in acked'
         => <<t, "ok">> \in acked
              \/ (Charged(t) /\ paid'[session[t].order])
    /\ <<t, "fail">> \in acked'
         => <<t, "fail">> \in acked
              \/ (LetGo(t) /\ returned'[session[t].order] >= 1)

Forward ==
    \A o \in Orders : /\ paid[o] => paid'[o]
                      /\ returned'[o] >= returned[o]

\* A step that settles what it writes keeps the rows and answers meaningful.
LEMMA SettlingKeeps ==
    ASSUME TypeOK, TypeOK', [Next]_vars, RowsMeanIt, AcksMeanIt, Forward,
           \A t \in Trans : Settles(t)
    PROVE  RowsMeanIt' /\ AcksMeanIt'
<1>1. \A t \in Trans : TakenOrLetGoKept(t)
  BY SessionHistory
<1>2. \A o \in Orders : returned[o] \in Nat /\ returned'[o] \in Nat
  BY DEF TypeOK
<1>3. ASSUME NEW t \in Trans, session[t].state # "none"
      PROVE  session'[t].order = session[t].order /\ session[t].order \in Orders
  BY <1>1, <1>3 DEF TakenOrLetGoKept, TypeOK, References
<1>4. ASSUME NEW t \in Trans, payment[t].status # "none"
      PROVE  session[t].state # "none"
  BY <1>4 DEF TypeOK, References
<1>5. ASSUME NEW t \in Trans, Charged(t) \/ LetGo(t)
      PROVE  session[t].state # "none"
  BY <1>5 DEF Charged, LetGo
<1>6. ASSUME NEW t \in Trans
      PROVE  /\ payment'[t].status = "succeeded" => paid'[session'[t].order]
             /\ payment'[t].status = "refunded"
                  => returned'[session'[t].order] >= 1
  <2>1. Settles(t) /\ Forward
    OBVIOUS
  <2>2. CASE payment'[t].status = "succeeded"
    <3>1. session[t].state # "none" /\ (paid[session[t].order]
                                         \/ paid'[session[t].order])
      BY <1>4, <2>1, <2>2 DEF RowsMeanIt, Settles
    <3>2. QED
      BY <1>3, <2>1, <2>2, <3>1 DEF Forward
  <2>3. CASE payment'[t].status = "refunded"
    <3>1. session[t].state # "none" /\ (returned[session[t].order] >= 1
                                         \/ returned'[session[t].order] >= 1)
      BY <1>4, <2>1, <2>3 DEF RowsMeanIt, Settles
    <3>2. QED
      BY <1>2, <1>3, <2>1, <2>3, <3>1 DEF Forward
  <2>4. QED
    BY <2>2, <2>3
<1>7. ASSUME NEW t \in Trans
      PROVE  /\ <<t, "ok">> \in acked'
                  => Charged(t)' /\ paid'[session'[t].order]
             /\ <<t, "fail">> \in acked'
                  => LetGo(t)' /\ returned'[session'[t].order] >= 1
  BY <1>1, <1>2, <1>3, <1>5 DEF AcksMeanIt, Forward, Settles, TakenOrLetGoKept
<1>8. QED
  BY <1>6, <1>7 DEF RowsMeanIt, AcksMeanIt

\* One step of a locking actor keeps all of it.
LEMMA LockingStep ==
    ASSUME TypeOK, TypeOK', LockingInv, [LockingNext]_vars
    PROVE  LockingInv'
<1>0. [Next]_vars
  BY DEF LockingNext, Next
<1> DEFINE Unheard(w) == job'[w] = job[w]
                         \/ job'[w].pc \notin {"opening", "saving"}
<1>a. ASSUME Forward, \A t \in Trans : Settles(t),
             \A o \in Orders : status'[o] # "new",
             \A w \in Workers :
               Unheard(w) \/ (job[w].pc \in {"opening", "saving"}
                                 /\ job'[w].seen = job[w].seen)
                          \/ job'[w].seen # "new",
             ReleasedUnpaid'
      PROVE  LockingInv'
  <2>1. RowsMeanIt' /\ AcksMeanIt'
    BY <1>0, <1>a, SettlingKeeps DEF LockingInv
  <2>2. NeverNew'
    BY <1>a DEF LockingInv, NeverNew
  <2>3. QED
    BY <1>a, <2>1, <2>2 DEF LockingInv
<1>b. ASSUME UNCHANGED <<paid, payment, returned, acked, released>>,
             \A o \in Orders : status'[o] = status[o]
                               \/ (status[o] # "cancelled" /\ status'[o] # "new"),
             \A w \in Workers :
               Unheard(w) \/ (job[w].pc \in {"opening", "saving"}
                                 /\ job'[w].seen = job[w].seen)
                          \/ job'[w].seen # "new"
      PROVE  LockingInv'
  <2>1. Forward /\ \A t \in Trans : Settles(t)
    BY <1>b DEF Forward, Settles, TypeOK
  <2>2. ReleasedUnpaid'
    BY <1>b DEF ReleasedUnpaid, LockingInv, TypeOK
  <2>3. \A o \in Orders : status'[o] # "new"
    BY <1>b DEF LockingInv, NeverNew
  <2>4. QED
    BY <1>a, <1>b, <2>1, <2>2, <2>3
<1>c. ASSUME job' = job, UNCHANGED <<status, paid, payment, returned, acked, released>>
      PROVE  LockingInv'
  BY <1>b, <1>c
<1>1. ASSUME NEW o \in Orders, NEW byCard \in BOOLEAN, Checkout(o, byCard)
      PROVE  LockingInv'
  BY <1>1, <1>b DEF Checkout, history, TypeOK
<1>2. ASSUME NEW w \in Workers, NEW o \in Orders, StartRead(w, o)
      PROVE  LockingInv'
  <2> DEFINE new == [Idle EXCEPT !.pc = "opening", !.order = o,
                                 !.seen = status[o]]
  <2>1. job' = [job EXCEPT ![w] = new]
    BY <1>2 DEF StartRead, Begin
  <2>2. new.seen # "new"
    BY DEF Idle, LockingInv, NeverNew
  <2> HIDE DEF new
  <2>3. \A v \in Workers : Unheard(v) \/ job'[v].seen # "new"
    BY <2>1, <2>2 DEF TypeOK
  <2>4. QED
    BY <1>2, <1>b, <2>3 DEF StartRead, orderVars, history
<1>3. ASSUME NEW w \in Workers, NEW o \in Orders, CardRead(w, o)
      PROVE  LockingInv'
  <2> DEFINE new == [Idle EXCEPT !.pc = "charging", !.order = o]
  <2>1. job' = [job EXCEPT ![w] = new]
    BY <1>3 DEF CardRead, Begin
  <2>2. new.pc = "charging"
    BY DEF Idle
  <2> HIDE DEF new
  <2>3. \A v \in Workers : Unheard(v)
    BY <2>1, <2>2 DEF TypeOK
  <2>4. QED
    BY <1>3, <1>b, <2>3 DEF CardRead, orderVars, history
<1>4. ASSUME NEW w \in Workers, NEW t \in Trans, OpenSession(w, t)
      PROVE  LockingInv'
  <2> DEFINE next == IF job[w].pc = "opening" THEN "saving" ELSE "recording"
             new == [job[w] EXCEPT !.trans = t, !.pc = next]
  <2>1. job' = [job EXCEPT ![w] = new]
    BY <1>4 DEF OpenSession
  <2>2. new.seen = job[w].seen /\ new.pc = next
    BY DEF TypeOK, Job
  <2>3. new.pc = "saving" => job[w].pc = "opening"
    BY <2>2
  <2>4. new.pc \notin {"opening"}
    BY <2>2
  <2> HIDE DEF new
  <2>5. \A v \in Workers : Unheard(v) \/ (job[v].pc \in {"opening", "saving"}
                                           /\ job'[v].seen = job[v].seen)
    BY <2>1, <2>2, <2>3, <2>4 DEF TypeOK
  <2>6. QED
    BY <1>4, <1>b, <2>5 DEF OpenSession, orderVars, history
<1>5. ASSUME NEW w \in Workers, SaveSession(w) \/ RecordCharge(w)
      PROVE  LockingInv'
  <2>1. /\ \A t \in Trans : payment'[t] = payment[t] \/ payment'[t] = NewRow
        /\ UNCHANGED <<paid, returned, acked, released, status>>
    BY <1>5 DEF SaveSession, RecordCharge, history, orderVars, LockingInv,
       NeverNew, TypeOK
  <2>2. Forward /\ \A t \in Trans : Settles(t)
    BY <2>1, NewRowIsRow DEF Forward, Settles, TypeOK
  <2>3. ReleasedUnpaid' /\ \A o \in Orders : status'[o] # "new"
    BY <2>1 DEF LockingInv, ReleasedUnpaid, NeverNew
  <2>4. \A v \in Workers : Unheard(v)
    BY <1>5, IdleIsJob DEF SaveSession, RecordCharge, Finish, TypeOK
  <2>5. QED
    BY <1>a, <2>2, <2>3, <2>4
<1>6. ASSUME NEW w \in Workers, Crash(w)
      PROVE  LockingInv'
  <2>1. \A v \in Workers : Unheard(v)
    BY <1>6, IdleIsJob DEF Crash, Finish, TypeOK
  <2>2. QED
    BY <1>6, <1>b, <2>1 DEF Crash, orderVars, history
<1>7. ASSUME \/ UnrecordedNext \/ Scan \/ ExpiryStops \/ GatewayNext
             \/ \E o \in Orders : Age(o)
      PROVE  LockingInv'
  BY <1>7, <1>c DEF UnrecordedNext, OpenUnrecorded, Scan, ExpiryStops, Age,
     GatewayNext, Charge, Reject, Reverse, GatewayMove, orderVars, history
<1>8. ASSUME NEW o \in Orders, Release(o)
      PROVE  LockingInv'
  <2>1. CASE StillUnpaid(o)
    <3>1. /\ status' = [status EXCEPT ![o] = "cancelled"]
          /\ released' = released \cup {o}
          /\ returned' = [returned EXCEPT ![o] = @ + 1]
          /\ UNCHANGED <<paid, payment, job, acked>>
          /\ ~paid[o]
      BY <1>8, <2>1 DEF Release, Restock, StillUnpaid
    <3>2. Forward
      BY <3>1 DEF Forward, TypeOK
    <3>3. \A t \in Trans : Settles(t)
      BY <3>1 DEF Settles
    <3>4. ReleasedUnpaid' /\ \A q \in Orders : status'[q] # "new"
      BY <3>1 DEF LockingInv, ReleasedUnpaid, NeverNew, TypeOK
    <3>5. QED
      BY <1>a, <3>1, <3>2, <3>3, <3>4
  <2>2. CASE ~StillUnpaid(o)
    BY <1>8, <1>c, <2>2 DEF Release
  <2>3. QED
    BY <2>1, <2>2
<1>9. ASSUME NEW t \in Trans, NEW heard \in BOOLEAN, Prepare(t, heard)
      PROVE  LockingInv'
  <2> DEFINE out == PrepareOutcome(status[session[t].order], payment[t])
  <2>1. session[t].order \in Orders
    BY <1>9 DEF Prepare, Deliverable, Sent, Latest, TypeOK, References
  <2>2. /\ out.row.status = "succeeded" => payment[t].status = "succeeded"
        /\ out.row.status = "refunded" => payment[t].status = "refunded"
    BY <2>1, PrepareOutcomeType DEF TypeOK
  <2>3. /\ payment' = [payment EXCEPT ![t] = out.row]
        /\ UNCHANGED <<status, paid, returned, acked, released, job>>
    BY <1>9 DEF Prepare, orderVars, history
  <2> HIDE DEF out
  <2>4. Forward /\ \A u \in Trans : Settles(u)
    BY <2>2, <2>3 DEF Forward, Settles, TypeOK
  <2>5. ReleasedUnpaid' /\ \A q \in Orders : status'[q] # "new"
    BY <2>3 DEF LockingInv, ReleasedUnpaid, NeverNew
  <2>6. QED
    BY <1>a, <2>3, <2>4, <2>5
<1>10. ASSUME NEW t \in Trans, NEW c \in Callbacks, NEW heard \in BOOLEAN,
              Complete(t, c, heard)
       PROVE  LockingInv'
  <2> DEFINE o == session[t].order
             out == CompleteOutcome(status[o], paid[o], payment[t], c)
  <2>1. /\ o \in Orders /\ session[t].state # "none"
        /\ c = "ok" => Charged(t)
        /\ c = "fail" => LetGo(t)
    BY <1>10, DeliveredIsTrue DEF Complete
  <2>2. /\ paid[o] => out.paid
        /\ out.row.status = "succeeded" => out.paid
        /\ out.row.status = "refunded"
             => payment[t].status = "refunded" \/ out.restock
        /\ out.reply = "success" /\ c = "ok" => out.paid
        /\ out.reply = "success" /\ c = "fail"
             => payment[t].status = "refunded" \/ out.restock
        /\ status[o] = "cancelled" /\ ~paid[o]
             => out.status = "cancelled" /\ ~out.paid
        /\ out.status # "new"
    <3>1. payment[t].status = "succeeded" => paid[o]
      BY DEF LockingInv, RowsMeanIt
    <3>2. status[o] # "new"
      BY <2>1 DEF LockingInv, NeverNew
    <3>3. QED
      BY <2>1, <3>1, <3>2, CompleteSettles DEF TypeOK
  <2>3. /\ payment' = [payment EXCEPT ![t] = out.row]
        /\ status' = [status EXCEPT ![o] = out.status]
        /\ paid' = [paid EXCEPT ![o] = out.paid]
        /\ IF out.restock THEN Restock(o) ELSE UNCHANGED <<stock, returned>>
        /\ acked' = IF out.reply = "success" THEN acked \cup {<<t, c>>}
                                             ELSE acked
        /\ UNCHANGED <<job, released>>
    BY <1>10 DEF Complete
  <2> HIDE DEF out, o
  <2>4. /\ \A q \in Orders : returned'[q] >= returned[q]
        /\ out.restock => returned'[o] >= 1
        /\ returned'[o] >= returned[o]
        /\ returned[o] \in Nat /\ returned'[o] \in Nat
    BY <2>1, <2>3 DEF Restock, TypeOK
  <2>5. Forward
    BY <2>1, <2>2, <2>3, <2>4 DEF Forward, TypeOK
  <2>6. payment[t].status = "refunded" => returned'[o] >= 1
    BY <2>4 DEF LockingInv, RowsMeanIt, o
  <2>7. paid'[o] = out.paid /\ payment'[t] = out.row
        /\ \A u \in Trans \ {t} : payment'[u] = payment[u]
    BY <2>1, <2>3 DEF TypeOK
  <2>8. Settles(t)
    BY <2>1, <2>2, <2>3, <2>4, <2>6, <2>7 DEF Settles, o, Callbacks
  <2>9. \A u \in Trans \ {t} : Settles(u)
    BY <2>3, <2>7 DEF Settles
  <2>10. ReleasedUnpaid' /\ \A q \in Orders : status'[q] # "new"
    BY <2>1, <2>2, <2>3 DEF LockingInv, ReleasedUnpaid, NeverNew, TypeOK
  <2>11. QED
    BY <1>a, <2>3, <2>5, <2>8, <2>9, <2>10
<1>11. CASE UNCHANGED vars
  BY <1>11, <1>c DEF vars
<1>12. QED
  BY <1>1, <1>2, <1>3, <1>4, <1>5, <1>6, <1>7, <1>8, <1>9, <1>10, <1>11
     DEF LockingNext, CheckoutNext, StartNext, CardNext, ExpiryNext,
         CallbackNext, CrashNext

\* The invariant of the locking actors holds.
LEMMA LockingInvariant == LockingSpec => [](TypeOK /\ LockingInv)
<1>1. Init => LockingInv
  BY DEF Init, LockingInv, NeverNew, RowsMeanIt, AcksMeanIt, ReleasedUnpaid,
     NoRow, Idle
<1>2. TypeOK /\ TypeOK' /\ LockingInv /\ [LockingNext]_vars => LockingInv'
  BY LockingStep
<1>3. QED
  BY <1>1, <1>2, LockingIsSpec, TypeCorrect, PTL DEF LockingSpec

\* A confirmation answered with success left the order stamped paid, whatever
\* callbacks are repeated or overtaken and whenever the expiry runs.
THEOREM ConfirmedMeansPaid == LockingSpec => []AckedMeansPaid
<1>1. LockingInv => AckedMeansPaid
  BY DEF LockingInv, AcksMeanIt, AckedMeansPaid
<1>2. QED
  BY <1>1, LockingInvariant, PTL

\* A reversal answered with success returned its order's stock, also when it was
\* answered by the exit for a row that reads refunded already.
THEOREM ReversedMeansReturned == LockingSpec => []AckedRefundMeansReturned
<1>1. LockingInv => AckedRefundMeansReturned
  BY DEF LockingInv, AcksMeanIt, AckedRefundMeansReturned
<1>2. QED
  BY <1>1, LockingInvariant, PTL

\* After the expiry released an order no confirmation for it is accepted: the
\* promise of release_expired_orders.
THEOREM ReleasedIsRefused == LockingSpec => RefusedOnceReleased
<1>1. TypeOK /\ LockingInv /\ [LockingNext]_vars
        => \/ \A t \in Trans : <<t, "ok">> \in acked' \ acked
                                 => session[t].order \notin released
           \/ UNCHANGED vars
  <2> SUFFICES ASSUME TypeOK, LockingInv, [LockingNext]_vars
               PROVE  \A t \in Trans : <<t, "ok">> \in acked' \ acked
                                          => session[t].order \notin released
    OBVIOUS
  <2> SUFFICES ASSUME NEW t \in Trans, <<t, "ok">> \in acked' \ acked
               PROVE  session[t].order \notin released
    OBVIOUS
  <2>1. PICK u \in Trans, c \in Callbacks, heard \in BOOLEAN :
          Complete(u, c, heard)
    BY DEF LockingNext, CheckoutNext, StartNext, CardNext, UnrecordedNext,
       ExpiryNext, CallbackNext, GatewayNext, CrashNext, vars, orderVars,
       history, Checkout, StartRead, CardRead, OpenSession, SaveSession,
       RecordCharge, OpenUnrecorded, Scan, Age, Release, Prepare, Charge,
       Reject, Reverse, GatewayMove, ExpiryStops, Crash
  <2> DEFINE o == session[u].order
             out == CompleteOutcome(status[o], paid[o], payment[u], c)
  <2>2. out.reply = "success" /\ acked' = acked \cup {<<u, c>>}
    BY <2>1 DEF Complete
  <2>3. u = t
    BY <2>2
  <2>4. o \in Orders /\ (payment[u].status = "succeeded" => paid[o])
    BY <2>1, DeliveredIsTrue DEF Complete, LockingInv, RowsMeanIt
  <2>5. ~(status[o] = "cancelled" /\ ~paid[o])
    BY <2>2, <2>4, CompleteSettles DEF TypeOK
  <2>6. QED
    BY <2>3, <2>5 DEF LockingInv, ReleasedUnpaid
<1>2. QED
  BY <1>1, LockingInvariant, PTL DEF LockingSpec, RefusedOnceReleased

\* As long as nobody writes an order without locking it, no order that is
\* cancelled comes back to life.
THEOREM CancelledIsFinal == LockingSpec => CancelledStaysClosed
<1>1. TypeOK /\ LockingInv /\ [LockingNext]_vars
        => \/ \A o \in Orders : status[o] = "cancelled"
                                  => status'[o] \in ClosedStatus
           \/ UNCHANGED vars
  <2> SUFFICES ASSUME TypeOK, LockingInv, [LockingNext]_vars,
                      NEW o \in Orders, status[o] = "cancelled"
               PROVE  status'[o] \in ClosedStatus
    OBVIOUS
  <2>1. CASE status' = status
    BY <2>1 DEF ClosedStatus
  <2>2. ASSUME NEW q \in Orders, NEW byCard \in BOOLEAN, Checkout(q, byCard)
        PROVE  status'[o] = "cancelled"
    BY <2>2 DEF Checkout, TypeOK
  <2>3. ASSUME NEW w \in Workers, SaveSession(w)
        PROVE  status' = status
    BY <2>3 DEF SaveSession, LockingInv, NeverNew
  <2>4. ASSUME NEW q \in Orders, Release(q)
        PROVE  status'[o] = "cancelled"
    BY <2>4 DEF Release, TypeOK
  <2>5. ASSUME NEW t \in Trans, NEW c \in Callbacks, NEW heard \in BOOLEAN,
               Complete(t, c, heard)
        PROVE  status'[o] \in ClosedStatus
    <3> DEFINE q == session[t].order
               out == CompleteOutcome(status[q], paid[q], payment[t], c)
    <3>1. q \in Orders /\ (payment[t].status = "succeeded" => paid[q])
      BY <2>5, DeliveredIsTrue DEF Complete, LockingInv, RowsMeanIt
    <3>2. status[q] \in ClosedStatus => out.status \in ClosedStatus
      BY <3>1, CompleteSettles DEF TypeOK
    <3>3. status' = [status EXCEPT ![q] = out.status]
      BY <2>5 DEF Complete
    <3> HIDE DEF out, q
    <3>4. QED
      BY <3>1, <3>2, <3>3 DEF TypeOK, ClosedStatus
  <2>6. QED
    BY <2>1, <2>2, <2>3, <2>4, <2>5
       DEF ClosedStatus, LockingNext, CheckoutNext, StartNext, CardNext,
           UnrecordedNext, ExpiryNext, CallbackNext, GatewayNext, CrashNext,
           vars, orderVars, history, StartRead, CardRead, OpenSession,
           RecordCharge, OpenUnrecorded, Scan, Age, Prepare, Charge, Reject,
           Reverse, GatewayMove, ExpiryStops, Crash
<1>2. QED
  BY <1>1, LockingInvariant, PTL DEF LockingSpec, CancelledStaysClosed

(***************************************************************************)
(* A refund is final, as long as no callback is overtaken by a later one.  *)
(***************************************************************************)

\* A payment reads refunded only together with its order.
RefundedTogether ==
    \A t \in Trans :
        payment[t].status = "refunded" => status[session[t].order] = "refunded"

\* What handle_complete does to a refunded order, to a refunded payment of one,
\* and to a payment that becomes refunded.
LEMMA CompleteRefunds ==
    ASSUME NEW s \in OrderStatus, NEW p \in BOOLEAN, NEW row \in Row,
           NEW c \in Callbacks
    PROVE  LET out == CompleteOutcome(s, p, row, c)
           IN  /\ s = "refunded" => out.status = "refunded"
               /\ s = "refunded" /\ c = "fail" /\ row.status = "refunded"
                    => out.row = row
               /\ out.row.status = "refunded"
                    => row.status = "refunded" \/ out.status = "refunded"
<1> USE DEF Row, Callbacks, UnpaidStatus
<1>1. CASE row.status = "none" \/ ~row.prepared
  BY <1>1 DEF CompleteOutcome, Exit
<1>2. CASE /\ ~(row.status = "none" \/ ~row.prepared)
           /\ s = "cancelled" /\ row.status # "succeeded"
  BY <1>2 DEF CompleteOutcome, Exit
<1>3. CASE /\ ~(row.status = "none" \/ ~row.prepared)
           /\ ~(s = "cancelled" /\ row.status # "succeeded")
  <2>1. CASE c = "fail"
    BY <1>3, <2>1 DEF CompleteOutcome, RefundExit, Exit
  <2>2. CASE c # "fail"
    BY <1>3, <2>2 DEF CompleteOutcome, ConfirmExit, Exit
  <2>3. QED
    BY <2>1, <2>2
<1>4. QED
  BY <1>1, <1>2, <1>3

RefundKept(t) ==
    /\ payment[t].status = "refunded" => payment'[t].status = "refunded"
    /\ payment'[t].status = "refunded" /\ payment[t].status # "refunded"
         => /\ session[t].state # "none"
            /\ status'[session[t].order] = "refunded"

\* No locking actor takes an order out of refunded.
LEMMA OrdersStayRefunded ==
    ASSUME TypeOK, LockingInv, [LockingNext]_vars,
           NEW o \in Orders, status[o] = "refunded"
    PROVE  status'[o] = "refunded"
<1>1. CASE status' = status
  BY <1>1
<1>2. ASSUME NEW q \in Orders, NEW byCard \in BOOLEAN, Checkout(q, byCard)
      PROVE  status'[o] = "refunded"
  BY <1>2 DEF Checkout, TypeOK
<1>3. ASSUME NEW w \in Workers, SaveSession(w)
      PROVE  status' = status
  BY <1>3 DEF SaveSession, LockingInv, NeverNew
<1>4. ASSUME NEW q \in Orders, Release(q)
      PROVE  status'[o] = "refunded"
  BY <1>4 DEF Release, StillUnpaid, UnpaidStatus, TypeOK
<1>5. ASSUME NEW t \in Trans, NEW c \in Callbacks, NEW heard \in BOOLEAN,
             Complete(t, c, heard)
      PROVE  status'[o] = "refunded"
  <2> DEFINE q == session[t].order
             out == CompleteOutcome(status[q], paid[q], payment[t], c)
  <2>1. q \in Orders
    BY <1>5, DeliveredIsTrue DEF Complete
  <2>2. status[q] = "refunded" => out.status = "refunded"
    BY <2>1, CompleteRefunds DEF TypeOK
  <2>3. status' = [status EXCEPT ![q] = out.status]
    BY <1>5 DEF Complete
  <2> HIDE DEF out, q
  <2>4. QED
    BY <2>1, <2>2, <2>3 DEF TypeOK
<1>6. QED
  BY <1>1, <1>2, <1>3, <1>4, <1>5
     DEF LockingNext, CheckoutNext, StartNext, CardNext,
         UnrecordedNext, ExpiryNext, CallbackNext, GatewayNext, CrashNext,
         vars, orderVars, history, StartRead, CardRead, OpenSession,
         RecordCharge, OpenUnrecorded, Scan, Age, Prepare, Charge, Reject,
         Reverse, GatewayMove, ExpiryStops, Crash

\* Nor a payment, unless a callback is overtaken: only the reversal itself is
\* still delivered for it, and its exit changes nothing.
LEMMA RefundsStay ==
    ASSUME TypeOK, TypeOK', LockingInv, RefundedMeansLetGo, RefundedTogether,
           ~LateReplays, [LockingNext]_vars
    PROVE  RefundedTogether' /\ \A t \in Trans : RefundKept(t)
<1>0. [Next]_vars
  BY DEF LockingNext, Next
<1>1. \A t \in Trans : RefundKept(t)
  <2>1. CASE payment' = payment
    BY <2>1 DEF RefundKept
  <2>2. ASSUME NEW w \in Workers, SaveSession(w) \/ RecordCharge(w)
        PROVE  \A t \in Trans : RefundKept(t)
    <3>1. /\ job[w].trans \in Trans
          /\ \/ payment' = payment
             \/ /\ payment[job[w].trans].status = "none"
                /\ payment' = [payment EXCEPT ![job[w].trans] = NewRow]
      BY <2>2 DEF SaveSession, RecordCharge, TypeOK, References
    <3>2. NewRow.status = "pending"
      BY DEF NewRow, NoRow
    <3>3. QED
      BY <3>1, <3>2 DEF RefundKept, TypeOK
  <2>3. ASSUME NEW u \in Trans, NEW heard \in BOOLEAN, Prepare(u, heard)
        PROVE  \A t \in Trans : RefundKept(t)
    <3> DEFINE out == PrepareOutcome(status[session[u].order], payment[u])
    <3>1. payment' = [payment EXCEPT ![u] = out.row]
      BY <2>3 DEF Prepare
    <3>2. payment[u].status # "refunded"
      BY <2>3 DEF Prepare, Deliverable, Latest, RefundedMeansLetGo, LetGo
    <3>3. out.row.status = "refunded" => payment[u].status = "refunded"
      BY DEF PrepareOutcome, NewRow, NoRow, TypeOK, Row
    <3> HIDE DEF out
    <3>4. QED
      BY <3>1, <3>2, <3>3 DEF RefundKept, TypeOK
  <2>4. ASSUME NEW u \in Trans, NEW c \in Callbacks, NEW heard \in BOOLEAN,
               Complete(u, c, heard)
        PROVE  \A t \in Trans : RefundKept(t)
    <3> DEFINE o == session[u].order
               out == CompleteOutcome(status[o], paid[o], payment[u], c)
    <3>1. o \in Orders /\ session[u].state # "none"
      BY <2>4, DeliveredIsTrue DEF Complete
    <3>2. /\ payment' = [payment EXCEPT ![u] = out.row]
          /\ status' = [status EXCEPT ![o] = out.status]
      BY <2>4 DEF Complete
    <3>3. payment[u].status = "refunded" => c = "fail" /\ status[o] = "refunded"
      BY <2>4 DEF Complete, Deliverable, Latest, RefundedMeansLetGo, LetGo,
         RefundedTogether
    <3>4. /\ payment[u].status = "refunded" => out.row = payment[u]
          /\ out.row.status = "refunded"
               => payment[u].status = "refunded" \/ out.status = "refunded"
      BY <3>1, <3>3, CompleteRefunds DEF TypeOK
    <3> HIDE DEF out
    <3>5. status'[o] = out.status
      BY <3>1, <3>2 DEF TypeOK
    <3>6. QED
      BY <3>1, <3>2, <3>4, <3>5 DEF RefundKept, TypeOK
  <2>5. QED
    BY <2>1, <2>2, <2>3, <2>4
       DEF LockingNext, CheckoutNext, StartNext, CardNext,
           UnrecordedNext, ExpiryNext, CallbackNext, GatewayNext, CrashNext,
           vars, orderVars, history, StartRead, CardRead, OpenSession,
           OpenUnrecorded, Scan, Age, Release, Charge, Reject,
           Reverse, GatewayMove, ExpiryStops, Crash, Checkout
<1>2. RefundedTogether'
  <2> SUFFICES ASSUME NEW t \in Trans, payment'[t].status = "refunded"
               PROVE  status'[session'[t].order] = "refunded"
    BY DEF RefundedTogether
  <2>1. session[t].state # "none"
    BY <1>1 DEF RefundKept, RefundedMeansLetGo, LetGo
  <2>2. session'[t].order = session[t].order /\ session[t].order \in Orders
    BY <1>0, <2>1, SessionHistory DEF TakenOrLetGoKept, TypeOK, References
  <2>3. status'[session[t].order] = "refunded"
    BY <1>1, <2>2, OrdersStayRefunded DEF RefundKept, RefundedTogether
  <2>4. QED
    BY <2>2, <2>3
<1>3. QED
  BY <1>1, <1>2

\* Among the locking actors a payment the gateway reversed never reads anything
\* else again, for any number of sessions per order, provided that callbacks are
\* repeated but never overtaken.  A replay that comes after the reversal does
\* break it, as the run ReplayAfterReversal shows.
THEOREM RefundsAreFinal ==
    ASSUME ~LateReplays
    PROVE  LockingSpec => RefundIsFinal
<1>1. Init => RefundedTogether
  BY DEF Init, RefundedTogether, NoRow
<1>2. TypeOK /\ TypeOK' /\ LockingInv /\ RefundedMeansLetGo /\ RefundedTogether
      /\ [LockingNext]_vars
      => /\ RefundedTogether'
         /\ \A t \in Trans : payment[t].status = "refunded"
                              => payment'[t].status = "refunded"
  BY RefundsStay DEF RefundKept
<1>3. QED
  BY <1>1, <1>2, LockingInvariant, LockingIsSpec, RefundsAreReal, PTL
     DEF LockingSpec, RefundIsFinal

(***************************************************************************)
(* A cancelled order is not restocked again, among the locking actors.     *)
(***************************************************************************)

\* Only the expiry cancels there, and only what nobody paid for.
CancelledUnpaid == \A o \in Orders : status[o] = "cancelled" => ~paid[o]

\* What handle_complete does to an order that is closed already, and when it
\* closes one.
LEMMA CompleteCloses ==
    ASSUME NEW s \in OrderStatus, NEW p \in BOOLEAN, NEW row \in Row,
           NEW c \in Callbacks, row.status = "succeeded" => p
    PROVE  LET out == CompleteOutcome(s, p, row, c)
           IN  /\ out.restock => row.status # "refunded"
                                 /\ out.row.status = "refunded"
                                 /\ out.status = "refunded"
               /\ out.status = "refunded" => s = "refunded" \/ out.restock
               /\ out.row.status = "refunded"
                    => row.status = "refunded" \/ out.restock
               /\ s = "refunded" => out.status = "refunded"
               /\ row.status = "refunded" /\ c = "fail" /\ s # "cancelled"
                    => out.row.status = "refunded"
               /\ out.status = "cancelled" => s = "cancelled"
               /\ s # "none" => out.status # "none"
               /\ s \in LiveStatus /\ ~out.restock => out.status \in LiveStatus
<1> USE DEF Row, ClosedStatus, UnpaidStatus, LiveStatus, Callbacks
<1>1. CASE row.status = "none" \/ ~row.prepared
  BY <1>1 DEF CompleteOutcome, Exit
<1>2. CASE /\ ~(row.status = "none" \/ ~row.prepared)
           /\ s = "cancelled" /\ row.status # "succeeded"
  BY <1>2 DEF CompleteOutcome, Exit
<1>3. CASE /\ ~(row.status = "none" \/ ~row.prepared)
           /\ ~(s = "cancelled" /\ row.status # "succeeded")
  <2>1. CASE c = "fail"
    BY <1>3, <2>1 DEF CompleteOutcome, RefundExit, Exit
  <2>2. CASE c # "fail"
    BY <1>3, <2>2 DEF CompleteOutcome, ConfirmExit, Exit
  <2>3. QED
    BY <2>1, <2>2
<1>4. QED
  BY <1>1, <1>2, <1>3

\* What a step does to a cancelled order, and to one that it cancels.
LeavesCancelled(o) ==
    /\ status'[o] = "cancelled" => ~paid'[o]
    /\ status[o] = "cancelled" => returned'[o] = returned[o]

LEMMA CancelledLeft ==
    ASSUME TypeOK, LockingInv, CancelledUnpaid, [LockingNext]_vars, NEW o \in Orders
    PROVE  LeavesCancelled(o)
<1>1. CASE status' = status /\ paid' = paid /\ returned' = returned
  BY <1>1 DEF LeavesCancelled, CancelledUnpaid
<1>2. ASSUME NEW q \in Orders, NEW byCard \in BOOLEAN, Checkout(q, byCard)
      PROVE  LeavesCancelled(o)
  BY <1>2 DEF Checkout, history, TypeOK, LeavesCancelled, CancelledUnpaid
<1>3. ASSUME NEW w \in Workers, SaveSession(w)
      PROVE  status' = status /\ paid' = paid /\ returned' = returned
  BY <1>3 DEF SaveSession, LockingInv, NeverNew, history
<1>4. ASSUME NEW q \in Orders, Release(q)
      PROVE  LeavesCancelled(o)
  <2>1. CASE StillUnpaid(q) /\ o = q
    BY <1>4, <2>1 DEF Release, StillUnpaid, UnpaidStatus, TypeOK, LeavesCancelled
  <2>2. CASE StillUnpaid(q) /\ o # q
    BY <1>4, <2>2 DEF Release, Restock, TypeOK, LeavesCancelled, CancelledUnpaid
  <2>3. CASE ~StillUnpaid(q)
    BY <1>4, <2>3 DEF Release, LeavesCancelled, CancelledUnpaid
  <2> QED
    BY <2>1, <2>2, <2>3
<1>5. ASSUME NEW t \in Trans, NEW c \in Callbacks, NEW heard \in BOOLEAN,
             Complete(t, c, heard)
      PROVE  LeavesCancelled(o)
  <2> DEFINE q == session[t].order
             out == CompleteOutcome(status[q], paid[q], payment[t], c)
  <2>1. q \in Orders /\ (payment[t].status = "succeeded" => paid[q])
    BY <1>5, DeliveredIsTrue DEF Complete, LockingInv, RowsMeanIt
  <2>2. /\ status[q] = "cancelled" /\ ~paid[q] => ~out.restock /\ ~out.paid
        /\ out.status = "cancelled" => status[q] = "cancelled"
    BY <2>1, CompleteSettles, CompleteCloses DEF TypeOK
  <2>3. /\ status' = [status EXCEPT ![q] = out.status]
        /\ paid' = [paid EXCEPT ![q] = out.paid]
        /\ IF out.restock THEN Restock(q) ELSE UNCHANGED <<stock, returned>>
    BY <1>5 DEF Complete
  <2> HIDE DEF out, q
  <2>4. o # q => returned'[o] = returned[o]
    BY <2>3 DEF Restock, TypeOK
  <2> QED
    BY <2>1, <2>2, <2>3, <2>4 DEF TypeOK, LeavesCancelled, CancelledUnpaid
<1> QED
  BY <1>1, <1>2, <1>3, <1>4, <1>5
     DEF LockingNext, CheckoutNext, StartNext, CardNext,
         UnrecordedNext, ExpiryNext, CallbackNext, GatewayNext, CrashNext,
         vars, orderVars, history, StartRead, CardRead, OpenSession,
         RecordCharge, OpenUnrecorded, Scan, Age, Prepare, Charge, Reject,
         Reverse, GatewayMove, ExpiryStops, Crash

\* Among the actors that lock, the comment of handle_complete is true: whatever
\* callbacks come, however late and for whichever session, an order that was
\* cancelled gets no stock back a second time.  The customer's cancellation,
\* which does not lock and may cancel a paid order, breaks it
\* (PaidCancelReversed).
THEOREM CancelledStaysUnrestocked == LockingSpec => CancelledNotRestocked
<1>1. Init => CancelledUnpaid
  BY DEF Init, CancelledUnpaid
<1>2. TypeOK /\ LockingInv /\ CancelledUnpaid /\ [LockingNext]_vars
      => /\ CancelledUnpaid'
         /\ \A o \in Orders : status[o] = "cancelled" => returned'[o] = returned[o]
  BY CancelledLeft DEF LeavesCancelled, CancelledUnpaid
<1>3. QED
  BY <1>1, <1>2, LockingInvariant, PTL DEF LockingSpec, CancelledNotRestocked

(***************************************************************************)
(* The orderly system implements Reservation.                              *)
(***************************************************************************)

\* Sessions are opened for placed orders, one for each.
OneForEach ==
    /\ \A t \in Trans :
         session[t].state # "none" => status[session[t].order] # "none"
    /\ \A w \in Workers :
         job[w].pc \in {"opening", "charging"} => status[job[w].order] # "none"
    /\ \A t, u \in Trans :
         (/\ session[t].state # "none" /\ session[u].state # "none"
          /\ session[t].order = session[u].order) => t = u

\* An order reads refunded exactly when the payment of its session does, and
\* one that reads cancelled was never paid.
ClosedFor ==
    /\ \A o \in Orders : status[o] = "refunded" =>
         \E t \in Trans : /\ session[t].order = o
                          /\ payment[t].status = "refunded"
    /\ \A t \in Trans :
         payment[t].status = "refunded" => status[session[t].order] = "refunded"
    /\ \A o \in Orders : status[o] = "cancelled" => ~paid[o]

OrderlyInv == OneForEach /\ ClosedFor

\* The abstract state: who holds, who ended.
Held  == {o \in Orders : Live(o)}
Ended == {o \in Orders : status[o] \in ClosedStatus}

\* A step of the promise, or one that it does not see.
Promised ==
    \/ Reservation!Next
    \/ Held' = Held /\ Ended' = Ended /\ stock' = stock

\* A step that writes no order and no payment, and keeps every session.
LEMMA OrderlyQuiet ==
    ASSUME TypeOK, OrderlyInv, UNCHANGED <<status, paid, stock>>,
           \A t \in Trans :
             /\ session[t].state # "none" <=> session'[t].state # "none"
             /\ session'[t].order = session[t].order,
           \A t \in Trans : payment'[t].status = "refunded"
                               <=> payment[t].status = "refunded",
           \A w \in Workers :
             job'[w].pc \in {"opening", "charging"}
               => \/ job'[w] = job[w]
                  \/ status[job'[w].order] # "none"
    PROVE  OrderlyInv' /\ Promised
<1>1. OneForEach'
  BY DEF OrderlyInv, OneForEach
<1>2. ClosedFor'
  BY DEF OrderlyInv, ClosedFor
<1>3. Promised
  BY DEF Promised, Held, Ended, Live
<1>4. QED
  BY <1>1, <1>2, <1>3 DEF OrderlyInv

\* A step that opens one more session, for a placed order that has none.
LEMMA OrderlyOpened ==
    ASSUME TypeOK, OrderlyInv, UNCHANGED <<status, paid, stock, payment>>,
           NEW t \in Trans, NEW o \in Orders, OneSession, CanOpen(o, t),
           status[o] # "none",
           session' = [session EXCEPT ![t] = [order |-> o, state |-> "waiting"]],
           \A w \in Workers : job'[w] = job[w]
                               \/ job'[w].pc \notin {"opening", "charging"}
    PROVE  OrderlyInv' /\ Promised
<1>1. /\ session'[t].order = o /\ session'[t].state # "none"
      /\ \A u \in Trans \ {t} : session'[u] = session[u]
      /\ \A u \in Trans : session[u].order # o
      /\ payment[t].status # "refunded"
  BY DEF TypeOK, References, CanOpen
<1>2. OneForEach'
  BY <1>1 DEF OrderlyInv, OneForEach
<1>3. ClosedFor'
  BY <1>1 DEF OrderlyInv, ClosedFor
<1>4. Promised
  BY DEF Promised, Held, Ended, Live
<1>5. QED
  BY <1>2, <1>3, <1>4 DEF OrderlyInv

\* Returning the stock of a live order and closing it is the promised Return.
LEMMA ReturnIsPromised ==
    ASSUME TypeOK, NEW o \in Orders, Live(o), Restock(o),
           NEW s \in ClosedStatus, status' = [status EXCEPT ![o] = s]
    PROVE  Promised
<1>1. o \in Held /\ Held' = Held \ {o} /\ Ended' = Ended \cup {o}
  BY DEF Held, Ended, Live, TypeOK, LiveStatus, ClosedStatus
<1>2. stock' = [p \in Products |-> stock[p] + Lines[o][p]]
  BY DEF Restock
<1>3. QED
  BY <1>1, <1>2 DEF Promised, Reservation!Next, Reservation!Return, Held, Ended

\* Every step of the orderly system keeps the promise.
LEMMA OrderlyStep ==
    ASSUME TypeOK, TypeOK', LockingInv, RefundedMeansLetGo, OrderlyInv,
           OneSession, ~LateReplays, [OrderlyNext]_vars
    PROVE  OrderlyInv' /\ Promised
<1>1. ASSUME NEW o \in Orders, NEW byCard \in BOOLEAN, Checkout(o, byCard)
      PROVE  OrderlyInv' /\ Promised
  <2>1. /\ status[o] = "none" /\ status'[o] \in {"awaiting_payment", "processing"}
        /\ \A q \in Orders \ {o} : status'[q] = status[q]
        /\ \A p \in Products : Lines[o][p] <= stock[p]
        /\ stock' = [p \in Products |-> stock[p] - Lines[o][p]]
        /\ UNCHANGED <<paid, payment, session, job>>
    BY <1>1 DEF Checkout, TypeOK
  <2>2. OneForEach'
    BY <2>1 DEF OrderlyInv, OneForEach, TypeOK, References
  <2>3. ClosedFor'
    BY <2>1 DEF OrderlyInv, ClosedFor, TypeOK, References
  <2>4. o \notin Held \cup Ended /\ Held' = Held \cup {o} /\ Ended' = Ended
    BY <2>1 DEF Held, Ended, Live, LiveStatus, ClosedStatus
  <2>5. Promised
    BY <2>1, <2>4 DEF Promised, Reservation!Next, Reservation!Reserve, Held, Ended
  <2>6. QED
    BY <2>2, <2>3, <2>5 DEF OrderlyInv
<1>2. ASSUME NEW w \in Workers, NEW o \in Orders,
             StartRead(w, o) \/ CardRead(w, o)
      PROVE  OrderlyInv' /\ Promised
  <2>1. PICK new :
          /\ job' = [job EXCEPT ![w] = new]
          /\ new.order = o
    <3>1. ASSUME StartRead(w, o)
          PROVE  \E new : job' = [job EXCEPT ![w] = new] /\ new.order = o
      <4> DEFINE new == [Idle EXCEPT !.pc = "opening", !.order = o,
                                     !.seen = status[o]]
      <4>1. job' = [job EXCEPT ![w] = new] /\ new.order = o
        BY <3>1 DEF StartRead, Begin, Idle
      <4> HIDE DEF new
      <4>2. QED
        BY <4>1
    <3>2. ASSUME CardRead(w, o)
          PROVE  \E new : job' = [job EXCEPT ![w] = new] /\ new.order = o
      <4> DEFINE new == [Idle EXCEPT !.pc = "charging", !.order = o]
      <4>1. job' = [job EXCEPT ![w] = new] /\ new.order = o
        BY <3>2 DEF CardRead, Begin, Idle
      <4> HIDE DEF new
      <4>2. QED
        BY <4>1
    <3>3. QED
      BY <1>2, <3>1, <3>2
  <2>2. /\ status[o] # "none"
        /\ UNCHANGED <<status, paid, stock, payment, session>>
    BY <1>2 DEF StartRead, CardRead, Placed, orderVars
  <2>3. \A v \in Workers : job'[v] = job[v] \/ status[job'[v].order] # "none"
    BY <2>1, <2>2 DEF TypeOK
  <2>4. QED
    BY <2>2, <2>3, OrderlyQuiet
<1>3. ASSUME NEW w \in Workers, NEW t \in Trans, OpenSession(w, t)
      PROVE  OrderlyInv' /\ Promised
  <2> DEFINE o == job[w].order
             next == IF job[w].pc = "opening" THEN "saving" ELSE "recording"
             new == [job[w] EXCEPT !.trans = t, !.pc = next]
  <2>1. o \in Orders /\ status[o] # "none"
    BY <1>3 DEF OpenSession, TypeOK, References, OrderlyInv, OneForEach
  <2>2. /\ CanOpen(o, t)
        /\ session' = [session EXCEPT ![t] = [order |-> o, state |-> "waiting"]]
        /\ job' = [job EXCEPT ![w] = new]
        /\ UNCHANGED <<status, paid, stock, payment>>
    BY <1>3 DEF OpenSession, orderVars
  <2>3. new.pc \notin {"opening", "charging"}
    BY DEF TypeOK, Job
  <2> HIDE DEF new, o
  <2>4. \A v \in Workers : job'[v] = job[v]
                           \/ job'[v].pc \notin {"opening", "charging"}
    BY <2>2, <2>3 DEF TypeOK
  <2>5. QED
    BY <2>1, <2>2, <2>4, OrderlyOpened
<1>4. ASSUME NEW o \in Orders, NEW t \in Trans, OpenUnrecorded(o, t)
      PROVE  OrderlyInv' /\ Promised
  BY <1>4, OrderlyOpened DEF OpenUnrecorded, Placed, orderVars
<1>5. ASSUME NEW w \in Workers, SaveSession(w) \/ RecordCharge(w) \/ Crash(w)
      PROVE  OrderlyInv' /\ Promised
  <2>1. /\ \A t \in Trans :
             \/ payment'[t] = payment[t]
             \/ payment[t].status = "none" /\ payment'[t] = NewRow
        /\ UNCHANGED <<paid, stock, session, status>>
    BY <1>5 DEF SaveSession, RecordCharge, Crash, history, orderVars, LockingInv,
       NeverNew, TypeOK
  <2>2. \A v \in Workers : job'[v] = job[v] \/ job'[v].pc = "idle"
    BY <1>5, IdleIsJob DEF SaveSession, RecordCharge, Crash, Finish, TypeOK
  <2>3. \A t \in Trans : payment'[t].status = "refunded"
                           <=> payment[t].status = "refunded"
    BY <2>1, NewRowIsRow
  <2>4. QED
    BY <2>1, <2>2, <2>3, OrderlyQuiet
<1>6. ASSUME Scan \/ \E o \in Orders : Age(o)
      PROVE  OrderlyInv' /\ Promised
  BY <1>6, OrderlyQuiet DEF Scan, Age, orderVars
<1>7. ASSUME NEW t \in Trans, Charge(t) \/ Reject(t) \/ Reverse(t)
      PROVE  OrderlyInv' /\ Promised
  <2>1. PICK from, to \in SessionState \ {"none"} : GatewayMove(t, from, to)
    BY <1>7 DEF Charge, Reject, Reverse, SessionState
  <2>2. \A u \in Trans :
          /\ session'[u].order = session[u].order
          /\ session'[u].state # "none" <=> session[u].state # "none"
    BY <2>1, SessionMoved DEF GatewayMove, TypeOK
  <2>3. QED
    BY <2>1, <2>2, OrderlyQuiet DEF GatewayMove, orderVars
<1>8. ASSUME NEW o \in Orders, Release(o)
      PROVE  OrderlyInv' /\ Promised
  <2>1. CASE StillUnpaid(o)
    <3>1. /\ status' = [status EXCEPT ![o] = "cancelled"] /\ Restock(o)
          /\ UNCHANGED <<paid, payment, session, job>>
          /\ ~paid[o] /\ status[o] \in UnpaidStatus
      BY <1>8, <2>1 DEF Release, StillUnpaid
    <3>2. OneForEach'
      BY <3>1 DEF OrderlyInv, OneForEach, TypeOK, References
    <3>3. ClosedFor'
      BY <3>1 DEF OrderlyInv, ClosedFor, TypeOK, References, UnpaidStatus
    <3>4. Promised
      BY <3>1, ReturnIsPromised DEF Live, UnpaidStatus, LiveStatus, ClosedStatus
    <3>5. QED
      BY <3>2, <3>3, <3>4 DEF OrderlyInv
  <2>2. CASE ~StillUnpaid(o)
    BY <1>8, <2>2, OrderlyQuiet DEF Release
  <2>3. QED
    BY <2>1, <2>2
<1>9. ASSUME NEW t \in Trans, NEW heard \in BOOLEAN, Prepare(t, heard)
      PROVE  OrderlyInv' /\ Promised
  <2> DEFINE out == PrepareOutcome(status[session[t].order], payment[t])
             next == IF out.reply = "success" THEN "prepared" ELSE "abandoned"
  <2>1. /\ session[t].state \in {"waiting", "prepared", "abandoned"}
        /\ session[t].order \in Orders
    BY <1>9 DEF Prepare, Deliverable, Latest, TypeOK, References
  <2>2. payment[t].status # "refunded"
    BY <2>1 DEF RefundedMeansLetGo, LetGo
  <2>3. out.row.status # "refunded"
    BY <2>1, <2>2, PrepareOutcomeType DEF TypeOK
  <2>4. /\ payment' = [payment EXCEPT ![t] = out.row]
        /\ session' = session \/ session' = [session EXCEPT ![t].state = next]
        /\ UNCHANGED <<status, paid, stock, job>>
    BY <1>9 DEF Prepare, orderVars
  <2>5. next \in SessionState \ {"none"}
    BY DEF SessionState
  <2> HIDE DEF out, next
  <2>6. \A u \in Trans :
          /\ session'[u].order = session[u].order
          /\ session'[u].state # "none" <=> session[u].state # "none"
    BY <2>1, <2>4, <2>5, SessionMoved DEF TypeOK
  <2>7. \A u \in Trans : payment'[u].status = "refunded"
                           <=> payment[u].status = "refunded"
    BY <2>2, <2>3, <2>4 DEF TypeOK
  <2>8. QED
    BY <2>4, <2>6, <2>7, OrderlyQuiet
<1>10. ASSUME NEW t \in Trans, NEW c \in Callbacks, NEW heard \in BOOLEAN,
              Complete(t, c, heard)
       PROVE  OrderlyInv' /\ Promised
  <2> DEFINE o == session[t].order
             out == CompleteOutcome(status[o], paid[o], payment[t], c)
  <2>1. /\ o \in Orders /\ session[t].state # "none" /\ status[o] # "none"
        /\ payment[t].status = "succeeded" => paid[o]
        /\ payment[t].status = "refunded" => c = "fail" /\ status[o] = "refunded"
    <3>1. c \in Latest(session[t].state)
      BY <1>10 DEF Complete, Deliverable
    <3>2. payment[t].status = "refunded" => c = "fail"
      BY <3>1 DEF Latest, RefundedMeansLetGo, LetGo
    <3>3. QED
      BY <1>10, <3>2, DeliveredIsTrue DEF Complete, LockingInv, RowsMeanIt,
         OrderlyInv, OneForEach, ClosedFor
  <2>2. status[o] \in OrderStatus /\ paid[o] \in BOOLEAN /\ payment[t] \in Row
    BY <2>1 DEF TypeOK
  <2>3. /\ out.restock => /\ payment[t].status # "refunded"
                         /\ out.row.status = "refunded"
                         /\ out.status = "refunded"
        /\ out.status = "refunded" => status[o] = "refunded" \/ out.restock
        /\ out.row.status = "refunded"
             => payment[t].status = "refunded" \/ out.restock
        /\ status[o] = "refunded" => out.status = "refunded"
        /\ payment[t].status = "refunded" => out.row.status = "refunded"
        /\ out.status = "cancelled" => status[o] = "cancelled"
        /\ out.status # "none"
        /\ status[o] \in LiveStatus /\ ~out.restock => out.status \in LiveStatus
    BY <2>1, <2>2, CompleteCloses
  <2>4. /\ status[o] \in ClosedStatus => out.status \in ClosedStatus
        /\ status[o] = "cancelled"
             => ~out.restock /\ ~out.paid /\ out.status = "cancelled"
    <3>1. status[o] = "cancelled" => ~paid[o]
      BY <2>1 DEF OrderlyInv, ClosedFor
    <3>2. QED
      BY <2>1, <2>2, <3>1, CompleteSettles
  <2>5. status[o] = "refunded" => payment[t].status = "refunded"
    <3>1. SUFFICES ASSUME status[o] = "refunded"
                   PROVE  payment[t].status = "refunded"
      OBVIOUS
    <3>2. PICK u \in Trans :
            session[u].order = o /\ payment[u].status = "refunded"
      BY <2>1, <3>1 DEF OrderlyInv, ClosedFor
    <3>3. session[u].state # "none"
      BY <3>2 DEF TypeOK, References
    <3>4. u = t
      BY <2>1, <3>2, <3>3 DEF OrderlyInv, OneForEach
    <3>5. QED
      BY <3>2, <3>4
  <2>6. /\ payment' = [payment EXCEPT ![t] = out.row]
        /\ status' = [status EXCEPT ![o] = out.status]
        /\ paid' = [paid EXCEPT ![o] = out.paid]
        /\ IF out.restock THEN Restock(o) ELSE UNCHANGED <<stock, returned>>
        /\ session' = session \/ session' = [session EXCEPT ![t].state = "voided"]
        /\ job' = job
    BY <1>10 DEF Complete
  <2>7. \A u \in Trans :
          /\ session'[u].order = session[u].order
          /\ session'[u].state # "none" <=> session[u].state # "none"
    <3>1. "voided" \in SessionState
      BY DEF SessionState
    <3>2. QED
      BY <2>1, <2>6, <3>1, SessionMoved DEF TypeOK
  <2>8. \A u \in Trans : session[u].order = o /\ session[u].state # "none" => u = t
    BY <2>1 DEF OrderlyInv, OneForEach
  <2> HIDE DEF out, o
  <2>9. /\ status'[o] = out.status /\ paid'[o] = out.paid
        /\ payment'[t] = out.row
        /\ \A q \in Orders \ {o} : status'[q] = status[q] /\ paid'[q] = paid[q]
        /\ \A u \in Trans \ {t} : payment'[u] = payment[u]
    BY <2>1, <2>6 DEF TypeOK
  <2>10. OneForEach'
    BY <2>3, <2>6, <2>7, <2>9 DEF OrderlyInv, OneForEach, TypeOK, References
  <2>11. ClosedFor'
    <3>1. session[t].order = o
      BY DEF o
    <3>2. ASSUME NEW q \in Orders, status'[q] = "refunded"
          PROVE  \E u \in Trans : /\ session'[u].order = q
                                  /\ payment'[u].status = "refunded"
      <4>1. CASE q = o
        BY <2>3, <2>5, <2>7, <2>9, <3>1, <3>2, <4>1
      <4>2. CASE q # o
        BY <2>7, <2>9, <3>1, <3>2, <4>2 DEF OrderlyInv, ClosedFor
      <4>3. QED
        BY <4>1, <4>2
    <3>3. ASSUME NEW u \in Trans, payment'[u].status = "refunded"
          PROVE  status'[session'[u].order] = "refunded"
      <4>1. CASE u = t
        BY <2>1, <2>3, <2>7, <2>9, <3>1, <3>3, <4>1
      <4>2. CASE u # t
        <5>1. payment[u].status = "refunded" /\ session[u].state # "none"
          BY <2>9, <3>3, <4>2 DEF TypeOK, References
        <5>2. session[u].order \in Orders \ {o}
          BY <2>8, <4>2, <5>1 DEF TypeOK, References
        <5>3. QED
          BY <2>7, <2>9, <5>1, <5>2 DEF OrderlyInv, ClosedFor
      <4>3. QED
        BY <4>1, <4>2
    <3>4. ASSUME NEW q \in Orders, status'[q] = "cancelled"
          PROVE  ~paid'[q]
      BY <2>3, <2>4, <2>9, <3>4 DEF OrderlyInv, ClosedFor
    <3>5. QED
      BY <3>2, <3>3, <3>4 DEF ClosedFor
  <2>12. Promised
    <3>1. CASE out.restock
      <4>1. status[o] \in LiveStatus
        BY <2>1, <2>2, <2>3, <2>4, <2>5, <3>1 DEF OrderStatus, ClosedStatus
      <4>2. QED
        BY <2>1, <2>3, <2>6, <3>1, <4>1, ReturnIsPromised DEF Live, ClosedStatus
    <3>2. CASE ~out.restock
      <4>1. /\ status'[o] \in LiveStatus <=> status[o] \in LiveStatus
            /\ status'[o] \in ClosedStatus <=> status[o] \in ClosedStatus
        BY <2>1, <2>2, <2>3, <2>4, <2>9, <3>2
           DEF OrderStatus, LiveStatus, ClosedStatus
      <4>2. Held' = Held /\ Ended' = Ended
        BY <2>9, <4>1 DEF Held, Ended, Live
      <4>3. QED
        BY <2>6, <3>2, <4>2 DEF Promised
    <3>3. QED
      BY <3>1, <3>2
  <2>13. QED
    BY <2>10, <2>11, <2>12 DEF OrderlyInv
<1>11. CASE UNCHANGED vars
  BY <1>11, OrderlyQuiet DEF vars
<1>12. QED
  BY <1>1, <1>2, <1>3, <1>4, <1>5, <1>6, <1>7, <1>8, <1>9, <1>10, <1>11
     DEF OrderlyNext, CheckoutNext, StartNext, CardNext, UnrecordedNext,
         ExpiryNext, CallbackNext, GatewayNext

\* An order takes its units at once, holds them while it lives and gives them
\* back exactly once: with one session per order and callbacks that are
\* repeated but not overtaken, the code implements Reservation.
THEOREM OrderlyReserves ==
    ASSUME OneSession, ~LateReplays
    PROVE  OrderlySpec => ReservesAndReturnsOnce
<1>1. Init => OrderlyInv /\ Reservation!Init
  BY DEF Init, OrderlyInv, OneForEach, ClosedFor, NoRow, Idle,
     Reservation!Init, Live, LiveStatus, ClosedStatus
<1>2. [OrderlyNext]_vars => [LockingNext]_vars
  BY DEF OrderlyNext, LockingNext, CrashNext
<1>3. /\ TypeOK /\ TypeOK' /\ LockingInv /\ RefundedMeansLetGo /\ OrderlyInv
      /\ [OrderlyNext]_vars
      => OrderlyInv' /\ [Reservation!Next]_(Reservation!vars)
  <2>1. Promised => [Reservation!Next]_(Reservation!vars)
    BY DEF Promised, Held, Ended, Reservation!vars
  <2>2. QED
    BY <2>1, OrderlyStep
<1>4. OrderlySpec => LockingSpec
  BY <1>2, PTL DEF OrderlySpec, LockingSpec
<1>5. QED
  BY <1>1, <1>3, <1>4, LockingInvariant, LockingIsSpec, RefundsAreReal, PTL
     DEF OrderlySpec, ReservesAndReturnsOnce, Reservation!Spec


(***************************************************************************)
(* What the promise is worth: the shelf balances.                          *)
(***************************************************************************)

\* Every unit is on the shelf or with one live order.
Balanced == \A p \in Products : stock[p] + Reserved(p) = InitialStock[p]

LEMMA ReservedIsHeld ==
    ASSUME NEW p \in Products
    PROVE  /\ [o \in Orders |-> Lines[o][p]] \in [Orders -> Nat]
           /\ Reserved(p) = WeightOf(Held, [o \in Orders |-> Lines[o][p]], Orders)
<1>1. [o \in Orders |-> HeldBy(o, p)]
      = [o \in Orders |-> IF o \in Held THEN [q \in Orders |-> Lines[q][p]][o] ELSE 0]
  BY DEF HeldBy, Held
<1>2. QED
  BY <1>1, LinesAssumption DEF Reserved, WeightOf

\* A step of the promise keeps the balance.
LEMMA PromiseBalances ==
    ASSUME IsFiniteSet(Orders), TypeOK, TypeOK', Promised, Balanced
    PROVE  Balanced'
<1> SUFFICES ASSUME NEW p \in Products
             PROVE  (stock[p] + Reserved(p) = InitialStock[p])'
  BY DEF Balanced
<1> DEFINE w == [o \in Orders |-> Lines[o][p]]
<1>1. /\ w \in [Orders -> Nat] /\ \A o \in Orders : w[o] = Lines[o][p]
      /\ Reserved(p) = WeightOf(Held, w, Orders)
      /\ Reserved(p)' = WeightOf(Held', w, Orders)
  <2>1. Reserved(p)' = WeightOf(Held', w, Orders)
    <3>1. [o \in Orders |-> HeldBy(o, p)'] = [o \in Orders |-> IF o \in Held' THEN w[o] ELSE 0]
      BY DEF HeldBy, Held
    <3>2. QED
      BY <3>1 DEF Reserved, WeightOf
  <2>2. QED
    BY <2>1, ReservedIsHeld
<1>2. /\ stock[p] + Reserved(p) = InitialStock[p]
      /\ stock[p] \in Nat /\ stock'[p] \in Nat /\ \A o \in Orders : Lines[o][p] \in Nat
  BY LinesAssumption DEF Balanced, TypeOK
<1> HIDE DEF w
<1>3. CASE Held' = Held /\ stock' = stock
  BY <1>1, <1>2, <1>3
<1>4. ASSUME NEW o \in Orders, Reservation!Reserve(o)
      PROVE  (stock[p] + Reserved(p) = InitialStock[p])'
  <2>1. /\ o \in Orders \ Held /\ Held' = Held \cup {o}
        /\ stock'[p] = stock[p] - Lines[o][p]
    BY <1>4 DEF Reservation!Reserve, Held
  <2>2. /\ WeightOf(Held, w, Orders) \in Nat
        /\ WeightOf(Held \cup {o}, w, Orders) = WeightOf(Held, w, Orders) + w[o]
    BY <1>1, <2>1, WeightMoves
  <2>3. QED
    BY <1>1, <1>2, <2>1, <2>2
<1>5. ASSUME NEW o \in Orders, Reservation!Return(o)
      PROVE  (stock[p] + Reserved(p) = InitialStock[p])'
  <2>1. /\ o \in Orders \cap Held /\ Held' = Held \ {o}
        /\ stock'[p] = stock[p] + Lines[o][p]
    BY <1>5 DEF Reservation!Return, Held
  <2>2. /\ WeightOf(Held, w, Orders) \in Nat /\ WeightOf(Held', w, Orders) \in Nat
        /\ WeightOf(Held \ {o}, w, Orders) + w[o] = WeightOf(Held, w, Orders)
    BY <1>1, <2>1, WeightMoves
  <2>3. QED
    BY <1>1, <1>2, <2>1, <2>2
<1>6. QED
  BY <1>3, <1>4, <1>5 DEF Promised, Reservation!Next

\* Among the orderly actors no unit is sold twice, lost or made up: what is on
\* the shelf and what the live orders hold is always what there was at first.
\* It follows from the promise alone (OrderlyReserves), so any other code that
\* keeps the promise balances too.
THEOREM ShelfBalances ==
    ASSUME OneSession, ~LateReplays, IsFiniteSet(Orders)
    PROVE  OrderlySpec => []Balanced
<1>1. Reservation!Init /\ Init /\ TypeOK => Balanced
  <2> SUFFICES ASSUME Init, TypeOK, NEW p \in Products
               PROVE  stock[p] + Reserved(p) = InitialStock[p]
    BY DEF Balanced
  <2>1. Held = {}
    BY DEF Init, Held, Live, LiveStatus
  <2>2. Reserved(p) = 0
    <3>1. [o \in Orders |-> Lines[o][p]] \in [Orders -> Nat]
      BY LinesAssumption
    <3>2. QED
      BY <2>1, <3>1, ReservedIsHeld, EmptyWeight
  <2>3. QED
    BY <2>2 DEF Init, TypeOK
<1>2. TypeOK /\ TypeOK' /\ Balanced /\ [Reservation!Next]_(Reservation!vars) => Balanced'
  BY PromiseBalances DEF Promised, Held, Ended, Reservation!vars
<1>3. OrderlySpec => LockingSpec
  <2>1. [OrderlyNext]_vars => [LockingNext]_vars
    BY DEF OrderlyNext, LockingNext, CrashNext
  <2>2. QED
    BY <2>1, PTL DEF OrderlySpec, LockingSpec
<1>4. QED
  BY <1>1, <1>2, <1>3, OrderlyReserves, LockingInvariant, PTL
     DEF OrderlySpec, ReservesAndReturnsOnce, Reservation!Spec

==============================================================================
