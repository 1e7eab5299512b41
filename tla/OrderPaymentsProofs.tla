------------------------- MODULE OrderPaymentsProofs -------------------------
(***************************************************************************)
(* What holds of the order and payment system for every set of orders,     *)
(* products, transactions and workers.                                     *)
(***************************************************************************)
EXTENDS OrderPayments, TLAPS

(***************************************************************************)
(* The handlers as functions of the order and the row they find.           *)
(***************************************************************************)

\* handle_prepare returns a row, whatever row it found.
LEMMA PrepareOutcomeType ==
    ASSUME NEW s \in OrderStatus, NEW row \in Row
    PROVE  /\ PrepareOutcome(s, row).row \in Row
           /\ PrepareOutcome(s, row).row.status = "succeeded"
                => row.status = "succeeded"
           /\ PrepareOutcome(s, row).row.status = "refunded"
                => row.status = "refunded"
  BY DEF PrepareOutcome, Row, NewRow, NoRow, PaymentStatus

\* handle_complete returns an order status, a paid flag and a row; it never
\* creates a row, and only its confirming exit makes an order paid.
LEMMA CompleteOutcomeType ==
    ASSUME NEW s \in OrderStatus, NEW p \in BOOLEAN, NEW row \in Row,
           NEW c \in Callbacks
    PROVE  LET out == CompleteOutcome(s, p, row, c)
           IN  /\ out.status \in OrderStatus
               /\ out.paid \in BOOLEAN
               /\ out.row \in Row
               /\ out.restock \in BOOLEAN
               /\ out.row.status # "none" => row.status # "none"
  BY DEF CompleteOutcome, RefundExit, ConfirmExit, Exit, Row, PaymentStatus,
         OrderStatus, LiveStatus, ClosedStatus, UnpaidStatus, Callbacks

\* Only a confirmation makes an order paid or a row succeeded, only a reversal
\* makes a row refunded, and an order is closed only with its stock returned.
LEMMA CompleteOutcomeMeaning ==
    ASSUME NEW s \in OrderStatus, NEW p \in BOOLEAN, NEW row \in Row,
           NEW c \in Callbacks
    PROVE  LET out == CompleteOutcome(s, p, row, c)
           IN  /\ out.paid => p \/ c = "ok"
               /\ out.row.status = "succeeded"
                    => row.status = "succeeded" \/ c = "ok"
               /\ out.row.status = "refunded"
                    => row.status = "refunded" \/ c = "fail"
               /\ out.status \in ClosedStatus
                    => s \in ClosedStatus \/ out.restock
  BY DEF CompleteOutcome, RefundExit, ConfirmExit, Exit, Row, ClosedStatus,
         Callbacks, UnpaidStatus

\* An immediate replay of either callback changes nothing: the docstring of
\* the payment services, for every order and row they can find.
LEMMA PrepareIdempotent ==
    ASSUME NEW s \in OrderStatus, NEW row \in Row
    PROVE  PrepareOutcome(s, PrepareOutcome(s, row).row) = PrepareOutcome(s, row)
  BY DEF PrepareOutcome, Row, NewRow, NoRow, PaymentStatus

LEMMA CompleteIdempotent ==
    ASSUME NEW s \in OrderStatus, NEW p \in BOOLEAN, NEW row \in Row,
           NEW c \in Callbacks
    PROVE  LET one == CompleteOutcome(s, p, row, c)
           IN  CompleteOutcome(one.status, one.paid, one.row, c)
                 = Exit(one.reply, one.status, one.paid, one.row, FALSE)
<1> DEFINE Unprepared == row.status = "none" \/ ~row.prepared
           RefusedNow == s = "cancelled" /\ row.status # "succeeded"
           one == CompleteOutcome(s, p, row, c)
<1>1. CASE Unprepared
  <2>1. one = Exit("not_found", s, p, row, FALSE)
    BY <1>1 DEF CompleteOutcome
  <2>2. one.status = s /\ one.paid = p /\ one.row = row
        /\ one.reply = "not_found"
    BY <2>1 DEF Exit
  <2>3. QED
    BY <1>1, <2>1, <2>2
<1>2. CASE ~Unprepared /\ RefusedNow
  <2> DEFINE new == [row EXCEPT !.status = "cancelled"]
  <2>1. one = Exit("cancelled", s, p, new, FALSE)
    BY <1>2 DEF CompleteOutcome
  <2>2. one.status = s /\ one.paid = p /\ one.row = new
        /\ one.reply = "cancelled"
    BY <2>1 DEF Exit
  <2>3. new.status = "cancelled" /\ new.prepared = row.prepared
        /\ [new EXCEPT !.status = "cancelled"] = new
    BY DEF Row
  <2> HIDE DEF new, one
  <2>4. CompleteOutcome(s, p, new, c)
          = Exit("cancelled", s, p, [new EXCEPT !.status = "cancelled"], FALSE)
    BY <1>2, <2>3 DEF CompleteOutcome
  <2>5. QED
    BY <2>2, <2>3, <2>4 DEF one
<1>3. CASE ~Unprepared /\ ~RefusedNow /\ c = "fail"
  <2>1. CASE row.status = "refunded"
    <3>1. one = Exit("success", s, p, row, FALSE)
      BY <1>3, <2>1 DEF CompleteOutcome, RefundExit
    <3>2. one.status = s /\ one.paid = p /\ one.row = row
          /\ one.reply = "success"
      BY <3>1 DEF Exit
    <3>3. QED
      BY <3>1, <3>2
  <2>2. CASE row.status # "refunded"
    <3> DEFINE new == [row EXCEPT !.status = "refunded", !.confirmed = TRUE]
    <3>1. one = Exit("success", "refunded", p, new, TRUE)
      BY <1>3, <2>2 DEF CompleteOutcome, RefundExit
    <3>2. one.status = "refunded" /\ one.paid = p /\ one.row = new
          /\ one.reply = "success"
      BY <3>1 DEF Exit
    <3>3. new.status = "refunded" /\ new.prepared = row.prepared
      BY DEF Row
    <3> HIDE DEF new, one
    <3>4. CompleteOutcome("refunded", p, new, c)
            = Exit("success", "refunded", p, new, FALSE)
      BY <1>3, <3>3 DEF CompleteOutcome, RefundExit
    <3>5. QED
      BY <3>2, <3>4 DEF one
  <2>3. QED
    BY <2>1, <2>2
<1>4. CASE ~Unprepared /\ ~RefusedNow /\ c # "fail"
  <2>1. CASE row.status = "succeeded"
    <3>1. one = Exit("success", s, p, row, FALSE)
      BY <1>4, <2>1 DEF CompleteOutcome, ConfirmExit
    <3>2. one.status = s /\ one.paid = p /\ one.row = row
          /\ one.reply = "success"
      BY <3>1 DEF Exit
    <3>3. QED
      BY <3>1, <3>2
  <2>2. CASE row.status # "succeeded"
    <3> DEFINE new == [row EXCEPT !.status = "succeeded", !.confirmed = TRUE]
               next == IF s \in UnpaidStatus THEN "processing" ELSE s
    <3>1. one = Exit("success", next, TRUE, new, FALSE)
      BY <1>4, <2>2 DEF CompleteOutcome, ConfirmExit
    <3>2. one.status = next /\ one.paid = TRUE /\ one.row = new
          /\ one.reply = "success"
      BY <3>1 DEF Exit
    <3>3. new.status = "succeeded" /\ new.prepared = row.prepared
      BY DEF Row
    <3> HIDE DEF new, next, one
    <3>4. CompleteOutcome(next, TRUE, new, c)
            = Exit("success", next, TRUE, new, FALSE)
      BY <1>4, <3>3 DEF CompleteOutcome, ConfirmExit
    <3>5. QED
      BY <3>2, <3>4 DEF one
  <2>3. QED
    BY <2>1, <2>2
<1>5. QED
  BY <1>1, <1>2, <1>3, <1>4

(***************************************************************************)
(* Updates of one record of a table, and what they keep.                   *)
(***************************************************************************)

\* Moving a session to another state keeps the table typed and the orders.
LEMMA SessionUpdate ==
    ASSUME NEW f \in [Trans -> Session], NEW t \in Trans,
           NEW x \in SessionState, NEW g, g = [f EXCEPT ![t].state = x]
    PROVE  /\ g \in [Trans -> Session]
           /\ g[t].state = x
           /\ \A u \in Trans : g[u].order = f[u].order
           /\ \A u \in Trans \ {t} : g[u] = f[u]
  BY DEF Session

\* A session that is open stays open, for the same order.
LEMMA SessionMoved ==
    ASSUME session \in [Trans -> Session], NEW t \in Trans,
           session[t].state # "none", NEW x \in SessionState, x # "none",
           session' = [session EXCEPT ![t].state = x]
    PROVE  /\ session' \in [Trans -> Session]
           /\ \A u \in Trans :
                /\ session'[u].order = session[u].order
                /\ session'[u].state # "none" <=> session[u].state # "none"
<1>1. /\ session' \in [Trans -> Session]
      /\ session'[t].state = x
      /\ \A u \in Trans : session'[u].order = session[u].order
      /\ \A u \in Trans \ {t} : session'[u] = session[u]
  BY SessionUpdate
<1>2. QED
  BY <1>1

\* Writing a payment's status keeps the table typed and the other rows.
LEMMA RowUpdate ==
    ASSUME NEW f \in [Trans -> Row], NEW t \in Trans, NEW x \in PaymentStatus,
           NEW g, g = [f EXCEPT ![t].status = x]
    PROVE  /\ g \in [Trans -> Row]
           /\ g[t].status = x
           /\ g[t].prepared = f[t].prepared
           /\ \A u \in Trans \ {t} : g[u] = f[u]
  BY DEF Row

LEMMA RowWritten ==
    ASSUME payment \in [Trans -> Row], NEW t \in Trans,
           NEW x \in PaymentStatus,
           payment' = [payment EXCEPT ![t].status = x]
    PROVE  /\ payment' \in [Trans -> Row]
           /\ payment'[t].status = x
           /\ payment'[t].prepared = payment[t].prepared
           /\ \A u \in Trans \ {t} : payment'[u] = payment[u]
  BY RowUpdate

\* The steps a request takes through its record.
LEMMA JobStep ==
    ASSUME NEW j \in Job, NEW pc \in JobPc
    PROVE  LET k == [j EXCEPT !.pc = pc]
           IN  /\ k \in Job
               /\ k.pc = pc /\ k.order = j.order /\ k.trans = j.trans
               /\ k.seen = j.seen /\ k.paid = j.paid
  BY DEF Job

LEMMA IdleIsJob == Idle \in Job /\ Idle.pc = "idle"
  BY DEF Idle, Job, JobPc, PaymentStatus

LEMMA NewRowIsRow == NewRow \in Row /\ NewRow.status = "pending"
  BY DEF NewRow, NoRow, Row, PaymentStatus

\* References survives a step that leaves the requests alone.
LEMMA ReferencesKept ==
    ASSUME References, job' = job,
           \A u \in Trans :
             /\ session'[u].order = session[u].order
             /\ session'[u].state # "none" <=> session[u].state # "none",
           \A u \in Trans :
             payment'[u].status # "none" => session[u].state # "none"
    PROVE  References'
  BY DEF References

\* ... and one that moves a single request, ending it or keeping its
\* transaction.
LEMMA ReferencesMoved ==
    ASSUME References, session' = session, NEW w \in Workers,
           \A v \in Workers \ {w} : job'[v] = job[v],
           \/ job'[w].pc = "idle"
           \/ /\ job[w].pc \in {"asking", "syncing", "reading"}
              /\ job'[w].pc \in {"syncing", "reading", "stamping"}
              /\ job'[w].trans = job[w].trans
              /\ job'[w].pc = "syncing" => job'[w].seen \in PaymentStatus,
           \A u \in Trans :
             payment'[u].status # "none" => session[u].state # "none"
    PROVE  References'
  BY DEF References

(***************************************************************************)
(* Types.                                                                  *)
(***************************************************************************)

\* One step keeps the types.
LEMMA TypeStep ==
    ASSUME TypeOK, [Next]_vars
    PROVE  TypeOK'
<1> USE NullAssumption, LinesAssumption, StockAssumption, StaffAssumption
<1> USE DEF TypeOK
<1>1. ASSUME NEW o \in Orders, NEW byCard \in BOOLEAN, Checkout(o, byCard)
      PROVE  TypeOK'
  BY <1>1 DEF Checkout, history, References, OrderStatus, LiveStatus
<1>2. ASSUME NEW w \in Workers, NEW o \in Orders, CancelRead(w, o)
      PROVE  TypeOK'
  BY <1>2 DEF CancelRead, Begin, Idle, Job, JobPc, OrderStatus, References,
         orderVars, history
<1>3. ASSUME NEW w \in Workers, CancelSave(w)
      PROVE  TypeOK'
  BY <1>3 DEF CancelSave, Restock, Finish, Idle, Job, JobPc, OrderStatus,
         ClosedStatus, References
<1>4. ASSUME NEW w \in Workers, NEW o \in Orders, StartRead(w, o)
      PROVE  TypeOK'
  BY <1>4 DEF StartRead, Begin, Idle, Job, JobPc, References, orderVars,
         history
<1>5. ASSUME NEW w \in Workers, NEW o \in Orders, CardRead(w, o)
      PROVE  TypeOK'
  BY <1>5 DEF CardRead, Begin, Idle, Job, JobPc, OrderStatus, References,
         orderVars, history
<1>6. ASSUME NEW w \in Workers, NEW t \in Trans, OpenSession(w, t)
      PROVE  TypeOK'
  <2>1. job[w].order \in Orders /\ session[t].state = "none"
    BY <1>6 DEF OpenSession, References, CanOpen
  <2>2. session' \in [Trans -> Session]
    BY <1>6, <2>1 DEF OpenSession, Session, SessionState
  <2> DEFINE next == IF job[w].pc = "opening" THEN "saving" ELSE "recording"
             new == [job[w] EXCEPT !.trans = t, !.pc = next]
  <2>3. /\ job' = [job EXCEPT ![w] = new]
        /\ next \in JobPc /\ job[w] \in Job
    BY <1>6 DEF OpenSession, JobPc
  <2>4. new \in Job /\ new.pc = next /\ new.trans = t
    <3> HIDE DEF next
    <3> QED BY <2>3 DEF Job
  <2>5. job' \in [Workers -> Job] /\ job'[w] = new
        /\ \A v \in Workers \ {w} : job'[v] = job[v]
    <3> HIDE DEF new
    <3> QED BY <2>3, <2>4
  <2>6. References'
    <3>1. \A u \in Trans :
            /\ session[u].state # "none" => session'[u] = session[u]
            /\ session'[u].state # "none" => session'[u].order \in Orders
      BY <1>6, <2>1 DEF OpenSession, References, Session
    <3>2. session'[t].state # "none"
      BY <1>6 DEF OpenSession, Session
    <3>3. job'[w].pc \in {"saving", "recording"} /\ job'[w].trans = t
      BY <2>4, <2>5
    <3>4. payment' = payment
      BY <1>6 DEF OpenSession
    <3> HIDE DEF new
    <3>5. \A u \in Trans :
            /\ session'[u].state # "none" => session'[u].order \in Orders
            /\ payment'[u].status # "none" => session'[u].state # "none"
      BY <3>1, <3>4 DEF References
    <3>6. ASSUME NEW v \in Workers
          PROVE  /\ job'[v].pc \in {"cancel", "opening", "charging", "editing"}
                       => job'[v].order \in Orders
                 /\ job'[v].pc \in {"saving", "recording", "asking", "syncing",
                                    "reading", "stamping"}
                       => /\ job'[v].trans \in Trans
                          /\ session'[job'[v].trans].state # "none"
                 /\ job'[v].pc \in {"asking", "syncing"} => job'[v].seen \in PaymentStatus
                 /\ job'[v].pc = "editing" => job'[v].seen \in OrderStatus \ {"none"}
      <4>1. CASE v = w
        BY <3>2, <3>3, <4>1
      <4>2. CASE v # w
        <5>1. job'[v] = job[v]
          BY <2>5, <4>2
        <5> QED BY <3>1, <5>1 DEF References
      <4>3. QED
        BY <4>1, <4>2
    <3>7. QED
      BY <3>5, <3>6 DEF References
  <2>7. QED
    BY <1>6, <2>2, <2>5, <2>6 DEF OpenSession, orderVars, history
<1>7. ASSUME NEW w \in Workers, SaveSession(w)
      PROVE  TypeOK'
  <2>1. /\ job[w].trans \in Trans
        /\ session[job[w].trans].state # "none"
        /\ session[job[w].trans].order \in Orders
        /\ session' = session
    BY <1>7 DEF SaveSession, References
  <2>2. payment' = payment \/ payment' = [payment EXCEPT ![job[w].trans] = NewRow]
    BY <1>7 DEF SaveSession
  <2>3. /\ payment' \in [Trans -> Row]
        /\ \A t \in Trans : payment'[t].status # "none"
                              => session[t].state # "none"
    <3> HIDE DEF NewRow
    <3>1. /\ payment' \in [Trans -> Row]
          /\ \A t \in Trans \ {job[w].trans} : payment'[t] = payment[t]
      BY <2>1, <2>2, NewRowIsRow
    <3>2. QED
      BY <2>1, <3>1 DEF References
  <2>4. status' \in [Orders -> OrderStatus]
    BY <1>7, <2>1 DEF SaveSession, OrderStatus, LiveStatus
  <2>5. job' \in [Workers -> Job] /\ job'[w] = Idle
        /\ \A v \in Workers \ {w} : job'[v] = job[v]
    BY <1>7, IdleIsJob DEF SaveSession, Finish
  <2>6. References'
    BY <2>1, <2>3, <2>5, IdleIsJob, ReferencesMoved
  <2>7. QED
    BY <1>7, <2>3, <2>4, <2>5, <2>6 DEF SaveSession, history
<1>8. ASSUME NEW w \in Workers, RecordCharge(w)
      PROVE  TypeOK'
  BY <1>8 DEF RecordCharge, Finish, Idle, Job, JobPc, OrderStatus, NewRow,
         NoRow, Row, PaymentStatus, References, orderVars, history
<1>9. ASSUME NEW o \in Orders, NEW t \in Trans, OpenUnrecorded(o, t)
      PROVE  TypeOK'
  BY <1>9 DEF OpenUnrecorded, CanOpen, Session, SessionState, References,
         orderVars, history
<1>10. ASSUME NEW o \in Orders, Age(o)
      PROVE  TypeOK'
  BY <1>10 DEF Age, References, history
<1>11. ASSUME Scan
      PROVE  TypeOK'
  BY <1>11 DEF Scan, References, orderVars, history
<1>12. ASSUME NEW o \in Orders, Release(o)
      PROVE  TypeOK'
  <2>1. CASE StillUnpaid(o)
    <3>1. /\ status' = [status EXCEPT ![o] = "cancelled"]
          /\ released' = released \cup {o}
          /\ Restock(o) /\ batch' = batch \ {o}
          /\ UNCHANGED <<card, paid, aged, payment, session, job, acked>>
      BY <1>12, <2>1 DEF Release
    <3>2. stock' \in [Products -> Nat] /\ returned' \in [Orders -> Nat]
      BY <3>1 DEF Restock
    <3>3. status' \in [Orders -> OrderStatus]
      BY <3>1 DEF OrderStatus, ClosedStatus
    <3>4. QED
      BY <3>1, <3>2, <3>3 DEF References
  <2>2. CASE ~StillUnpaid(o)
    BY <1>12, <2>2 DEF Release, References
  <2>3. QED
    BY <2>1, <2>2
<1>13. ASSUME ExpiryStops
      PROVE  TypeOK'
  BY <1>13 DEF ExpiryStops, References, orderVars, history
<1>14. ASSUME NEW t \in Trans, NEW heard \in BOOLEAN, Prepare(t, heard)
      PROVE  TypeOK'
  <2>1. session[t].state # "none" /\ session[t].order \in Orders
    BY <1>14 DEF Prepare, Deliverable, Sent, Latest, References
  <2> DEFINE out == PrepareOutcome(status[session[t].order], payment[t])
             next == IF out.reply = "success" THEN "prepared" ELSE "abandoned"
  <2>2. out.row \in Row
    BY <2>1, PrepareOutcomeType
  <2>3. payment' = [payment EXCEPT ![t] = out.row]
        /\ (session' = session \/ session' = [session EXCEPT ![t].state = next])
    BY <1>14 DEF Prepare
  <2>4. next \in SessionState \ {"none"}
    BY DEF SessionState
  <2> HIDE DEF out, next
  <2>5. session' \in [Trans -> Session]
        /\ \A u \in Trans :
             /\ session'[u].order = session[u].order
             /\ session'[u].state # "none" <=> session[u].state # "none"
    <3>1. CASE session' = session
      BY <3>1
    <3>2. CASE session' = [session EXCEPT ![t].state = next]
      BY <2>1, <2>4, <3>2, SessionMoved
    <3>3. QED
      BY <2>3, <3>1, <3>2
  <2>6. payment' \in [Trans -> Row]
        /\ \A u \in Trans : payment'[u].status # "none"
                              => session[u].state # "none"
    BY <2>1, <2>2, <2>3 DEF References
  <2>7. References'
    BY <1>14, <2>5, <2>6, ReferencesKept DEF Prepare
  <2>8. QED
    BY <1>14, <2>5, <2>6, <2>7 DEF Prepare, orderVars, history
<1>15. ASSUME NEW t \in Trans, NEW callback \in Callbacks,
             NEW heard \in BOOLEAN, Complete(t, callback, heard)
      PROVE  TypeOK'
  <2> DEFINE o == session[t].order
             out == CompleteOutcome(status[o], paid[o], payment[t], callback)
  <2>1. session[t].state # "none" /\ o \in Orders
    BY <1>15 DEF Complete, Deliverable, Sent, Latest, References, Callbacks
  <2>2. /\ out.status \in OrderStatus
        /\ out.paid \in BOOLEAN
        /\ out.row \in Row
    BY <2>1, CompleteOutcomeType
  <2>3. /\ payment' = [payment EXCEPT ![t] = out.row]
        /\ status' = [status EXCEPT ![o] = out.status]
        /\ paid' = [paid EXCEPT ![o] = out.paid]
        /\ acked' \subseteq acked \cup {<<t, callback>>}
        /\ \/ Restock(o)
           \/ UNCHANGED <<stock, returned>>
        /\ \/ session' = session
           \/ session' = [session EXCEPT ![t].state = "voided"]
        /\ UNCHANGED <<card, aged, job, batch, released>>
    BY <1>15 DEF Complete
  <2> HIDE DEF out
  <2>4. payment' \in [Trans -> Row] /\ status' \in [Orders -> OrderStatus]
        /\ paid' \in [Orders -> BOOLEAN]
    BY <2>1, <2>2, <2>3
  <2>5. stock' \in [Products -> Nat] /\ returned' \in [Orders -> Nat]
    <3>1. CASE Restock(o)
      <4> HIDE DEF o
      <4>1. stock' \in [Products -> Nat]
        BY <2>1, <3>1 DEF Restock
      <4>2. returned' \in [Orders -> Nat]
        BY <2>1, <3>1 DEF Restock
      <4>3. QED
        BY <4>1, <4>2
    <3>2. CASE UNCHANGED <<stock, returned>>
      BY <3>2
    <3>3. QED
      BY <2>3, <3>1, <3>2
  <2>6. "voided" \in SessionState
    BY DEF SessionState
  <2>7. session' \in [Trans -> Session]
        /\ \A u \in Trans :
             /\ session'[u].order = session[u].order
             /\ session'[u].state # "none" <=> session[u].state # "none"
    <3>1. CASE session' = session
      BY <3>1
    <3>2. CASE session' = [session EXCEPT ![t].state = "voided"]
      BY <2>1, <2>6, <3>2, SessionMoved
    <3>3. QED
      BY <2>3, <3>1, <3>2
  <2>8. \A u \in Trans : payment'[u].status # "none"
                           => session[u].state # "none"
    BY <2>1, <2>3 DEF References
  <2>9. References'
    BY <2>3, <2>7, <2>8, ReferencesKept
  <2>10. acked' \subseteq Trans \X Callbacks
    BY <2>3
  <2>11. QED
    BY <2>3, <2>4, <2>5, <2>7, <2>9, <2>10
<1>16. ASSUME NEW t \in Trans, Charge(t) \/ Reject(t) \/ Reverse(t)
      PROVE  TypeOK'
  <2>1. PICK from, to \in SessionState \ {"none"} : GatewayMove(t, from, to)
    BY <1>16 DEF Charge, Reject, Reverse, SessionState
  <2>2. session' \in [Trans -> Session]
        /\ \A u \in Trans :
             /\ session'[u].order = session[u].order
             /\ session'[u].state # "none" <=> session[u].state # "none"
    BY <2>1, SessionMoved DEF GatewayMove
  <2>3. References'
    BY <2>1, <2>2, ReferencesKept DEF GatewayMove, References
  <2>4. QED
    BY <2>1, <2>2, <2>3 DEF GatewayMove, orderVars, history
<1>17. ASSUME NEW w \in Workers, NEW t \in Trans, SyncRead(w, t)
      PROVE  TypeOK'
  BY <1>17 DEF SyncRead, Begin, Idle, Job, JobPc, Row, References,
         orderVars, history
<1>18. ASSUME NEW w \in Workers, SyncAsk(w)
      PROVE  TypeOK'
  <2> DEFINE answer == GatewayAnswer(session[job[w].trans].state)
             new == [job[w] EXCEPT !.pc = "syncing", !.seen = answer]
  <2>1. answer \in PaymentStatus
    BY DEF GatewayAnswer, PaymentStatus
  <2>2. /\ job' = [job EXCEPT ![w] = Idle] \/ job' = [job EXCEPT ![w] = new]
        /\ job[w].pc = "asking"
        /\ UNCHANGED <<orderVars, stock, payment, session, batch, history>>
    BY <1>18 DEF SyncAsk
  <2> HIDE DEF answer
  <2>3. new \in Job /\ new.pc = "syncing" /\ new.seen = answer
        /\ new.trans = job[w].trans
    <3>1. job[w] \in Job /\ "syncing" \in JobPc
      BY DEF JobPc
    <3>2. QED
      BY <2>1, <3>1 DEF Job
  <2> HIDE DEF new
  <2>4. job' \in [Workers -> Job] /\ job'[w] \in {Idle, new}
        /\ \A v \in Workers \ {w} : job'[v] = job[v]
    BY <2>2, <2>3, IdleIsJob
  <2>5. References'
    BY <2>1, <2>2, <2>3, <2>4, IdleIsJob, ReferencesMoved DEF References
  <2>6. QED
    BY <2>2, <2>4, <2>5 DEF orderVars, history
<1>19. ASSUME NEW w \in Workers, SyncPayment(w)
      PROVE  TypeOK'
  <2> DEFINE new == [job[w] EXCEPT !.pc = "reading"]
  <2>1. /\ job[w].trans \in Trans /\ session[job[w].trans].state # "none"
        /\ job[w].seen \in PaymentStatus
    BY <1>19 DEF SyncPayment, References
  <2>2. /\ payment' = [payment EXCEPT ![job[w].trans].status = job[w].seen]
        /\ job' = [job EXCEPT ![w] = Idle] \/ job' = [job EXCEPT ![w] = new]
        /\ job[w].pc = "syncing"
        /\ UNCHANGED <<orderVars, stock, session, batch, history>>
    BY <1>19 DEF SyncPayment
  <2>3. payment' \in [Trans -> Row]
        /\ \A u \in Trans : payment'[u].status # "none"
                              => session[u].state # "none"
    <3>1. payment' \in [Trans -> Row]
          /\ \A u \in Trans \ {job[w].trans} : payment'[u] = payment[u]
      BY <2>1, <2>2, RowWritten
    <3>2. QED
      BY <2>1, <3>1 DEF References
  <2>4. new \in Job /\ new.pc = "reading" /\ new.trans = job[w].trans
    <3>1. job[w] \in Job /\ "reading" \in JobPc
      BY DEF JobPc
    <3>2. QED
      BY <3>1, JobStep
  <2> HIDE DEF new
  <2>5. job' \in [Workers -> Job] /\ job'[w] \in {Idle, new}
        /\ \A v \in Workers \ {w} : job'[v] = job[v]
    BY <2>2, <2>4, IdleIsJob
  <2>6. References'
    BY <2>2, <2>3, <2>4, <2>5, IdleIsJob, ReferencesMoved
  <2>7. QED
    BY <2>2, <2>3, <2>5, <2>6 DEF orderVars, history
<1>20. ASSUME NEW w \in Workers, SyncReadOrder(w)
      PROVE  TypeOK'
  <2> DEFINE new == [job[w] EXCEPT !.pc = "stamping"]
  <2>1. /\ job' = [job EXCEPT ![w] = Idle] \/ job' = [job EXCEPT ![w] = new]
        /\ job[w].pc = "reading"
        /\ UNCHANGED <<orderVars, stock, payment, session, batch, history>>
    BY <1>20 DEF SyncReadOrder
  <2>2. new \in Job /\ new.pc = "stamping" /\ new.trans = job[w].trans
    <3>1. job[w] \in Job /\ "stamping" \in JobPc
      BY DEF JobPc
    <3>2. QED
      BY <3>1, JobStep
  <2> HIDE DEF new
  <2>3. job' \in [Workers -> Job] /\ job'[w] \in {Idle, new}
        /\ \A v \in Workers \ {w} : job'[v] = job[v]
    BY <2>1, <2>2, IdleIsJob
  <2>4. References'
    BY <2>1, <2>2, <2>3, IdleIsJob, ReferencesMoved DEF References
  <2>5. QED
    BY <2>1, <2>3, <2>4 DEF orderVars, history
<1>21. ASSUME NEW w \in Workers, SyncOrder(w)
      PROVE  TypeOK'
  BY <1>21 DEF SyncOrder, Finish, Idle, Job, JobPc, OrderStatus, LiveStatus,
         Session, References, history
<1>22. ASSUME NEW o \in Orders, SetStatus(o)
      PROVE  TypeOK'
  BY <1>22 DEF SetStatus, References, history
<1>23. ASSUME NEW w \in Workers, NEW o \in Orders, EditRead(w, o)
      PROVE  TypeOK'
  BY <1>23 DEF EditRead, Begin, Idle, Job, JobPc, OrderStatus, References,
         Placed, orderVars, history
<1>24. ASSUME NEW w \in Workers, EditSave(w)
      PROVE  TypeOK'
  <2>1. /\ job[w].order \in Orders /\ job[w].seen \in OrderStatus
        /\ paid[job[w].order] \in BOOLEAN /\ job[w].paid \in BOOLEAN
    BY <1>24 DEF EditSave, References, Job
  <2>2. status' \in [Orders -> OrderStatus] /\ paid' \in [Orders -> BOOLEAN]
    BY <1>24, <2>1 DEF EditSave
  <2>3. job' \in [Workers -> Job] /\ job'[w].pc = "idle"
        /\ \A v \in Workers \ {w} : job'[v] = job[v]
    BY <1>24, IdleIsJob DEF EditSave, Finish
  <2>4. session' = session /\ payment' = payment
    BY <1>24 DEF EditSave
  <2>5. References'
    BY <2>3, <2>4, ReferencesMoved DEF References
  <2> QED
    BY <1>24, <2>2, <2>3, <2>5 DEF EditSave, history
<1>25. ASSUME NEW w \in Workers, Crash(w)
      PROVE  TypeOK'
  BY <1>25 DEF Crash, Finish, Idle, Job, JobPc, OrderStatus, References,
         orderVars, history
<1>26. CASE UNCHANGED vars
  BY <1>26 DEF vars, References
<1>27. QED
  BY <1>1, <1>2, <1>3, <1>4, <1>5, <1>6, <1>7, <1>8, <1>9, <1>10, <1>11,
     <1>12, <1>13, <1>14, <1>15, <1>16, <1>17, <1>18, <1>19, <1>20, <1>21,
     <1>22, <1>23, <1>24, <1>25, <1>26 DEF Next, CheckoutNext, CancelNext,
     StartNext, CardNext, UnrecordedNext, ExpiryNext, CallbackNext,
     GatewayNext, SyncNext, SetStatusNext, EditNext, CrashNext

\* Every reachable state is well typed, and every row and request refers to
\* a transaction the gateway opened and an order that exists.
THEOREM TypeCorrect == Spec => []TypeOK
<1> USE NullAssumption, LinesAssumption, StockAssumption, StaffAssumption
<1>1. Init => TypeOK
  <2> SUFFICES ASSUME Init PROVE TypeOK
    OBVIOUS
  <2>1. payment \in [Trans -> Row] /\ session \in [Trans -> Session]
    BY DEF Init, Row, NoRow, Session, SessionState, PaymentStatus
  <2>2. job \in [Workers -> Job]
    BY IdleIsJob DEF Init
  <2>3. References
    BY DEF Init, References, NoRow, Idle
  <2>4. QED
    BY <2>1, <2>2, <2>3 DEF Init, TypeOK, OrderStatus
<1>2. TypeOK /\ [Next]_vars => TypeOK'
  BY TypeStep
<1>3. QED
  BY <1>1, <1>2, PTL DEF Spec

(***************************************************************************)
(* Money: what the shop records as paid or refunded agrees with what the   *)
(* gateway did.                                                            *)
(***************************************************************************)
TakenOrLetGoKept(t) ==
    /\ Charged(t) => Charged(t)'
    /\ LetGo(t) => LetGo(t)'
    /\ session[t].state # "none" => session'[t].order = session[t].order

\* The gateway never forgets a charge, nor that it let one go, nor the order
\* a session names.
LEMMA SessionHistory ==
    ASSUME TypeOK, [Next]_vars
    PROVE  \A t \in Trans : TakenOrLetGoKept(t)
<1> USE DEF Charged, LetGo, TakenOrLetGoKept, TypeOK
<1>1. CASE session' = session
  BY <1>1
<1>2. ASSUME NEW w \in Workers, NEW t \in Trans, OpenSession(w, t)
      PROVE  \A u \in Trans : TakenOrLetGoKept(u)
  BY <1>2 DEF OpenSession, CanOpen
<1>3. ASSUME NEW o \in Orders, NEW t \in Trans, OpenUnrecorded(o, t)
      PROVE  \A u \in Trans : TakenOrLetGoKept(u)
  BY <1>3 DEF OpenUnrecorded, CanOpen
<1>4. ASSUME NEW t \in Trans, NEW heard \in BOOLEAN, Prepare(t, heard)
      PROVE  \A u \in Trans : TakenOrLetGoKept(u)
  <2>1. CASE session' = session
    BY <2>1
  <2>2. CASE session' # session
    <3>1. PICK x \in SessionState :
            /\ session' = [session EXCEPT ![t].state = x]
            /\ session[t].state = "waiting"
      BY <1>4, <2>2 DEF Prepare, SessionState
    <3>2. QED
      BY <3>1, SessionUpdate
  <2>3. QED
    BY <2>1, <2>2
<1>5. ASSUME NEW t \in Trans, NEW callback \in Callbacks,
             NEW heard \in BOOLEAN, Complete(t, callback, heard)
      PROVE  \A u \in Trans : TakenOrLetGoKept(u)
  <2>1. CASE session' = session
    BY <2>1
  <2>2. CASE session' # session
    <3>1. /\ session' = [session EXCEPT ![t].state = "voided"]
          /\ session[t].state = "confirmed"
      BY <1>5, <2>2 DEF Complete
    <3>2. "voided" \in SessionState
      BY DEF SessionState
    <3>3. QED
      BY <3>1, <3>2, SessionUpdate
  <2>3. QED
    BY <2>1, <2>2
<1>6. ASSUME NEW t \in Trans, Charge(t) \/ Reject(t) \/ Reverse(t)
      PROVE  \A u \in Trans : TakenOrLetGoKept(u)
  <2>1. PICK from, to \in SessionState :
          /\ GatewayMove(t, from, to)
          /\ from = "prepared" \/ (from = "confirmed" /\ to = "refunded")
    BY <1>6 DEF Charge, Reject, Reverse, SessionState
  <2>2. QED
    BY <2>1, SessionUpdate DEF GatewayMove
<1>7. QED
  BY <1>1, <1>2, <1>3, <1>4, <1>5, <1>6
     DEF Next, CheckoutNext, CancelNext, StartNext, CardNext, UnrecordedNext,
         ExpiryNext, CallbackNext, GatewayNext, SyncNext, SetStatusNext,
         EditNext, CrashNext, vars, Checkout, CancelRead, CancelSave,
         StartRead, SaveSession, CardRead, RecordCharge, Scan, Age, Release,
         SyncRead, SyncAsk, SyncPayment, SyncReadOrder, SyncOrder, SetStatus,
         EditRead, EditSave, ExpiryStops, Crash

\* What the shop records agrees with the gateway, and so does what the requests
\* in flight have read: together, and only together, they are inductive.
LEMMA MoneyInvariant == Spec => []MoneyInv
<1>1. Init => MoneyInv
  BY DEF Init, MoneyInv, MoneyBacksPaid, RefundedMeansLetGo, MoneyInFlight,
         RequestSound, NoRow, Idle
<1>2. TypeOK /\ MoneyInv /\ [Next]_vars => MoneyInv'
  <2> SUFFICES ASSUME TypeOK, MoneyInv, [Next]_vars
               PROVE  MoneyInv'
    OBVIOUS
  <2>0. \A t \in Trans : TakenOrLetGoKept(t)
    BY SessionHistory
  <2> DEFINE Unconcerned(w) == job'[w] = job[w] \/ job'[w].pc \notin
                                 {"syncing", "reading", "stamping", "editing"}
  <2>a. ASSUME \A o \in Orders : paid'[o] => paid[o] \/ ChargedFor(o),
               \A t \in Trans : payment'[t].status = "succeeded"
                                  => payment[t].status = "succeeded" \/ Charged(t),
               \A t \in Trans : payment'[t].status = "refunded"
                                  => payment[t].status = "refunded" \/ LetGo(t),
               \A w \in Workers : Unconcerned(w) \/ RequestSound(w)'
        PROVE  MoneyInv'
    <3>1. \A o \in Orders : ChargedFor(o) => ChargedFor(o)'
      BY <2>0 DEF TakenOrLetGoKept, ChargedFor, Charged
    <3>2. MoneyBacksPaid' /\ RefundedMeansLetGo'
      BY <2>0, <2>a, <3>1 DEF TakenOrLetGoKept, MoneyInv, MoneyBacksPaid,
         RefundedMeansLetGo
    <3>3. \A w \in Workers : job'[w] = job[w] => RequestSound(w)'
      BY <2>0, <3>1 DEF TakenOrLetGoKept, MoneyInv, MoneyInFlight, RequestSound,
         TypeOK, References, Charged, LetGo
    <3>4. \A w \in Workers : Unconcerned(w) => RequestSound(w)'
      BY <3>3 DEF RequestSound
    <3>5. QED
      BY <2>a, <3>2, <3>4 DEF MoneyInv, MoneyInFlight
  <2>b. ASSUME paid' = paid, payment' = payment,
               \A w \in Workers : Unconcerned(w)
        PROVE  MoneyInv'
    BY <2>a, <2>b
  <2> HIDE DEF Unconcerned
  <2>1. ASSUME \/ CheckoutNext \/ UnrecordedNext \/ ExpiryNext \/ GatewayNext
               \/ SetStatusNext \/ CrashNext \/ CancelNext
        PROVE  MoneyInv'
    <3>1. paid' = paid /\ payment' = payment
      BY <2>1 DEF CheckoutNext, UnrecordedNext, ExpiryNext, GatewayNext,
         SetStatusNext, CrashNext, CancelNext, Checkout, OpenUnrecorded, Scan,
         Age, Release, Charge, Reject, Reverse, GatewayMove, SetStatus,
         ExpiryStops, Crash, CancelRead, CancelSave, orderVars
    <3>2. \A w \in Workers : Unconcerned(w)
      <4>1. CASE job' = job
        BY <4>1 DEF Unconcerned
      <4>2. ASSUME NEW w \in Workers, Finish(w)
            PROVE  \A v \in Workers : Unconcerned(v)
        BY <4>2, IdleIsJob DEF Finish, TypeOK, Unconcerned
      <4>3. ASSUME NEW w \in Workers, NEW o \in Orders, CancelRead(w, o)
            PROVE  \A v \in Workers : Unconcerned(v)
        <5> DEFINE new == [Idle EXCEPT !.pc = "cancel", !.order = o]
        <5>1. job' = [job EXCEPT ![w] = new] /\ new.pc = "cancel"
          BY <4>3 DEF CancelRead, Begin, Idle
        <5> HIDE DEF new
        <5>2. QED
          BY <5>1 DEF TypeOK, Unconcerned
      <4>4. \/ job' = job
            \/ \E w \in Workers : Finish(w) \/ \E o \in Orders : CancelRead(w, o)
        BY <2>1 DEF CheckoutNext, UnrecordedNext, ExpiryNext, GatewayNext,
           SetStatusNext, CrashNext, CancelNext, Checkout, OpenUnrecorded, Scan,
           Age, Release, Charge, Reject, Reverse, GatewayMove, SetStatus,
           ExpiryStops, Crash, CancelSave
      <4>5. QED
        BY <4>1, <4>2, <4>3, <4>4
    <3>3. QED
      BY <2>b, <3>1, <3>2
  <2>2. ASSUME NEW w \in Workers,
               \/ \E o \in Orders : StartRead(w, o) \/ CardRead(w, o)
               \/ \E t \in Trans : OpenSession(w, t) \/ SyncRead(w, t)
        PROVE  MoneyInv'
    <3>1. paid' = paid /\ payment' = payment
      BY <2>2 DEF StartRead, CardRead, OpenSession, SyncRead, orderVars
    <3>2. PICK new : /\ job' = [job EXCEPT ![w] = new]
                     /\ new.pc \in {"opening", "charging", "asking", "saving",
                                    "recording"}
      <4> DEFINE Early(new) ==
                   /\ job' = [job EXCEPT ![w] = new]
                   /\ new.pc \in {"opening", "charging", "asking", "saving",
                                  "recording"}
      <4>1. ASSUME NEW o \in Orders, StartRead(w, o)
            PROVE  Early([Idle EXCEPT !.pc = "opening", !.order = o,
                                      !.seen = status[o]])
        BY <4>1 DEF StartRead, Begin, Idle
      <4>2. ASSUME NEW o \in Orders, CardRead(w, o)
            PROVE  Early([Idle EXCEPT !.pc = "charging", !.order = o])
        BY <4>2 DEF CardRead, Begin, Idle
      <4>3. ASSUME NEW t \in Trans, SyncRead(w, t)
            PROVE  Early([Idle EXCEPT !.pc = "asking", !.trans = t,
                                      !.seen = payment[t].status])
        BY <4>3 DEF SyncRead, Begin, Idle
      <4>4. ASSUME NEW t \in Trans, OpenSession(w, t)
            PROVE  Early([job[w] EXCEPT !.trans = t,
                            !.pc = IF job[w].pc = "opening" THEN "saving"
                                                            ELSE "recording"])
        BY <4>4 DEF OpenSession, TypeOK, Job
      <4> HIDE DEF Early
      <4>5. \E new : Early(new)
        BY <2>2, <4>1, <4>2, <4>3, <4>4
      <4>6. QED
        BY <4>5 DEF Early
    <3>a. \A v \in Workers : Unconcerned(v)
      BY <3>2 DEF TypeOK, Unconcerned
    <3>3. QED
      BY <2>b, <3>1, <3>a
  <2>3. ASSUME NEW w \in Workers, SaveSession(w) \/ RecordCharge(w)
        PROVE  MoneyInv'
    <3>1. paid' = paid
      BY <2>3 DEF SaveSession, RecordCharge, orderVars
    <3>2. \A t \in Trans : payment'[t] = payment[t] \/ payment'[t] = NewRow
      BY <2>3 DEF SaveSession, RecordCharge, TypeOK
    <3>3. \A v \in Workers : Unconcerned(v)
      BY <2>3, IdleIsJob DEF SaveSession, RecordCharge, Finish, TypeOK, Unconcerned
    <3>4. QED
      BY <2>a, <3>1, <3>2, <3>3, NewRowIsRow
  <2>4. ASSUME NEW t \in Trans, NEW heard \in BOOLEAN, Prepare(t, heard)
        PROVE  MoneyInv'
    <3> DEFINE out == PrepareOutcome(status[session[t].order], payment[t])
    <3>1. session[t].order \in Orders
      BY <2>4 DEF Prepare, Deliverable, Sent, Latest, TypeOK, References
    <3>2. /\ out.row.status = "succeeded" => payment[t].status = "succeeded"
          /\ out.row.status = "refunded" => payment[t].status = "refunded"
      BY <3>1, PrepareOutcomeType DEF TypeOK
    <3>3. payment' = [payment EXCEPT ![t] = out.row] /\ paid' = paid /\ job' = job
      BY <2>4 DEF Prepare, orderVars
    <3> HIDE DEF out
    <3>4. \A u \in Trans :
            /\ payment'[u].status = "succeeded" => payment[u].status = "succeeded"
            /\ payment'[u].status = "refunded" => payment[u].status = "refunded"
      BY <3>2, <3>3 DEF TypeOK
    <3>5. \A v \in Workers : Unconcerned(v)
      BY <3>3 DEF Unconcerned
    <3>6. QED
      BY <2>a, <3>3, <3>4, <3>5
  <2>5. ASSUME NEW t \in Trans, NEW callback \in Callbacks,
               NEW heard \in BOOLEAN, Complete(t, callback, heard)
        PROVE  MoneyInv'
    <3> DEFINE o == session[t].order
               out == CompleteOutcome(status[o], paid[o], payment[t], callback)
    <3>1. /\ o \in Orders
          /\ callback = "ok" => Charged(t)
          /\ callback = "fail" => LetGo(t)
      BY <2>5 DEF Complete, Deliverable, Sent, Latest, TypeOK, References, Callbacks,
         Charged, LetGo
    <3>2. /\ out.paid => paid[o] \/ callback = "ok"
          /\ out.row.status = "succeeded"
               => payment[t].status = "succeeded" \/ callback = "ok"
          /\ out.row.status = "refunded"
               => payment[t].status = "refunded" \/ callback = "fail"
      BY <3>1, CompleteOutcomeMeaning DEF TypeOK
    <3>3. /\ payment' = [payment EXCEPT ![t] = out.row]
          /\ paid' = [paid EXCEPT ![o] = out.paid]
          /\ job' = job
      BY <2>5 DEF Complete
    <3> HIDE DEF out
    <3>4. \A q \in Orders : paid'[q] => paid[q] \/ ChargedFor(q)
      BY <3>1, <3>2, <3>3 DEF TypeOK, ChargedFor
    <3>5. \A u \in Trans :
            /\ payment'[u].status = "succeeded"
                 => payment[u].status = "succeeded" \/ Charged(u)
            /\ payment'[u].status = "refunded"
                 => payment[u].status = "refunded" \/ LetGo(u)
      BY <3>1, <3>2, <3>3 DEF TypeOK
    <3>6. \A v \in Workers : Unconcerned(v)
      BY <3>3 DEF Unconcerned
    <3>7. QED
      BY <2>a, <3>4, <3>5, <3>6
  <2>6. ASSUME NEW w \in Workers, SyncAsk(w)
        PROVE  MoneyInv'
    <3> DEFINE answer == GatewayAnswer(session[job[w].trans].state)
               new == [job[w] EXCEPT !.pc = "syncing", !.seen = answer]
    <3>1. /\ answer = "succeeded" => Charged(job[w].trans)
          /\ answer = "refunded" => LetGo(job[w].trans)
      BY DEF GatewayAnswer, Charged, LetGo
    <3>2. /\ job' = [job EXCEPT ![w] = Idle] \/ job' = [job EXCEPT ![w] = new]
          /\ paid' = paid /\ payment' = payment /\ session' = session
      BY <2>6 DEF SyncAsk, orderVars
    <3> HIDE DEF answer
    <3>3. new.pc = "syncing" /\ new.seen = answer /\ new.trans = job[w].trans
      BY DEF TypeOK, Job
    <3> HIDE DEF new
    <3>4. /\ \A v \in Workers \ {w} : job'[v] = job[v]
          /\ job'[w] = Idle \/ job'[w] = new
      BY <3>2 DEF TypeOK
    <3>5. job'[w] = new => RequestSound(w)'
      BY <3>1, <3>2, <3>3 DEF RequestSound, Charged, LetGo
    <3>6. \A v \in Workers : Unconcerned(v) \/ RequestSound(v)'
      BY <3>4, <3>5, IdleIsJob DEF Unconcerned
    <3>7. QED
      BY <2>a, <3>2, <3>6
  <2>7. ASSUME NEW w \in Workers, SyncPayment(w)
        PROVE  MoneyInv'
    <3> DEFINE new == [job[w] EXCEPT !.pc = "reading"]
    <3>1. /\ job[w].trans \in Trans
          /\ job[w].seen \in PaymentStatus
          /\ job[w].seen = "succeeded" => Charged(job[w].trans)
          /\ job[w].seen = "refunded" => LetGo(job[w].trans)
      BY <2>7 DEF SyncPayment, TypeOK, References, MoneyInv, MoneyInFlight,
         RequestSound
    <3>2. /\ payment' = [payment EXCEPT ![job[w].trans].status = job[w].seen]
          /\ \/ job' = [job EXCEPT ![w] = Idle]
             \/ job' = [job EXCEPT ![w] = new] /\ job[w].seen = "succeeded"
          /\ paid' = paid /\ session' = session
      BY <2>7 DEF SyncPayment, orderVars
    <3>3. new.pc = "reading" /\ new.trans = job[w].trans
      BY DEF TypeOK, Job
    <3> HIDE DEF new
    <3>4. /\ \A v \in Workers \ {w} : job'[v] = job[v]
          /\ job'[w] = Idle \/ (job'[w] = new /\ job[w].seen = "succeeded")
      BY <3>2 DEF TypeOK
    <3>5. job'[w] = new /\ job[w].seen = "succeeded" => RequestSound(w)'
      BY <3>1, <3>2, <3>3 DEF RequestSound, Charged
    <3>6. \A v \in Workers : Unconcerned(v) \/ RequestSound(v)'
      BY <3>4, <3>5, IdleIsJob DEF Unconcerned
    <3>7. /\ payment'[job[w].trans].status = job[w].seen
          /\ \A u \in Trans \ {job[w].trans} : payment'[u] = payment[u]
      BY <3>1, <3>2, RowWritten DEF TypeOK
    <3>8. QED
      BY <2>a, <3>1, <3>2, <3>6, <3>7
  <2>8. ASSUME NEW w \in Workers, SyncReadOrder(w)
        PROVE  MoneyInv'
    <3> DEFINE new == [job[w] EXCEPT !.pc = "stamping"]
    <3>1. Charged(job[w].trans)
      BY <2>8 DEF SyncReadOrder, MoneyInv, MoneyInFlight, RequestSound
    <3>2. /\ job' = [job EXCEPT ![w] = Idle] \/ job' = [job EXCEPT ![w] = new]
          /\ paid' = paid /\ payment' = payment /\ session' = session
      BY <2>8 DEF SyncReadOrder, orderVars
    <3>3. new.pc = "stamping" /\ new.trans = job[w].trans
      BY DEF TypeOK, Job
    <3> HIDE DEF new
    <3>4. /\ \A v \in Workers \ {w} : job'[v] = job[v]
          /\ job'[w] = Idle \/ job'[w] = new
      BY <3>2 DEF TypeOK
    <3>5. job'[w] = new => RequestSound(w)'
      BY <3>1, <3>2, <3>3 DEF RequestSound, Charged
    <3>6. \A v \in Workers : Unconcerned(v) \/ RequestSound(v)'
      BY <3>4, <3>5, IdleIsJob DEF Unconcerned
    <3>7. QED
      BY <2>a, <3>2, <3>6
  <2>9. ASSUME NEW w \in Workers, SyncOrder(w)
        PROVE  MoneyInv'
    <3> DEFINE o == session[job[w].trans].order
    <3>1. o \in Orders /\ ChargedFor(o)
      BY <2>9 DEF SyncOrder, TypeOK, References, MoneyInv, MoneyInFlight,
         RequestSound, ChargedFor
    <3>2. paid' = [paid EXCEPT ![o] = TRUE] /\ payment' = payment
      BY <2>9 DEF SyncOrder
    <3>3. \A v \in Workers : Unconcerned(v)
      BY <2>9, IdleIsJob DEF SyncOrder, Finish, TypeOK, Unconcerned
    <3>4. \A q \in Orders : paid'[q] => paid[q] \/ ChargedFor(q)
      BY <3>1, <3>2 DEF TypeOK
    <3>5. QED
      BY <2>a, <3>2, <3>3, <3>4
  <2>10. ASSUME NEW w \in Workers, NEW o \in Orders, EditRead(w, o)
         PROVE  MoneyInv'
    <3> DEFINE new == [Idle EXCEPT !.pc = "editing", !.order = o,
                                   !.paid = paid[o], !.seen = status[o]]
    <3>1. /\ job' = [job EXCEPT ![w] = new]
          /\ paid' = paid /\ payment' = payment /\ session' = session
      BY <2>10 DEF EditRead, Begin, orderVars
    <3>2. new.pc = "editing" /\ new.order = o /\ new.paid = paid[o]
      BY DEF Idle
    <3> HIDE DEF new
    <3>3. paid[o] => ChargedFor(o)'
      BY <3>1 DEF MoneyInv, MoneyBacksPaid, ChargedFor, Charged
    <3>4. job'[w] = new /\ \A v \in Workers \ {w} : job'[v] = job[v]
      BY <3>1 DEF TypeOK
    <3>5. RequestSound(w)'
      BY <3>2, <3>3, <3>4 DEF RequestSound
    <3>6. \A v \in Workers : Unconcerned(v) \/ RequestSound(v)'
      BY <3>4, <3>5 DEF Unconcerned
    <3>7. QED
      BY <2>a, <3>1, <3>6
  <2>11. ASSUME NEW w \in Workers, EditSave(w)
         PROVE  MoneyInv'
    <3> DEFINE o == job[w].order
    <3>1. job[w].paid => ChargedFor(o)
      BY <2>11 DEF EditSave, MoneyInv, MoneyInFlight, RequestSound
    <3>2. PICK stamp \in {job[w].paid, paid[o]} : paid' = [paid EXCEPT ![o] = stamp]
      BY <2>11 DEF EditSave
    <3>3. \A v \in Workers : Unconcerned(v)
      BY <2>11, IdleIsJob DEF EditSave, Finish, TypeOK, Unconcerned
    <3>4. \A q \in Orders : paid'[q] => paid[q] \/ ChargedFor(q)
      <4>1. stamp => paid[o] \/ ChargedFor(o)
        BY <3>1, <3>2
      <4> QED
        BY <3>2, <4>1 DEF TypeOK
    <3>5. payment' = payment
      BY <2>11 DEF EditSave
    <3>6. QED
      BY <2>a, <3>3, <3>4, <3>5
  <2>12. CASE UNCHANGED vars
    BY <2>12, <2>b DEF vars, Unconcerned
  <2>13. QED
    BY <2>1, <2>2, <2>3, <2>4, <2>5, <2>6, <2>7, <2>8, <2>9, <2>10, <2>11, <2>12
       DEF Next, CheckoutNext, CancelNext, StartNext, CardNext, UnrecordedNext,
           ExpiryNext, CallbackNext, GatewayNext, SyncNext, SetStatusNext,
           EditNext, CrashNext
<1>3. QED
  BY <1>1, <1>2, TypeCorrect, PTL DEF Spec

\* Whatever interleaves, paid_at is stamped, and a payment reads succeeded,
\* only after the gateway charged a transaction of that order.
THEOREM MoneyIsReal == Spec => []MoneyBacksPaid
  BY MoneyInvariant, PTL DEF MoneyInv

\* Whatever interleaves, a payment reads refunded only when the gateway let the
\* money go: neither a callback, nor a sync with what it read long ago, writes
\* off a charge that still stands.
THEOREM RefundsAreReal == Spec => []RefundedMeansLetGo
  BY MoneyInvariant, PTL DEF MoneyInv

\* An immediate replay of either callback is harmless in every reachable
\* state, whatever order, row and request it meets.
THEOREM ReplaysAreHarmless == Spec => []CallbacksIdempotent
<1>1. TypeOK => CallbacksIdempotent
  <2> SUFFICES ASSUME TypeOK, NEW t \in Trans, session[t].order # NoOrder
               PROVE  LET o == session[t].order
                          ready == PrepareOutcome(status[o], payment[t])
                      IN  /\ PrepareOutcome(status[o], ready.row) = ready
                          /\ \A c \in Callbacks :
                               LET one == CompleteOutcome(status[o], paid[o],
                                                          payment[t], c)
                               IN  CompleteOutcome(one.status, one.paid,
                                                   one.row, c)
                                     = Exit(one.reply, one.status, one.paid,
                                            one.row, FALSE)
    BY DEF CallbacksIdempotent
  <2>1. /\ status[session[t].order] \in OrderStatus
        /\ paid[session[t].order] \in BOOLEAN
        /\ payment[t] \in Row
    BY DEF TypeOK, Session
  <2>2. QED
    BY <2>1, PrepareIdempotent, CompleteIdempotent
<1>2. QED
  BY <1>1, TypeCorrect, PTL
==============================================================================
