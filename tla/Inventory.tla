---------------------------- MODULE Inventory ----------------------------
(***************************************************************************)
(* One table of stock rows under concurrent writers: the checkouts ("sale")*)
(* and the returns ("restock") of apps/orders/services.py, the pair of     *)
(* apps/catalog/services.py that is meant to take their place ("deduct",   *)
(* "return"), and the staff, whose forms read a row and later save all of  *)
(* it.  A row that a transaction has come to stays locked until it ends,   *)
(* so only the committed rows and each transaction's lines are kept.       *)
(***************************************************************************)
EXTENDS Integers

CONSTANTS
    N,            \* products are 1 .. N, in the order of their ids
    Worker, Staff,
    MaxUnits,     \* bound on a row's quantity
    LOW_STOCK_THRESHOLD

ASSUME InventoryAssumption ==
    N \in Nat /\ MaxUnits \in Nat /\ LOW_STOCK_THRESHOLD \in Nat

VARIABLES
    row,     \* per product its stock row [quantity, status], or NoRow
    tx,      \* per worker its transaction [kind, units, done], or NoTx
    form     \* per member of the staff a form [product, read, gone], or NoForm

inventoryVars == <<row, tx, form>>

Products == 1 .. N
Status == {"in_stock", "low_stock", "out_of_stock", "on_order"}
StockRow == [quantity : 0 .. MaxUnits, status : Status]
NoRow == [quantity |-> -1, status |-> "none"]
NoTx == [kind |-> "none", units |-> [p \in Products |-> 0], done |-> {}]
NoForm == [product |-> 0, read |-> NoRow, gone |-> FALSE]

status_for(quantity, current) ==
    CASE quantity <= 0 -> IF current = "on_order" THEN "on_order" ELSE "out_of_stock"
      [] quantity > 0 /\ quantity <= LOW_STOCK_THRESHOLD -> "low_stock"
      [] quantity > 0 /\ quantity > LOW_STOCK_THRESHOLD  -> "in_stock"
\* Stock.save
Saved(quantity, status) ==
    [quantity |-> quantity, status |-> status_for(quantity, status)]
\* get_or_create
Existing(p) == IF row[p] = NoRow THEN Saved(0, "out_of_stock") ELSE row[p]

-----------------------------------------------------------------------------
(* Transactions.                                                           *)

Task == {"sale", "restock", "deduct", "return"}
Takes(t) == tx[t].kind \in {"sale", "deduct"}
\* Those of apps/catalog/services.py go through the products by their ids.
Ordered(t) == tx[t].kind \in {"deduct", "return"}
Todo(t) == {p \in Products : tx[t].units[p] > 0} \ tx[t].done
Turn_asGiven(t, p) ==
    /\ p \in Todo(t)
    /\ Ordered(t) => \A q \in Todo(t) : IF tx[t].kind = "return" THEN q <= p ELSE p <= q
Turn(t, p) == p \in Todo(t) /\ (Ordered(t) => \A q \in Todo(t) : p <= q)
WithLine(t, p) == [tx EXCEPT ![t].done = @ \cup {p}]
Locked(p) == \E t \in Worker : p \in tx[t].done

Begin(t, kind, units) ==
    /\ tx[t] = NoTx /\ \E p \in Products : units[p] > 0
    /\ tx' = [tx EXCEPT ![t] = [kind |-> kind, units |-> units, done |-> {}]]
    /\ UNCHANGED <<row, form>>

\* A line that is not covered rolls the transaction back: the UPDATE of deduct
\* matches no row, the sale's rows are judged once they are locked.
DeductLine(t, p) ==
    /\ Takes(t) /\ Turn(t, p) /\ ~Locked(p)
    /\ tx' = IF row[p].quantity >= tx[t].units[p] THEN WithLine(t, p)
             ELSE [tx EXCEPT ![t] = NoTx]
    /\ UNCHANGED <<row, form>>

ReturnLine(t, p) ==
    /\ tx[t].kind = "return" /\ Turn(t, p) /\ ~Locked(p)
    /\ Existing(p).quantity + tx[t].units[p] <= MaxUnits
    /\ tx' = WithLine(t, p)
    /\ UNCHANGED <<row, form>>

\* restock_order's UPDATE matches no row that was deleted: its units are lost.
RestockLine(t, p) ==
    /\ tx[t].kind = "restock" /\ Turn(t, p) /\ ~Locked(p)
    /\ row[p].quantity + tx[t].units[p] <= MaxUnits
    /\ tx' = IF row[p] = NoRow THEN [tx EXCEPT ![t].units[p] = 0] ELSE WithLine(t, p)
    /\ UNCHANGED <<row, form>>

\* _refresh_stock_statuses, which knows no "on_order"; what it saves is derived
\* once more.  Its own threshold has the value of LOW_STOCK_THRESHOLD.
Refreshed(quantity, current) ==
    LET status == CASE quantity <= 0 -> "out_of_stock"
                    [] quantity > 0 /\ quantity <= LOW_STOCK_THRESHOLD -> "low_stock"
                    [] quantity > LOW_STOCK_THRESHOLD /\ quantity > 0 -> "in_stock"
    IN  IF status = current THEN [quantity |-> quantity, status |-> current]
        ELSE Saved(quantity, status)
\* The quantities written, then the statuses refreshed, seen at the commit.
Written(t, p) ==
    LET change == IF Takes(t) THEN -tx[t].units[p] ELSE tx[t].units[p]
        left == Existing(p).quantity + change
    IN  IF Ordered(t) THEN Saved(left, Existing(p).status)
        ELSE Refreshed(left, Existing(p).status)

Commit(t) ==
    /\ tx[t] # NoTx /\ Todo(t) = {}
    /\ row' = [p \in Products |-> IF p \in tx[t].done THEN Written(t, p) ELSE row[p]]
    /\ tx' = [tx EXCEPT ![t] = NoTx]
    /\ UNCHANGED form

\* What follows in the caller's transaction fails, the worker dies, or the
\* database ends it because two wait for each other.
Abort(t) ==
    /\ tx[t] # NoTx
    /\ tx' = [tx EXCEPT ![t] = NoTx]
    /\ UNCHANGED <<row, form>>

Transaction(t) ==
    \/ \E kind \in Task, units \in [Products -> 0 .. 1] :
          Begin(t, kind, units)
    \/ \E p \in Products : DeductLine(t, p) \/ ReturnLine(t, p) \/ RestockLine(t, p)
    \/ Commit(t) \/ Abort(t)

-----------------------------------------------------------------------------
(* The staff: the stock endpoint and the Django admin.                     *)

OpenForm(s, p) ==
    /\ form[s] = NoForm /\ row[p] # NoRow
    /\ form' = [form EXCEPT ![s] = [product |-> p, read |-> row[p], gone |-> FALSE]]
    /\ UNCHANGED <<row, tx>>

\* What is not typed is saved as it was read.  A row deleted meanwhile is
\* inserted again, unless another has taken its place.
SaveForm_typedOnly(s, quantity, status) ==
    LET p == form[s].product IN
    /\ form[s] # NoForm /\ ~Locked(p) /\ row[p] # NoRow
    /\ row' = [row EXCEPT ![p] = IF quantity # form[s].read.quantity
                                 THEN Saved(quantity, status)
                                 ELSE [@ EXCEPT !.status = status_for(quantity, status)]]
    /\ form' = [form EXCEPT ![s] = NoForm]
    /\ UNCHANGED tx
SaveForm(s, quantity, status) ==
    LET p == form[s].product IN
    /\ form[s] # NoForm /\ ~Locked(p)
    /\ row' = IF form[s].gone /\ row[p] # NoRow THEN row
              ELSE [row EXCEPT ![p] = Saved(quantity, status)]
    /\ form' = [form EXCEPT ![s] = NoForm]
    /\ UNCHANGED tx
EditStock(s) ==
    \E quantity \in {form[s].read.quantity} \cup 0 .. MaxUnits,
       status \in {form[s].read.status} \cup Status : SaveForm(s, quantity, status)

CreateRow(p, quantity, status) ==
    /\ row[p] = NoRow /\ ~Locked(p)
    /\ row' = [row EXCEPT ![p] = Saved(quantity, status)]
    /\ UNCHANGED <<tx, form>>

DeleteRow(p) ==
    /\ row[p] # NoRow /\ ~Locked(p)
    /\ row' = [row EXCEPT ![p] = NoRow]
    /\ form' = [s \in Staff |-> IF form[s].product = p
                                THEN [form[s] EXCEPT !.gone = TRUE] ELSE form[s]]
    /\ UNCHANGED tx

StaffStep ==
    \/ \E s \in Staff : EditStock(s) \/ \E p \in Products : OpenForm(s, p)
    \/ \E p \in Products : \/ DeleteRow(p)
                           \/ \E n \in 0 .. MaxUnits, status \in Status :
                                 CreateRow(p, n, status)

InventoryInit == /\ row = [p \in Products |-> NoRow]
                 /\ tx = [t \in Worker |-> NoTx] /\ form = [s \in Staff |-> NoForm]
InventoryNext == StaffStep \/ \E t \in Worker : Transaction(t)
InventorySpec == InventoryInit /\ [][InventoryNext]_inventoryVars

-----------------------------------------------------------------------------
(* Properties.                                                             *)

\* A stock row's badge never contradicts the number next to it, whichever
\* writers interleave (the promise of apps/catalog/models.py:196-197).
StatusMatchesQuantity ==
    \A p \in Products : row[p] # NoRow =>
        /\ row[p].quantity >= 0
        /\ row[p].quantity = 0 <=> row[p].status \in {"out_of_stock", "on_order"}
        /\ row[p].status = "low_stock" => row[p].quantity <= LOW_STOCK_THRESHOLD
        /\ row[p].status = "in_stock" => row[p].quantity > LOW_STOCK_THRESHOLD

\* The transactions of apps/catalog/services.py, which nothing calls so far,
\* queue for the rows they share (the promise of its lines 8-9): among any
\* number of them one waits for none of the others, so no circle of waits is
\* theirs alone, whatever the unordered ones of apps/orders/services.py do.
WaitsFor(t, u) == \E p \in Products : Turn(t, p) /\ p \in tx[u].done
TransactionsQueue ==
    \A S \in SUBSET {t \in Worker : Ordered(t)} :
        S # {} => \E t \in S : \A u \in S : ~WaitsFor(t, u)
=============================================================================
