------------------------------- MODULE Checkout -------------------------------
(***************************************************************************)
(* create_order_from_cart and restock_order at the level of row locks: how *)
(* requests that run at the same time share stock rows and a promo code.   *)
(* OrderPayments takes a checkout as one step; this module shows why it    *)
(* may, and what its transaction goes through on the way.                  *)
(*                                                                         *)
(* One step is one statement, or several that touch nothing another        *)
(* request can see. A row written in a transaction stays locked until the  *)
(* transaction ends, so its new value is seen from the commit on.          *)
(***************************************************************************)
EXTENDS Naturals, FiniteSets

CONSTANTS
    Requests,      \* checkout requests; each may become one order
    Products,      \* products with a stock row
    Carts,
    Promo,         \* the row of the promo code
    Nobody, NoRow,
    CartOf,        \* CartOf[r]: the cart that request r checks out
    Contents,      \* Contents[c][p]: units of p in cart c
    CodedCarts,    \* the carts the promo code was applied to
    UsageLimit,    \* the code's usage_limit; 0 stands for none
    InitialStock

Rows == Products \cup {Promo}
NoUnits == [p \in Products |-> 0]

ASSUME RowsAssumption == Promo \notin Products /\ NoRow \notin Rows
ASSUME NobodyAssumption == Nobody \notin Requests
ASSUME CartsAssumption ==
    /\ CartOf \in [Requests -> Carts]
    /\ Contents \in [Carts -> [Products -> Nat]]
    /\ CodedCarts \subseteq Carts
ASSUME AmountsAssumption ==
    /\ InitialStock \in [Products -> Nat]
    /\ UsageLimit \in Nat

VARIABLES
    pc,        \* how far each request, and then its order, has come
    items,     \* the cart lines the request read, later its order's items
    carries,   \* the requests priced with the promo code
    basket,    \* the lines of each cart
    coded,     \* the carts with the promo code
    stock,     \* Stock.quantity, as committed
    used,      \* PromoCode.used_count, as committed
    holder,    \* the request whose transaction locks each row
    want       \* the row each request waits for

vars == <<pc, items, carries, basket, coded, stock, used, holder, want>>

CheckingOut == {"locking", "judged"}
OpenTransaction == CheckingOut \cup {"returning"}
Phase == {"new", "refused", "placed", "returned"} \cup OpenTransaction

Init ==
    /\ pc = [r \in Requests |-> "new"]
    /\ items = [r \in Requests |-> NoUnits]
    /\ carries = {}
    /\ basket = Contents
    /\ coded = CodedCarts
    /\ stock = InitialStock
    /\ used = 0
    /\ holder = [w \in Rows |-> Nobody]
    /\ want = [r \in Requests |-> NoRow]

------------------------------------------------------------------------------
(* Row locks.                                                              *)

Bought(r) == {p \in Products : items[r][p] > 0}

Needs_restoresUse(r) ==
    CASE pc[r] = "locking"                 -> Bought(r)
      [] pc[r] = "returning"               -> Bought(r) \cup {Promo}
      [] pc[r] = "judged" /\ r \in carries -> {Promo}
      [] OTHER                             -> {}

\* The rows the statement at hand locks. Neither query names an order.
Needs(r) ==
    CASE pc[r] \in {"locking", "returning"} -> Bought(r)
      [] pc[r] = "judged" /\ r \in carries  -> {Promo}
      [] OTHER                              -> {}

Holds(r) == {w \in Rows : holder[w] = r}
Ready_unlocked(r) == pc[r] \in OpenTransaction

Ready(r) == want[r] = NoRow /\ Needs(r) \subseteq Holds(r)

Unlocked(r) == [w \in Rows |-> IF holder[w] = r THEN Nobody ELSE holder[w]]

\* A free row is taken; for another one the statement waits.
Ask(r) ==
    /\ want[r] = NoRow
    /\ \E w \in Needs(r) \ Holds(r) :
          IF holder[w] = Nobody
          THEN holder' = [holder EXCEPT ![w] = r] /\ UNCHANGED want
          ELSE want' = [want EXCEPT ![r] = w] /\ UNCHANGED holder
    /\ UNCHANGED <<pc, items, carries, basket, coded, stock, used>>

Granted(r) ==
    /\ want[r] # NoRow
    /\ holder[want[r]] = Nobody
    /\ holder' = [holder EXCEPT ![want[r]] = r]
    /\ want' = [want EXCEPT ![r] = NoRow]
    /\ UNCHANGED <<pc, items, carries, basket, coded, stock, used>>

\* Each request of S waits for a row that one of S holds, and for each of S one waits.
IsCycle(S) ==
    /\ S # {}
    /\ \A r \in S : want[r] # NoRow
    /\ {holder[want[r]] : r \in S} = S

InCycle(r) == \E S \in SUBSET Requests : r \in S /\ IsCycle(S)

------------------------------------------------------------------------------
(* A checkout.                                                             *)

\* resolve_cart and the lines of the cart, read without a lock.
Read(r) ==
    LET c == CartOf[r] IN
    /\ pc[r] = "new"
    /\ pc' = [pc EXCEPT ![r] = IF basket[c] = NoUnits THEN "refused" ELSE "locking"]
    /\ items' = [items EXCEPT ![r] = basket[c]]
    /\ carries' = IF c \in coded THEN carries \cup {r} ELSE carries
    /\ UNCHANGED <<basket, coded, stock, used, holder, want>>

UsesLeft == UsageLimit = 0 \/ used < UsageLimit

Covered(r) == \A p \in Products : items[r][p] <= stock[p]

Judge_waits(r) ==
    /\ pc[r] = "locking"
    /\ Ready(r)
    /\ Covered(r)
    /\ pc' = [pc EXCEPT ![r] = "judged"]
    /\ carries' = IF UsesLeft THEN carries ELSE carries \ {r}
    /\ UNCHANGED <<items, basket, coded, stock, used, holder, want>>

\* Every stock row is locked: compare, price, and drop a code that is used up.
Judge(r) ==
    /\ pc[r] = "locking"
    /\ Ready(r)
    /\ IF Covered(r)
       THEN /\ pc' = [pc EXCEPT ![r] = "judged"]
            /\ carries' = IF UsesLeft THEN carries ELSE carries \ {r}
            /\ UNCHANGED holder
       ELSE /\ pc' = [pc EXCEPT ![r] = "refused"]
            /\ holder' = Unlocked(r)
            /\ UNCHANGED carries
    /\ UNCHANGED <<items, basket, coded, stock, used, want>>

Commit_countsCode(r) ==
    LET c == CartOf[r] IN
    /\ pc[r] = "judged"
    /\ Ready(r)
    /\ pc' = [pc EXCEPT ![r] = "placed"]
    /\ stock' = [p \in Products |-> stock[p] - items[r][p]]
    /\ used' = IF c \in coded THEN used + 1 ELSE used
    /\ basket' = [basket EXCEPT ![c] = NoUnits]
    /\ coded' = coded \ {c}
    /\ holder' = Unlocked(r)
    /\ UNCHANGED <<items, carries, want>>

\* The order, its items, the decrements, the count and the empty cart.
Commit(r) ==
    LET c == CartOf[r] IN
    /\ pc[r] = "judged"
    /\ Ready(r)
    /\ pc' = [pc EXCEPT ![r] = "placed"]
    /\ stock' = [p \in Products |-> stock[p] - items[r][p]]
    /\ used' = IF r \in carries THEN used + 1 ELSE used
    /\ basket' = [basket EXCEPT ![c] = NoUnits]
    /\ coded' = coded \ {c}
    /\ holder' = Unlocked(r)
    /\ UNCHANGED <<items, carries, want>>

------------------------------------------------------------------------------
(* The end of the order: a cancellation, the expiry or a refund restocks.  *)

StartReturn(r) ==
    /\ pc[r] = "placed"
    /\ pc' = [pc EXCEPT ![r] = "returning"]
    /\ UNCHANGED <<items, carries, basket, coded, stock, used, holder, want>>

CommitReturn(r) ==
    /\ pc[r] = "returning"
    /\ Ready(r)
    /\ pc' = [pc EXCEPT ![r] = "returned"]
    /\ stock' = [p \in Products |-> stock[p] + items[r][p]]
    /\ holder' = Unlocked(r)
    /\ UNCHANGED <<items, carries, basket, coded, used, want>>

------------------------------------------------------------------------------
(* A transaction that does not commit.                                     *)

Rollback(r) ==
    /\ pc' = [pc EXCEPT ![r] = IF pc[r] = "returning" THEN "placed" ELSE "refused"]
    /\ holder' = Unlocked(r)
    /\ want' = [want EXCEPT ![r] = NoRow]
    /\ UNCHANGED <<items, carries, basket, coded, stock, used>>

\* The worker dies, the connection is lost, or a check (the city) refuses.
Fail(r) == pc[r] \in OpenTransaction /\ Rollback(r)

\* The database aborts a transaction that waits in a cycle.
Victim(r) == InCycle(r) /\ Rollback(r)

Step(r) == \/ Read(r) \/ Ask(r) \/ Granted(r) \/ Judge(r) \/ Commit(r)
           \/ StartReturn(r) \/ CommitReturn(r) \/ Fail(r) \/ Victim(r)

Next == \E r \in Requests : Step(r)

Spec == Init /\ [][Next]_vars

\* The database works on: statements run, a row is granted in its turn, cycles are broken.
Fairness ==
    \A r \in Requests :
        /\ WF_vars(Ask(r))
        /\ SF_vars(Granted(r))
        /\ WF_vars(Judge(r) \/ Commit(r) \/ CommitReturn(r))
        /\ WF_vars(Victim(r))

FairSpec == Spec /\ Fairness

------------------------------------------------------------------------------
(* Properties.                                                             *)

TypeOK ==
    /\ pc \in [Requests -> Phase]
    /\ items \in [Requests -> [Products -> Nat]]
    /\ carries \subseteq Requests
    /\ basket \in [Carts -> [Products -> Nat]]
    /\ coded \subseteq Carts
    /\ stock \in [Products -> Nat]
    /\ used \in Nat
    /\ holder \in [Rows -> Requests \cup {Nobody}]
    /\ want \in [Requests -> Rows \cup {NoRow}]

\* Each checkout takes all its units or none, never more than there are, and
\* each order gives all of them back at most once (create_order_from_cart,
\* restock_order), whatever the statements of other requests do in between.
Shelf == INSTANCE Reservation WITH
    Orders <- Requests,
    Lines  <- [r \in Requests |-> Contents[CartOf[r]]],
    held   <- {r \in Requests : pc[r] \in {"placed", "returning"}},
    ended  <- {r \in Requests : pc[r] = "returned"},
    onHand <- stock
ReservesAllOrNothing == Shelf!Spec

\* used_count is the number of orders that were priced with the code, however
\* their transactions overlapped, failed or had the code dropped.
PromoCounted ==
    used = Cardinality({r \in carries : pc[r] \in {"placed", "returning", "returned"}})

\* A checkout whose stock was checked is no longer in danger of a deadlock:
\* whoever holds the code's row waits for nothing.
JudgedNeverVictim == \A r \in Requests : pc[r] = "judged" => ~InCycle(r)

\* Every checkout that has read its cart is answered.
EveryCheckoutEnds ==
    \A r \in Requests : pc[r] \in CheckingOut ~> pc[r] \notin CheckingOut

==============================================================================
