--------------------------------- MODULE Carts ---------------------------------
(***************************************************************************)
(* One cart and the requests of its owner, who may have several tabs open: *)
(* they add, set and remove lines, apply a code and check out, while the   *)
(* catalogue changes prices and codes expire. The services read and then   *)
(* write without a lock, so a request whose write depends on what it read  *)
(* is two steps.                                                           *)
(*                                                                         *)
(* Stock is left to Checkout: a request refused for want of it changes     *)
(* nothing here, as one that gives up.                                     *)
(***************************************************************************)
EXTENDS Pricing, FiniteSets, Functions

CONSTANTS
    Requests,      \* requests that may be in flight together
    Products,
    Prices,        \* Prices[p]: the prices the catalogue may give p
    Tiers,         \* the active discount tiers
    Codes,         \* promo codes: type, value, minOrder, usageLimit, dated
    Deliveries,    \* what a delivery may cost
    MaxQuantity,   \* MAX_QUANTITY_PER_ITEM
    MaxUses        \* bound on used_count

ASSUME MoneyAssumption ==
    /\ Prices \in [Products -> SUBSET Nat]
    /\ Deliveries \subseteq Nat
    /\ \A t \in Tiers : t.threshold \in Nat /\ t.percent \in 0 .. 100
    /\ NoCode \notin Codes
ASSUME LimitsAssumption == MaxQuantity \in Nat \ {0} /\ MaxUses \in Nat

VARIABLES
    price,     \* Product.price
    line,      \* CartItem of each product; quantity 0 stands for no row
    code,      \* Cart.promo_code
    uses,      \* PromoCode.used_count
    expired,   \* the codes whose valid_to has passed
    job        \* what each request has read and not yet acted on

vars == <<price, line, code, uses, expired, job>>

NoLine == [quantity |-> 0, price |-> 0]
EmptyCart == [p \in Products |-> NoLine]
InCart(lines) == {p \in Products : lines[p].quantity > 0}

Idle == [pc |-> "idle"]

Init ==
    /\ price \in {f \in [Products -> UNION {Prices[p] : p \in Products}] :
                    \A p \in Products : f[p] \in Prices[p]}
    /\ line = EmptyCart
    /\ code = NoCode
    /\ uses = [c \in Codes |-> 0]
    /\ expired = {}
    /\ job = [r \in Requests |-> Idle]

Start(r, j) == job[r] = Idle /\ job' = [job EXCEPT ![r] = j]
Finish(r) == job' = [job EXCEPT ![r] = Idle]

------------------------------------------------------------------------------
(* What the cart shows and what an order would be charged.                 *)

Subtotal(lines) == SumFunction([p \in Products |-> lines[p].price * lines[p].quantity])

Applied(c, subtotal) ==
    IF c # NoCode /\ Usable(c, subtotal, uses[c], c \in expired) THEN c ELSE NoCode

Price(lines, c, delivery) ==
    LET subtotal == Subtotal(lines)
    IN  Breakdown(subtotal, ActiveTier(Tiers, subtotal), Applied(c, subtotal), delivery)

CartPrice == Price(line, code, 0)

OrderPrice_onDelivery(j) ==
    LET subtotal == Subtotal(j.lines) + j.delivery
    IN  Breakdown(subtotal, ActiveTier(Tiers, subtotal), Applied(j.code, subtotal), 0)

OrderPrice(j) == Price(j.lines, j.code, j.delivery)

------------------------------------------------------------------------------
(* Lines.                                                                  *)

\* add_item: the product and the line are read, the new quantity is checked ...
AddRead(r) ==
    /\ \E p \in Products, more \in 1 .. MaxQuantity :
          /\ line[p].quantity + more <= MaxQuantity
          /\ Start(r, [pc |-> "adding", product |-> p, seen |-> line[p].quantity,
                       more |-> more, price |-> price[p], lost |-> FALSE])
    /\ UNCHANGED <<price, line, code, uses, expired>>

AddWrite_upserts(r) ==
    /\ job[r].pc = "adding"
    /\ line' = [line EXCEPT ![job[r].product] =
                  [quantity |-> job[r].seen + job[r].more, price |-> job[r].price]]
    /\ Finish(r)
    /\ UNCHANGED <<price, code, uses, expired>>

\* ... and written: a row created meanwhile makes the insert fail, a row
\* deleted meanwhile (lost) the update.
AddWrite(r) ==
    /\ job[r].pc = "adding"
    /\ LET p == job[r].product
           fits == IF job[r].seen = 0 THEN line[p].quantity = 0 ELSE ~job[r].lost
       IN  line' = IF fits
                   THEN [line EXCEPT ![p] = [quantity |-> job[r].seen + job[r].more,
                                             price |-> job[r].price]]
                   ELSE line
    /\ Finish(r)
    /\ UNCHANGED <<price, code, uses, expired>>

\* set_quantity (update_or_create) writes whatever row there is, or a new one.
SetQuantity(p) ==
    /\ \E n \in 1 .. MaxQuantity :
          line' = [line EXCEPT ![p] = [quantity |-> n, price |-> price[p]]]
    /\ UNCHANGED <<price, code, uses, expired, job>>

\* The requests that still mean to update a row of S have lost it.
Lost(jobs, S) ==
    [r \in Requests |->
        IF jobs[r].pc = "adding" /\ jobs[r].seen > 0 /\ jobs[r].product \in S
        THEN [jobs[r] EXCEPT !.lost = TRUE] ELSE jobs[r]]

Remove(p) ==
    /\ line[p].quantity > 0
    /\ line' = [line EXCEPT ![p] = NoLine]
    /\ job' = Lost(job, {p})
    /\ UNCHANGED <<price, code, uses, expired>>

Clear ==
    /\ line' = EmptyCart
    /\ code' = NoCode
    /\ job' = Lost(job, InCart(line))
    /\ UNCHANGED <<price, uses, expired>>

------------------------------------------------------------------------------
(* The promo code.                                                         *)

ApplyRead(r) ==
    /\ \E c \in Codes :
          /\ Usable(c, Subtotal(line), uses[c], c \in expired)
          /\ Start(r, [pc |-> "applying", code |-> c])
    /\ UNCHANGED <<price, line, code, uses, expired>>

ApplySave(r) ==
    /\ job[r].pc = "applying"
    /\ code' = job[r].code
    /\ Finish(r)
    /\ UNCHANGED <<price, line, uses, expired>>

RemoveCode == code' = NoCode /\ UNCHANGED <<price, line, uses, expired, job>>

------------------------------------------------------------------------------
(* Checkout: the lines with the catalogue's prices, then the order.        *)

PayRead(r) ==
    /\ InCart(line) # {}
    /\ \E d \in Deliveries :
          Start(r, [pc |-> "paying", code |-> code, delivery |-> d,
                    lines |-> [p \in Products |->
                        IF p \in InCart(line) THEN [line[p] EXCEPT !.price = price[p]]
                        ELSE NoLine]])
    /\ UNCHANGED <<price, line, code, uses, expired>>

PaySave(r) ==
    /\ job[r].pc = "paying"
    /\ LET c == Applied(job[r].code, Subtotal(job[r].lines))
       IN  IF c = NoCode THEN UNCHANGED uses
           ELSE uses[c] < MaxUses /\ uses' = [uses EXCEPT ![c] = @ + 1]
    /\ line' = EmptyCart
    /\ code' = NoCode
    /\ job' = Lost([job EXCEPT ![r] = Idle], InCart(line))
    /\ UNCHANGED <<price, expired>>

\* Refused, or the worker dies.
GiveUp(r) ==
    /\ job[r] # Idle
    /\ Finish(r)
    /\ UNCHANGED <<price, line, code, uses, expired>>

------------------------------------------------------------------------------
(* The rest of the shop.                                                   *)

Reprice(p) ==
    /\ \E v \in Prices[p] \ {price[p]} : price' = [price EXCEPT ![p] = v]
    /\ UNCHANGED <<line, code, uses, expired, job>>

Expire(c) ==
    /\ c.dated /\ c \notin expired
    /\ expired' = expired \cup {c}
    /\ UNCHANGED <<price, line, code, uses, job>>

Next ==
    \/ \E r \in Requests :
          \/ AddRead(r) \/ AddWrite(r)
          \/ ApplyRead(r) \/ ApplySave(r) \/ PayRead(r) \/ PaySave(r) \/ GiveUp(r)
    \/ \E p \in Products : SetQuantity(p) \/ Remove(p) \/ Reprice(p)
    \/ \E c \in Codes : Expire(c)
    \/ Clear \/ RemoveCode

Spec == Init /\ [][Next]_vars

------------------------------------------------------------------------------
(* Properties.                                                             *)

Paying == {r \in Requests : job[r].pc = "paying"}

\* What an order is charged adds up, its discounts stay within the subtotal and
\* its delivery is paid in full (PricingService), whenever it is placed.
DiscountsWithinSubtotal ==
    \A r \in Paying :
        LET b == OrderPrice(job[r])
        IN  /\ b.tier + b.promo <= b.subtotal
            /\ b.total = b.subtotal - b.tier - b.promo + b.delivery

\* A code counts only for an order that earns it: it was applied to a cart that
\* may since have shrunk, expired or been used up (validate_promo_code at checkout).
CodeEarned ==
    \A r \in Paying :
        LET b == OrderPrice(job[r]) c == job[r].code
        IN  b.promo > 0 => /\ c \notin expired
                           /\ c.minOrder <= Subtotal(job[r].lines)
                           /\ c.usageLimit > 0 => uses[c] < c.usageLimit

\* An order for what the cart holds at the catalogue's prices costs what the
\* cart says, and its delivery.
QuoteKept ==
    \A r \in Paying :
        job[r].lines = line /\ job[r].code = code
            => OrderPrice(job[r]).total = CartPrice.total + job[r].delivery

\* An addition to a line that was removed, cleared or ordered since it was read
\* does not bring the line back (save(update_fields) of add_item).
RemovedStaysRemoved ==
    [][\A r \in Requests : job[r].pc = "adding" /\ job[r].lost /\ job'[r] = Idle
          => line'[job[r].product] = line[job[r].product]]_vars

==============================================================================
