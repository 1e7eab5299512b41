------------------------------ MODULE CartsProofs ------------------------------
(***************************************************************************)
(* What a cart's owner is charged, for every catalogue, every set of codes *)
(* and tiers, and any number of requests at once.                          *)
(***************************************************************************)
EXTENDS Carts, PricingProofs

\* PromoCode.value has no upper bound of its own: of the percentages, the
\* theorems about amounts speak of those of 100 at most.
CodesWithinWhole == \A c \in Codes : WithinWhole(c)

Line == [quantity : Nat, price : Nat]
AnyCode == Codes \cup {NoCode}

Adding == [pc : {"adding"}, product : Products, seen : Nat, more : Nat, price : Nat,
           lost : BOOLEAN]
Applying == [pc : {"applying"}, code : AnyCode]
Ordering == [pc : {"paying"}, code : AnyCode, delivery : Nat, lines : [Products -> Line]]

CartsType ==
    /\ price \in [Products -> Nat]
    /\ line \in [Products -> Line]
    /\ code \in AnyCode
    /\ job \in [Requests -> {Idle} \cup Adding \cup Applying \cup Ordering]
    /\ uses \in [Codes -> Nat]
    /\ expired \subseteq Codes

\* Only a request that updates a row can lose it.
LostWasSeen == \A r \in Requests : job[r].pc = "adding" /\ job[r].lost => job[r].seen > 0

CartsInv == CartsType /\ LostWasSeen

\* The steps of each request, apart.
LEMMA JobKinds ==
    ASSUME NEW j \in {Idle} \cup Adding \cup Applying \cup Ordering
    PROVE  /\ j.pc = "idle" => j = Idle
           /\ j.pc = "adding" => j \in Adding
           /\ j.pc = "applying" => j \in Applying
           /\ j.pc = "paying" => j \in Ordering
           /\ j = Idle => j.pc = "idle"
BY DEF Idle, Adding, Applying, Ordering

\* The rows that are deleted change no more than the flag of the requests that
\* mean to update them.
LEMMA LostKeeps ==
    ASSUME NEW jobs \in [Requests -> {Idle} \cup Adding \cup Applying \cup Ordering], NEW S,
           \A r \in Requests : jobs[r].pc = "adding" /\ jobs[r].lost => jobs[r].seen > 0
    PROVE  LET after == Lost(jobs, S)
           IN  /\ after \in [Requests -> {Idle} \cup Adding \cup Applying \cup Ordering]
               /\ \A r \in Requests :
                    /\ after[r].pc = jobs[r].pc
                    /\ after[r].pc = "adding" /\ after[r].lost => after[r].seen > 0
<1> DEFINE after == Lost(jobs, S)
<1>1. ASSUME NEW r \in Requests
      PROVE  /\ after[r] \in {Idle} \cup Adding \cup Applying \cup Ordering
             /\ after[r].pc = jobs[r].pc
             /\ after[r].pc = "adding" /\ after[r].lost => after[r].seen > 0
  <2>1. CASE jobs[r].pc = "adding" /\ jobs[r].seen > 0 /\ jobs[r].product \in S
    <3>1. after[r] = [jobs[r] EXCEPT !.lost = TRUE]
      BY <2>1 DEF Lost
    <3>2. jobs[r] \in Adding
      BY <2>1, JobKinds
    <3> QED
      BY <2>1, <3>1, <3>2 DEF Adding
  <2>2. CASE ~(jobs[r].pc = "adding" /\ jobs[r].seen > 0 /\ jobs[r].product \in S)
    BY <2>2 DEF Lost
  <2> QED
    BY <2>1, <2>2
<1>2. after = [r \in Requests |-> after[r]]
  BY DEF Lost
<1> QED
  BY <1>1, <1>2

LEMMA CartsInitially == Init => CartsInv
<1> SUFFICES ASSUME Init PROVE CartsInv
  OBVIOUS
<1>1. price \in [Products -> Nat]
  <2>1. \A p \in Products : Prices[p] \subseteq Nat
    BY MoneyAssumption
  <2>2. \A p \in Products : price[p] \in Prices[p]
    BY DEF Init
  <2>3. price = [p \in Products |-> price[p]]
    BY DEF Init
  <2> QED
    BY <2>1, <2>2, <2>3
<1>2. line \in [Products -> Line]
  BY DEF Init, EmptyCart, NoLine, Line
<1>3. \A r \in Requests : job[r] = Idle /\ job[r].pc = "idle"
  BY DEF Init, Idle
<1>4. code \in AnyCode /\ uses \in [Codes -> Nat] /\ expired \subseteq Codes
  BY DEF Init, AnyCode
<1>5. job \in [Requests -> {Idle} \cup Adding \cup Applying \cup Ordering]
  BY DEF Init
<1> QED
  BY <1>1, <1>2, <1>3, <1>4, <1>5 DEF CartsInv, CartsType, LostWasSeen

\* A request that begins, with something it read.
LEMMA StartKeeps ==
    ASSUME CartsInv, UNCHANGED <<price, line, code, uses, expired>>,
           NEW r \in Requests, NEW j \in Adding \cup Applying \cup Ordering, Start(r, j),
           j.pc = "adding" => ~j.lost
    PROVE  CartsInv'
BY DEF CartsInv, CartsType, LostWasSeen, Start

LEMMA FinishKeeps ==
    ASSUME CartsInv, UNCHANGED <<price, expired>>, line' \in [Products -> Line],
           code' \in AnyCode, uses' \in [Codes -> Nat], NEW r \in Requests, Finish(r)
    PROVE  CartsInv'
BY DEF CartsInv, CartsType, LostWasSeen, Finish, Idle

LEMMA LosingKeeps ==
    ASSUME CartsInv, UNCHANGED <<price, expired>>, line' \in [Products -> Line],
           code' \in AnyCode, uses' \in [Codes -> Nat],
           NEW S, NEW jobs, job' = Lost(jobs, S),
           jobs = job \/ \E r \in Requests : jobs = [job EXCEPT ![r] = Idle]
    PROVE  CartsInv'
<1>1. /\ jobs \in [Requests -> {Idle} \cup Adding \cup Applying \cup Ordering]
      /\ \A r \in Requests : jobs[r].pc = "adding" /\ jobs[r].lost => jobs[r].seen > 0
  BY DEF CartsInv, CartsType, LostWasSeen, Idle
<1> QED
  BY <1>1, LostKeeps DEF CartsInv, CartsType, LostWasSeen

LEMMA CartsNextInv == CartsInv /\ [Next]_vars => CartsInv'
<1> SUFFICES ASSUME CartsInv, [Next]_vars PROVE CartsInv'
  OBVIOUS
<1>1. /\ NoLine \in Line /\ EmptyCart \in [Products -> Line] /\ NoCode \in AnyCode
      /\ CartsType
  BY DEF NoLine, EmptyCart, Line, AnyCode, CartsInv
<1>2. CASE UNCHANGED vars
  BY <1>2 DEF vars, CartsInv, CartsType, LostWasSeen
<1>3. ASSUME NEW r \in Requests, AddRead(r) PROVE CartsInv'
  <2>1. PICK p \in Products, more \in 1 .. MaxQuantity :
            Start(r, [pc |-> "adding", product |-> p, seen |-> line[p].quantity,
                      more |-> more, price |-> price[p], lost |-> FALSE])
    BY <1>3 DEF AddRead
  <2> DEFINE j == [pc |-> "adding", product |-> p, seen |-> line[p].quantity,
                   more |-> more, price |-> price[p], lost |-> FALSE]
  <2>2. more \in Nat /\ line[p].quantity \in Nat /\ price[p] \in Nat
    BY <1>1, LimitsAssumption DEF CartsType, Line
  <2>3. j \in Adding /\ ~j.lost
    BY <2>2 DEF Adding
  <2> HIDE DEF j
  <2> QED
    BY <1>3, <2>1, <2>3, StartKeeps DEF AddRead, j
<1>4. ASSUME NEW r \in Requests, AddWrite(r) PROVE CartsInv'
  <2>1. job[r] \in Adding
    BY <1>1, <1>4, JobKinds DEF AddWrite, CartsType
  <2>2. [quantity |-> job[r].seen + job[r].more, price |-> job[r].price] \in Line
    BY <2>1 DEF Adding, Line
  <2>3. line' \in [Products -> Line]
    BY <1>1, <1>4, <2>1, <2>2 DEF AddWrite, CartsType
  <2> QED
    BY <1>1, <1>4, <2>3, FinishKeeps DEF AddWrite, CartsType
<1>5. ASSUME NEW r \in Requests, ApplyRead(r) PROVE CartsInv'
  <2>1. PICK c \in Codes : Start(r, [pc |-> "applying", code |-> c])
    BY <1>5 DEF ApplyRead
  <2>2. [pc |-> "applying", code |-> c] \in Applying
    BY DEF Applying, AnyCode
  <2> QED
    BY <1>5, <2>1, <2>2, StartKeeps DEF ApplyRead
<1>6. ASSUME NEW r \in Requests, ApplySave(r) PROVE CartsInv'
  <2>1. job[r].code \in AnyCode
    BY <1>1, <1>6, JobKinds DEF ApplySave, CartsType, Applying
  <2> QED
    BY <1>1, <1>6, <2>1, FinishKeeps DEF ApplySave, CartsType
<1>7. ASSUME NEW r \in Requests, PayRead(r) PROVE CartsInv'
  <2> DEFINE lines == [p \in Products |->
                          IF p \in InCart(line) THEN [line[p] EXCEPT !.price = price[p]]
                          ELSE NoLine]
  <2>1. PICK d \in Deliveries :
            Start(r, [pc |-> "paying", code |-> code, delivery |-> d, lines |-> lines])
    BY <1>7 DEF PayRead
  <2>2. lines \in [Products -> Line]
    BY <1>1 DEF CartsType, Line
  <2> HIDE DEF lines
  <2>3. [pc |-> "paying", code |-> code, delivery |-> d, lines |-> lines] \in Ordering
    BY <1>1, <2>2, MoneyAssumption DEF Ordering, CartsType
  <2> QED
    BY <1>7, <2>1, <2>3, StartKeeps DEF PayRead
<1>8. ASSUME NEW r \in Requests, PaySave(r) PROVE CartsInv'
  <2>1. uses' \in [Codes -> Nat]
    BY <1>1, <1>8 DEF PaySave, CartsType
  <2> QED
    BY <1>1, <1>8, <2>1, LosingKeeps DEF PaySave
<1>9. ASSUME NEW r \in Requests, GiveUp(r) PROVE CartsInv'
  BY <1>1, <1>9, FinishKeeps DEF GiveUp, CartsType
<1>10. ASSUME NEW p \in Products, SetQuantity(p) PROVE CartsInv'
  <2>1. line' \in [Products -> Line]
    BY <1>1, <1>10, LimitsAssumption DEF SetQuantity, CartsType, Line
  <2> QED
    BY <1>10, <2>1 DEF SetQuantity, CartsInv, CartsType, LostWasSeen
<1>11. ASSUME NEW p \in Products, Remove(p) PROVE CartsInv'
  <2>1. line' \in [Products -> Line]
    BY <1>1, <1>11 DEF Remove, CartsType
  <2> QED
    BY <1>1, <1>11, <2>1, LosingKeeps DEF Remove, CartsType
<1>12. CASE Clear
  BY <1>1, <1>12, LosingKeeps DEF Clear, CartsType
<1>13. CASE RemoveCode
  BY <1>1, <1>13 DEF RemoveCode, CartsInv, CartsType, LostWasSeen
<1>14. ASSUME NEW p \in Products, Reprice(p) PROVE CartsInv'
  <2>1. PICK v \in Prices[p] : price' = [price EXCEPT ![p] = v]
    BY <1>14 DEF Reprice
  <2>2. v \in Nat
    BY MoneyAssumption
  <2> QED
    BY <1>1, <1>14, <2>1, <2>2 DEF Reprice, CartsInv, CartsType, LostWasSeen
<1>15. ASSUME NEW c \in Codes, Expire(c) PROVE CartsInv'
  BY <1>15 DEF Expire, CartsInv, CartsType, LostWasSeen
<1> QED
  BY <1>2, <1>3, <1>4, <1>5, <1>6, <1>7, <1>8, <1>9, <1>10, <1>11, <1>12, <1>13, <1>14,
     <1>15 DEF Next

LEMMA CartsInvariant == Spec => []CartsInv
  BY CartsInitially, CartsNextInv, PTL DEF Spec

-----------------------------------------------------------------------------
(* Amounts.                                                                *)

LEMMA SubtotalIsNat ==
    ASSUME IsFiniteSet(Products), NEW lines \in [Products -> Line]
    PROVE  Subtotal(lines) \in Nat
<1> DEFINE w == [p \in Products |-> lines[p].price * lines[p].quantity]
<1>1. w \in [Products -> Nat]
  <2>1. ASSUME NEW p \in Products PROVE lines[p].price * lines[p].quantity \in Nat
    <3>1. lines[p].price \in Nat /\ lines[p].quantity \in Nat
      BY DEF Line
    <3> QED
      BY <3>1, ProductMonotone
  <2> QED
    BY <2>1
<1> HIDE DEF w
<1>2. SumFunction(w) \in Nat
  BY <1>1, SumIsNat
<1> QED
  BY <1>2 DEF Subtotal, w

LEMMA TierInRange ==
    ASSUME NEW subtotal \in Nat
    PROVE  ActiveTier(Tiers, subtotal).percent \in 0 .. 100
<1>1. \A t \in Tiers : t.threshold \in Nat /\ t.percent \in 0 .. 100
  BY MoneyAssumption
<1>2. ActiveTier(Tiers, subtotal) = NoTier \/ ActiveTier(Tiers, subtotal) \in Tiers
  BY <1>1, TierReached
<1> QED
  BY <1>1, <1>2 DEF NoTier

LEMMA AppliedWithin ==
    ASSUME CodesWithinWhole, NEW c \in AnyCode, NEW subtotal
    PROVE  WithinWhole(Applied(c, subtotal))
<1>1. WithinWhole(NoCode)
  BY DEF WithinWhole, NoCode
<1> QED
  BY <1>1 DEF Applied, CodesWithinWhole, AnyCode

\* DiscountsStayWithin, of a cart or an order of any kind.
LEMMA PriceIsSound ==
    ASSUME CodesWithinWhole, IsFiniteSet(Products), NEW lines \in [Products -> Line],
           NEW c \in AnyCode, NEW delivery \in Nat
    PROVE  LET b == Price(lines, c, delivery)
           IN  /\ b.tier \in Nat /\ b.promo \in Nat
               /\ b.tier + b.promo <= b.subtotal
               /\ b.total = b.subtotal - b.tier - b.promo + b.delivery
               /\ b.subtotal = Subtotal(lines) /\ b.delivery = delivery
<1> DEFINE s == Subtotal(lines)
           t == ActiveTier(Tiers, s)
           a == Applied(c, s)
           b == Breakdown(s, t, a, delivery)
<1>1. s \in Nat
  BY SubtotalIsNat
<1>2. t.percent \in 0 .. 100 /\ WithinWhole(a)
  <2> HIDE DEF s
  <2> QED
    BY <1>1, TierInRange, AppliedWithin
<1>3. /\ b.tier \in Nat /\ b.promo \in Nat
      /\ b.tier + b.promo <= b.subtotal
      /\ b.total = b.subtotal - b.tier - b.promo + b.delivery
  <2> HIDE DEF s, t, a
  <2> QED
    BY <1>1, <1>2, DiscountsStayWithin
<1>4. b.subtotal = s /\ b.delivery = delivery
  BY DEF Breakdown
<1>5. Price(lines, c, delivery) = b
  BY DEF Price
<1> HIDE DEF b, s
<1> QED
  BY <1>3, <1>4, <1>5 DEF s

\* Whatever changed in the shop since an order was priced, what it is charged adds
\* up, with discounts within the subtotal and the delivery in full
\* (discounts/services.py:11-13).
THEOREM ChargesAddUp ==
    ASSUME CodesWithinWhole, IsFiniteSet(Products)
    PROVE  Spec => []DiscountsWithinSubtotal
<1>1. CartsInv => DiscountsWithinSubtotal
  <2> SUFFICES ASSUME CartsInv, NEW r \in Paying
               PROVE  LET b == OrderPrice(job[r])
                      IN  /\ b.tier + b.promo <= b.subtotal
                          /\ b.total = b.subtotal - b.tier - b.promo + b.delivery
    BY DEF DiscountsWithinSubtotal
  <2>1. /\ job[r].lines \in [Products -> Line] /\ job[r].code \in AnyCode
        /\ job[r].delivery \in Nat
    BY JobKinds DEF Paying, CartsInv, CartsType, Ordering
  <2> QED
    BY <2>1, PriceIsSound DEF OrderPrice
<1> QED
  BY <1>1, CartsInvariant, PTL

\* A code takes something off an order only if, when the order is placed, it has
\* not expired, its minimum is met and its uses are not up, whatever was true
\* when it was applied (PricingService.validate_promo_code).
THEOREM CodesAreEarned == Spec => []CodeEarned
<1>1. CartsInv => CodeEarned
  <2> SUFFICES ASSUME CartsInv, NEW r \in Paying, OrderPrice(job[r]).promo > 0
               PROVE  LET c == job[r].code
                      IN  /\ c \notin expired
                          /\ c.minOrder <= Subtotal(job[r].lines)
                          /\ c.usageLimit > 0 => uses[c] < c.usageLimit
    BY DEF CodeEarned
  <2> DEFINE c == job[r].code
             s == Subtotal(job[r].lines)
  <2>1. OrderPrice(job[r]).promo
          = PromoDiscount(Applied(c, s), s - TierDiscount(s, ActiveTier(Tiers, s)))
    BY DEF OrderPrice, Price, Breakdown
  <2>2. Applied(c, s) # NoCode
    BY <2>1 DEF PromoDiscount, NoCode
  <2>3. Usable(c, s, uses[c], c \in expired)
    BY <2>2 DEF Applied
  <2> QED
    BY <2>3 DEF Usable
<1> QED
  BY <1>1, CartsInvariant, PTL

\* What the cart page says is what an order for the same lines costs, and its
\* delivery: nothing is charged that was not shown (cart and checkout price with
\* the one PricingService).
THEOREM QuotesAreKept ==
    ASSUME CodesWithinWhole, IsFiniteSet(Products)
    PROVE  Spec => []QuoteKept
<1>1. CartsInv => QuoteKept
  <2> SUFFICES ASSUME CartsInv, NEW r \in Paying, job[r].lines = line, job[r].code = code
               PROVE  OrderPrice(job[r]).total = CartPrice.total + job[r].delivery
    BY DEF QuoteKept
  <2> DEFINE d == job[r].delivery
             shown == Price(line, code, 0)
             charged == Price(line, code, d)
  <2>1. line \in [Products -> Line] /\ code \in AnyCode /\ d \in Nat
    BY JobKinds DEF Paying, CartsInv, CartsType, Ordering
  <2>2. OrderPrice(job[r]) = charged /\ CartPrice = shown
    BY DEF OrderPrice, CartPrice
  <2>3. /\ charged.subtotal = Subtotal(line) /\ shown.subtotal = Subtotal(line)
        /\ charged.delivery = d /\ shown.delivery = 0
        /\ charged.total = charged.subtotal - charged.tier - charged.promo + charged.delivery
        /\ shown.total = shown.subtotal - shown.tier - shown.promo + shown.delivery
        /\ charged.tier \in Nat /\ charged.promo \in Nat
    <3> HIDE DEF charged, shown
    <3>1. 0 \in Nat
      OBVIOUS
    <3> QED
      BY <2>1, <3>1, PriceIsSound DEF charged, shown
  <2>4. charged.tier = shown.tier /\ charged.promo = shown.promo
    BY DEF Price, Breakdown
  <2>5. Subtotal(line) \in Nat
    BY <2>1, SubtotalIsNat
  <2> HIDE DEF charged, shown, d
  <2>6. charged.total = shown.total + d
    BY <2>1, <2>3, <2>4, <2>5
  <2> QED
    BY <2>2, <2>6 DEF d
<1> QED
  BY <1>1, CartsInvariant, PTL

-----------------------------------------------------------------------------
(* Lines.                                                                  *)

\* A step that gives an addition's row away, or ends another request, does not end
\* the addition.
LEMMA LostGoesOn ==
    ASSUME NEW jobs, NEW S, NEW r \in Requests, jobs[r].pc = "adding"
    PROVE  Lost(jobs, S)[r] # Idle
<1>1. Lost(jobs, S)[r].pc = "adding"
  BY DEF Lost
<1> QED
  BY <1>1 DEF Idle

\* A line that was removed, cleared or ordered since an addition read it stays
\* away: the addition updates its row or fails (save(update_fields) of add_item).
THEOREM AdditionsLetGo == Spec => RemovedStaysRemoved
<1> DEFINE Stays(r) == job[r].pc = "adding" /\ job[r].lost /\ job'[r] = Idle
                           => line'[job[r].product] = line[job[r].product]
<1>1. CartsInv /\ [Next]_vars => [\A r \in Requests : Stays(r)]_vars
  <2> SUFFICES ASSUME CartsInv, Next, NEW r \in Requests, job[r].pc = "adding", job[r].lost,
                      job'[r] = Idle
               PROVE  line'[job[r].product] = line[job[r].product]
    OBVIOUS
  <2>1. job[r] # Idle /\ job[r].seen > 0 /\ job[r].seen # 0
        /\ job \in [Requests -> {Idle} \cup Adding \cup Applying \cup Ordering]
    <3>1. job[r] \in Adding /\ job[r].seen > 0 /\ job[r] # Idle
      BY JobKinds DEF CartsInv, CartsType, LostWasSeen, Idle
    <3> QED
      BY <3>1 DEF CartsInv, CartsType, Adding
  <2>2. ASSUME NEW q \in Requests, AddWrite(q) PROVE line' = line
    <3>1. q = r
      BY <2>1, <2>2 DEF AddWrite, Finish
    <3> QED
      BY <2>1, <2>2, <3>1 DEF AddWrite
  <2>3. ASSUME NEW q \in Requests, PaySave(q) PROVE FALSE
    <3>1. q # r /\ job' = Lost([job EXCEPT ![q] = Idle], InCart(line))
      BY <2>3 DEF PaySave
    <3>2. [job EXCEPT ![q] = Idle][r].pc = "adding"
      BY <2>1, <3>1
    <3> QED
      BY <3>1, <3>2, LostGoesOn
  <2>4. ASSUME NEW p \in Products, Remove(p) PROVE FALSE
    BY <2>4, LostGoesOn DEF Remove
  <2>5. ASSUME Clear PROVE FALSE
    BY <2>5, LostGoesOn DEF Clear
  <2>6. ASSUME NEW p \in Products, SetQuantity(p) PROVE FALSE
    BY <2>1, <2>6 DEF SetQuantity
  <2> QED
    BY <2>2, <2>3, <2>4, <2>5, <2>6
       DEF Next, AddRead, ApplyRead, ApplySave, PayRead, GiveUp, RemoveCode, Reprice, Expire
<1> QED
  BY <1>1, CartsInvariant, PTL DEF Spec, RemovedStaysRemoved

================================================================================
