-------------------------------- MODULE Pricing --------------------------------
(***************************************************************************)
(* PricingService: the one place where money is computed. Amounts are      *)
(* integers, in cents; a percentage of a promo code is in hundredths of a  *)
(* percent, as its column has two decimals, that of a tier in percent.     *)
(***************************************************************************)
EXTENDS Integers

\* The nearest cent of the fraction n / d, half a cent going up (n >= 0).
Money(n, d) == (2 * n + d) \div (2 * d)

Larger(m, n) == IF m < n THEN n ELSE m
Smaller(m, n) == IF m < n THEN m ELSE n

------------------------------------------------------------------------------
(* Volume discounts. Of the active tiers a subtotal reaches, the highest.  *)

NoTier == [threshold |-> 0, percent |-> 0]

ActiveTier(tiers, subtotal) ==
    LET reached == {t \in tiers : t.threshold <= subtotal}
    IN  IF reached = {} THEN NoTier
        ELSE CHOOSE t \in reached : \A u \in reached : u.threshold <= t.threshold

TierDiscount(subtotal, tier) == Money(subtotal * tier.percent, 100)

------------------------------------------------------------------------------
(* Promo codes.                                                            *)

NoCode ==
    [type |-> "none", value |-> 0, minOrder |-> 0, usageLimit |-> 0, dated |-> FALSE]

Usable_anySubtotal(code, subtotal, uses, expired) ==
    /\ ~expired
    /\ code.usageLimit = 0 \/ uses < code.usageLimit

Usable(code, subtotal, uses, expired) ==
    /\ ~expired
    /\ code.usageLimit = 0 \/ uses < code.usageLimit
    /\ code.minOrder <= subtotal

PromoDiscount_uncapped(code, base) ==
    CASE code.type = "none"    -> 0
      [] code.type = "percent" -> Money(base * code.value, 10000)
      [] code.type = "fixed"   -> code.value

PromoDiscount(code, base) ==
    CASE code.type = "none"    -> 0
      [] code.type = "percent" -> Money(base * code.value, 10000)
      [] code.type = "fixed"   -> Smaller(code.value, base)

------------------------------------------------------------------------------
(* The breakdown, for a code that was found usable or is NoCode.           *)

Breakdown(subtotal, tier, code, delivery) ==
    LET tierDiscount  == TierDiscount(subtotal, tier)
        promoDiscount == PromoDiscount(code, subtotal - tierDiscount)
    IN  [subtotal |-> subtotal,
         tier     |-> tierDiscount,
         promo    |-> promoDiscount,
         delivery |-> delivery,
         total    |-> Larger(subtotal - tierDiscount - promoDiscount + delivery, 0)]
==============================================================================
