----------------------------- MODULE PricingProofs -----------------------------
(***************************************************************************)
(* What PricingService guarantees for every subtotal, tier, code and       *)
(* delivery cost.                                                          *)
(***************************************************************************)
EXTENDS Pricing, FiniteSetTheorems, Functions, TLAPS

\* Integer division, as far as the provers need to be told.
LEMMA Division ==
    ASSUME NEW n \in Nat, NEW d \in Nat \ {0}
    PROVE  /\ n \div d \in Nat
           /\ d * (n \div d) <= n
           /\ n < d * (n \div d) + d
  BY SMT

LEMMA ProductMonotone ==
    ASSUME NEW a \in Nat, NEW b \in Nat, NEW c \in Nat, a <= b
    PROVE  a * c <= b * c /\ c * a <= c * b /\ a * c \in Nat
  BY SMT

\* money rounds to the nearest cent: no whole cent is lost or gained.
LEMMA MoneyIsNearest ==
    ASSUME NEW n \in Nat, NEW d \in Nat \ {0}
    PROVE  /\ Money(n, d) \in Nat
           /\ 2 * (d * Money(n, d)) <= 2 * n + d
           /\ 2 * n < 2 * (d * Money(n, d)) + d
<1> DEFINE m == Money(n, d)
<1>1. 2 * n + d \in Nat /\ 2 * d \in Nat \ {0}
  OBVIOUS
<1>2. /\ m \in Nat
      /\ (2 * d) * m <= 2 * n + d
      /\ 2 * n + d < (2 * d) * m + 2 * d
  BY <1>1, Division DEF Money
<1>3. (2 * d) * m = 2 * (d * m)
  BY <1>2, SMT
<1>4. d * m \in Nat
  BY <1>2, ProductMonotone
<1> QED
  BY <1>2, <1>3, <1>4

\* A share of an amount, of no more than the whole, is no more than the amount.
LEMMA ShareWithin ==
    ASSUME NEW base \in Nat, NEW part \in Nat, NEW whole \in Nat \ {0}, part <= whole
    PROVE  Money(base * part, whole) \in 0 .. base
<1> DEFINE m == Money(base * part, whole)
<1>1. base * part \in Nat /\ base * part <= base * whole
  BY ProductMonotone
<1>2. m \in Nat /\ 2 * (whole * m) <= 2 * (base * part) + whole
  BY <1>1, MoneyIsNearest
<1>3. base * whole = whole * base /\ whole * base \in Nat /\ whole * m \in Nat
  BY <1>2, SMT
<1>4. 2 * (whole * m) <= 2 * (whole * base) + whole
  BY <1>1, <1>2, <1>3
<1>5. SUFFICES ASSUME m > base PROVE FALSE
  BY <1>2
<1>6. whole * (base + 1) <= whole * m
  BY <1>2, <1>5, ProductMonotone
<1>7. whole * (base + 1) = whole * base + whole
  BY SMT
<1> QED
  BY <1>3, <1>4, <1>6, <1>7

\* The codes whose discount is no more than what it is taken from.
WithinWhole(code) ==
    /\ code.type \in {"none", "percent", "fixed"}
    /\ code.value \in Nat
    /\ code.type = "percent" => code.value <= 10000

LEMMA CodeWithin ==
    ASSUME NEW base \in Nat, NEW code, WithinWhole(code)
    PROVE  PromoDiscount(code, base) \in 0 .. base
<1>1. CASE code.type = "none"
  BY <1>1 DEF PromoDiscount
<1>2. CASE code.type = "percent"
  BY <1>2, ShareWithin DEF PromoDiscount, WithinWhole
<1>3. CASE code.type = "fixed"
  BY <1>3 DEF PromoDiscount, WithinWhole, Smaller
<1> QED
  BY <1>1, <1>2, <1>3 DEF WithinWhole

\* "the two mechanics cannot combine into more than 100% off. Delivery cost is
\* added last and is never discounted" (discounts/services.py:11-13), for the
\* codes that take no more than 100% themselves: the lines of every breakdown
\* add up, its discounts stay within the subtotal, its delivery is paid in full.
THEOREM DiscountsStayWithin ==
    ASSUME NEW subtotal \in Nat, NEW delivery \in Nat,
           NEW tier, tier.percent \in 0 .. 100,
           NEW code, WithinWhole(code)
    PROVE  LET b == Breakdown(subtotal, tier, code, delivery)
           IN  /\ b.tier \in Nat /\ b.promo \in Nat
               /\ b.tier + b.promo <= b.subtotal
               /\ b.total = b.subtotal - b.tier - b.promo + b.delivery
               /\ b.total >= b.delivery
<1> DEFINE t == TierDiscount(subtotal, tier)
           p == PromoDiscount(code, subtotal - t)
<1>1. t \in 0 .. subtotal
  <2> tier.percent \in Nat /\ tier.percent <= 100 /\ 100 \in Nat \ {0}
    OBVIOUS
  <2> Money(subtotal * tier.percent, 100) \in 0 .. subtotal
    BY ShareWithin
  <2> QED
    BY DEF TierDiscount
<1>2. subtotal - t \in Nat
  BY <1>1
<1>3. p \in 0 .. subtotal - t
  BY <1>2, CodeWithin
<1>4. Larger(subtotal - t - p + delivery, 0) = subtotal - t - p + delivery
  BY <1>1, <1>3 DEF Larger
<1> HIDE DEF t, p
<1>5. /\ t \in Nat /\ p \in Nat /\ t + p <= subtotal
      /\ subtotal - t - p + delivery >= delivery
  BY <1>1, <1>3
<1> QED
  BY <1>4, <1>5 DEF Breakdown, t, p

\* What is left after a share is taken grows with the amount, rounding included.
LEMMA RestMonotone ==
    ASSUME NEW a \in Nat, NEW b \in Nat, a <= b,
           NEW part \in Nat, NEW whole \in Nat \ {0}, part <= whole
    PROVE  a - Money(a * part, whole) <= b - Money(b * part, whole)
<1> DEFINE m == Money(a * part, whole)
           n == Money(b * part, whole)
           k == b - a
<1>1. k \in Nat /\ a * part \in Nat /\ b * part \in Nat
  BY ProductMonotone
<1>2. /\ m \in Nat /\ 2 * (a * part) < 2 * (whole * m) + whole
      /\ n \in Nat /\ 2 * (whole * n) <= 2 * (b * part) + whole
  BY <1>1, MoneyIsNearest
<1>3. k * part <= k * whole /\ k * part \in Nat /\ k * whole \in Nat
  BY <1>1, ProductMonotone
<1>4. b * part = a * part + k * part
  BY <1>1, SMT
<1> SUFFICES ASSUME n > m + k PROVE FALSE
  BY <1>1, <1>2
<1> HIDE DEF m, n, k
<1>5. m + k + 1 \in Nat /\ m + k + 1 <= n
  BY <1>1, <1>2
<1>6. whole * (m + k + 1) <= whole * n
  BY <1>2, <1>5, ProductMonotone
<1>7. whole * (m + k + 1) = whole * m + k * whole + whole
  BY <1>1, <1>2, SMT
<1>8. whole * m \in Nat /\ whole * n \in Nat
  BY <1>2, ProductMonotone
<1> QED
  BY <1>1, <1>2, <1>3, <1>4, <1>6, <1>7, <1>8

\* Within one tier and with the same code, a larger subtotal never costs less:
\* rounding half up twice does not undo it.
THEOREM LargerCostsNoLess ==
    ASSUME NEW a \in Nat, NEW b \in Nat, a <= b, NEW delivery \in Nat,
           NEW tier, tier.percent \in 0 .. 100,
           NEW code, WithinWhole(code)
    PROVE  Breakdown(a, tier, code, delivery).total
             <= Breakdown(b, tier, code, delivery).total
<1> DEFINE Rest(s) == s - TierDiscount(s, tier)
           Due(r) == r - PromoDiscount(code, r)
<1>1. ASSUME NEW s \in Nat PROVE Rest(s) \in Nat
  <2> tier.percent \in Nat /\ tier.percent <= 100 /\ 100 \in Nat \ {0}
    OBVIOUS
  <2> Money(s * tier.percent, 100) \in 0 .. s
    BY ShareWithin
  <2> QED
    BY DEF TierDiscount
<1>2. Rest(a) <= Rest(b)
  <2> tier.percent \in Nat /\ tier.percent <= 100 /\ 100 \in Nat \ {0}
    OBVIOUS
  <2> QED
    BY RestMonotone DEF TierDiscount
<1>3. ASSUME NEW r \in Nat, NEW s \in Nat, r <= s PROVE Due(r) <= Due(s)
  <2>1. CASE code.type = "none"
    BY <1>3, <2>1 DEF PromoDiscount
  <2>2. CASE code.type = "percent"
    <3> DEFINE v == code.value
    <3>1. v \in Nat /\ v <= 10000 /\ 10000 \in Nat \ {0}
      BY <2>2 DEF WithinWhole
    <3>3. PromoDiscount(code, r) = Money(r * v, 10000)
          /\ PromoDiscount(code, s) = Money(s * v, 10000)
      BY <2>2 DEF PromoDiscount
    <3> HIDE DEF v
    <3>2. r - Money(r * v, 10000) <= s - Money(s * v, 10000)
      BY <1>3, <3>1, RestMonotone
    <3> QED
      BY <3>2, <3>3
  <2>3. CASE code.type = "fixed"
    BY <1>3, <2>3 DEF PromoDiscount, WithinWhole, Smaller
  <2> QED
    BY <2>1, <2>2, <2>3 DEF WithinWhole
<1>4. ASSUME NEW s \in Nat
      PROVE  Breakdown(s, tier, code, delivery).total = Due(Rest(s)) + delivery
  <2>1. Rest(s) \in Nat
    BY <1>1
  <2>2. PromoDiscount(code, Rest(s)) \in 0 .. Rest(s)
    BY <2>1, CodeWithin
  <2>3. Breakdown(s, tier, code, delivery).total
          = Larger(s - TierDiscount(s, tier) - PromoDiscount(code, Rest(s)) + delivery, 0)
    BY DEF Breakdown
  <2>4. s - TierDiscount(s, tier) = Rest(s)
    OBVIOUS
  <2>5. Due(Rest(s)) = Rest(s) - PromoDiscount(code, Rest(s))
    OBVIOUS
  <2> HIDE DEF Rest, Due
  <2>6. Rest(s) - PromoDiscount(code, Rest(s)) + delivery \in Nat
    BY <2>1, <2>2
  <2>7. Larger(Rest(s) - PromoDiscount(code, Rest(s)) + delivery, 0)
          = Rest(s) - PromoDiscount(code, Rest(s)) + delivery
    BY <2>6 DEF Larger
  <2> QED
    BY <2>3, <2>4, <2>5, <2>7
<1>5. Rest(a) \in Nat /\ Rest(b) \in Nat
  BY <1>1
<1>6. Due(Rest(a)) <= Due(Rest(b))
  BY <1>2, <1>3, <1>5
<1>7. Due(Rest(a)) \in Int /\ Due(Rest(b)) \in Int
  BY <1>5, CodeWithin
<1> HIDE DEF Due, Rest
<1> QED
  BY <1>4, <1>6, <1>7

(***************************************************************************)
(* Sums over a finite set: of a cart's lines, and of the units that orders *)
(* hold.  The library defines them by recursion on the set; what follows   *)
(* is all that the proofs need to know of it.                              *)
(***************************************************************************)
\* A function that gives each subset of S the sum of its weights w.
Additive(g, w, S) ==
    /\ g \in [SUBSET S -> Nat]
    /\ g[{}] = 0
    /\ \A T \in SUBSET S : \A x \in T : g[T] = w[x] + g[T \ {x}]

\* There is one, by induction on S: a smallest subset without one would have an
\* element, and the rest of it has one, from which to build it.
LEMMA AdditiveExists ==
    ASSUME NEW S, IsFiniteSet(S), NEW w \in [S -> Nat]
    PROVE  \E g : Additive(g, w, S)
<1> DEFINE Bad == {T \in FiniteSubsetsOf(S) : ~ \E g : Additive(g, w, T)}
<1> SUFFICES Bad = {}
  <2>1. S \in FiniteSubsetsOf(S)  BY DEF FiniteSubsetsOf
  <2>2. QED BY <2>1
<1> SUFFICES ASSUME Bad # {} PROVE FALSE
  OBVIOUS
<1>1. IsWellFoundedOn(StrictSubsetOrdering(S), FiniteSubsetsOf(S))
  BY FS_StrictSubsetOrderingWellFounded
<1>2. PICK T \in Bad : \A U \in Bad : <<U, T>> \notin StrictSubsetOrdering(S)
  <2>1. Bad \subseteq FiniteSubsetsOf(S)  OBVIOUS
  <2> HIDE DEF Bad
  <2>2. QED BY <1>1, <2>1, WFMin
<1>3. T \subseteq S /\ IsFiniteSet(T)
  BY DEF FiniteSubsetsOf
<1>4. T # {}
  <2> SUFFICES ASSUME T = {} PROVE \E g : Additive(g, w, T)
    OBVIOUS
  <2> DEFINE z == [V \in SUBSET T |-> 0]
  <2>1. Additive(z, w, T)  BY DEF Additive
  <2>2. QED BY <2>1
<1>5. PICK x \in T : TRUE
  BY <1>4
<1> DEFINE U == T \ {x}
<1>6. U \notin Bad
  <2>1. <<U, T>> \in StrictSubsetOrdering(S)
    BY <1>3 DEF StrictSubsetOrdering
  <2>2. QED BY <1>2, <2>1
<1>7. PICK g : Additive(g, w, U)
  <2>1. U \in FiniteSubsetsOf(S)
    BY <1>3, FS_Subset DEF FiniteSubsetsOf
  <2>2. QED BY <1>6, <2>1
<1> DEFINE h == [V \in SUBSET T |-> IF x \in V THEN w[x] + g[V \ {x}] ELSE g[V]]
<1>8. Additive(h, w, T)
  <2>0. w \in [S -> Nat] /\ x \in S /\ \A y \in T : w[y] \in Nat
    BY <1>3
  <2>1. \A V \in SUBSET T : V \ {x} \in SUBSET U /\ (x \notin V => V \in SUBSET U)
    OBVIOUS
  <2>2. h \in [SUBSET T -> Nat]
    BY <2>0, <2>1, <1>7 DEF Additive
  <2>3. h[{}] = 0
    BY <1>7 DEF Additive
  <2>4. ASSUME NEW V \in SUBSET T, NEW y \in V
        PROVE  h[V] = w[y] + h[V \ {y}]
    <3>0. V \ {y} \in SUBSET T  OBVIOUS
    <3>1. CASE y = x
      <4>1. h[V] = w[x] + g[V \ {x}]  BY <3>1
      <4>2. h[V \ {y}] = g[V \ {x}]  BY <3>0, <3>1
      <4>3. QED BY <4>1, <4>2, <3>1
    <3>2. CASE y # x /\ x \in V
      <4>1. h[V] = w[x] + g[V \ {x}]  BY <3>2
      <4>2. h[V \ {y}] = w[x] + g[(V \ {x}) \ {y}]
        <5>1. (V \ {y}) \ {x} = (V \ {x}) \ {y} /\ x \in V \ {y}  BY <3>2
        <5>2. QED BY <5>1, <3>0
      <4>3. g[V \ {x}] = w[y] + g[(V \ {x}) \ {y}]
        BY <2>1, <3>2, <1>7 DEF Additive
      <4>4. g[(V \ {x}) \ {y}] \in Nat
        BY <2>1, <1>7 DEF Additive
      <4> HIDE DEF h
      <4>5. QED BY <4>1, <4>2, <4>3, <4>4, <2>0
    <3>3. CASE x \notin V
      <4>1. h[V] = g[V] /\ h[V \ {y}] = g[V \ {y}]  BY <3>3, <3>0
      <4>2. g[V] = w[y] + g[V \ {y}]
        BY <2>1, <3>3, <1>7 DEF Additive
      <4>3. QED BY <4>1, <4>2
    <3>4. QED BY <3>1, <3>2, <3>3
  <2> HIDE DEF h
  <2>5. QED BY <2>2, <2>3, <2>4 DEF Additive
<1>9. QED BY <1>8

\* The library's sum, which takes the elements in an order of its own choosing,
\* is that function: by the same induction, on a set where the two differ.
LEMMA SumIsAdditive ==
    ASSUME NEW S, IsFiniteSet(S), NEW w \in [S -> Nat], NEW g, Additive(g, w, S)
    PROVE  SumFunction(w) = g[S]
<1> DEFINE Eq(f) == f = [s \in SUBSET S |-> IF s = {} THEN 0
                          ELSE w[CHOOSE x \in s : TRUE] + f[s \ {CHOOSE x \in s : TRUE}]]
<1> DEFINE f == CHOOSE f : Eq(f)
<1>1. SumFunction(w) = f[S]
  BY DEF SumFunction, SumFunctionOnSet, FoldFunctionOnSet, MapThenFoldSet
<1>2. Eq(g)
  <2>1. g = [s \in SUBSET S |-> g[s]]  BY DEF Additive
  <2>2. ASSUME NEW s \in SUBSET S
        PROVE  g[s] = IF s = {} THEN 0
                          ELSE w[CHOOSE x \in s : TRUE] + g[s \ {CHOOSE x \in s : TRUE}]
    <3>1. s # {} => (CHOOSE x \in s : TRUE) \in s  OBVIOUS
    <3>2. QED BY <3>1 DEF Additive
  <2>3. QED BY <2>1, <2>2
<1>3. Eq(f)
  <2> HIDE DEF Eq
  <2>1. QED BY <1>2
<1> HIDE DEF f
<1> DEFINE Bad == {T \in FiniteSubsetsOf(S) : f[T] # g[T]}
<1> SUFFICES Bad = {}
  <2>1. S \in FiniteSubsetsOf(S)  BY DEF FiniteSubsetsOf
  <2>2. QED BY <2>1, <1>1
<1> SUFFICES ASSUME Bad # {} PROVE FALSE
  OBVIOUS
<1>4. IsWellFoundedOn(StrictSubsetOrdering(S), FiniteSubsetsOf(S))
  BY FS_StrictSubsetOrderingWellFounded
<1>5. PICK T \in Bad : \A U \in Bad : <<U, T>> \notin StrictSubsetOrdering(S)
  <2>1. Bad \subseteq FiniteSubsetsOf(S)  OBVIOUS
  <2> HIDE DEF Bad, Eq
  <2>2. QED BY <1>4, <2>1, WFMin
<1>6. T \subseteq S /\ IsFiniteSet(T)
  BY DEF FiniteSubsetsOf
<1> DEFINE x == CHOOSE x \in T : TRUE
<1>7. T # {}
  <2>1. f[{}] = 0  BY <1>3
  <2>2. QED BY <2>1 DEF Additive
<1>8. x \in T  BY <1>7
<1>9. f[T] = w[x] + f[T \ {x}]
  BY <1>3, <1>6, <1>7
<1>10. g[T] = w[x] + g[T \ {x}]
  <2> HIDE DEF x
  <2>1. QED BY <1>6, <1>8 DEF Additive
<1>11. T \ {x} \in Bad
  <2> HIDE DEF x
  <2>1. T \ {x} \in FiniteSubsetsOf(S)
    BY <1>6, FS_Subset DEF FiniteSubsetsOf
  <2>2. f[T] # g[T]  OBVIOUS
  <2>3. f[T \ {x}] # g[T \ {x}]  BY <2>2, <1>9, <1>10
  <2>4. QED BY <2>1, <2>3
<1>12. <<T \ {x}, T>> \in StrictSubsetOrdering(S)
  <2> HIDE DEF x
  <2>1. QED BY <1>6, <1>8 DEF StrictSubsetOrdering
<1>13. QED BY <1>5, <1>11, <1>12

\* A sum is one of its terms and the sum of the others.
LEMMA SumSplit ==
    ASSUME NEW S, IsFiniteSet(S), NEW w \in [S -> Nat], NEW x \in S
    PROVE  /\ SumFunction([y \in S \ {x} |-> w[y]]) \in Nat
           /\ SumFunction(w) = w[x] + SumFunction([y \in S \ {x} |-> w[y]])
<1> DEFINE R == S \ {x}
           v == [y \in R |-> w[y]]
<1>1. PICK g : Additive(g, w, S)
  BY AdditiveExists
<1> DEFINE h == [T \in SUBSET R |-> g[T]]
<1>2. Additive(h, v, R)
  <2>1. h \in [SUBSET R -> Nat] /\ h[{}] = 0
    BY <1>1 DEF Additive
  <2>2. ASSUME NEW T \in SUBSET R, NEW y \in T
        PROVE  h[T] = v[y] + h[T \ {y}]
    <3>1. T \in SUBSET S /\ T \ {y} \in SUBSET R
      OBVIOUS
    <3>2. QED
      BY <1>1, <3>1 DEF Additive
  <2> HIDE DEF h, v
  <2>3. QED
    BY <2>1, <2>2 DEF Additive
<1>3. IsFiniteSet(R) /\ v \in [R -> Nat]
  BY FS_RemoveElement
<1>4. SumFunction(v) = h[R] /\ SumFunction(w) = g[S]
  <2> HIDE DEF h, v, R
  <2>1. QED
    BY <1>1, <1>2, <1>3, SumIsAdditive
<1>5. g[S] = w[x] + g[R] /\ g[R] \in Nat /\ h[R] = g[R]
  BY <1>1 DEF Additive
<1>6. QED
  BY <1>4, <1>5

LEMMA SumIsNat ==
    ASSUME NEW S, IsFiniteSet(S), NEW w \in [S -> Nat]
    PROVE  SumFunction(w) \in Nat
<1>1. PICK g : Additive(g, w, S)
  BY AdditiveExists
<1>2. SumFunction(w) = g[S]
  BY <1>1, SumIsAdditive
<1>3. QED
  BY <1>1, <1>2 DEF Additive

\* When one term changes, the sum changes by as much.
LEMMA SumChange ==
    ASSUME NEW S, IsFiniteSet(S), NEW v \in [S -> Nat], NEW w \in [S -> Nat],
           NEW x \in S, \A y \in S \ {x} : v[y] = w[y]
    PROVE  SumFunction(v) + w[x] = SumFunction(w) + v[x]
<1> DEFINE rest == SumFunction([y \in S \ {x} |-> w[y]])
<1>1. [y \in S \ {x} |-> v[y]] = [y \in S \ {x} |-> w[y]]
  OBVIOUS
<1>2. /\ SumFunction(w) = w[x] + rest /\ rest \in Nat
      /\ SumFunction(v) = v[x] + rest
  BY <1>1, SumSplit
<1> HIDE DEF rest
<1>3. QED
  BY <1>2

\* A sum of greater terms is no less: no smallest set has it otherwise.
LEMMA SumGrows ==
    ASSUME NEW S, IsFiniteSet(S), NEW v \in [S -> Nat], NEW w \in [S -> Nat],
           \A x \in S : v[x] <= w[x]
    PROVE  SumFunction(v) <= SumFunction(w)
<1>1. PICK g : Additive(g, v, S)
  BY AdditiveExists
<1>2. PICK h : Additive(h, w, S)
  BY AdditiveExists
<1>3. SumFunction(v) = g[S] /\ SumFunction(w) = h[S]
  BY <1>1, <1>2, SumIsAdditive
<1> DEFINE Bad == {T \in FiniteSubsetsOf(S) : ~(g[T] <= h[T])}
<1> SUFFICES Bad = {}
  <2>1. S \in FiniteSubsetsOf(S)
    BY DEF FiniteSubsetsOf
  <2>2. g[S] <= h[S]
    BY <2>1
  <2>3. QED
    BY <1>3, <2>2
<1> SUFFICES ASSUME Bad # {} PROVE FALSE
  OBVIOUS
<1>4. IsWellFoundedOn(StrictSubsetOrdering(S), FiniteSubsetsOf(S))
  BY FS_StrictSubsetOrderingWellFounded
<1>5. PICK T \in Bad : \A U \in Bad : <<U, T>> \notin StrictSubsetOrdering(S)
  <2>1. Bad \subseteq FiniteSubsetsOf(S)
    OBVIOUS
  <2> HIDE DEF Bad
  <2>2. QED
    BY <1>4, <2>1, WFMin
<1>6. T \subseteq S /\ IsFiniteSet(T) /\ ~(g[T] <= h[T])
  BY DEF FiniteSubsetsOf
<1>7. T # {}
  <2>1. g[{}] = 0 /\ h[{}] = 0
    BY <1>1, <1>2 DEF Additive
  <2>2. g[{}] <= h[{}]
    BY <2>1
  <2> QED
    BY <1>6, <2>2
<1>8. PICK x : x \in T
  BY <1>7
<1>9. /\ g[T] = v[x] + g[T \ {x}] /\ g[T \ {x}] \in Nat
      /\ h[T] = w[x] + h[T \ {x}] /\ h[T \ {x}] \in Nat
  BY <1>1, <1>2, <1>6, <1>8 DEF Additive
<1>10. v[x] \in Nat /\ w[x] \in Nat /\ v[x] <= w[x]
  BY <1>6, <1>8
<1>11. ~(g[T \ {x}] <= h[T \ {x}])
  BY <1>6, <1>9, <1>10
<1>12. T \ {x} \in Bad
  BY <1>6, <1>11, FS_Subset DEF FiniteSubsetsOf
<1>13. <<T \ {x}, T>> \in StrictSubsetOrdering(S)
  BY <1>6, <1>8 DEF StrictSubsetOrdering
<1>14. QED
  BY <1>5, <1>12, <1>13

\* The members of H among S weigh w together; one more adds its own weight.
WeightOf(H, w, S) == SumFunction([y \in S |-> IF y \in H THEN w[y] ELSE 0])

LEMMA WeightMoves ==
    ASSUME NEW S, IsFiniteSet(S), NEW w \in [S -> Nat], NEW H
    PROVE  /\ WeightOf(H, w, S) \in Nat
           /\ \A x \in S \ H : WeightOf(H \cup {x}, w, S) = WeightOf(H, w, S) + w[x]
           /\ \A x \in S \cap H : WeightOf(H \ {x}, w, S) + w[x] = WeightOf(H, w, S)
<1> DEFINE v == [y \in S |-> IF y \in H THEN w[y] ELSE 0]
<1>1. v \in [S -> Nat] /\ WeightOf(H, w, S) = SumFunction(v)
  BY DEF WeightOf
<1>2. \A y \in S : v[y] = IF y \in H THEN w[y] ELSE 0
  OBVIOUS
<1> HIDE DEF v
<1>3. SumFunction(v) \in Nat
  BY <1>1, SumIsNat
<1>4. ASSUME NEW x \in S, NEW K, \A y \in S \ {x} : y \in K <=> y \in H
      PROVE  WeightOf(K, w, S) + v[x]
             = WeightOf(H, w, S) + (IF x \in K THEN w[x] ELSE 0)
  <2> DEFINE u == [y \in S |-> IF y \in K THEN w[y] ELSE 0]
  <2>1. u \in [S -> Nat] /\ WeightOf(K, w, S) = SumFunction(u)
    BY DEF WeightOf
  <2>2. \A y \in S : u[y] = IF y \in K THEN w[y] ELSE 0
    OBVIOUS
  <2> HIDE DEF u
  <2>3. \A y \in S \ {x} : u[y] = v[y]
    BY <1>2, <1>4, <2>2
  <2>4. SumFunction(u) + v[x] = SumFunction(v) + u[x]
    BY <1>1, <2>1, <2>3, SumChange
  <2> QED
    BY <1>1, <2>1, <2>2, <2>4
<1>5. ASSUME NEW x \in S \ H
      PROVE  WeightOf(H \cup {x}, w, S) = WeightOf(H, w, S) + w[x]
  <2> DEFINE K == H \cup {x}
  <2>1. x \in K /\ v[x] = 0 /\ \A y \in S \ {x} : y \in K <=> y \in H
    BY <1>2
  <2>2. K = H \cup {x}
    OBVIOUS
  <2> HIDE DEF K
  <2>3. WeightOf(K, w, S) + 0 = WeightOf(H, w, S) + w[x]
    BY <1>4, <2>1
  <2>4. WeightOf(K, w, S) \in Nat
    <3> DEFINE u == [y \in S |-> IF y \in K THEN w[y] ELSE 0]
    <3>1. u \in [S -> Nat]
      OBVIOUS
    <3> HIDE DEF u
    <3>2. SumFunction(u) \in Nat
      BY <3>1, SumIsNat
    <3> QED
      BY <3>2 DEF u, WeightOf
  <2> QED
    BY <2>2, <2>3, <2>4
<1>6. ASSUME NEW x \in S \cap H
      PROVE  WeightOf(H \ {x}, w, S) + w[x] = WeightOf(H, w, S)
  <2> DEFINE K == H \ {x}
  <2>1. x \notin K /\ v[x] = w[x] /\ \A y \in S \ {x} : y \in K <=> y \in H
    BY <1>2
  <2> HIDE DEF K
  <2>2. WeightOf(K, w, S) + w[x] = WeightOf(H, w, S) + 0
    BY <1>4, <2>1
  <2> QED
    BY <1>1, <1>3, <2>2 DEF K
<1> QED
  BY <1>1, <1>3, <1>5, <1>6

\* Of nobody, nothing.
LEMMA EmptyWeight ==
    ASSUME NEW S, IsFiniteSet(S), NEW w \in [S -> Nat]
    PROVE  WeightOf({}, w, S) = 0
<1> DEFINE v == [y \in S |-> 0]
           g == [T \in SUBSET S |-> 0]
<1>1. v \in [S -> Nat] /\ g \in [SUBSET S -> Nat] /\ g[{}] = 0 /\ g[S] = 0
  OBVIOUS
<1>2. Additive(g, v, S)
  <2>1. ASSUME NEW T \in SUBSET S, NEW x \in T
        PROVE  g[T] = 0 /\ v[x] = 0 /\ g[T \ {x}] = 0
    OBVIOUS
  <2> HIDE DEF g, v
  <2>2. QED
    BY <1>1, <2>1 DEF Additive
<1>3. WeightOf({}, w, S) = SumFunction(v)
  BY DEF WeightOf
<1> HIDE DEF g, v
<1>4. QED
  BY <1>1, <1>2, <1>3, SumIsAdditive

(***************************************************************************)
(* The tier of a subtotal.                                                 *)
(***************************************************************************)
\* A set of naturals has a smallest.
LEMMA Smallest ==
    ASSUME NEW S, S \subseteq Nat, S # {}
    PROVE  \E n \in S : \A m \in S : n <= m
<1>1. PICK n \in S : \A m \in S : <<m, n>> \notin OpToRel(<, Nat)
  BY NatLessThanWellFounded, WFMin
<1>2. \A m \in S : ~(m < n)
  BY <1>1 DEF OpToRel
<1> QED
  BY <1>2

\* The tier of a subtotal is one that it reaches, and none that it reaches has a
\* higher threshold; whatever the tiers, as their thresholds are bounded by it.
LEMMA TierReached ==
    ASSUME NEW tiers, \A t \in tiers : t.threshold \in Nat, NEW subtotal \in Nat
    PROVE  LET tier == ActiveTier(tiers, subtotal)
               reached == {t \in tiers : t.threshold <= subtotal}
           IN  IF reached = {} THEN tier = NoTier
               ELSE tier \in reached /\ \A u \in reached : u.threshold <= tier.threshold
<1> DEFINE reached == {t \in tiers : t.threshold <= subtotal}
           short == {subtotal - t.threshold : t \in reached}
<1>1. CASE reached = {}
  BY <1>1 DEF ActiveTier
<1>2. CASE reached # {}
  <2>1. short \subseteq Nat /\ short # {}
    <3>1. \A t \in reached : t.threshold \in Nat /\ t.threshold <= subtotal
      OBVIOUS
    <3> HIDE DEF reached
    <3> QED
      BY <1>2, <3>1
  <2>2. PICK t \in reached : \A u \in reached : subtotal - t.threshold <= subtotal - u.threshold
    <3> HIDE DEF short
    <3>1. PICK n \in short : \A m \in short : n <= m
      BY <2>1, Smallest
    <3>2. PICK t \in reached : n = subtotal - t.threshold
      BY DEF short
    <3>3. \A u \in reached : subtotal - u.threshold \in short
      BY DEF short
    <3> QED
      BY <3>1, <3>2, <3>3
  <2>3. \A u \in reached : u.threshold <= t.threshold
    BY <2>2
  <2> QED
    BY <1>2, <2>3 DEF ActiveTier
<1> QED
  BY <1>1, <1>2

==============================================================================
