---------------------------- MODULE CheckoutProofs ----------------------------
(***************************************************************************)
(* What the row locks of a checkout guarantee for any requests, products,  *)
(* carts and stock.                                                        *)
(***************************************************************************)
EXTENDS Checkout, PricingProofs, TLAPS

(***************************************************************************)
(* Who waits for what: a request waits for a row its statement needs, and  *)
(* takes the code's row last.                                              *)
(***************************************************************************)

WaitsForItsNeed == \A r \in Requests : want[r] # NoRow => want[r] \in Needs(r)

PromoTakenLast ==
    \A r \in Requests : holder[Promo] = r => pc[r] = "judged" /\ want[r] = NoRow

LEMMA NeedsMeaning ==
    ASSUME NEW r \in Requests
    PROVE  /\ Needs(r) \subseteq Rows
           /\ Needs(r) # {} => pc[r] \in OpenTransaction
           /\ pc[r] = "judged" => Needs(r) \subseteq {Promo}
           /\ Promo \in Needs(r) => pc[r] = "judged"
  BY RowsAssumption DEF Needs, Bought, Rows, OpenTransaction, CheckingOut

(***************************************************************************)
(* The invariant behind the reservation: a request that was judged holds   *)
(* every row it is about to decrement, and what it read of those rows is   *)
(* still true.                                                             *)
(***************************************************************************)

CartsOnlyEmptied == \A c \in Carts : basket[c] \in {Contents[c], NoUnits}

OrdersItsCart ==
    \A r \in Requests :
        pc[r] \notin {"new", "refused"} => items[r] = Contents[CartOf[r]]

JudgedStillTrue ==
    \A r \in Requests : pc[r] = "judged" =>
        \A p \in Products :
            /\ items[r][p] > 0 => holder[p] = r
            /\ items[r][p] <= stock[p]

ShelfInv == TypeOK /\ CartsOnlyEmptied /\ OrdersItsCart /\ JudgedStillTrue

LEMMA ShelfInit == Init => ShelfInv
<1> SUFFICES ASSUME Init PROVE ShelfInv
  OBVIOUS
<1> USE RowsAssumption, NobodyAssumption, CartsAssumption, AmountsAssumption DEF Init
<1>1. TypeOK
  BY DEF TypeOK, Phase, NoUnits, Rows
<1>2. CartsOnlyEmptied /\ OrdersItsCart /\ JudgedStillTrue
  BY DEF CartsOnlyEmptied, OrdersItsCart, JudgedStillTrue
<1> QED
  BY <1>1, <1>2 DEF ShelfInv

\* What a transaction that gives up its rows leaves to the others.
LEMMA UnlockedType ==
    ASSUME TypeOK, NEW r \in Requests
    PROVE  /\ Unlocked(r) \in [Rows -> Requests \cup {Nobody}]
           /\ \A q \in Requests : q # r =>
                 \A w \in Rows : holder[w] = q => Unlocked(r)[w] = q
           /\ \A w \in Rows : Unlocked(r)[w] # r
  BY NobodyAssumption DEF TypeOK, Unlocked

LEMMA ShelfStep == ShelfInv /\ WaitsForItsNeed /\ [Next]_vars => ShelfInv'
<1> SUFFICES ASSUME ShelfInv, WaitsForItsNeed, [Next]_vars PROVE ShelfInv'
  OBVIOUS
<1> USE RowsAssumption, NobodyAssumption, CartsAssumption, AmountsAssumption
<1>typ. TypeOK
  BY DEF ShelfInv
<1>inv. CartsOnlyEmptied /\ OrdersItsCart /\ JudgedStillTrue
  BY DEF ShelfInv
<1>1. ASSUME NEW r \in Requests, Read(r) PROVE ShelfInv'
  <2> CartOf[r] \in Carts
    OBVIOUS
  <2>1. TypeOK'
    BY <1>1, <1>typ DEF Read, TypeOK, Phase, OpenTransaction, CheckingOut
  <2>2. OrdersItsCart'
    BY <1>1, <1>typ, <1>inv DEF Read, OrdersItsCart, CartsOnlyEmptied, TypeOK
  <2>3. CartsOnlyEmptied' /\ JudgedStillTrue'
    BY <1>1, <1>typ, <1>inv DEF Read, CartsOnlyEmptied, JudgedStillTrue, TypeOK
  <2> QED
    BY <2>1, <2>2, <2>3 DEF ShelfInv
<1>2. ASSUME NEW r \in Requests, Ask(r) PROVE ShelfInv'
  <2>1. PICK w \in Needs(r) \ Holds(r) :
          IF holder[w] = Nobody
          THEN holder' = [holder EXCEPT ![w] = r] /\ UNCHANGED want
          ELSE want' = [want EXCEPT ![r] = w] /\ UNCHANGED holder
    BY <1>2 DEF Ask
  <2>2. w \in Rows
    BY <2>1 DEF Needs, Bought, Rows
  <2>3. TypeOK'
    <3>1. holder' \in [Rows -> Requests \cup {Nobody}] /\ want' \in [Requests -> Rows \cup {NoRow}]
      BY <2>1, <2>2, <1>typ DEF TypeOK
    <3> QED
      BY <1>2, <3>1, <1>typ DEF Ask, TypeOK
  <2>4. \A q \in Requests, p \in Products : holder[p] = q => holder'[p] = q
    BY <2>1, <2>2, <1>typ DEF TypeOK, Rows
  <2>5. CartsOnlyEmptied' /\ OrdersItsCart'
    BY <1>2, <1>inv DEF Ask, CartsOnlyEmptied, OrdersItsCart
  <2>6. JudgedStillTrue'
    BY <1>2, <1>inv, <2>4 DEF Ask, JudgedStillTrue
  <2> QED
    BY <2>3, <2>5, <2>6 DEF ShelfInv
<1>3. ASSUME NEW r \in Requests, Granted(r) PROVE ShelfInv'
  <2>1. want[r] \in Rows
    BY <1>3, <1>typ DEF Granted, TypeOK
  <2>2. TypeOK'
    BY <1>3, <2>1, <1>typ DEF Granted, TypeOK
  <2>3. \A q \in Requests, p \in Products : holder[p] = q => holder'[p] = q
    BY <1>3, <2>1, <1>typ DEF Granted, TypeOK, Rows
  <2>4. CartsOnlyEmptied' /\ OrdersItsCart'
    BY <1>3, <1>inv DEF Granted, CartsOnlyEmptied, OrdersItsCart
  <2>5. JudgedStillTrue'
    BY <1>3, <1>inv, <2>3 DEF Granted, JudgedStillTrue
  <2> QED
    BY <2>2, <2>4, <2>5 DEF ShelfInv
<1>4. ASSUME NEW r \in Requests, Judge(r) PROVE ShelfInv'
  <2>1. TypeOK'
    <3>1. pc' \in [Requests -> Phase] /\ carries' \subseteq Requests
      BY <1>4, <1>typ DEF Judge, TypeOK, Phase, OpenTransaction, CheckingOut
    <3>2. holder' \in [Rows -> Requests \cup {Nobody}]
      BY <1>4, <1>typ, UnlockedType DEF Judge, TypeOK
    <3> QED
      BY <1>4, <1>typ, <3>1, <3>2 DEF Judge, TypeOK
  <2>2. CartsOnlyEmptied'
    BY <1>4, <1>inv DEF Judge, CartsOnlyEmptied
  <2>3. OrdersItsCart'
    BY <1>4, <1>inv, <1>typ DEF Judge, OrdersItsCart, TypeOK
  <2>4. ASSUME NEW q \in Requests, pc'[q] = "judged", NEW p \in Products
        PROVE  (items'[q][p] > 0 => holder'[p] = q) /\ items'[q][p] <= stock'[p]
    <3>1. CASE q = r
      <4>1. Covered(r) /\ UNCHANGED holder
        BY <1>4, <1>typ, <2>4, <3>1 DEF Judge, TypeOK
      <4>2. items[r][p] > 0 => holder[p] = r
        BY <1>4 DEF Judge, Ready, Needs, Bought, Holds
      <4> QED
        BY <1>4, <3>1, <4>1, <4>2 DEF Judge, Covered
    <3>2. CASE q # r
      <4>1. pc[q] = "judged"
        BY <1>4, <1>typ, <2>4, <3>2 DEF Judge, TypeOK
      <4>2. items[q][p] > 0 => holder'[p] = q
        BY <1>4, <1>typ, <1>inv, <3>2, <4>1, UnlockedType
           DEF Judge, JudgedStillTrue, Rows
      <4> QED
        BY <1>4, <1>inv, <4>1, <4>2 DEF Judge, JudgedStillTrue
    <3> QED
      BY <3>1, <3>2
  <2> QED
    BY <2>1, <2>2, <2>3, <2>4 DEF ShelfInv, JudgedStillTrue
<1>5. ASSUME NEW r \in Requests, Commit(r) PROVE ShelfInv'
  <2>1. \A p \in Products : items[r][p] <= stock[p] /\ stock'[p] = stock[p] - items[r][p]
    BY <1>5, <1>inv DEF Commit, JudgedStillTrue
  <2>2. TypeOK'
    <3>1. stock' \in [Products -> Nat]
      BY <1>5, <1>typ, <2>1 DEF Commit, TypeOK
    <3>2. basket' \in [Carts -> [Products -> Nat]] /\ coded' \subseteq Carts /\ used' \in Nat
      BY <1>5, <1>typ DEF Commit, TypeOK, NoUnits
    <3>3. pc' \in [Requests -> Phase] /\ holder' \in [Rows -> Requests \cup {Nobody}]
      BY <1>5, <1>typ, UnlockedType DEF Commit, TypeOK, Phase
    <3> QED
      BY <1>5, <1>typ, <3>1, <3>2, <3>3 DEF Commit, TypeOK
  <2>3. CartsOnlyEmptied'
    BY <1>5, <1>typ, <1>inv DEF Commit, CartsOnlyEmptied, TypeOK
  <2>4. OrdersItsCart'
    BY <1>5, <1>inv, <1>typ DEF Commit, OrdersItsCart, TypeOK
  <2>5. ASSUME NEW q \in Requests, pc'[q] = "judged", NEW p \in Products
        PROVE  (items'[q][p] > 0 => holder'[p] = q) /\ items'[q][p] <= stock'[p]
    <3>1. q # r /\ pc[q] = "judged"
      BY <1>5, <1>typ, <2>5 DEF Commit, TypeOK
    <3>2. items[q][p] > 0 => holder[p] = q /\ holder'[p] = q
      BY <1>5, <1>typ, <1>inv, <3>1, UnlockedType DEF Commit, JudgedStillTrue, Rows
    <3>3. items[q][p] > 0 => items[r][p] = 0
      BY <1>5, <1>typ, <1>inv, <3>1, <3>2 DEF Commit, JudgedStillTrue, TypeOK
    <3>4. items[q][p] <= stock[p] /\ items'[q][p] = items[q][p]
      BY <1>5, <1>inv, <3>1 DEF Commit, JudgedStillTrue
    <3>5. items[q][p] \in Nat /\ items[r][p] \in Nat /\ stock[p] \in Nat
      BY <1>typ DEF TypeOK
    <3> QED
      BY <2>1, <3>2, <3>3, <3>4, <3>5
  <2> QED
    BY <2>2, <2>3, <2>4, <2>5 DEF ShelfInv, JudgedStillTrue
<1>6. ASSUME NEW r \in Requests, StartReturn(r) PROVE ShelfInv'
  <2>1. TypeOK'
    BY <1>6, <1>typ DEF StartReturn, TypeOK, Phase, OpenTransaction
  <2>2. CartsOnlyEmptied' /\ OrdersItsCart' /\ JudgedStillTrue'
    BY <1>6, <1>typ, <1>inv
       DEF StartReturn, CartsOnlyEmptied, OrdersItsCart, JudgedStillTrue, TypeOK
  <2> QED
    BY <2>1, <2>2 DEF ShelfInv
<1>7. ASSUME NEW r \in Requests, CommitReturn(r) PROVE ShelfInv'
  <2>1. TypeOK'
    BY <1>7, <1>typ, UnlockedType DEF CommitReturn, TypeOK, Phase
  <2>2. CartsOnlyEmptied' /\ OrdersItsCart'
    BY <1>7, <1>typ, <1>inv DEF CommitReturn, CartsOnlyEmptied, OrdersItsCart, TypeOK
  <2>3. ASSUME NEW q \in Requests, pc'[q] = "judged", NEW p \in Products
        PROVE  (items'[q][p] > 0 => holder'[p] = q) /\ items'[q][p] <= stock'[p]
    <3>1. q # r /\ pc[q] = "judged"
      BY <1>7, <1>typ, <2>3 DEF CommitReturn, TypeOK
    <3>2. items[q][p] > 0 => holder'[p] = q
      BY <1>7, <1>typ, <1>inv, <3>1, UnlockedType DEF CommitReturn, JudgedStillTrue, Rows
    <3>3. stock'[p] = stock[p] + items[r][p] /\ items'[q][p] = items[q][p]
      BY <1>7 DEF CommitReturn
    <3>4. items[q][p] <= stock[p]
      BY <1>inv, <3>1 DEF JudgedStillTrue
    <3>5. items[q][p] \in Nat /\ items[r][p] \in Nat /\ stock[p] \in Nat
      BY <1>typ DEF TypeOK
    <3> QED
      BY <3>2, <3>3, <3>4, <3>5
  <2> QED
    BY <2>1, <2>2, <2>3 DEF ShelfInv, JudgedStillTrue
<1>8. ASSUME NEW r \in Requests, Rollback(r),
             pc[r] \in OpenTransaction
      PROVE  ShelfInv'
  <2>1. TypeOK'
    BY <1>8, <1>typ, UnlockedType DEF Rollback, TypeOK, Phase
  <2>2. CartsOnlyEmptied' /\ OrdersItsCart'
    BY <1>8, <1>typ, <1>inv
       DEF Rollback, CartsOnlyEmptied, OrdersItsCart, TypeOK, OpenTransaction, CheckingOut
  <2>3. \A q \in Requests : pc'[q] = "judged" => q # r /\ pc[q] = "judged"
    BY <1>8, <1>typ DEF Rollback, TypeOK
  <2>4. JudgedStillTrue'
    BY <1>8, <1>typ, <1>inv, <2>3, UnlockedType DEF Rollback, JudgedStillTrue, Rows
  <2> QED
    BY <2>1, <2>2, <2>4 DEF ShelfInv
<1>9. CASE UNCHANGED vars
  BY <1>9, <1>typ, <1>inv
     DEF vars, ShelfInv, TypeOK, CartsOnlyEmptied, OrdersItsCart, JudgedStillTrue
<1>10. ASSUME NEW r \in Requests, InCycle(r) PROVE pc[r] \in OpenTransaction
  <2> want[r] # NoRow
    BY <1>10 DEF InCycle, IsCycle
  <2> QED
    BY NeedsMeaning DEF WaitsForItsNeed
<1> QED
  BY <1>1, <1>2, <1>3, <1>4, <1>5, <1>6, <1>7, <1>8, <1>9, <1>10
     DEF Next, Step, Fail, Victim
LEMMA WaitInit == Init => WaitsForItsNeed /\ PromoTakenLast
  BY NobodyAssumption DEF Init, WaitsForItsNeed, PromoTakenLast, Rows

LEMMA WaitStep ==
    TypeOK /\ WaitsForItsNeed /\ PromoTakenLast /\ [Next]_vars
      => WaitsForItsNeed' /\ PromoTakenLast'
<1> SUFFICES ASSUME TypeOK, WaitsForItsNeed, PromoTakenLast, [Next]_vars
             PROVE  WaitsForItsNeed' /\ PromoTakenLast'
  OBVIOUS
<1> USE RowsAssumption, NobodyAssumption
<1> DEFINE Alone(r) ==
      /\ \A q \in Requests \ {r} :
            want'[q] = want[q] /\ Needs(q)' = Needs(q) /\ pc'[q] = pc[q]
      /\ want'[r] = NoRow
<1> Promo \in Rows
  BY DEF Rows
\* A step in which r stops waiting, or waits for nothing, and gives up or keeps its rows.
<1>0. ASSUME NEW r \in Requests, Alone(r),
             \/ holder' = Unlocked(r)
             \/ holder' = holder /\ (holder[Promo] = r => pc'[r] = "judged")
      PROVE  WaitsForItsNeed' /\ PromoTakenLast'
  <2>1. WaitsForItsNeed'
    BY <1>0 DEF WaitsForItsNeed
  <2>2. ASSUME NEW q \in Requests, holder'[Promo] = q
        PROVE  pc'[q] = "judged" /\ want'[q] = NoRow
    <3>1. holder[Promo] = q
      BY <1>0, <2>2 DEF Unlocked, TypeOK
    <3>2. CASE q = r
      BY <1>0, <2>2, <3>1, <3>2 DEF Unlocked
    <3>3. CASE q # r
      BY <1>0, <3>1, <3>3 DEF PromoTakenLast
    <3> QED
      BY <3>2, <3>3
  <2> QED
    BY <2>1, <2>2 DEF PromoTakenLast
<1>a. ASSUME NEW r \in Requests, pc[r] \notin OpenTransaction PROVE want[r] = NoRow /\ holder[Promo] # r
  BY <1>a, NeedsMeaning DEF WaitsForItsNeed, PromoTakenLast, OpenTransaction, CheckingOut
<1>1. ASSUME NEW r \in Requests, Read(r) PROVE Alone(r) /\ holder' = holder /\ holder[Promo] # r
  <2>1. want[r] = NoRow /\ holder[Promo] # r
    BY <1>1, <1>a DEF Read, OpenTransaction, CheckingOut
  <2>2. \A q \in Requests \ {r} : pc'[q] = pc[q] /\ items'[q] = items[q] /\ (q \in carries' <=> q \in carries)
    BY <1>1 DEF Read, TypeOK
  <2> QED
    BY <1>1, <2>1, <2>2 DEF Read, Needs, Bought
<1>2. ASSUME NEW r \in Requests, Ask(r) PROVE WaitsForItsNeed' /\ PromoTakenLast'
  <2>1. PICK w \in Needs(r) \ Holds(r) :
          IF holder[w] = Nobody
          THEN holder' = [holder EXCEPT ![w] = r] /\ UNCHANGED want
          ELSE want' = [want EXCEPT ![r] = w] /\ UNCHANGED holder
    BY <1>2 DEF Ask
  <2>2. /\ w \in Rows
        /\ w = Promo => pc[r] = "judged"
        /\ pc[r] = "judged" => w = Promo
        /\ want[r] = NoRow
    BY <1>2, <2>1, NeedsMeaning DEF Ask
  <2>3. \A q \in Requests : Needs(q)' = Needs(q)
    BY <1>2 DEF Ask, Needs, Bought
  <2>4. WaitsForItsNeed'
    BY <2>1, <2>3 DEF WaitsForItsNeed, TypeOK
  <2>5. PromoTakenLast'
    BY <1>2, <2>1, <2>2 DEF Ask, PromoTakenLast, TypeOK, Holds
  <2> QED
    BY <2>4, <2>5
<1>3. ASSUME NEW r \in Requests, Granted(r) PROVE WaitsForItsNeed' /\ PromoTakenLast'
  <2>1. \A q \in Requests : Needs(q)' = Needs(q)
    BY <1>3 DEF Granted, Needs, Bought
  <2>2. want[r] \in Rows /\ (want[r] = Promo => pc[r] = "judged")
    BY <1>3, NeedsMeaning DEF Granted, WaitsForItsNeed
  <2>3. WaitsForItsNeed'
    BY <1>3, <2>1 DEF Granted, WaitsForItsNeed, TypeOK
  <2>4. PromoTakenLast'
    BY <1>3, <2>2 DEF Granted, PromoTakenLast, TypeOK
  <2> QED
    BY <2>3, <2>4
<1>4. ASSUME NEW r \in Requests, Judge(r)
      PROVE  Alone(r) /\ (holder' = Unlocked(r) \/ (holder' = holder /\ holder[Promo] # r))
  <2>1. want[r] = NoRow /\ pc[r] = "locking" /\ UNCHANGED want
    BY <1>4 DEF Judge, Ready
  <2>2. holder[Promo] # r
    BY <2>1 DEF PromoTakenLast
  <2>3. \A q \in Requests \ {r} : pc'[q] = pc[q] /\ items'[q] = items[q] /\ (q \in carries' <=> q \in carries)
    BY <1>4 DEF Judge, TypeOK
  <2>4. \A q \in Requests \ {r} : Needs(q)' = Needs(q)
    BY <2>3 DEF Needs, Bought
  <2> QED
    BY <1>4, <2>1, <2>2, <2>3, <2>4 DEF Judge
<1>5. ASSUME NEW r \in Requests, Commit(r) \/ CommitReturn(r)
      PROVE  Alone(r) /\ holder' = Unlocked(r)
  <2>1. want[r] = NoRow /\ UNCHANGED <<want, items, carries>>
    BY <1>5 DEF Commit, CommitReturn, Ready
  <2>2. \A q \in Requests \ {r} : pc'[q] = pc[q]
    BY <1>5 DEF Commit, CommitReturn, TypeOK
  <2> QED
    BY <1>5, <2>1, <2>2 DEF Commit, CommitReturn, Needs, Bought
<1>6. ASSUME NEW r \in Requests, StartReturn(r)
      PROVE  Alone(r) /\ holder' = holder /\ holder[Promo] # r
  <2>1. want[r] = NoRow /\ holder[Promo] # r
    BY <1>6, <1>a DEF StartReturn, OpenTransaction, CheckingOut
  <2>2. \A q \in Requests \ {r} : pc'[q] = pc[q]
    BY <1>6 DEF StartReturn, TypeOK
  <2> QED
    BY <1>6, <2>1, <2>2 DEF StartReturn, Needs, Bought
<1>7. ASSUME NEW r \in Requests, Rollback(r) PROVE Alone(r) /\ holder' = Unlocked(r)
  <2>1. \A q \in Requests \ {r} : pc'[q] = pc[q] /\ want'[q] = want[q]
    BY <1>7 DEF Rollback, TypeOK
  <2> QED
    BY <1>7, <2>1 DEF Rollback, Needs, Bought, TypeOK
<1>8. CASE UNCHANGED vars
  BY <1>8 DEF vars, WaitsForItsNeed, PromoTakenLast, Needs, Bought
<1> HIDE DEF Alone
<1> QED
  BY <1>0, <1>1, <1>2, <1>3, <1>4, <1>5, <1>6, <1>7, <1>8 DEF Next, Step, Fail, Victim

\* Every request has its type, holds what it was judged on, and waits only for
\* what its statement locks.
LEMMA Invariants == Spec => [](ShelfInv /\ WaitsForItsNeed /\ PromoTakenLast)
<1>1. Init => ShelfInv /\ WaitsForItsNeed /\ PromoTakenLast
  BY ShelfInit, WaitInit
<1>2. ShelfInv /\ WaitsForItsNeed /\ PromoTakenLast /\ [Next]_vars
        => (ShelfInv /\ WaitsForItsNeed /\ PromoTakenLast)'
  BY ShelfStep, WaitStep DEF ShelfInv
<1> QED
  BY <1>1, <1>2, PTL DEF Spec

(***************************************************************************)
(* The count of the promo code: only a commit changes which orders carry   *)
(* it, and adds one that was none before.                                  *)
(***************************************************************************)

Ordered == {"placed", "returning", "returned"}
Carriers == {r \in carries : pc[r] \in Ordered}
CountInv == IsFiniteSet(Carriers) /\ used = Cardinality(Carriers)

LEMMA CountStep ==
    TypeOK /\ WaitsForItsNeed /\ CountInv /\ [Next]_vars => CountInv'
<1> SUFFICES ASSUME TypeOK, WaitsForItsNeed, CountInv, [Next]_vars PROVE CountInv'
  OBVIOUS
<1> USE DEF Ordered
<1>1. ASSUME Carriers' = Carriers, used' = used PROVE CountInv'
  BY <1>1 DEF CountInv
<1>2. ASSUME NEW r \in Requests, pc[r] \notin Ordered, pc'[r] \notin Ordered,
             \A q \in Requests \ {r} : pc'[q] = pc[q] /\ (q \in carries' <=> q \in carries),
             carries' \subseteq Requests
      PROVE  Carriers' = Carriers
  BY <1>2 DEF Carriers, TypeOK
<1>3. ASSUME NEW r \in Requests, Read(r) \/ Judge(r) PROVE CountInv'
  <2>1. /\ pc[r] \in {"new", "locking"} /\ pc'[r] \in {"refused", "locking", "judged"}
        /\ \A q \in Requests \ {r} : pc'[q] = pc[q] /\ (q \in carries' <=> q \in carries)
        /\ carries' \subseteq Requests /\ used' = used
    BY <1>3 DEF Read, Judge, TypeOK
  <2> QED BY <1>1, <1>2, <2>1
<1>4. ASSUME NEW r \in Requests, Ask(r) \/ Granted(r) PROVE CountInv'
  BY <1>1, <1>4 DEF Ask, Granted, Carriers
<1>5. ASSUME NEW r \in Requests, Commit(r) PROVE CountInv'
  <2>1. /\ pc[r] = "judged" /\ pc' = [pc EXCEPT ![r] = "placed"] /\ carries' = carries
        /\ used' = IF r \in carries THEN used + 1 ELSE used
    BY <1>5 DEF Commit
  <2>2. r \notin Carriers
    BY <2>1 DEF Carriers
  <2>3. CASE r \in carries
    <3>1. Carriers' = Carriers \cup {r}
      BY <2>1, <2>3 DEF Carriers, TypeOK
    <3>2. IsFiniteSet(Carriers \cup {r})
          /\ Cardinality(Carriers \cup {r}) = Cardinality(Carriers) + 1
      BY <2>2, FS_AddElement DEF CountInv
    <3> QED BY <2>1, <2>3, <3>1, <3>2 DEF CountInv
  <2>4. CASE r \notin carries
    <3>1. Carriers' = Carriers
      BY <2>1, <2>4 DEF Carriers, TypeOK
    <3> QED BY <1>1, <2>1, <2>4, <3>1
  <2> QED BY <2>3, <2>4
<1>6. ASSUME NEW r \in Requests, StartReturn(r) \/ CommitReturn(r) PROVE CountInv'
  <2>1. Carriers' = Carriers
    BY <1>6 DEF StartReturn, CommitReturn, Carriers, TypeOK
  <2> QED BY <1>1, <1>6, <2>1 DEF StartReturn, CommitReturn
<1>7. ASSUME NEW r \in Requests, Fail(r) \/ Victim(r) PROVE CountInv'
  <2>1. pc[r] \in OpenTransaction
    <3>1. InCycle(r) => want[r] # NoRow
      BY DEF InCycle, IsCycle
    <3> QED BY <1>7, <3>1, NeedsMeaning DEF Fail, Victim, WaitsForItsNeed
  <2>2. Rollback(r)
    BY <1>7 DEF Fail, Victim
  <2>3. Carriers' = Carriers
    BY <2>1, <2>2 DEF Rollback, Carriers, TypeOK, OpenTransaction, CheckingOut
  <2> QED BY <1>1, <2>2, <2>3 DEF Rollback
<1>8. CASE UNCHANGED vars
  BY <1>1, <1>8 DEF vars, Carriers
<1> QED BY <1>3, <1>4, <1>5, <1>6, <1>7, <1>8 DEF Next, Step

(***************************************************************************)
(* Theorems.                                                               *)
(***************************************************************************)

\* Stock and counts stay natural numbers, whatever the interleaving of the
\* statements of create_order_from_cart and restock_order.
THEOREM CheckoutTypeCorrect == Spec => []TypeOK
  BY Invariants, PTL DEF ShelfInv

\* A promo code's used_count is the number of orders that were priced with it,
\* although it is judged and counted in different statements and a transaction
\* may fail between them.
THEOREM CodeIsCounted == Spec => []PromoCounted
<1>1. Init => CountInv
  <2>1. Init => Carriers = {}
    BY DEF Init, Carriers
  <2> QED BY <2>1, FS_EmptySet DEF Init, CountInv
<1>2. CountInv => PromoCounted
  BY DEF CountInv, Carriers, Ordered, PromoCounted
<1>3. ShelfInv => TypeOK
  BY DEF ShelfInv
<1> QED BY <1>1, <1>2, <1>3, CountStep, Invariants, PTL DEF Spec

\* A checkout whose stock was checked is never chosen to break a deadlock.
THEOREM NoVictimAfterJudging == Spec => []JudgedNeverVictim
<1>1. TypeOK /\ WaitsForItsNeed /\ PromoTakenLast => JudgedNeverVictim
  <2> SUFFICES ASSUME TypeOK, WaitsForItsNeed, PromoTakenLast,
                      NEW r \in Requests, pc[r] = "judged",
                      NEW S \in SUBSET Requests, r \in S, IsCycle(S)
               PROVE  FALSE
    BY DEF JudgedNeverVictim, InCycle
  <2>1. want[r] = Promo
    BY NeedsMeaning DEF WaitsForItsNeed, IsCycle
  <2>2. holder[Promo] \in S
    BY <2>1 DEF IsCycle
  <2> QED
    BY <2>2 DEF IsCycle, PromoTakenLast
<1> QED
  BY <1>1, Invariants, PTL DEF ShelfInv

\* The row locks make a checkout one step, and so a restock: the statements of
\* create_order_from_cart and restock_order implement the abstract reservation.
THEOREM CheckoutReserves == Spec => ReservesAllOrNothing
<1> DEFINE Lines == [r \in Requests |-> Contents[CartOf[r]]]
           Held == {r \in Requests : pc[r] \in {"placed", "returning"}}
           Ended == {r \in Requests : pc[r] = "returned"}
<1>1. Init => Shelf!Init
  BY DEF Init, Shelf!Init
<1>2. ShelfInv /\ WaitsForItsNeed /\ [Next]_vars => [Shelf!Next]_(Shelf!vars)
  <2> SUFFICES ASSUME ShelfInv, WaitsForItsNeed, [Next]_vars
               PROVE  Shelf!Next \/ UNCHANGED Shelf!vars
    OBVIOUS
  <2>typ. TypeOK
    BY DEF ShelfInv
  <2>0. ASSUME NEW r \in Requests, UNCHANGED stock,
               \A q \in Requests \ {r} : pc'[q] = pc[q],
               pc'[r] \in {"placed", "returning"} <=> pc[r] \in {"placed", "returning"},
               pc'[r] = "returned" <=> pc[r] = "returned"
        PROVE  UNCHANGED Shelf!vars
    <3>1. Held' = Held /\ Ended' = Ended
      BY <2>0
    <3> QED
      BY <2>0, <3>1 DEF Shelf!vars
  <2>1. ASSUME NEW r \in Requests,
               Read(r) \/ Ask(r) \/ Granted(r) \/ Judge(r) \/ StartReturn(r)
                 \/ (Rollback(r) /\ pc[r] \in OpenTransaction)
        PROVE  UNCHANGED Shelf!vars
    <3>1. UNCHANGED stock /\ \A q \in Requests \ {r} : pc'[q] = pc[q]
      BY <2>1, <2>typ DEF Read, Ask, Granted, Judge, StartReturn, Rollback, TypeOK
    <3>2. /\ pc'[r] \in {"placed", "returning"} <=> pc[r] \in {"placed", "returning"}
          /\ pc'[r] = "returned" <=> pc[r] = "returned"
      BY <2>1, <2>typ DEF Read, Ask, Granted, Judge, StartReturn, Rollback,
           OpenTransaction, CheckingOut, TypeOK
    <3> QED
      BY <2>0, <3>1, <3>2
  <2>2. ASSUME NEW r \in Requests, Commit(r) PROVE Shelf!Next
    <3>1. items[r] = Contents[CartOf[r]]
      BY <2>2 DEF Commit, ShelfInv, OrdersItsCart
    <3>2. \A p \in Products : Lines[r][p] <= stock[p]
      BY <2>2, <3>1 DEF Commit, ShelfInv, JudgedStillTrue
    <3>3. r \notin Held \cup Ended
      BY <2>2 DEF Commit
    <3>4. Held' = Held \cup {r} /\ Ended' = Ended
      BY <2>2, <2>typ DEF Commit, TypeOK
    <3>5. stock' = [p \in Products |-> stock[p] - Lines[r][p]]
      BY <2>2, <3>1 DEF Commit
    <3> QED
      BY <3>2, <3>3, <3>4, <3>5 DEF Shelf!Next, Shelf!Reserve
  <2>3. ASSUME NEW r \in Requests, CommitReturn(r) PROVE Shelf!Next
    <3>1. items[r] = Contents[CartOf[r]]
      BY <2>3 DEF CommitReturn, ShelfInv, OrdersItsCart
    <3>2. r \in Held /\ Held' = Held \ {r} /\ Ended' = Ended \cup {r}
      BY <2>3, <2>typ DEF CommitReturn, TypeOK
    <3>3. stock' = [p \in Products |-> stock[p] + Lines[r][p]]
      BY <2>3, <3>1 DEF CommitReturn
    <3> QED
      BY <3>2, <3>3 DEF Shelf!Next, Shelf!Return
  <2>4. ASSUME NEW r \in Requests, InCycle(r) PROVE pc[r] \in OpenTransaction
    <3> want[r] # NoRow
      BY <2>4 DEF InCycle, IsCycle
    <3> QED
      BY NeedsMeaning DEF WaitsForItsNeed
  <2>5. CASE UNCHANGED vars
    BY <2>5 DEF vars, Shelf!vars
  <2> QED
    BY <2>1, <2>2, <2>3, <2>4, <2>5 DEF Next, Step, Fail, Victim
<1> QED
  BY <1>1, <1>2, Invariants, PTL DEF ReservesAllOrNothing, Shelf!Spec, Spec

(***************************************************************************)
(* What the reservation is worth: the shelf balances, whatever the         *)
(* statements of the requests do in between.                               *)
(***************************************************************************)

\* Every unit is on the shelf or with one placed order.
OnOrder == {r \in Requests : pc[r] \in {"placed", "returning"}}
UnitsOf(p) == [r \in Requests |-> Contents[CartOf[r]][p]]
ShelfBalanced ==
    \A p \in Products :
        stock[p] + WeightOf(OnOrder, UnitsOf(p), Requests) = InitialStock[p]

LEMMA ReservationBalances ==
    ASSUME IsFiniteSet(Requests), TypeOK, TypeOK', ShelfBalanced,
           Shelf!Next \/ UNCHANGED Shelf!vars
    PROVE  ShelfBalanced'
<1> SUFFICES ASSUME NEW p \in Products
             PROVE  stock'[p] + WeightOf(OnOrder', UnitsOf(p), Requests) = InitialStock[p]
  BY DEF ShelfBalanced, UnitsOf
<1> DEFINE w == UnitsOf(p)
<1>1. w \in [Requests -> Nat] /\ \A r \in Requests : w[r] = Contents[CartOf[r]][p]
  BY CartsAssumption DEF UnitsOf
<1>2. /\ stock[p] + WeightOf(OnOrder, w, Requests) = InitialStock[p]
      /\ stock[p] \in Nat /\ stock'[p] \in Nat
  BY DEF ShelfBalanced, TypeOK
<1> HIDE DEF w
<1>3. CASE UNCHANGED Shelf!vars
  BY <1>2, <1>3 DEF Shelf!vars, OnOrder, w
<1>4. ASSUME NEW r \in Requests, Shelf!Reserve(r)
      PROVE  stock'[p] + WeightOf(OnOrder', w, Requests) = InitialStock[p]
  <2>1. /\ r \in Requests \ OnOrder /\ OnOrder' = OnOrder \cup {r}
        /\ stock'[p] = stock[p] - w[r]
    BY <1>1, <1>4 DEF Shelf!Reserve, OnOrder
  <2>2. /\ WeightOf(OnOrder, w, Requests) \in Nat /\ w[r] \in Nat
        /\ WeightOf(OnOrder \cup {r}, w, Requests) = WeightOf(OnOrder, w, Requests) + w[r]
    BY <1>1, <2>1, WeightMoves
  <2>3. QED
    BY <1>2, <2>1, <2>2
<1>5. ASSUME NEW r \in Requests, Shelf!Return(r)
      PROVE  stock'[p] + WeightOf(OnOrder', w, Requests) = InitialStock[p]
  <2>1. /\ r \in Requests \cap OnOrder /\ OnOrder' = OnOrder \ {r}
        /\ stock'[p] = stock[p] + w[r]
    BY <1>1, <1>5 DEF Shelf!Return, OnOrder
  <2>2. /\ WeightOf(OnOrder, w, Requests) \in Nat /\ w[r] \in Nat
        /\ WeightOf(OnOrder', w, Requests) \in Nat
        /\ WeightOf(OnOrder \ {r}, w, Requests) + w[r] = WeightOf(OnOrder, w, Requests)
    BY <1>1, <2>1, WeightMoves
  <2>3. QED
    BY <1>2, <2>1, <2>2
<1>6. QED
  BY <1>3, <1>4, <1>5 DEF Shelf!Next, w

\* Checkouts and restocks that overlap statement by statement, fail, or are
\* rolled back as the victim of a deadlock lose no unit and sell none twice.
THEOREM CheckoutsBalance ==
    ASSUME IsFiniteSet(Requests)
    PROVE  Spec => []ShelfBalanced
<1>1. Init => ShelfBalanced
  <2> SUFFICES ASSUME Init, NEW p \in Products
               PROVE  stock[p] + WeightOf(OnOrder, UnitsOf(p), Requests) = InitialStock[p]
    BY DEF ShelfBalanced
  <2>1. OnOrder = {} /\ UnitsOf(p) \in [Requests -> Nat]
    BY CartsAssumption DEF Init, OnOrder, UnitsOf
  <2>2. WeightOf(OnOrder, UnitsOf(p), Requests) = 0
    BY <2>1, EmptyWeight
  <2>3. QED
    BY <2>2, AmountsAssumption DEF Init
<1>2. TypeOK /\ TypeOK' /\ ShelfBalanced /\ [Shelf!Next]_(Shelf!vars) => ShelfBalanced'
  BY ReservationBalances
<1>3. QED
  BY <1>1, <1>2, CheckoutReserves, CheckoutTypeCorrect, PTL
     DEF Spec, ReservesAllOrNothing, Shelf!Spec

==============================================================================
