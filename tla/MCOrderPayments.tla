-------------------------- MODULE MCOrderPayments --------------------------
(***************************************************************************)
(* Instances of OrderPayments for TLC: one product, one unit per order, a  *)
(* shelf of one unit, so that every unit returned too often can be sold    *)
(* again to the next order.                                                *)
(***************************************************************************)
EXTENDS OrderPayments, TLC

OneUnitEach == [o \in Orders |-> [p \in Products |-> 1]]
OneOnShelf  == [p \in Products |-> 1]

\* The actors of the runs that look at one disagreement between the code and
\* what is written about it.
Purchase == CheckoutNext \/ StartNext \/ CallbackNext \/ GatewayNext

PurchaseSpec   == Init /\ [][Purchase]_vars
CancelSpec     == Init /\ [][Purchase \/ CancelNext]_vars
SyncSpec       == Init /\ [][Purchase \/ ExpiryNext \/ SyncNext]_vars

Interchangeable == Permutations(Trans) \cup Permutations(Workers)
==============================================================================
