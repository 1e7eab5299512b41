------------------------------ MODULE MCCheckout ------------------------------
(***************************************************************************)
(* An instance of Checkout for TLC: one cart with both products that is    *)
(* sent twice, and two carts with one product each, all with the code.     *)
(***************************************************************************)
EXTENDS Checkout, TLC

CONSTANTS a, b, both, onlyA, onlyB, r1, r2, r3, r4

MCProducts == {a, b}
MCCarts == {both, onlyA, onlyB}
MCContents == both :> (a :> 1 @@ b :> 1) @@ onlyA :> (a :> 2 @@ b :> 0)
              @@ onlyB :> (a :> 0 @@ b :> 1)
MCCartOf == [r \in Requests |-> IF r \in {r1, r2} THEN both
                                ELSE IF r = r3 THEN onlyA ELSE onlyB]
MCStock == a :> 2 @@ b :> 2
==============================================================================
