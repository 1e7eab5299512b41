-------------------------------- MODULE MCCarts --------------------------------
(***************************************************************************)
(* An instance of Carts for TLC: amounts chosen so that every rounding,    *)
(* tier, minimum and limit is met by some cart.                            *)
(***************************************************************************)
EXTENDS Carts, TLC

CONSTANTS drill, glue

MCProducts == {drill, glue}
MCPrices == drill :> {5, 11} @@ glue :> {3}
MCTiers == {[threshold |-> 6, percent |-> 5], [threshold |-> 16, percent |-> 50]}
MCCodes == {[type |-> "percent", value |-> 3333, minOrder |-> 10, usageLimit |-> 1,
             dated |-> TRUE],
            [type |-> "fixed", value |-> 9, minOrder |-> 0, usageLimit |-> 0,
             dated |-> FALSE]}
MCDeliveries == {4}
MCSymmetry == Permutations(Requests)
==============================================================================
