----------------------------- MODULE Reservation -----------------------------
(***************************************************************************)
(* What the shop promises about stock: an order takes all of its units at  *)
(* once or is not placed, holds them while it lives, and gives all of them *)
(* back exactly once when it ends.                                         *)
(***************************************************************************)
EXTENDS Naturals

CONSTANTS Orders, Products, Lines, InitialStock

VARIABLES
    held,      \* the orders that hold their units
    ended,     \* the orders that gave them back
    onHand     \* units free to be sold

vars == <<held, ended, onHand>>

Init ==
    /\ held = {}
    /\ ended = {}
    /\ onHand = InitialStock

Reserve(o) ==
    /\ o \notin held \cup ended
    /\ \A p \in Products : Lines[o][p] <= onHand[p]
    /\ held' = held \cup {o}
    /\ onHand' = [p \in Products |-> onHand[p] - Lines[o][p]]
    /\ UNCHANGED ended

Return(o) ==
    /\ o \in held
    /\ held' = held \ {o}
    /\ ended' = ended \cup {o}
    /\ onHand' = [p \in Products |-> onHand[p] + Lines[o][p]]

Next == \E o \in Orders : Reserve(o) \/ Return(o)

Spec == Init /\ [][Next]_vars
==============================================================================
