---------------------------- MODULE MCBackOffice ----------------------------
(***************************************************************************)
(* The accounts, by the purpose of their codes, and the desk between the   *)
(* shop and the gateway.  They share no variable, and codes of different   *)
(* purposes no row, so a behaviour of this instance runs one of the three. *)
(***************************************************************************)
EXTENDS Accounts, GatewayDesk, TLC
VARIABLE part

SameClients == Permutations(Client)
BackOfficeInit == part \in Purpose \cup {"desk"} /\ AccountsInit /\ DeskInit
BackOfficeNext ==
    /\ UNCHANGED part
    /\ \/ part \in Purpose /\ Flow(part) /\ UNCHANGED deskVars
       \/ part = "desk" /\ DeskNext /\ UNCHANGED accountVars
BackOfficeSpec == BackOfficeInit /\ [][BackOfficeNext]_<<accountVars, deskVars, part>>
=============================================================================
