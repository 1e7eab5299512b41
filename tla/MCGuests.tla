------------------------------ MODULE MCGuests ------------------------------
(***************************************************************************)
(* Whose the orders are, and what becomes of them at an orderly gateway;   *)
(* and the addresses of a user.  The three share no variable, so their     *)
(* interleavings add nothing to what each does alone: a behaviour of this  *)
(* instance runs one of them, the guests either two and the zones at rest, *)
(* or one whose sessions last while staff edit the zones.                  *)
(***************************************************************************)
EXTENDS MCOrderPayments, Visitors, AddressBook
VARIABLE part

Everybody == {f @@ g @@ h : f \in Permutations(Trans), g \in Permutations(Visitor),
                            h \in Permutations(Handler)}
Alone == \E v \in Visitor : \A h \in Handler :
            handler'[h].pc # "off" => handler'[h].visitor = v /\ handler'[h].kind # "orders"
Lasting == \A k \in SessionKey : sessions'[k] # "gone"

GuestsInit == part \in {"orders", "guests", "zones", "addresses"}
              /\ Init /\ VisitorsInit /\ AddressInit
GuestsNext ==
    /\ UNCHANGED part
    /\ \/ part = "orders" /\ OrderlyNext /\ UNCHANGED <<visitorVars, addressVars>>
       \/ part = "guests" /\ UNCHANGED changes /\ VisitorsNext
                           /\ UNCHANGED <<vars, addressVars>>
       \/ part = "zones" /\ VisitorsNext /\ Alone /\ Lasting /\ UNCHANGED <<vars, addressVars>>
       \/ part = "addresses" /\ AddressNext /\ UNCHANGED <<vars, visitorVars>>
GuestsSpec ==
    GuestsInit /\ [][GuestsNext]_<<vars, visitorVars, addressVars, part>>
=============================================================================
