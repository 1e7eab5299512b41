----------------------------- MODULE AddressBook -----------------------------
(***************************************************************************)
(* The saved delivery addresses of one user under the staff forms: saving  *)
(* a default address clears the others, in the transaction of the form,    *)
(* with the row locks PostgreSQL gives an UPDATE (READ COMMITTED).         *)
(***************************************************************************)
CONSTANTS
    Address,    \* rows that may exist
    Form,       \* staff forms that may be saving at a time
    NoAddress   \* no row

ASSUME NoAddressAssumption == NoAddress \notin Address

VARIABLES
    addresses,  \* each committed row: "none", "plain" or "default"
    saves,      \* the transaction of each form, or NoSave
    together    \* history: pairs of rows whose last inserts overlapped

addressVars == <<addresses, saves, together>>

NoSave == [stage |-> "none", row |-> NoAddress, new |-> FALSE, is_default |-> FALSE,
           held |-> {}, todo |-> {}, want |-> NoAddress]
Stored == {a \in Address : addresses[a] # "none"}
LockedBy(a) == {f \in Form : a \in saves[f].held}
Inserting == {f \in Form : saves[f].stage # "none" /\ saves[f].new}

\* Model.save: a form's row is inserted, or updated once no other form has it.
Save(f, a, default) ==
    /\ saves[f].stage = "none" /\ LockedBy(a) = {}
    /\ addresses[a] = "none" => \A g \in Form : saves[g].row # a     \* a new row is its own
    /\ saves' = [saves EXCEPT ![f] =
          [NoSave EXCEPT !.stage = "save", !.row = a, !.is_default = default, !.want = a]]
    /\ UNCHANGED <<addresses, together>>
\* A statement gets the row it has come to.  A row deleted meanwhile is
\* skipped, but the form's own is then inserted.
Take(f) ==
    LET s == saves[f]
        new == s.want = s.row /\ addresses[s.row] = "none" IN
    /\ s.want # NoAddress /\ LockedBy(s.want) = {}
    /\ saves' = [saves EXCEPT ![f].want = NoAddress, ![f].new = @ \/ new,
                     ![f].held = @ \cup ({s.want} \cap (Stored \cup {s.row}))]
    /\ together' = IF new THEN {p \in together : s.row \notin p}
                               \cup {{s.row, saves[g].row} : g \in Inserting}
                   ELSE together
    /\ UNCHANGED addresses
\* Address.save: the others of the user, of which the statement sees those
\* committed when it starts.
ToClear_none(f) == {}
ToClear(f) == IF saves[f].is_default THEN Stored \ {saves[f].row} ELSE {}
ClearOthers(f) ==
    /\ saves[f].stage = "save" /\ saves[f].want = NoAddress
    /\ saves' = [saves EXCEPT ![f].stage = "clear", ![f].todo = ToClear(f)]
    /\ UNCHANGED <<addresses, together>>
ClearNext(f) ==
    /\ saves[f].stage = "clear" /\ saves[f].want = NoAddress
    /\ \E a \in saves[f].todo :
          saves' = [saves EXCEPT ![f].want = a, ![f].todo = @ \ {a}]
    /\ UNCHANGED <<addresses, together>>
CommitSave(f) ==
    LET s == saves[f] IN
    /\ s.stage = "clear" /\ s.want = NoAddress /\ s.todo = {}
    /\ addresses' = [a \in Address |->
          IF a = s.row THEN IF s.is_default THEN "default" ELSE "plain"
          ELSE IF a \in s.held THEN "plain" ELSE addresses[a]]
    /\ saves' = [saves EXCEPT ![f] = NoSave]
    /\ UNCHANGED together
\* Two forms that wait for each other: the database aborts one.
WaitsFor(f, g) == saves[f].want # NoAddress /\ g \in LockedBy(saves[f].want) \ {f}
Victim(f) ==
    /\ \E g \in Form : WaitsFor(f, g) /\ WaitsFor(g, f)
    /\ saves' = [saves EXCEPT ![f] = NoSave]
    /\ UNCHANGED <<addresses, together>>
DeleteAddress(a) ==
    /\ addresses[a] # "none" /\ LockedBy(a) = {}
    /\ addresses' = [addresses EXCEPT ![a] = "none"]
    /\ UNCHANGED <<saves, together>>

AddressInit ==
    /\ addresses = [a \in Address |-> "none"]
    /\ saves = [f \in Form |-> NoSave] /\ together = {}
AddressNext ==
    \/ \E f \in Form :
          \/ \E a \in Address, default \in BOOLEAN : Save(f, a, default)
          \/ Take(f) \/ ClearOthers(f) \/ ClearNext(f) \/ CommitSave(f) \/ Victim(f)
    \/ \E a \in Address : DeleteAddress(a)
AddressSpec == AddressInit /\ [][AddressNext]_addressVars

-----------------------------------------------------------------------------
(* Properties.                                                             *)

\* A user has one default address at most, and two only when both rows were
\* inserted by forms that overlapped: a change always takes the place of
\* the default before it, whatever it waits for.
OneDefault ==
    \A a, b \in Address :
        a # b /\ addresses[a] = "default" /\ addresses[b] = "default" => {a, b} \in together
=============================================================================
