---------------------------- MODULE Comparison ----------------------------
(***************************************************************************)
(* The saved comparison of one visitor, whose browser may have several     *)
(* requests in flight (apps/carts/compare_services.py).  add_to_compare    *)
(* asks three questions, then inserts: four statements without a lock or a *)
(* transaction.  No constraint stops what slips between them: a guest's    *)
(* rows have no user and a user's rows no session key, and NULLs never     *)
(* collide in the unique constraint of Compare.                            *)
(***************************************************************************)
EXTENDS Naturals, Sequences, FiniteSets

CONSTANTS
    Good, Kind, FirstKind,    \* products, categories, where all products begin
    Request,                  \* requests in flight at once
    MIN_COMPARE_PRODUCTS, MAX_COMPARE_PRODUCTS

ASSUME ComparisonAssumption ==
    /\ IsFiniteSet(Request)
    /\ MIN_COMPARE_PRODUCTS \in Nat /\ MAX_COMPARE_PRODUCTS \in Nat \ {0}

VARIABLES
    kind,     \* per product its category now
    active,   \* the active products
    rows,     \* the Compare rows, oldest first: [product, category]
    adding,   \* per request what it adds [pc, product, category]
    raced     \* an insert came between another request's questions and insert

compareVars == <<kind, active, rows, adding, raced>>

NoAdd == [pc |-> "idle"]
Idle(r) == adding[r] = NoAdd
At(r, pc) == adding[r].pc = pc
\* A DELETE leaves the other rows in their order.
Leave(kept) == \E at \in [1 .. Cardinality(kept) -> kept] :
    /\ \A m, n \in DOMAIN at : m < n => at[m] < at[n]
    /\ rows' = [n \in DOMAIN at |-> rows[at[n]]]
Has(p) == \E i \in DOMAIN rows : rows[i].product = p
\* The history starts afresh with an empty comparison.
Afresh(left) == IF left = <<>> /\ \A r \in Request : Idle(r) THEN FALSE ELSE raced

\* CompareAddView loads the product; the first question.
AddOpen(r, p) ==
    /\ Idle(r) /\ p \in active /\ ~Has(p)
    /\ adding' = [adding EXCEPT ![r] = [pc |-> "new", product |-> p,
                                        category |-> kind[p]]]
    /\ UNCHANGED <<kind, active, rows, raced>>

Answer(r, asked, ok, next) ==
    /\ At(r, asked)
    /\ adding' = [adding EXCEPT ![r] = IF ok THEN [@ EXCEPT !.pc = next] ELSE NoAdd]
    /\ UNCHANGED <<kind, active, rows, raced>>
SameCategory_ofToday(r) == rows = <<>> \/ kind[rows[1].product] = adding[r].category
SameCategory(r) == rows = <<>> \/ rows[1].category = adding[r].category
Room_inclusive(r) == Len(rows) <= MAX_COMPARE_PRODUCTS
Room(r) == Len(rows) < MAX_COMPARE_PRODUCTS
AddCategory(r) == Answer(r, "new", SameCategory(r), "same")
AddCount(r) == Answer(r, "same", Room(r), "room")

AddInsert(r) ==
    /\ At(r, "room")
    /\ rows' = Append(rows, [product |-> adding[r].product,
                             category |-> adding[r].category])
    /\ adding' = [adding EXCEPT ![r] = NoAdd]
    /\ raced' = (raced \/ \E q \in Request \ {r} : ~Idle(q))
    /\ UNCHANGED <<kind, active>>

Remove(p) ==    \* every row of the product, and refused if there is none
    /\ Has(p)
    /\ Leave({i \in DOMAIN rows : rows[i].product # p}) /\ raced' = Afresh(rows')
    /\ UNCHANGED <<kind, active, adding>>
Clear ==
    /\ rows # <<>>
    /\ rows' = <<>> /\ raced' = Afresh(rows')
    /\ UNCHANGED <<kind, active, adding>>

\* The staff move, hide or show a product; deleting an empty category takes the
\* rows that remember it along.
Move(p, k) ==
    /\ kind' = [kind EXCEPT ![p] = k]
    /\ UNCHANGED <<active, rows, adding, raced>>
Toggle(p) ==
    /\ active' = IF p \in active THEN active \ {p} ELSE active \cup {p}
    /\ UNCHANGED <<kind, rows, adding, raced>>
DropCategory(k) ==
    /\ \A p \in Good : kind[p] # k /\ \A r \in Request : ~Idle(r) => adding[r].category # k
    /\ Leave({i \in DOMAIN rows : rows[i].category # k}) /\ raced' = Afresh(rows')
    /\ UNCHANGED <<kind, active, adding>>

CompareInit ==
    /\ kind = [p \in Good |-> FirstKind] /\ active = Good
    /\ rows = <<>> /\ adding = [r \in Request |-> NoAdd] /\ raced = FALSE
CompareNext ==
    \/ \E r \in Request : AddCategory(r) \/ AddCount(r) \/ AddInsert(r)
                          \/ \E p \in Good : AddOpen(r, p)
    \/ Clear
    \/ \E p \in Good : Remove(p) \/ Toggle(p) \/ \E k \in Kind : Move(p, k)
    \/ \E k \in Kind : DropCategory(k)
CompareSpec == CompareInit /\ [][CompareNext]_compareVars

-----------------------------------------------------------------------------
(* What the pages show, and the comparison that is not saved.              *)

ListShown == {p \in active : Has(p)}
\* validate_comparison_ids
ValidIds(ids) ==
    /\ \A i, j \in DOMAIN ids : ids[i] = ids[j] => i = j
    /\ Len(ids) >= MIN_COMPARE_PRODUCTS
    /\ Len(ids) <= MAX_COMPARE_PRODUCTS
AdHoc(ids) == ValidIds(ids) /\ \A i \in DOMAIN ids : ids[i] \in active

-----------------------------------------------------------------------------
(* Properties.                                                             *)

Deciding == {r \in Request : At(r, "room")}

\* However many additions race, each passes the limit by itself at most: the
\* comparison never has more than the limit and one for every other request
\* that counted the rows and has not inserted yet.
LimitAndRacers ==
    Len(rows) + Cardinality(Deciding)
        <= MAX_COMPARE_PRODUCTS - 1 + Cardinality(Request)

\* Without such a race the saved comparison keeps its rules: the limit, each
\* product once, one category as of when the products were added; and what it
\* shows is a comparison that can also be asked for without saving.
AloneKeepsTheRules ==
    ~raced =>
        /\ Len(rows) <= MAX_COMPARE_PRODUCTS
        /\ \A i, j \in DOMAIN rows : /\ rows[i].product = rows[j].product => i = j
                                     /\ rows[i].category = rows[j].category
        /\ LET ids == [i \in DOMAIN rows |-> rows[i].product] IN
           /\ Len(ids) >= MIN_COMPARE_PRODUCTS => ValidIds(ids)
           /\ AdHoc(ids) => ListShown = {ids[i] : i \in DOMAIN ids}
=============================================================================
