---------------------------- MODULE MCStorefront ----------------------------
(***************************************************************************)
(* The catalogue, the stock rows and the saved comparison.  The three      *)
(* share no variable, so their interleavings add nothing to what each does *)
(* alone: a behaviour of this instance runs one of them.                   *)
(* Catalogue: three categories in a row, four products, PageSize two.      *)
(***************************************************************************)
EXTENDS Catalogue, Inventory, Comparison, TLC
VARIABLE part
CONSTANTS c1, c2, c3, p1, p2, p3, p4, r1, r2

MCCategories == c1 :> [parent |-> NoCategory, is_active |-> TRUE]
             @@ c2 :> [parent |-> c1, is_active |-> FALSE]
             @@ c3 :> [parent |-> c2, is_active |-> TRUE]
Stored(c, t, n) == [category |-> c, is_active |-> TRUE, created |-> t, stock |-> n]
MCProducts == p1 :> Stored(c2, -2, 1) @@ p2 :> Stored(c3, -1, NoStock)
           @@ p3 :> Stored(c3, 0, 0)
MCAbout == r1 :> p1 @@ r2 :> p1
MCStars == r1 :> 5 @@ r2 :> 4
MCPrice == p1 :> 999 @@ p2 :> 80 @@ p3 :> 50 @@ p4 :> 60
MCOldPrice == p1 :> 1000 @@ p2 :> 100 @@ p3 :> NoPrice @@ p4 :> NoPrice
Text(code, value) == ProductAttribute(code, NoTrait, value, NoTrait)
Number(code, value) == ProductAttribute(code, value, NoTrait, NoTrait)
Valueless(code) == ProductAttribute(code, NoTrait, NoTrait, NoTrait)
MCTraits == p1 :> {Number("power", "1500"), Text("colour", "blue")}
         @@ p2 :> {Number("power", "900"), Text("colour", "red"), Text("colour", "blue")}
         @@ p3 :> {ProductAttribute("power", NoTrait, NoTrait, "900"), Valueless("colour")}
         @@ p4 :> {ProductAttribute("power", "1500", "900", NoTrait)}
Anything == [categories |-> {}, stock |-> "any", discount |-> "any", rating |-> 0,
             attribute |-> {}]
MCListings == {Anything,
    [Anything EXCEPT !.categories = {c1}],
    [Anything EXCEPT !.rating = 4, !.discount = "yes"],
    [Anything EXCEPT !.stock = "out", !.discount = "no",
                     !.attribute = {<<"power", "900">>, <<"power", "1500">>}],
    [Anything EXCEPT !.stock = "in"]}
Interchangeable == {f @@ g : f \in Permutations(Good), g \in Permutations(Request)}

StorefrontInit == part \in {"catalogue", "inventory", "comparison"}
                  /\ Init /\ InventoryInit /\ CompareInit
StorefrontNext ==
    /\ UNCHANGED part
    /\ \/ part = "catalogue" /\ Next /\ UNCHANGED <<inventoryVars, compareVars>>
       \/ part = "inventory" /\ InventoryNext /\ UNCHANGED <<vars, compareVars>>
       \/ part = "comparison" /\ CompareNext /\ UNCHANGED <<vars, inventoryVars>>
StorefrontSpec == StorefrontInit /\ [][StorefrontNext]_<<vars, inventoryVars, compareVars, part>>
=============================================================================
