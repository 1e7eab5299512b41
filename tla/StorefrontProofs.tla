-------------------------- MODULE StorefrontProofs --------------------------
(***************************************************************************)
(* Proofs about what a shopper browses: the catalogue, the stock rows behind*)
(* its badges, and the saved comparison, for any categories, products,     *)
(* filters, page size, workers and requests.  The three share no state: each*)
(* part below is about one of them.                                        *)
(***************************************************************************)
EXTENDS Catalogue, Inventory, Comparison, FiniteSetTheorems, SequenceTheorems,
        WellFoundedInduction, TLAPS

(***************************************************************************)
(* The catalogue: references survive every edit and deletion, the counts are*)
(* those of the listings, and a walk through the pages skips and repeats   *)
(* nothing that did not move meanwhile.                                    *)
(***************************************************************************)

-----------------------------------------------------------------------------
(* Types and references.                                                   *)

\* Deleting a category takes a set with it that is closed under "child of":
\* nothing that stays has a parent that goes.
LEMMA SubtreeClosed ==
    ASSUME TypeOK, NEW c \in Cats
    PROVE  /\ c \in Subtree(c)
           /\ \A e \in Cats : category[e].parent \in Subtree(c) => e \in Subtree(c)
<1>1. c \in Subtree(c)
  BY DEF Subtree
<1>2. ASSUME NEW e \in Cats, category[e].parent \in Subtree(c)
      PROVE  e \in Subtree(c)
  BY <1>2 DEF Subtree
<1> QED BY <1>1, <1>2

LEMMA InitType == Init => TypeOK
BY FirstAssumption, CatalogueAssumption DEF Init, TypeOK, References, Cats, Prods

LEMMA CustomerType ==
    TypeOK /\ Customer => TypeOK'
BY DEF TypeOK, References, Customer, NextPage, OpenListing, Cats, Prods,
       PublishedReviews

LEMMA EditsType == TypeOK /\ Edit => edits' \in 0 .. MaxEdits /\ edits' = edits + 1
BY CatalogueAssumption DEF TypeOK, Edit

LEMMA StaffType == TypeOK /\ StaffEdit => TypeOK'
<1> SUFFICES ASSUME TypeOK, StaffEdit PROVE TypeOK'
  OBVIOUS
<1>0. edits' \in 0 .. MaxEdits
  BY EditsType DEF StaffEdit, CreateCategory, EditCategory, DeleteCategory, CreateProduct,
     EditProduct, DeleteProduct, SetStock, Moderate
<1>1. ASSUME NEW c \in Category, NEW cells \in CategoryRow, CreateCategory(c, cells)
      PROVE  TypeOK'
  BY <1>0, <1>1 DEF TypeOK, References, CreateCategory, Cats, Prods, CategoryRow
<1>2. ASSUME NEW c \in Category, NEW cells \in CategoryRow, EditCategory(c, cells)
      PROVE  TypeOK'
  BY <1>0, <1>2 DEF TypeOK, References, EditCategory, Cats, Prods, CategoryRow
<1>3. ASSUME NEW c \in Category, DeleteCategory(c) PROVE TypeOK'
  <2>1. c \in Cats /\ product' = product /\ published' = published
    BY <1>3 DEF DeleteCategory
  <2> DEFINE rest == Cats \ Subtree(c)
  <2>2. category' = [d \in rest |-> category[d]]
    BY <1>3 DEF DeleteCategory
  <2>3. Cats' = rest /\ \A d \in rest : category'[d] = category[d]
    BY <2>2 DEF Cats
  <2>4. References'
    <3>1. \A d \in Cats' : category'[d].parent \in Cats' \cup {NoCategory}
      BY <2>1, <2>3, SubtreeClosed DEF TypeOK, References
    <3>2. \A p \in Prods' : product'[p].category \in Cats'
      BY <1>3, <2>1, <2>3 DEF TypeOK, References, DeleteCategory, Prods
    <3> QED BY <3>1, <3>2 DEF References
  <2> QED BY <1>0, <2>1, <2>2, <2>3, <2>4 DEF TypeOK, Prods
<1>4. ASSUME NEW p \in Product, NEW c \in Category, CreateProduct(p, c)
      PROVE  TypeOK'
  <2> DEFINE new == [category |-> c, is_active |-> TRUE, created |-> edits + 1,
                     stock |-> NoStock]
  <2>1. new \in ProductRow
    BY DEF ProductRow, TypeOK
  <2> HIDE DEF new
  <2>2. product' = [q \in Prods \cup {p} |-> IF q # p THEN product[q] ELSE new]
    BY <1>4 DEF CreateProduct, new
  <2>3. new.category = c
    BY DEF new
  <2> QED BY <1>0, <1>4, <2>1, <2>2, <2>3
          DEF TypeOK, References, CreateProduct, Cats, Prods
<1>5. ASSUME NEW p \in Product, NEW c \in Category, NEW b \in BOOLEAN, EditProduct(p, c, b)
      PROVE  TypeOK'
  BY <1>0, <1>5 DEF TypeOK, References, EditProduct, Cats, Prods, ProductRow
<1>6. ASSUME NEW p \in Product, DeleteProduct(p) PROVE TypeOK'
  BY <1>0, <1>6 DEF TypeOK, References, DeleteProduct, Cats, Prods, PublishedReviews, ReviewsOf
<1>7. ASSUME NEW p \in Product, NEW n \in Units \cup {NoStock}, SetStock(p, n) PROVE TypeOK'
  BY <1>0, <1>7, CatalogueAssumption
     DEF TypeOK, References, SetStock, Cats, Prods, ProductRow
<1>8. ASSUME NEW r \in Review, Moderate(r) PROVE TypeOK'
  BY <1>0, <1>8 DEF TypeOK, References, Moderate, Cats, Prods
<1> QED BY <1>1, <1>2, <1>3, <1>4, <1>5, <1>6, <1>7, <1>8 DEF StaffEdit

LEMMA NextType == TypeOK /\ [Next]_vars => TypeOK'
BY CustomerType, StaffType DEF Next, vars, TypeOK, References, Cats, Prods

\* Whatever the staff move or delete, cascades included, every product keeps
\* an existing category and every category an existing parent.
THEOREM CatalogueTypeCorrect == Spec => []TypeOK
<1> QED BY InitType, NextType, PTL DEF Spec

-----------------------------------------------------------------------------
(* Counts.                                                                 *)

\* The three ways to say which products a category has name one set.
LEMMA OneMembership ==
    ASSUME TypeOK, NEW c \in Cats
    PROVE  /\ CategoryFilter({c}) = CategoryProducts({c})
           /\ Active \cap CategoryProducts({c})
              = {p \in Active : \/ product[p].category = c
                                \/ category[product[p].category].parent = c}
BY DEF TypeOK, References, CategoryFilter, CategoryProducts, IdsListed, Active

\* The number beside a category is the number of products its listing has.
THEOREM CountsAreListings == Spec => []CountsMatchListing
<1>1. TypeOK => CountsMatchListing
  <2> SUFFICES ASSUME TypeOK, NEW c \in Cats
               PROVE  /\ ProductCount(c) = Cardinality(Active \cap CategoryFilter({c}))
                      /\ ProductCount(c) = CountProductsInCategory(c)
                      /\ c \in Roots =>
                            CategoryTree[c].product_count = CategoryList[c]
    BY DEF CountsMatchListing
  <2>1. Active \cap CategoryFilter({c}) = Active \cap CategoryProducts({c})
    BY OneMembership
  <2>2. ProductCount(c) = Cardinality(Active \cap CategoryProducts({c}))
    BY OneMembership DEF ProductCount
  <2>3. c \in Roots => CategoryTree[c].product_count = CategoryList[c]
    BY DEF Roots, CategoryTree, CategoryList
  <2> QED BY <2>1, <2>2, <2>3 DEF CountProductsInCategory
<1> QED BY <1>1, CatalogueTypeCorrect, PTL

-----------------------------------------------------------------------------
(* The walk through the pages.                                             *)

WalkShape ==
    /\ walk \in [list : Listings \cup {NoListing}, page : Nat,
                 due : SUBSET Product, seen : SUBSET Product,
                 again : SUBSET Product, left : SUBSET Product,
                 came : SUBSET Product]
    /\ ~Walking => walk = NoWalk

\* What was due and not shown is still ahead; what was shown is behind.
Ahead(p) == /\ p \in Listed(walk.list)
            /\ Position(p, walk.list) >= walk.page * PageSize
StillAhead == walk.left = {} => \A p \in walk.due \ walk.seen : Ahead(p)
ShownIsBehind ==
    walk.came = {} =>
        /\ walk.again = {}
        /\ \A p \in walk.seen : ~Ahead(p)
WalkInv == TypeOK /\ WalkShape /\ (Walking => StillAhead /\ ShownIsBehind)

LEMMA ListedFinite ==
    ASSUME TypeOK, NEW f
    PROVE  /\ Listed(f) \subseteq Prods /\ Listed(f) \subseteq Product
           /\ IsFiniteSet(Listed(f)) /\ Cardinality(Listed(f)) \in Nat
           /\ \A p \in Listed(f) : /\ Position(p, f) \in Nat
                                   /\ Position(p, f) < Cardinality(Listed(f))
<1>1. Listed(f) \subseteq Prods /\ Listed(f) \subseteq Product
  BY DEF Listed, Active, TypeOK
<1>2. IsFiniteSet(Listed(f)) /\ Cardinality(Listed(f)) \in Nat
  BY <1>1, CatalogueAssumption, FS_Subset, FS_CardinalityType
<1>3. ASSUME NEW p \in Listed(f)
      PROVE  Position(p, f) \in Nat /\ Position(p, f) < Cardinality(Listed(f))
  <2> DEFINE newer == {q \in Listed(f) : Before(q, p)}
  <2>1. product[p].created \in Int
    BY <1>1, <1>3 DEF TypeOK, ProductRow
  <2>2. ~Before(p, p)
    BY <2>1 DEF Before
  <2>3. newer \subseteq Listed(f) /\ newer # Listed(f)
    BY <2>2, <1>3
  <2>4. Cardinality(newer) \in Nat /\ Cardinality(newer) < Cardinality(Listed(f))
    BY <1>2, <2>3, FS_Subset, FS_CardinalityType
  <2> QED BY <2>4 DEF Position
<1> QED BY <1>1, <1>2, <1>3

\* No edit changes when a product was created.
LEMMA CreatedStays ==
    TypeOK /\ StaffEdit => \A p \in Prods \cap Prods' : product'[p].created = product[p].created
<1> SUFFICES ASSUME TypeOK, StaffEdit PROVE \A p \in Prods \cap Prods' : product'[p].created = product[p].created
  OBVIOUS
<1>1. CASE \E c \in Category : DeleteCategory(c) \/
             \E cells \in CategoryRow : CreateCategory(c, cells) \/ EditCategory(c, cells)
  BY <1>1 DEF DeleteCategory, CreateCategory, EditCategory
<1>2. CASE \E p \in Product, c \in Category : CreateProduct(p, c)
  BY <1>2 DEF CreateProduct, Prods
<1>3. CASE \E p \in Product, c \in Category, b \in BOOLEAN : EditProduct(p, c, b)
  BY <1>3 DEF EditProduct, Prods, TypeOK, ProductRow
<1>4. CASE \E p \in Product : DeleteProduct(p)
  BY <1>4 DEF DeleteProduct, Prods
<1>5. CASE \E p \in Product, n \in Units \cup {NoStock} : SetStock(p, n)
  BY <1>5 DEF SetStock, Prods, TypeOK, ProductRow
<1>6. CASE \E r \in Review : Moderate(r)
  BY <1>6 DEF Moderate
<1> QED BY <1>1, <1>2, <1>3, <1>4, <1>5, <1>6 DEF StaffEdit

\* A listing that only grew pushes a product back, one that only shrank forward.
LEMMA PositionMoves ==
    ASSUME TypeOK, TypeOK', StaffEdit, NEW f \in Listings,
           NEW p \in Listed(f) \cap Listed(f)'
    PROVE  /\ Listed(f) \subseteq Listed(f)' => Position(p, f) <= Position(p, f)'
           /\ Listed(f)' \subseteq Listed(f) => Position(p, f)' <= Position(p, f)
<1> DEFINE newer == {q \in Listed(f) : Before(q, p)}
           newer2 == {q \in Listed(f)' : Before(q, p)'}
<1>1. /\ IsFiniteSet(Listed(f)) /\ IsFiniteSet(Listed(f)')
      /\ Listed(f) \subseteq Prods /\ Listed(f)' \subseteq Prods'
  <2>1. IsFiniteSet(Listed(f)) /\ Listed(f) \subseteq Prods
    BY ListedFinite
  <2>2. Listed(f)' \subseteq Prods' /\ Listed(f)' \subseteq Product
    BY DEF Listed, Active, TypeOK
  <2> QED BY <2>1, <2>2, CatalogueAssumption, FS_Subset
<1>2. \A q \in Listed(f) \cap Listed(f)' : Before(q, p) <=> Before(q, p)'
  BY <1>1, CreatedStays DEF Before
<1>3. IsFiniteSet(newer) /\ IsFiniteSet(newer2)
  BY <1>1, FS_Subset
<1>4. Position(p, f) = Cardinality(newer) /\ Position(p, f)' = Cardinality(newer2)
  BY DEF Position
<1>5. Listed(f) \subseteq Listed(f)' => newer \subseteq newer2
  BY <1>2
<1>6. Listed(f)' \subseteq Listed(f) => newer2 \subseteq newer
  BY <1>2
<1> HIDE DEF newer, newer2
<1>7. newer \subseteq newer2 => Cardinality(newer) <= Cardinality(newer2)
  BY <1>3, FS_Subset
<1>8. newer2 \subseteq newer => Cardinality(newer2) <= Cardinality(newer)
  BY <1>3, FS_Subset
<1> QED BY <1>4, <1>5, <1>6, <1>7, <1>8
\* A step that leaves the stored rows alone leaves every listing alone.
LEMMA SameRowsSameListing ==
    ASSUME category' = category, product' = product, published' = published, NEW f
    PROVE  Listed(f)' = Listed(f) /\ \A p : Position(p, f)' = Position(p, f)
<1>1. ASSUME NEW p PROVE PublishedReviews(p)' = PublishedReviews(p)
  BY DEF PublishedReviews, ReviewsOf
<1>2. ASSUME NEW p
      PROVE  ReviewCount(p)' = ReviewCount(p) /\ Distribution(p)' = Distribution(p)
  <2>1. \A n : WithStars(p, n)' = WithStars(p, n)
    BY <1>1 DEF WithStars
  <2> QED BY <1>1, <2>1 DEF ReviewCount, Distribution
<1>3. ASSUME NEW p PROVE FilterRating(p, f)' = FilterRating(p, f)
  BY <1>2 DEF FilterRating
<1>4. Listed(f)' = Listed(f)
  BY <1>3 DEF Listed, Active, CategoryFilter, IdsListed, Cats, Prods, FilterStock,
     FilterDiscount, FilterAttribute, InStock, OutOfStock, Stocked, Discounted
<1> QED BY <1>4 DEF Position, Before

LEMMA OpenWalk ==
    ASSUME WalkInv, TypeOK', NEW f \in Listings, OpenListing(f) PROVE WalkInv'
<1> DEFINE first == [NoWalk EXCEPT !.list = f, !.page = 1, !.due = Listed(f),
                                   !.seen = Page(f, 1)]
<1>1. walk' = first /\ product' = product /\ category' = category
      /\ published' = published
  BY DEF OpenListing
<1>2. /\ walk'.list = f /\ walk'.page = 1 /\ walk'.due = Listed(f)
      /\ walk'.seen = Page(f, 1) /\ walk'.again = {}
  BY <1>1 DEF NoWalk
<1>3. Listed(f)' = Listed(f) /\ \A p : Position(p, f)' = Position(p, f)
  BY <1>1, SameRowsSameListing
<1>4. Listed(f) \subseteq Product /\ Page(f, 1) \subseteq Listed(f)
      /\ \A p \in Listed(f) : Position(p, f) \in Nat
  BY ListedFinite DEF Page, WalkInv
<1>5. WalkShape'
  <2>1. Walking'
    BY <1>2, CatalogueAssumption DEF Walking
  <2> QED BY <1>1, <1>4, <2>1 DEF WalkShape, NoWalk
<1>6. \A p : Ahead(p)' <=> p \in Listed(f) /\ Position(p, f) >= PageSize
  BY <1>2, <1>3, CatalogueAssumption DEF Ahead
<1>7. \A p \in Listed(f) : p \in Page(f, 1) <=> Position(p, f) < PageSize
  BY <1>4, CatalogueAssumption DEF Page
<1>8. StillAhead' /\ ShownIsBehind'
  BY <1>2, <1>4, <1>6, <1>7, CatalogueAssumption DEF StillAhead, ShownIsBehind
<1> QED BY <1>5, <1>8 DEF WalkInv

LEMMA NextWalk == ASSUME WalkInv, TypeOK', NextPage PROVE WalkInv'
<1>0. PICK f : walk.list = f
  OBVIOUS
<1> DEFINE n == walk.page   shown == Page(f, n + 1)
<1>1. /\ walk' = [walk EXCEPT !.page = n + 1, !.seen = walk.seen \cup shown,
                             !.again = walk.again \cup (walk.seen \cap shown)]
      /\ product' = product /\ category' = category /\ published' = published
      /\ Walking
  BY <1>0 DEF NextPage
<1>2. WalkShape /\ StillAhead /\ ShownIsBehind
  BY <1>1 DEF WalkInv
<1>3. /\ walk'.list = f /\ walk'.page = n + 1 /\ walk'.due = walk.due
      /\ walk'.seen = walk.seen \cup shown /\ walk'.left = walk.left
      /\ walk'.again = walk.again \cup (walk.seen \cap shown)
      /\ walk'.came = walk.came
  BY <1>0, <1>1, <1>2 DEF WalkShape
<1>4. n \in Nat /\ shown \subseteq Listed(f) /\ Listed(f) \subseteq Product
      /\ \A p \in Listed(f) : Position(p, f) \in Nat
  BY <1>2, ListedFinite DEF Page, WalkInv, WalkShape
<1>5. WalkShape' /\ Walking'
  <2>1. Walking'
    BY <1>0, <1>1, <1>3 DEF Walking
  <2>2. n + 1 \in Nat /\ walk.seen \cup shown \subseteq Product
        /\ walk.again \cup (walk.seen \cap shown) \subseteq Product
    BY <1>2, <1>4 DEF WalkShape
  <2> HIDE DEF n, shown
  <2> QED BY <1>1, <1>2, <2>1, <2>2 DEF WalkShape
<1>6. Listed(f)' = Listed(f) /\ \A p : Position(p, f)' = Position(p, f)
  BY <1>1, SameRowsSameListing
<1>7. /\ n * PageSize \in Nat /\ (n + 1) * PageSize \in Nat
      /\ n * PageSize <= (n + 1) * PageSize /\ (n + 1) - 1 = n
  BY <1>4, CatalogueAssumption
<1> DEFINE lo == n * PageSize   hi == (n + 1) * PageSize
<1>8. ASSUME NEW p
      PROVE  /\ Ahead(p) => p \in shown \/ Ahead(p)'
             /\ p \in shown => Ahead(p) /\ ~Ahead(p)'
             /\ Ahead(p)' => Ahead(p)
  <2>1. CASE p \in Listed(f)
    <3> DEFINE x == Position(p, f)
    <3>1. x \in Nat /\ Position(p, f)' = x /\ p \in Listed(f)'
      BY <1>4, <1>6, <2>1
    <3>2. (Ahead(p) <=> x >= lo) /\ (Ahead(p)' <=> x >= hi)
      BY <1>0, <1>3, <2>1, <3>1 DEF Ahead
    <3>3. p \in shown <=> x >= lo /\ x < hi
      BY <1>7, <2>1 DEF Page
    <3> HIDE DEF x, lo, hi, shown
    <3> QED BY <1>7, <3>1, <3>2, <3>3 DEF lo, hi
  <2>2. CASE p \notin Listed(f)
    BY <1>0, <1>3, <1>4, <1>6, <2>2 DEF Ahead
  <2> QED BY <2>1, <2>2
<1> HIDE DEF n, shown, lo, hi
<1>9. StillAhead'
  BY <1>2, <1>3, <1>8 DEF StillAhead
<1>10. ShownIsBehind'
  BY <1>2, <1>3, <1>8 DEF ShownIsBehind
<1> QED BY <1>5, <1>9, <1>10 DEF WalkInv

LEMMA StaffWalk == ASSUME WalkInv, TypeOK', StaffEdit PROVE WalkInv'
<1>1. Watch
  BY DEF StaffEdit, Edit, CreateCategory, EditCategory, DeleteCategory, CreateProduct,
     EditProduct, DeleteProduct, SetStock, Moderate
<1>2. CASE ~Walking
  <2>1. walk' = walk /\ ~Walking'
    BY <1>1, <1>2 DEF Watch, Walking
  <2> QED BY <2>1, <1>2 DEF WalkInv, WalkShape
<1>3. CASE Walking
  <2>1. PICK f \in Listings :
           /\ walk.list = f
           /\ walk' = [walk EXCEPT !.left = walk.left \cup (Listed(f) \ Listed(f)'),
                                  !.came = walk.came \cup (Listed(f)' \ Listed(f))]
    BY <1>1, <1>3 DEF Watch
  <2>2. WalkShape /\ StillAhead /\ ShownIsBehind
    BY <1>3 DEF WalkInv
  <2>3. /\ walk'.list = f /\ walk'.page = walk.page /\ walk'.due = walk.due
        /\ walk'.seen = walk.seen /\ walk'.again = walk.again
        /\ walk'.left = walk.left \cup (Listed(f) \ Listed(f)')
        /\ walk'.came = walk.came \cup (Listed(f)' \ Listed(f))
    BY <2>1, <2>2 DEF WalkShape
  <2>4. Listed(f) \subseteq Product /\ Listed(f)' \subseteq Product
        /\ (\A p \in Listed(f) : Position(p, f) \in Nat)
        /\ (\A p \in Listed(f)' : Position(p, f)' \in Nat)
    <3>1. Listed(f) \subseteq Product /\ \A p \in Listed(f) : Position(p, f) \in Nat
      BY ListedFinite DEF WalkInv
    <3>2. Listed(f)' \subseteq Product
      BY DEF Listed, Active, TypeOK
    <3>3. \A p \in Listed(f)' : Position(p, f)' \in Nat
      <4> TAKE p \in Listed(f)'
      <4> DEFINE newer == {q \in Listed(f)' : Before(q, p)'}
      <4>1. IsFiniteSet(newer)
        BY <3>2, CatalogueAssumption, FS_Subset
      <4> HIDE DEF newer
      <4>2. Cardinality(newer) \in Nat
        BY <4>1, FS_CardinalityType
      <4> QED BY <4>2 DEF Position, newer
    <3> QED BY <3>1, <3>2, <3>3
  <2>5. WalkShape' /\ Walking'
    <3>1. Walking'
      BY <1>3, <2>1, <2>3 DEF Walking
    <3> QED BY <2>1, <2>2, <2>4, <3>1 DEF WalkShape
  <2> DEFINE lo == walk.page * PageSize
  <2>6. lo \in Nat
    BY <2>2, CatalogueAssumption DEF WalkShape
  <2> HIDE DEF lo
  <2>7. ASSUME Listed(f) \subseteq Listed(f)', NEW p, Ahead(p) PROVE Ahead(p)'
    <3>1. p \in Listed(f) \cap Listed(f)'
      BY <2>1, <2>3, <2>7 DEF Ahead
    <3>2. Position(p, f) <= Position(p, f)'
      BY <2>7, <3>1, PositionMoves DEF WalkInv
    <3>3. walk'.page = walk.page /\ walk'.list = f /\ walk.list = f
      BY <2>1, <2>3
    <3> DEFINE x == Position(p, f)   y == Position(p, f)'
    <3>4. x \in Nat /\ y \in Nat /\ lo \in Nat
      BY <2>4, <2>6, <3>1
    <3>5. (Ahead(p) <=> x >= lo) /\ (Ahead(p)' <=> y >= lo)
      BY <3>1, <3>3 DEF Ahead, lo
    <3> HIDE DEF x, y
    <3> QED BY <2>7, <3>2, <3>4, <3>5 DEF x, y
  <2>8. ASSUME Listed(f)' \subseteq Listed(f), NEW p, Ahead(p)' PROVE Ahead(p)
    <3>1. p \in Listed(f) \cap Listed(f)'
      BY <2>1, <2>3, <2>8 DEF Ahead
    <3>2. Position(p, f)' <= Position(p, f)
      BY <2>8, <3>1, PositionMoves DEF WalkInv
    <3>3. walk'.page = walk.page /\ walk'.list = f /\ walk.list = f
      BY <2>1, <2>3
    <3> DEFINE x == Position(p, f)   y == Position(p, f)'
    <3>4. x \in Nat /\ y \in Nat /\ lo \in Nat
      BY <2>4, <2>6, <3>1
    <3>5. (Ahead(p) <=> x >= lo) /\ (Ahead(p)' <=> y >= lo)
      BY <3>1, <3>3 DEF Ahead, lo
    <3> HIDE DEF x, y
    <3> QED BY <2>8, <3>2, <3>4, <3>5 DEF x, y
  <2>9. StillAhead'
    <3>1. walk'.left = {} => walk.left = {} /\ Listed(f) \subseteq Listed(f)'
      BY <2>3
    <3> QED BY <2>2, <2>3, <2>7, <3>1 DEF StillAhead
  <2>10. ShownIsBehind'
    <3>1. walk'.came = {} => walk.came = {} /\ Listed(f)' \subseteq Listed(f)
      BY <2>3
    <3> QED BY <2>2, <2>3, <2>8, <3>1 DEF ShownIsBehind
  <2> QED BY <2>5, <2>9, <2>10 DEF WalkInv
<1> QED BY <1>2, <1>3

LEMMA InitWalk == Init => WalkInv
BY InitType, CatalogueAssumption DEF Init, WalkInv, WalkShape, Walking, NoWalk

LEMMA StepWalk == WalkInv /\ [Next]_vars => WalkInv'
<1> SUFFICES ASSUME WalkInv, [Next]_vars PROVE WalkInv'
  OBVIOUS
<1>1. TypeOK /\ TypeOK'
  BY NextType DEF WalkInv
<1>2. CASE NextPage
  BY <1>1, <1>2, NextWalk
<1>3. CASE \E f \in Listings : OpenListing(f)
  BY <1>1, <1>3, OpenWalk
<1>4. CASE StaffEdit
  BY <1>1, <1>4, StaffWalk
<1>5. CASE UNCHANGED vars
  <2>1. /\ walk' = walk /\ category' = category /\ product' = product
        /\ published' = published
    BY <1>5 DEF vars
  <2>2. PICK f : walk.list = f
    OBVIOUS
  <2>3. \A p : Ahead(p)' <=> Ahead(p)
    BY <2>1, <2>2, SameRowsSameListing DEF Ahead
  <2> QED BY <1>1, <2>1, <2>3 DEF WalkInv, WalkShape, StillAhead, ShownIsBehind, Walking
<1> QED BY <1>2, <1>3, <1>4, <1>5 DEF Next, Customer

\* A walk to the end of a listing misses nothing that stayed in it, and repeats
\* nothing unless something entered it.
THEOREM WalksAreFaithful == Spec => []WalkIsFaithful
<1>1. WalkInv => WalkIsFaithful
  <2> SUFFICES ASSUME WalkInv PROVE WalkIsFaithful
    OBVIOUS
  <2>1. CASE ~Walking
    BY <2>1, CatalogueAssumption DEF WalkInv, WalkShape, WalkIsFaithful, Ended, NoWalk
  <2>2. CASE Walking
    <3>1. WalkShape /\ StillAhead /\ ShownIsBehind
      BY <2>2 DEF WalkInv
    <3>2. ASSUME Ended, NEW p, Ahead(p) PROVE FALSE
      <4> DEFINE size == Cardinality(Listed(walk.list))
                 at == Position(p, walk.list)   lo == walk.page * PageSize
      <4>1. size \in Nat /\ at \in Nat /\ at < size
        BY <3>2, ListedFinite DEF WalkInv, Ahead
      <4>2. lo \in Nat
        BY <3>1, CatalogueAssumption DEF WalkShape
      <4>3. ~(lo < size) /\ at >= lo
        BY <3>2 DEF Ended, HasNext, Ahead
      <4> HIDE DEF size, at, lo
      <4> QED BY <4>1, <4>2, <4>3
    <3> QED BY <3>1, <3>2 DEF WalkIsFaithful, StillAhead, ShownIsBehind
  <2> QED BY <2>1, <2>2
<1> QED BY <1>1, InitWalk, StepWalk, PTL DEF Spec

-----------------------------------------------------------------------------
(* What the pages say of one product.                                      *)
(*                                                                         *)
(* The five entries of a rating's distribution share the published reviews *)
(* out, so they add up to their number, and the sum of the stars lies      *)
(* between it and five times it: the average is at least one star where    *)
(* there is a review, and at most five.                                    *)

AtLeast(p, n) == {r \in PublishedReviews(p) : Stars[r] >= n}

LEMMA FewReviews ==
    ASSUME TypeOK, NEW p
    PROVE  /\ IsFiniteSet(PublishedReviews(p)) /\ ReviewCount(p) \in Nat
           /\ ReviewCount(p) = 0 <=> PublishedReviews(p) = {}
<1>1. PublishedReviews(p) \in SUBSET Review
  BY DEF TypeOK, PublishedReviews
<1>2. IsFiniteSet(PublishedReviews(p))
  BY <1>1, CatalogueAssumption, FS_Subset
<1> QED
  BY <1>2, FS_CardinalityType, FS_EmptySet DEF ReviewCount

LEMMA OneMoreStar ==
    ASSUME TypeOK, NEW p, NEW n \in 1 .. 5
    PROVE  /\ Cardinality(WithStars(p, n)) \in Nat
           /\ Cardinality(AtLeast(p, n)) \in Nat
           /\ Cardinality(AtLeast(p, n + 1)) \in Nat
           /\ Cardinality(AtLeast(p, n))
              = Cardinality(WithStars(p, n)) + Cardinality(AtLeast(p, n + 1))
<1> DEFINE here == WithStars(p, n)   more == AtLeast(p, n + 1)
<1>1. \A r \in PublishedReviews(p) : Stars[r] \in 1 .. 5
  BY CatalogueAssumption DEF TypeOK, PublishedReviews
<1>2. AtLeast(p, n) = here \cup more /\ here \cap more = {}
  BY <1>1 DEF WithStars, AtLeast
<1>3. here \in SUBSET PublishedReviews(p) /\ more \in SUBSET PublishedReviews(p)
  BY DEF WithStars, AtLeast
<1>4. IsFiniteSet(here) /\ IsFiniteSet(more)
  BY <1>3, FewReviews, FS_Subset
<1> HIDE DEF here, more
<1>5. /\ IsFiniteSet(here \cup more)
      /\ Cardinality(here \cup more)
         = Cardinality(here) + Cardinality(more) - Cardinality(here \cap more)
  BY <1>4, FS_Union
<1>6. /\ Cardinality(here) \in Nat /\ Cardinality(more) \in Nat
      /\ Cardinality(here \cup more) \in Nat /\ Cardinality({}) = 0
  BY <1>4, <1>5, FS_CardinalityType, FS_EmptySet
<1>7. Cardinality(here \cap more) = 0
  BY <1>2, <1>6
<1>8. Cardinality(here \cup more) = Cardinality(here) + Cardinality(more)
  BY <1>5, <1>6, <1>7
<1>9. /\ Cardinality(here) \in Nat /\ Cardinality(more) \in Nat
      /\ Cardinality(AtLeast(p, n)) \in Nat
      /\ Cardinality(AtLeast(p, n)) = Cardinality(here) + Cardinality(more)
  BY <1>2, <1>6, <1>8
<1> QED
  BY <1>9 DEF here, more

LEMMA StarsShareReviews ==
    ASSUME TypeOK, NEW p
    PROVE  LET d == Distribution(p) IN
           /\ \A n \in 1 .. 5 : d[n] \in Nat
           /\ d[1] + d[2] + d[3] + d[4] + d[5] = ReviewCount(p)
<1> DEFINE d == Distribution(p)
<1>1. \A n \in 1 .. 5 : d[n] = Cardinality(WithStars(p, n))
  BY DEF Distribution
<1>2. \A r \in PublishedReviews(p) : Stars[r] \in 1 .. 5
  BY CatalogueAssumption DEF TypeOK, PublishedReviews
<1>3. AtLeast(p, 1) = PublishedReviews(p) /\ AtLeast(p, 6) = {}
  BY <1>2 DEF AtLeast
<1>4. Cardinality(AtLeast(p, 1)) = ReviewCount(p) /\ Cardinality(AtLeast(p, 6)) = 0
  BY <1>3, FS_EmptySet DEF ReviewCount
<1> HIDE DEF d
<1> DEFINE c(n) == Cardinality(AtLeast(p, n))
<1>5. \A n \in 1 .. 5 : /\ d[n] \in Nat /\ c(n) \in Nat /\ c(n + 1) \in Nat
                        /\ c(n) = d[n] + c(n + 1)
  BY <1>1, OneMoreStar
<1>6. c(1) = ReviewCount(p) /\ c(6) = 0
  BY <1>4
<1> HIDE DEF c
<1>7. /\ c(1) = d[1] + c(2) /\ c(2) = d[2] + c(3) /\ c(3) = d[3] + c(4)
      /\ c(4) = d[4] + c(5) /\ c(5) = d[5] + c(6)
      /\ c(2) \in Nat /\ c(3) \in Nat /\ c(4) \in Nat /\ c(5) \in Nat
  BY <1>5
<1>8. d[1] + d[2] + d[3] + d[4] + d[5] = ReviewCount(p)
  BY <1>5, <1>6, <1>7
<1> QED
  BY <1>5, <1>8 DEF d

\* Rounding to the nearest leaves a quotient between two whole bounds there.
LEMMA RoundedBetween ==
    ASSUME NEW n \in Nat, NEW d \in Nat \ {0}, 100 * d <= n, n <= 500 * d
    PROVE  Rounded(n, d) \in 100 .. 500
<1> DEFINE q == n \div d   m == n % d
<1>1. q \in Nat /\ m \in 0 .. (d - 1) /\ n = d * q + m
  OBVIOUS
<1> HIDE DEF q, m
<1>2. q >= 100
  <2> SUFFICES ASSUME q <= 99 PROVE FALSE
    BY <1>1
  <2>1. d * q <= d * 99
    BY <1>1
  <2> QED BY <1>1, <2>1
<1>3. q <= 500
  <2> SUFFICES ASSUME q >= 501 PROVE FALSE
    BY <1>1
  <2>1. d * q >= d * 501
    BY <1>1
  <2> QED BY <1>1, <2>1
<1>4. q = 500 => m = 0
  BY <1>1
<1>5. Rounded(n, d) = IF 2 * m > d \/ (2 * m = d /\ q % 2 = 1) THEN q + 1 ELSE q
  BY DEF Rounded, q, m
<1> QED
  BY <1>1, <1>2, <1>3, <1>4, <1>5

LEMMA RatingInRange ==
    ASSUME TypeOK, NEW p
    PROVE  /\ AverageRating(p) <= 500
           /\ AverageRating(p) = 0 <=> PublishedReviews(p) = {}
<1>1. CASE ReviewCount(p) = 0
  BY <1>1, FewReviews DEF AverageRating
<1>2. CASE ReviewCount(p) # 0
  <2> DEFINE d == Distribution(p)   n == ReviewCount(p)   s == StarSum(d)
  <2>1. /\ \A k \in 1 .. 5 : d[k] \in Nat
        /\ d[1] + d[2] + d[3] + d[4] + d[5] = n
    BY StarsShareReviews
  <2>2. s = d[1] + 2 * d[2] + 3 * d[3] + 4 * d[4] + 5 * d[5]
    BY DEF StarSum
  <2>3. n \in Nat \ {0}
    BY <1>2, FewReviews
  <2>4. AverageRating(p) = Rounded(100 * s, n)
    BY <1>2 DEF AverageRating
  <2> HIDE DEF d, n, s
  <2>5. s \in Nat /\ n <= s /\ s <= 5 * n
    BY <2>1, <2>2
  <2>6. 100 * s \in Nat /\ 100 * n <= 100 * s /\ 100 * s <= 500 * n
    BY <2>3, <2>5
  <2>7. \A h \in Nat : 100 * n <= h /\ h <= 500 * n => Rounded(h, n) \in 100 .. 500
    BY <2>3, RoundedBetween
  <2>8. AverageRating(p) \in 100 .. 500
    <3> DEFINE h == 100 * s
    <3>1. h \in Nat /\ 100 * n <= h /\ h <= 500 * n /\ AverageRating(p) = Rounded(h, n)
      BY <2>4, <2>6
    <3> HIDE DEF h
    <3> QED
      BY <2>7, <3>1
  <2>9. PublishedReviews(p) # {}
    BY <1>2, FewReviews
  <2> QED
    BY <2>8, <2>9
<1> QED
  BY <1>1, <1>2

\* For sale for all of them or for none.
LEMMA OneAvailability ==
    ASSUME TypeOK, NEW p \in Active
    PROVE  LET sold == Card(p).in_stock IN
           /\ InStock(p) = sold /\ OutOfStock(p) = ~sold
           /\ (AvailableQuantity(p) > 0) = sold
           /\ AvailableQuantity(p) = StockQuantity(p)
           /\ \A old \in {"in_stock", "low_stock", "out_of_stock", "on_order"} :
                  StatusFor(StockQuantity(p), old) \in {"in_stock", "low_stock"} <=> sold
<1> DEFINE sold == StockQuantity(p) > 0
<1>1. Card(p).in_stock = sold
  BY DEF Card
<1>2. product[p].stock \in Nat \cup {NoStock} /\ LowStock \in Nat
  BY CatalogueAssumption DEF TypeOK, ProductRow, Active
<1>3. /\ InStock(p) <=> sold
      /\ OutOfStock(p) <=> ~sold
      /\ AvailableQuantity(p) > 0 <=> sold
      /\ AvailableQuantity(p) = StockQuantity(p)
      /\ StockQuantity(p) \in Nat
  BY <1>2 DEF InStock, OutOfStock, AvailableQuantity, StockQuantity, Stocked
<1>4. ASSUME NEW old \in {"in_stock", "low_stock", "out_of_stock", "on_order"}
      PROVE  StatusFor(StockQuantity(p), old) \in {"in_stock", "low_stock"} <=> sold
  <2>1. CASE sold
    BY <1>2, <1>3, <2>1 DEF StatusFor
  <2>2. CASE ~sold
    BY <1>2, <1>3, <1>4, <2>2 DEF StatusFor
  <2> QED
    BY <2>1, <2>2
<1>5. /\ InStock(p) = sold /\ OutOfStock(p) = ~sold /\ (AvailableQuantity(p) > 0) = sold
  BY <1>3 DEF InStock, OutOfStock
<1> QED
  BY <1>1, <1>3, <1>4, <1>5

\* What a comparison shows in a row, unless it is a predefined number, is a
\* value of a trait the attribute filter looks at.
LEMMA TraitsAreFound ==
    ASSUME NEW p, NEW t \in Traits[p], NEW value, value \in {t.number, t.text}
    PROVE  FilterAttribute(p, [attribute |-> {<<t.code, value>>}])
<1> DEFINE f == [attribute |-> {<<t.code, value>>}]
<1>1. f.attribute = {<<t.code, value>>}
  OBVIOUS
<1>2. value \in {w[2] : w \in f.attribute}
  BY <1>1
<1>3. ASSUME NEW want \in f.attribute PROVE want[1] = t.code
  BY <1>1
<1> HIDE DEF f
<1>4. FilterAttribute(p, f)
  BY <1>1, <1>2, <1>3 DEF FilterAttribute
<1> QED
  BY <1>4 DEF f

LEMMA ComparisonsAreFound == ComparisonsFilter
<1> SUFFICES ASSUME NEW code \in DOMAIN ComparisonMatrix(Active), NEW p \in Active,
                    NEW value \in ComparisonMatrix(Active)[code].values[p]
             PROVE  \/ FilterAttribute(p, [attribute |-> {<<code, value>>}])
                    \/ \E t \in Traits[p] : t.preset = value
  BY DEF ComparisonsFilter
<1>1. ComparisonMatrix(Active)[code].values[p]
      = {Shown(t) : t \in {u \in Traits[p] : u.code = code}} \ {NoTrait}
  BY DEF ComparisonMatrix
<1>2. PICK t \in Traits[p] : t.code = code /\ Shown(t) = value
  BY <1>1
<1>3. value \in {t.number, t.text} \/ t.preset = value
  BY <1>2 DEF Shown
<1> QED
  BY <1>2, <1>3, TraitsAreFound

\* Every figure the storefront shows of one product agrees with the others.
THEOREM PagesAgree == Spec => []FiguresAgree
<1>1. TypeOK => FiguresAgree
  <2> SUFFICES ASSUME TypeOK PROVE FiguresAgree
    OBVIOUS
  <2>1. ASSUME NEW p \in Active
        PROVE  LET d == RatingSummary(p).distribution IN
               /\ d[1] + d[2] + d[3] + d[4] + d[5] = Card(p).review_count
               /\ Card(p).rating = 0 <=> PublishedReviews(p) = {}
               /\ Card(p).rating <= 500
    <3>1. /\ RatingSummary(p).distribution = Distribution(p)
          /\ Card(p).review_count = ReviewCount(p)
          /\ Card(p).rating = AverageRating(p)
      BY DEF RatingSummary, Card
    <3> QED
      BY <3>1, StarsShareReviews, RatingInRange
  <2> QED
    BY <2>1, OneAvailability, ComparisonsAreFound DEF FiguresAgree
<1> QED
  BY <1>1, CatalogueTypeCorrect, PTL

(***************************************************************************)
(* Stock rows: a row never contradicts itself, and the transactions that go*)
(* through the products by their ids never wait for each other.            *)
(*                                                                         *)
(* Every writer derives the status it stores; what has to be shown is that *)
(* the quantity it derives it from is the one it stores and is no debt.    *)
(* A transaction judges a line when it comes to the row and writes at its  *)
(* commit, so the argument is about the rows it holds: nobody else writes  *)
(* them (Exclusive), so they still cover its lines (Covered).              *)
(***************************************************************************)

RowValue == [quantity : Nat, status : Status]
Tx == [kind : Task \cup {"none"}, units : [Products -> Nat], done : SUBSET Products]
Form == [product : Products \cup {0}, read : RowValue \cup {NoRow}, gone : BOOLEAN]

InventoryType ==
    /\ row \in [Products -> RowValue \cup {NoRow}]
    /\ tx \in [Worker -> Tx]
    /\ form \in [Staff -> Form]
    /\ \A s \in Staff : form[s] # NoForm => form[s].product \in Products /\ form[s].read \in RowValue
\* Each status is the one its own quantity gives.
Derived(r) == r.status = status_for(r.quantity, r.status)
RowsDerived == \A p \in Products : row[p] # NoRow => Derived(row[p])
Exclusive == \A t, u \in Worker : \A p \in tx[t].done \cap tx[u].done : t = u
Covered ==
    \A t \in Worker : \A p \in tx[t].done :
        Takes(t) => row[p] # NoRow /\ row[p].quantity >= tx[t].units[p]
InOrder ==
    \A t \in Worker : Ordered(t) =>
        \A q \in tx[t].done, p \in Todo(t) : q < p
InventoryInv == InventoryType /\ RowsDerived /\ Exclusive /\ Covered /\ InOrder

-----------------------------------------------------------------------------
(* What the writers store.                                                 *)

\* Deriving a status twice gives what deriving it once gives.
LEMMA SavedIsDerived ==
    ASSUME NEW n \in Nat, NEW s \in Status
    PROVE  Saved(n, s) \in RowValue /\ Derived(Saved(n, s))
<1>1. status_for(n, s) \in Status
  BY InventoryAssumption DEF status_for, Status
<1>2. status_for(n, status_for(n, s)) = status_for(n, s)
  BY InventoryAssumption DEF status_for, Status
<1> QED BY <1>1, <1>2 DEF Saved, RowValue, Derived

LEMMA RefreshedIsDerived ==
    ASSUME NEW n \in Nat, NEW s \in Status
    PROVE  Refreshed(n, s) \in RowValue /\ Derived(Refreshed(n, s))
<1> DEFINE new == CASE n <= 0 -> "out_of_stock"
                    [] n > 0 /\ n <= LOW_STOCK_THRESHOLD -> "low_stock"
                    [] n > LOW_STOCK_THRESHOLD /\ n > 0 -> "in_stock"
<1>1. new \in Status /\ status_for(n, new) = new
  BY InventoryAssumption DEF status_for, Status
<1>2. Refreshed(n, s) = IF new = s THEN [quantity |-> n, status |-> s] ELSE Saved(n, new)
  BY DEF Refreshed
<1> HIDE DEF new
<1>3. CASE new = s
  BY <1>1, <1>2, <1>3 DEF RowValue, Derived
<1>4. CASE new # s
  BY <1>1, <1>2, <1>4, SavedIsDerived
<1> QED BY <1>3, <1>4

LEMMA NoRowIsNone == NoRow \notin RowValue
BY DEF NoRow, RowValue

LEMMA ExistingIsARow ==
    ASSUME InventoryType, NEW p \in Products PROVE Existing(p) \in RowValue
<1>1. CASE row[p] = NoRow
  BY <1>1, SavedIsDerived DEF Existing, Status
<1>2. CASE row[p] # NoRow
  BY <1>2 DEF Existing, InventoryType
<1> QED BY <1>1, <1>2

LEMMA WrittenIsDerived ==
    ASSUME InventoryInv, NEW t \in Worker, NEW p \in tx[t].done
    PROVE  Written(t, p) \in RowValue /\ Derived(Written(t, p))
<1> DEFINE change == IF Takes(t) THEN -tx[t].units[p] ELSE tx[t].units[p]
           left == Existing(p).quantity + change
<1>1. p \in Products /\ tx[t].units[p] \in Nat
  BY DEF InventoryInv, InventoryType, Tx
<1>2. Existing(p) \in RowValue
  BY <1>1, ExistingIsARow DEF InventoryInv
<1>3. Existing(p).quantity \in Nat /\ Existing(p).status \in Status
  BY <1>2 DEF RowValue
<1>4. left \in Nat
  <2>1. CASE Takes(t)
    <3>1. Existing(p).quantity >= tx[t].units[p]
      BY <2>1 DEF InventoryInv, Covered, Existing
    <3> QED BY <1>1, <1>3, <2>1, <3>1
  <2>2. CASE ~Takes(t)
    BY <1>1, <1>3, <2>2
  <2> QED BY <2>1, <2>2
<1>5. Written(t, p) = IF Ordered(t) THEN Saved(left, Existing(p).status)
                      ELSE Refreshed(left, Existing(p).status)
  BY DEF Written
<1> HIDE DEF left
<1> QED BY <1>3, <1>4, <1>5, SavedIsDerived, RefreshedIsDerived
-----------------------------------------------------------------------------
(* The steps.                                                              *)

LEMMA InventoryInitInv == InventoryInit => InventoryInv
<1> SUFFICES ASSUME InventoryInit PROVE InventoryInv
  OBVIOUS
<1>1. NoTx \in Tx /\ NoForm \in Form
  BY DEF NoTx, NoForm, Tx, Form, Task
<1>2. \A t \in Worker : tx[t].done = {} /\ tx[t].kind = "none"
  BY DEF InventoryInit, NoTx
<1> QED BY <1>1, <1>2 DEF InventoryInit, InventoryInv, InventoryType, RowsDerived,
        Exclusive, Covered, InOrder, Takes, Ordered

\* A transaction comes to a row that nobody holds.
LEMMA HoldRow ==
    ASSUME InventoryInv, NEW t \in Worker, NEW p, Turn(t, p), ~Locked(p),
           Takes(t) => row[p] # NoRow /\ row[p].quantity >= tx[t].units[p],
           tx' = WithLine(t, p), UNCHANGED <<row, form>>
    PROVE  InventoryInv'
<1>1. p \in Todo(t) /\ p \in Products
  BY DEF Turn, Todo
<1>2. /\ \A u \in Worker : tx'[u].kind = tx[u].kind /\ tx'[u].units = tx[u].units
      /\ \A u \in Worker \ {t} : tx'[u] = tx[u]
      /\ tx'[t].done = tx[t].done \cup {p} /\ tx' \in [Worker -> Tx]
  BY <1>1 DEF InventoryInv, InventoryType, Tx, WithLine
<1>3. InventoryType' /\ RowsDerived'
  BY <1>2 DEF InventoryInv, InventoryType, RowsDerived, Derived, status_for
<1>4. Exclusive'
  BY <1>2 DEF InventoryInv, Exclusive, Locked
<1>5. Covered'
  BY <1>2 DEF InventoryInv, Covered, Takes
<1>6. InOrder'
  <2> SUFFICES ASSUME NEW u \in Worker, Ordered(u)', NEW q \in tx'[u].done,
                      NEW r \in Todo(u)'
               PROVE  q < r
    BY DEF InOrder
  <2>1. Ordered(u) /\ r \in Todo(u)
    BY <1>2 DEF Ordered, Todo
  <2>2. CASE u # t \/ q # p
    BY <1>2, <2>1, <2>2 DEF InventoryInv, InOrder
  <2>3. CASE u = t /\ q = p
    <3>1. p <= r /\ p # r
      BY <1>2, <2>1, <2>3 DEF Turn, Todo
    <3>2. p \in Int /\ r \in Int
      BY <1>1, <2>1 DEF Products, Todo
    <3> QED BY <2>3, <3>1, <3>2
  <2> QED BY <2>2, <2>3
<1> QED BY <1>3, <1>4, <1>5, <1>6 DEF InventoryInv

\* A transaction is left, with nothing written.
LEMMA LeaveTx ==
    ASSUME InventoryInv, NEW t \in Worker, tx' = [tx EXCEPT ![t] = NoTx],
           UNCHANGED <<row, form>>
    PROVE  InventoryInv'
<1>1. NoTx \in Tx /\ NoTx.done = {} /\ NoTx.kind = "none"
  BY DEF NoTx, Tx
<1>2. /\ \A u \in Worker \ {t} : tx'[u] = tx[u]
      /\ tx'[t].done = {} /\ tx'[t].kind = "none" /\ tx' \in [Worker -> Tx]
  BY <1>1 DEF InventoryInv, InventoryType
<1>3. InventoryType' /\ RowsDerived'
  BY <1>2 DEF InventoryInv, InventoryType, RowsDerived, Derived, status_for
<1>4. Exclusive' /\ Covered' /\ InOrder'
  BY <1>2 DEF InventoryInv, Exclusive, Covered, InOrder, Takes, Ordered, Todo
<1> QED BY <1>3, <1>4 DEF InventoryInv

LEMMA BeginInv ==
    ASSUME InventoryInv, NEW t \in Worker, NEW k \in Task,
           NEW units \in [Products -> 0 .. 1], Begin(t, k, units)
    PROVE  InventoryInv'
<1> DEFINE new == [kind |-> k, units |-> units, done |-> {}]
<1>1. new \in Tx /\ new.done = {}
  BY DEF Tx
<1>2. tx' = [tx EXCEPT ![t] = new] /\ UNCHANGED <<row, form>>
  BY DEF Begin
<1> HIDE DEF new
<1>3. /\ \A u \in Worker \ {t} : tx'[u] = tx[u]
      /\ tx'[t].done = {} /\ tx' \in [Worker -> Tx]
  BY <1>1, <1>2 DEF InventoryInv, InventoryType
<1>4. InventoryType' /\ RowsDerived'
  BY <1>2, <1>3 DEF InventoryInv, InventoryType, RowsDerived, Derived, status_for
<1>5. Exclusive' /\ Covered' /\ InOrder'
  BY <1>2, <1>3 DEF InventoryInv, Exclusive, Covered, InOrder, Takes, Ordered, Todo
<1> QED BY <1>4, <1>5 DEF InventoryInv

LEMMA LineInv ==
    ASSUME InventoryInv, NEW t \in Worker, NEW p \in Products,
           DeductLine(t, p) \/ ReturnLine(t, p) \/ RestockLine(t, p)
    PROVE  InventoryInv'
<1>1. CASE DeductLine(t, p) /\ row[p].quantity >= tx[t].units[p]
  <2>1. row[p] # NoRow
    BY <1>1 DEF DeductLine, Turn, Todo, NoRow, InventoryInv, InventoryType, Tx
  <2> QED BY <1>1, <2>1, HoldRow DEF DeductLine
<1>2. CASE DeductLine(t, p) /\ ~(row[p].quantity >= tx[t].units[p])
  BY <1>2, LeaveTx DEF DeductLine
<1>3. CASE ReturnLine(t, p)
  <2>1. ~Takes(t)
    BY <1>3 DEF ReturnLine, Takes
  <2> QED BY <1>3, <2>1, HoldRow DEF ReturnLine
<1>4. CASE RestockLine(t, p) /\ row[p] # NoRow
  <2>1. ~Takes(t)
    BY <1>4 DEF RestockLine, Takes
  <2> QED BY <1>4, <2>1, HoldRow DEF RestockLine
<1>5. CASE RestockLine(t, p) /\ row[p] = NoRow
  <2>1. /\ tx[t].kind = "restock" /\ UNCHANGED <<row, form>>
        /\ tx' = [tx EXCEPT ![t].units[p] = 0]
    BY <1>5 DEF RestockLine
  <2>2. /\ \A u \in Worker : tx'[u].kind = tx[u].kind /\ tx'[u].done = tx[u].done
        /\ \A u \in Worker \ {t} : tx'[u] = tx[u] /\ tx' \in [Worker -> Tx]
    BY <2>1 DEF InventoryInv, InventoryType, Tx
  <2>3. ~Takes(t) /\ ~Ordered(t)
    BY <2>1 DEF Takes, Ordered
  <2>4. InventoryType' /\ RowsDerived'
    <3>1. tx' \in [Worker -> Tx]
      BY <2>1 DEF InventoryInv, InventoryType, Tx
    <3> QED BY <2>1, <3>1 DEF InventoryInv, InventoryType, RowsDerived, Derived, status_for
  <2>5. Exclusive' /\ Covered' /\ InOrder'
    BY <2>1, <2>2, <2>3 DEF InventoryInv, Exclusive, Covered, InOrder, Takes, Ordered, Todo
  <2> QED BY <2>4, <2>5 DEF InventoryInv
<1> QED BY <1>1, <1>2, <1>3, <1>4, <1>5

LEMMA CommitInv ==
    ASSUME InventoryInv, NEW t \in Worker, Commit(t) PROVE InventoryInv'
<1>1. NoTx \in Tx /\ NoTx.done = {} /\ NoTx.kind = "none"
  BY DEF NoTx, Tx
<1>2. /\ \A u \in Worker \ {t} : tx'[u] = tx[u]
      /\ tx'[t].done = {} /\ tx'[t].kind = "none" /\ tx' \in [Worker -> Tx]
      /\ form' = form
  BY <1>1 DEF InventoryInv, InventoryType, Commit
<1>3. /\ row' = [p \in Products |-> IF p \in tx[t].done THEN Written(t, p) ELSE row[p]]
      /\ tx[t].done \subseteq Products
  BY DEF Commit, InventoryInv, InventoryType, Tx
<1>4. /\ \A p \in tx[t].done : row'[p] \in RowValue /\ Derived(row'[p])
      /\ \A p \in Products \ tx[t].done : row'[p] = row[p]
  BY <1>3, WrittenIsDerived
<1>5. InventoryType'
  BY <1>2, <1>3, <1>4 DEF InventoryInv, InventoryType
<1>6. RowsDerived'
  <2> SUFFICES ASSUME NEW p \in Products, row'[p] # NoRow PROVE Derived(row'[p])
    BY DEF RowsDerived, Derived, status_for
  <2> QED BY <1>4 DEF InventoryInv, RowsDerived
<1>7. Exclusive' /\ InOrder'
  BY <1>2 DEF InventoryInv, Exclusive, InOrder, Ordered, Todo
<1>8. Covered'
  <2> SUFFICES ASSUME NEW u \in Worker, NEW p \in tx'[u].done, Takes(u)'
               PROVE  row'[p] # NoRow /\ row'[p].quantity >= tx'[u].units[p]
    BY DEF Covered
  <2>1. u # t /\ tx'[u] = tx[u]
    BY <1>2
  <2>2. p \in Products /\ p \notin tx[t].done
    BY <2>1 DEF InventoryInv, InventoryType, Tx, Exclusive
  <2> QED BY <1>4, <2>1, <2>2 DEF InventoryInv, Covered, Takes
<1> QED BY <1>5, <1>6, <1>7, <1>8 DEF InventoryInv

\* The staff write a row that no transaction holds.
LEMMA WriteRow ==
    ASSUME InventoryInv, NEW p \in Products, NEW v, ~Locked(p),
           v = NoRow \/ (v \in RowValue /\ Derived(v)),
           row' = [row EXCEPT ![p] = v], tx' = tx,
           form' \in [Staff -> Form],
           \A s \in Staff : form'[s] # NoForm => form'[s].product \in Products
                                               /\ form'[s].read \in RowValue
    PROVE  InventoryInv'
<1>1. row'[p] = v /\ \A q \in Products \ {p} : row'[q] = row[q]
  BY DEF InventoryInv, InventoryType
<1>2. InventoryType'
  BY DEF InventoryInv, InventoryType
<1>3. RowsDerived'
  <2> SUFFICES ASSUME NEW q \in Products, row'[q] # NoRow PROVE Derived(row'[q])
    BY DEF RowsDerived, Derived, status_for
  <2> QED BY <1>1 DEF InventoryInv, RowsDerived
<1>4. Exclusive' /\ InOrder'
  BY DEF InventoryInv, Exclusive, InOrder, Ordered, Todo
<1>5. Covered'
  <2> SUFFICES ASSUME NEW u \in Worker, NEW q \in tx[u].done, Takes(u)
               PROVE  row'[q] # NoRow /\ row'[q].quantity >= tx[u].units[q]
    BY DEF Covered, Takes
  <2>1. q \in Products \ {p}
    BY DEF Locked, InventoryInv, InventoryType, Tx
  <2> QED BY <1>1, <2>1 DEF InventoryInv, Covered
<1> QED BY <1>2, <1>3, <1>4, <1>5 DEF InventoryInv

LEMMA KeepRows ==
    ASSUME InventoryInv, UNCHANGED <<row, tx>>, form' \in [Staff -> Form],
           \A s \in Staff : form'[s] # NoForm => form'[s].product \in Products
                                               /\ form'[s].read \in RowValue
    PROVE  InventoryInv'
BY DEF InventoryInv, InventoryType, RowsDerived, Derived, status_for, Exclusive, Covered,
       InOrder, Takes, Ordered, Todo

LEMMA StaffInv == ASSUME InventoryInv, StaffStep PROVE InventoryInv'
<1> USE DEF InventoryInv, InventoryType
<1>1. ASSUME NEW s \in Staff, NEW p \in Products, OpenForm(s, p) PROVE InventoryInv'
  <2> DEFINE new == [product |-> p, read |-> row[p], gone |-> FALSE]
  <2>1. new \in Form /\ new.product \in Products /\ new.read \in RowValue
    BY <1>1 DEF OpenForm, Form
  <2>2. form' = [form EXCEPT ![s] = new] /\ UNCHANGED <<row, tx>>
    BY <1>1 DEF OpenForm
  <2> HIDE DEF new
  <2> QED BY <2>1, <2>2, KeepRows
<1>2. ASSUME NEW s \in Staff, EditStock(s) PROVE InventoryInv'
  <2>1. PICK quantity, status :
            /\ quantity \in {form[s].read.quantity} \cup 0 .. MaxUnits
            /\ status \in {form[s].read.status} \cup Status
            /\ SaveForm(s, quantity, status)
    BY <1>2 DEF EditStock
  <2> DEFINE p == form[s].product
  <2>2. form[s] # NoForm /\ ~Locked(p) /\ p \in Products /\ form[s].read \in RowValue
    BY <2>1 DEF SaveForm
  <2>3. quantity \in Nat /\ status \in Status
    BY <2>1, <2>2, InventoryAssumption DEF RowValue
  <2>4. /\ form' = [form EXCEPT ![s] = NoForm] /\ tx' = tx
        /\ row' = IF form[s].gone /\ row[p] # NoRow THEN row
                  ELSE [row EXCEPT ![p] = Saved(quantity, status)]
    BY <2>1 DEF SaveForm
  <2>5. NoForm \in Form
    BY DEF NoForm, Form
  <2>6. /\ form' \in [Staff -> Form]
        /\ \A z \in Staff : form'[z] # NoForm => form'[z].product \in Products
                                               /\ form'[z].read \in RowValue
    BY <2>4, <2>5
  <2>7. CASE row' = row
    BY <2>4, <2>6, <2>7, KeepRows
  <2>8. CASE row' = [row EXCEPT ![p] = Saved(quantity, status)]
    <3> HIDE DEF p, InventoryInv, InventoryType
    <3> QED BY <2>2, <2>3, <2>4, <2>6, <2>8, SavedIsDerived, WriteRow
  <2> QED BY <2>4, <2>7, <2>8
<1>3. ASSUME NEW p \in Products, DeleteRow(p) PROVE InventoryInv'
  <2>1. /\ ~Locked(p) /\ row' = [row EXCEPT ![p] = NoRow] /\ tx' = tx
        /\ form' = [s \in Staff |-> IF form[s].product = p
                                    THEN [form[s] EXCEPT !.gone = TRUE] ELSE form[s]]
    BY <1>3 DEF DeleteRow
  <2>2. \A s \in Staff : form'[s] \in Form /\ form'[s].product = form[s].product
                           /\ form'[s].read = form[s].read
    BY <2>1 DEF Form
  <2>3. \A s \in Staff : form'[s] # NoForm => form[s] # NoForm
    <3>1. ASSUME NEW s \in Staff, form[s] = NoForm PROVE form'[s] = NoForm
      <4>1. form[s].product = 0 /\ p # 0
        BY <3>1 DEF NoForm, Products
      <4> QED BY <2>1, <3>1, <4>1
    <3> QED BY <3>1
  <2>4. form' \in [Staff -> Form]
    BY <2>1, <2>2
  <2>5. \A s \in Staff : form'[s] # NoForm => form'[s].product \in Products
                                             /\ form'[s].read \in RowValue
    BY <2>2, <2>3
  <2> HIDE DEF InventoryInv, InventoryType
  <2> QED BY <2>1, <2>4, <2>5, WriteRow
<1>4. ASSUME NEW p \in Products, NEW n \in 0 .. MaxUnits, NEW status \in Status,
             CreateRow(p, n, status)
      PROVE  InventoryInv'
  <2>1. n \in Nat
    BY InventoryAssumption
  <2>2. Saved(n, status) \in RowValue /\ Derived(Saved(n, status))
    BY <2>1, SavedIsDerived
  <2>3. /\ ~Locked(p) /\ row' = [row EXCEPT ![p] = Saved(n, status)]
        /\ tx' = tx /\ form' = form
    BY <1>4 DEF CreateRow
  <2> QED BY <2>2, <2>3, WriteRow
<1> QED BY <1>1, <1>2, <1>3, <1>4 DEF StaffStep

LEMMA InventoryNextInv ==
    InventoryInv /\ [InventoryNext]_inventoryVars => InventoryInv'
<1> SUFFICES ASSUME InventoryInv, [InventoryNext]_inventoryVars PROVE InventoryInv'
  OBVIOUS
<1>1. CASE StaffStep
  BY <1>1, StaffInv
<1>2. ASSUME NEW t \in Worker, Transaction(t) PROVE InventoryInv'
  <2>1. ASSUME NEW k \in Task, NEW units \in [Products -> 0 .. 1],
               Begin(t, k, units)
        PROVE  InventoryInv'
    BY <2>1, BeginInv
  <2>2. ASSUME NEW p \in Products,
               DeductLine(t, p) \/ ReturnLine(t, p) \/ RestockLine(t, p)
        PROVE  InventoryInv'
    BY <2>2, LineInv
  <2>3. CASE Commit(t)
    BY <2>3, CommitInv
  <2>4. CASE Abort(t)
    BY <2>4, LeaveTx DEF Abort
  <2> QED BY <1>2, <2>1, <2>2, <2>3, <2>4 DEF Transaction
<1>3. CASE UNCHANGED inventoryVars
  BY <1>3, KeepRows DEF inventoryVars, InventoryInv, InventoryType
<1> QED BY <1>1, <1>2, <1>3 DEF InventoryNext

LEMMA InventoryInvariant == InventorySpec => []InventoryInv
BY InventoryInitInv, InventoryNextInv, PTL DEF InventorySpec

-----------------------------------------------------------------------------
(* The theorems.                                                           *)

LEMMA DerivedMatches == InventoryInv => StatusMatchesQuantity
<1> SUFFICES ASSUME InventoryInv, NEW p \in Products, row[p] # NoRow
             PROVE  /\ row[p].quantity >= 0
                    /\ row[p].quantity = 0 <=> row[p].status \in {"out_of_stock", "on_order"}
                    /\ row[p].status = "low_stock" => row[p].quantity <= LOW_STOCK_THRESHOLD
                    /\ row[p].status = "in_stock" => row[p].quantity > LOW_STOCK_THRESHOLD
  BY DEF StatusMatchesQuantity
<1>1. row[p].quantity \in Nat /\ row[p].status \in Status
  BY DEF InventoryInv, InventoryType, RowValue
<1>2. row[p].status = status_for(row[p].quantity, row[p].status)
  BY DEF InventoryInv, RowsDerived, Derived
<1> DEFINE n == row[p].quantity   s == row[p].status
<1>3. n \in Nat /\ s \in Status /\ s = status_for(n, s)
  BY <1>1, <1>2
<1> HIDE DEF n, s
<1>4. /\ n >= 0 /\ (n = 0 <=> s \in {"out_of_stock", "on_order"})
      /\ s = "low_stock" => n <= LOW_STOCK_THRESHOLD
      /\ s = "in_stock" => n > LOW_STOCK_THRESHOLD
  BY <1>3, InventoryAssumption DEF status_for, Status
<1> QED BY <1>4 DEF n, s

\* The badge of a stock row agrees with its quantity, which is never negative,
\* whichever checkouts, returns and staff forms interleave (Stock.save and the
\* two refreshes of apps/orders/services.py and apps/catalog/services.py).
THEOREM BadgesAreTrue == InventorySpec => []StatusMatchesQuantity
BY InventoryInvariant, DerivedMatches, PTL

\* The highest of some products.
LEMMA Highest ==
    ASSUME NEW W \in SUBSET Products, W # {}
    PROVE  \E p \in W : \A q \in W : q <= p
<1> DEFINE B == {n \in Nat : N - n \in W}
<1>1. \A p \in W : N - p \in B
  BY InventoryAssumption DEF Products
<1>2. B # {} /\ B \subseteq Nat
  BY <1>1
<1>3. PICK n \in B : \A m \in B : ~(m < n)
  <2> HIDE DEF B
  <2>1. PICK n \in B : \A m \in B : <<m, n>> \notin OpToRel(<, Nat)
    BY <1>2, NatLessThanWellFounded, WFMin
  <2> QED BY <1>2, <2>1 DEF OpToRel
<1>4. N - n \in W /\ n \in Nat
  OBVIOUS
<1>5. \A q \in W : q <= N - n
  BY <1>1, <1>3, InventoryAssumption DEF Products
<1> QED BY <1>4, <1>5

\* Transactions of apps/catalog/services.py alone never wait in a circle,
\* however many they are: the one that waits for the highest row waits for a
\* transaction that holds it, and so waits for no row but a higher one.
THEOREM CatalogueTransactionsQueue == InventorySpec => []TransactionsQueue
<1>1. InventoryInv => TransactionsQueue
  <2> SUFFICES ASSUME InventoryInv, NEW S \in SUBSET Worker, S # {},
                      \A t \in S : Ordered(t),
                      \A t \in S : \E u \in S : WaitsFor(t, u)
               PROVE  FALSE
    BY DEF TransactionsQueue
  <2> DEFINE Wanted == {p \in Products : \E t \in S : Turn(t, p)}
  <2>1. Wanted # {}
    BY DEF WaitsFor
  <2>2. PICK p \in Wanted : \A q \in Wanted : q <= p
    <3> HIDE DEF Wanted
    <3>1. Wanted \subseteq Products
      BY DEF Wanted
    <3> QED BY <2>1, <3>1, Highest
  <2>3. PICK t \in S : Turn(t, p)
    OBVIOUS
  <2>4. PICK u \in S : WaitsFor(t, u)
    OBVIOUS
  <2>5. p \in tx[u].done
    BY <2>3, <2>4 DEF WaitsFor, Turn, Products
  <2>6. PICK r \in Products : Turn(u, r)
    BY DEF WaitsFor
  <2>7. p < r
    BY <2>5, <2>6 DEF InventoryInv, InOrder, Turn
  <2>8. r <= p
    BY <2>2, <2>6
  <2> QED BY <2>7, <2>8 DEF Products
<1> QED BY <1>1, InventoryInvariant, PTL

(***************************************************************************)
(* The comparison.                                                         *)
(*                                                                         *)
(* As long as no insert came in between, what a request was told when it   *)
(* asked still holds when it inserts: removals take nothing of it away.    *)
(***************************************************************************)

Row == [product : Good, category : Kind \cup {FirstKind}]
Adding == [pc : {"new", "same", "room"}, product : Good, category : Kind \cup {FirstKind}]

CompareType ==
    /\ kind \in [Good -> Kind \cup {FirstKind}] /\ active \subseteq Good
    /\ rows \in Seq(Row) /\ DOMAIN adding = Request
    /\ \A r \in Request : Idle(r) \/ adding[r] \in Adding
    /\ raced \in BOOLEAN

RowsAgree ==
    /\ Len(rows) <= MAX_COMPARE_PRODUCTS
    /\ \A i, j \in DOMAIN rows : /\ rows[i].product = rows[j].product => i = j
                                 /\ rows[i].category = rows[j].category
StillTrue(r) == ~Idle(r) =>
    /\ ~Has(adding[r].product)
    /\ adding[r].pc \in {"same", "room"} =>
           \A i \in DOMAIN rows : rows[i].category = adding[r].category
    /\ adding[r].pc = "room" => Len(rows) < MAX_COMPARE_PRODUCTS
CompareInv == /\ CompareType /\ LimitAndRacers
              /\ ~raced => RowsAgree /\ \A r \in Request : StillTrue(r)

LEMMA CompareSizes ==
    ASSUME CompareType
    PROVE  /\ Len(rows) \in Nat /\ DOMAIN rows = 1 .. Len(rows)
           /\ \A i \in DOMAIN rows : rows[i] \in Row
           /\ IsFiniteSet(Deciding) /\ Cardinality(Deciding) \in Nat
           /\ Cardinality(Deciding) <= Cardinality(Request) /\ Cardinality(Request) \in Nat
           /\ MAX_COMPARE_PRODUCTS \in Nat \ {0}
<1>1. Deciding \subseteq Request /\ IsFiniteSet(Request)
  BY ComparisonAssumption DEF Deciding
<1>2. /\ IsFiniteSet(Deciding) /\ Cardinality(Deciding) <= Cardinality(Request)
      /\ Cardinality(Deciding) \in Nat /\ Cardinality(Request) \in Nat
  BY <1>1, FS_Subset, FS_CardinalityType
<1> QED
  BY <1>2, ComparisonAssumption DEF CompareType

\* What a DELETE leaves is a part of what was there.
RowsShrink ==
    /\ rows' \in Seq(Row) /\ Len(rows') <= Len(rows) /\ Len(rows') \in Nat
    /\ \E at \in [DOMAIN rows' -> DOMAIN rows] :
          /\ \A m, n \in DOMAIN rows' : at[m] = at[n] => m = n
          /\ \A n \in DOMAIN rows' : rows'[n] = rows[at[n]]

LEMMA LeavesSome ==
    ASSUME CompareType, NEW kept, kept \subseteq DOMAIN rows, Leave(kept)
    PROVE  RowsShrink
<1> DEFINE n == Cardinality(kept)
<1>1. n \in Nat /\ n <= Len(rows)
  <2>1. /\ Len(rows) \in Nat /\ DOMAIN rows = 1 .. Len(rows)
    BY CompareSizes
  <2>2. IsFiniteSet(1 .. Len(rows)) /\ Cardinality(1 .. Len(rows)) = Len(rows)
    BY <2>1, FS_Interval
  <2> QED
    BY <2>1, <2>2, FS_Subset, FS_CardinalityType
<1>2. PICK at \in [1 .. n -> kept] :
          /\ \A i, j \in DOMAIN at : i < j => at[i] < at[j]
          /\ rows' = [i \in DOMAIN at |-> rows[at[i]]]
  BY DEF Leave
<1> HIDE DEF n
<1>3. DOMAIN at = 1 .. n /\ rows' = [i \in 1 .. n |-> rows[at[i]]]
  BY <1>2
<1>4. \A i \in 1 .. n : at[i] \in DOMAIN rows /\ rows[at[i]] \in Row /\ at[i] \in Nat
  <2>1. DOMAIN rows \subseteq Nat /\ \A i \in DOMAIN rows : rows[i] \in Row
    BY CompareSizes
  <2> QED
    BY <1>2, <2>1
<1>5. rows' \in [1 .. n -> Row] /\ DOMAIN rows' = 1 .. n
  BY <1>3, <1>4
<1>6. rows' \in Seq(Row) /\ Len(rows') = n
  BY <1>1, <1>5
<1>7. \A i, j \in 1 .. n : at[i] = at[j] => i = j
  <2>1. ASSUME NEW i \in 1 .. n, NEW j \in 1 .. n, at[i] = at[j], i # j PROVE FALSE
    <3>1. i < j \/ j < i
      BY <2>1
    <3>2. at[i] < at[j] \/ at[j] < at[i]
      BY <1>2, <1>3, <3>1
    <3>3. at[i] \in Nat /\ at[j] \in Nat
      BY <1>4
    <3> QED
      BY <2>1, <3>2, <3>3
  <2> QED
    BY <2>1
<1>8. at \in [1 .. n -> DOMAIN rows] /\ \A i \in 1 .. n : rows'[i] = rows[at[i]]
  BY <1>2, <1>3
<1> QED
  <2>1. \E f \in [DOMAIN rows' -> DOMAIN rows] :
            /\ \A i, j \in DOMAIN rows' : f[i] = f[j] => i = j
            /\ \A i \in DOMAIN rows' : rows'[i] = rows[f[i]]
    <3>1. at \in [DOMAIN rows' -> DOMAIN rows]
      BY <1>5, <1>8
    <3>2. /\ \A i, j \in DOMAIN rows' : at[i] = at[j] => i = j
          /\ \A i \in DOMAIN rows' : rows'[i] = rows[at[i]]
      BY <1>5, <1>7, <1>8
    <3> QED
      BY <3>1, <3>2
  <2>2. rows' \in Seq(Row) /\ Len(rows') <= Len(rows) /\ Len(rows') \in Nat
    BY <1>1, <1>6
  <2> QED
    BY <2>1, <2>2 DEF RowsShrink

LEMMA RemovalsKeep ==
    ASSUME CompareInv, UNCHANGED <<kind, active, adding>>, raced' = Afresh(rows'),
           rows' = <<>> \/ \E kept \in SUBSET DOMAIN rows : Leave(kept)
    PROVE  CompareInv'
<1>1. CompareType /\ LimitAndRacers
  BY DEF CompareInv
<1>2. RowsShrink
  <2>1. CASE rows' = <<>>
    <3>1. Len(rows) \in Nat
      BY <1>1, CompareSizes
    <3>2. rows' \in Seq(Row) /\ Len(rows') = 0 /\ DOMAIN rows' = {}
      BY <2>1
    <3> DEFINE at == [m \in {} |-> 1]
    <3>3. at \in [DOMAIN rows' -> DOMAIN rows]
      BY <3>2
    <3> HIDE DEF at
    <3>4. /\ \A m, n \in DOMAIN rows' : at[m] = at[n] => m = n
          /\ \A n \in DOMAIN rows' : rows'[n] = rows[at[n]]
      BY <3>2
    <3>5. Len(rows') <= Len(rows) /\ Len(rows') \in Nat
      BY <3>1, <3>2
    <3> QED
      BY <3>2, <3>3, <3>4, <3>5 DEF RowsShrink
  <2>2. ASSUME NEW kept \in SUBSET DOMAIN rows, Leave(kept)
        PROVE  RowsShrink
    BY <1>1, <2>2, LeavesSome
  <2> QED
    BY <2>1, <2>2
<1>3. CompareType'
  BY <1>1, <1>2 DEF CompareType, RowsShrink, Afresh, Idle
<1>4. LimitAndRacers'
  <2>1. Deciding' = Deciding
    BY DEF Deciding, At
  <2>2. /\ Len(rows) \in Nat /\ Len(rows') \in Nat /\ Len(rows') <= Len(rows)
        /\ Cardinality(Deciding) \in Nat /\ Cardinality(Request) \in Nat
        /\ MAX_COMPARE_PRODUCTS \in Nat
    BY <1>1, <1>2, CompareSizes DEF RowsShrink
  <2> QED
    BY <1>1, <2>1, <2>2 DEF LimitAndRacers
<1>5. ASSUME ~raced' PROVE RowsAgree' /\ \A r \in Request : StillTrue(r)'
  <2>1. PICK at \in [DOMAIN rows' -> DOMAIN rows] :
            /\ \A m, n \in DOMAIN rows' : at[m] = at[n] => m = n
            /\ \A n \in DOMAIN rows' : rows'[n] = rows[at[n]]
    BY <1>2 DEF RowsShrink
  <2>2. /\ Len(rows) \in Nat /\ Len(rows') \in Nat /\ Len(rows') <= Len(rows)
        /\ MAX_COMPARE_PRODUCTS \in Nat
    BY <1>1, <1>2, CompareSizes DEF RowsShrink
  <2>3. CASE ~raced
    <3>1. RowsAgree /\ \A r \in Request : StillTrue(r)
      BY <2>3 DEF CompareInv
    <3>2. RowsAgree'
      BY <2>1, <2>2, <3>1 DEF RowsAgree
    <3>3. ASSUME NEW r \in Request PROVE StillTrue(r)'
      BY <2>1, <2>2, <3>1 DEF StillTrue, Has, Idle
    <3> QED
      BY <3>2, <3>3
  <2>4. CASE raced
    <3>1. rows' = <<>> /\ \A r \in Request : Idle(r)
      BY <1>5, <2>4 DEF Afresh
    <3>2. Len(rows') = 0 /\ DOMAIN rows' = {}
      BY <3>1
    <3> QED
      BY <2>2, <3>1, <3>2 DEF RowsAgree, StillTrue, Idle
  <2> QED
    BY <2>3, <2>4
<1> QED
  BY <1>3, <1>4, <1>5 DEF CompareInv

\* A request asks, and goes on or is refused.
LEMMA AnswersKeep ==
    ASSUME CompareInv, NEW r \in Request, NEW a, a = NoAdd \/ a \in Adding,
           adding' = [adding EXCEPT ![r] = a], UNCHANGED <<kind, active, rows, raced>>,
           a # NoAdd /\ a.pc = "room" => At(r, "room") \/ Room(r),
           a # NoAdd /\ ~raced =>
               /\ ~Has(a.product)
               /\ a.pc \in {"same", "room"} =>
                      \A i \in DOMAIN rows : rows[i].category = a.category
               /\ a.pc = "room" => Len(rows) < MAX_COMPARE_PRODUCTS
    PROVE  CompareInv'
<1>1. CompareType /\ LimitAndRacers
  BY DEF CompareInv
<1>2. /\ DOMAIN adding' = Request /\ adding'[r] = a
      /\ \A q \in Request \ {r} : adding'[q] = adding[q]
  BY <1>1 DEF CompareType
<1>3. CompareType'
  BY <1>1, <1>2 DEF CompareType, Idle
<1>4. NoAdd.pc = "idle" /\ (a \in Adding => a.pc # "idle" /\ a # NoAdd)
  BY DEF NoAdd, Adding
<1>5. LimitAndRacers'
  <2>1. /\ Len(rows) \in Nat /\ IsFiniteSet(Deciding) /\ Cardinality(Deciding) \in Nat
        /\ Cardinality(Request) \in Nat /\ MAX_COMPARE_PRODUCTS \in Nat
    BY <1>1, CompareSizes
  <2>2. IsFiniteSet(Deciding') /\ Cardinality(Deciding') \in Nat
        /\ Cardinality(Deciding') <= Cardinality(Request)
    BY <1>3, ComparisonAssumption, FS_Subset, FS_CardinalityType DEF Deciding
  <2>3. CASE Room(r)
    BY <2>1, <2>2, <2>3 DEF LimitAndRacers, Room
  <2>4. CASE ~Room(r)
    <3>1. Deciding' \subseteq Deciding
      BY <1>2, <1>4, <2>4 DEF Deciding, At
    <3>2. Cardinality(Deciding') <= Cardinality(Deciding)
      BY <2>1, <3>1, FS_Subset
    <3> QED
      BY <1>1, <2>1, <2>2, <3>2 DEF LimitAndRacers
  <2> QED
    BY <2>3, <2>4
<1>6. ASSUME ~raced PROVE RowsAgree' /\ \A q \in Request : StillTrue(q)'
  <2>1. RowsAgree /\ \A q \in Request : StillTrue(q)
    BY <1>6 DEF CompareInv
  <2>2. StillTrue(r)'
    BY <1>2, <1>4, <1>6 DEF StillTrue, Has, Idle
  <2>3. \A q \in Request \ {r} : StillTrue(q)'
    BY <1>2, <2>1 DEF StillTrue, Has, Idle
  <2> QED
    BY <2>1, <2>2, <2>3 DEF RowsAgree
<1> QED
  BY <1>3, <1>5, <1>6 DEF CompareInv

LEMMA AsksKeep ==
    ASSUME CompareInv, NEW r \in Request,
           AddCategory(r) \/ AddCount(r) \/ \E p \in Good : AddOpen(r, p)
    PROVE  CompareInv'
<1>1. CompareType /\ NoAdd.pc = "idle"
  BY DEF CompareInv, NoAdd
<1>2. ASSUME NEW p \in Good, AddOpen(r, p) PROVE CompareInv'
  <2> DEFINE a == [pc |-> "new", product |-> p, category |-> kind[p]]
  <2>1. kind[p] \in Kind \cup {FirstKind}
    BY <1>1 DEF CompareType
  <2>2. /\ a \in Adding /\ a.pc = "new" /\ a.product = p
    BY <2>1 DEF Adding
  <2>3. adding' = [adding EXCEPT ![r] = a] /\ UNCHANGED <<kind, active, rows, raced>> /\ ~Has(p)
    BY <1>2 DEF AddOpen
  <2> HIDE DEF a
  <2> QED
    BY <2>2, <2>3, AnswersKeep
<1>3. ASSUME NEW asked \in {"new", "same"}, NEW ok \in BOOLEAN, NEW next \in {"same", "room"},
             Answer(r, asked, ok, next),
             next = "room" => asked = "same" /\ (ok => Room(r)),
             next = "same" => (ok => SameCategory(r))
      PROVE  CompareInv'
  <2>1. At(r, asked) /\ UNCHANGED <<kind, active, rows, raced>>
    BY <1>3 DEF Answer
  <2>2. adding[r] \in Adding /\ ~Idle(r)
    BY <1>1, <1>3, <2>1 DEF CompareType, At, Idle
  <2>3. CASE ~ok
    <3>1. adding' = [adding EXCEPT ![r] = NoAdd]
      BY <1>3, <2>3 DEF Answer
    <3> QED
      BY <2>1, <3>1, AnswersKeep
  <2>4. CASE ok
    <3> DEFINE a == [adding[r] EXCEPT !.pc = next]
    <3>1. adding' = [adding EXCEPT ![r] = a]
      BY <1>3, <2>4 DEF Answer
    <3>2. /\ a \in Adding /\ a.pc = next /\ a.product = adding[r].product
          /\ a.category = adding[r].category
      BY <1>3, <2>2 DEF Adding
    <3> HIDE DEF a
    <3>3. ASSUME ~raced
          PROVE  /\ ~Has(a.product)
                 /\ \A i \in DOMAIN rows : rows[i].category = a.category
                 /\ a.pc = "room" => Len(rows) < MAX_COMPARE_PRODUCTS
      <4>1. RowsAgree /\ StillTrue(r)
        BY <3>3 DEF CompareInv
      <4>2. ~Has(a.product)
        BY <2>2, <3>2, <4>1 DEF StillTrue
      <4>3. \A i \in DOMAIN rows : rows[i].category = a.category
        <5>1. CASE next = "room"
          BY <1>3, <2>1, <2>2, <3>2, <4>1, <5>1 DEF StillTrue, At
        <5>2. CASE next = "same"
          <6>1. rows = <<>> \/ rows[1].category = a.category
            BY <1>3, <2>4, <3>2, <5>2 DEF SameCategory
          <6>2. Len(rows) \in Nat /\ DOMAIN rows = 1 .. Len(rows)
            BY <1>1, CompareSizes
          <6>3. \A i \in DOMAIN rows : 1 \in DOMAIN rows
            BY <6>2
          <6>4. rows = <<>> => DOMAIN rows = {}
            OBVIOUS
          <6> QED
            BY <4>1, <6>1, <6>3, <6>4 DEF RowsAgree
        <5> QED
          BY <1>3, <5>1, <5>2
      <4>4. a.pc = "room" => Len(rows) < MAX_COMPARE_PRODUCTS
        BY <1>3, <2>4, <3>2 DEF Room
      <4> QED
        BY <4>2, <4>3, <4>4
    <3>4. a.pc = "room" => Room(r)
      BY <1>3, <2>4, <3>2
    <3> QED
      BY <2>1, <3>1, <3>2, <3>3, <3>4, AnswersKeep
  <2> QED
    BY <1>3, <2>3, <2>4
<1>4. CASE AddCategory(r)
  <2> DEFINE ok == SameCategory(r)
  <2>1. ok \in BOOLEAN /\ Answer(r, "new", ok, "same") /\ (ok => SameCategory(r))
    BY <1>4 DEF AddCategory, SameCategory
  <2> HIDE DEF ok
  <2> QED
    BY <1>3, <2>1
<1>5. CASE AddCount(r)
  <2> DEFINE ok == Room(r)
  <2>1. ok \in BOOLEAN /\ Answer(r, "same", ok, "room") /\ (ok => Room(r))
    BY <1>5 DEF AddCount, Room
  <2> HIDE DEF ok
  <2> QED
    BY <1>3, <2>1
<1> QED
  BY <1>2, <1>4, <1>5

LEMMA InsertKeeps ==
    ASSUME CompareInv, NEW r \in Request, AddInsert(r)
    PROVE  CompareInv'
<1> DEFINE new == [product |-> adding[r].product, category |-> adding[r].category]
           n == Len(rows)
<1>1. /\ CompareType /\ LimitAndRacers /\ At(r, "room") /\ rows' = Append(rows, new)
      /\ adding' = [adding EXCEPT ![r] = NoAdd] /\ UNCHANGED <<kind, active>>
      /\ raced' = (raced \/ \E q \in Request \ {r} : ~Idle(q))
  BY DEF CompareInv, AddInsert
<1>2. /\ adding[r] \in Adding /\ ~Idle(r) /\ NoAdd.pc = "idle"
  BY <1>1 DEF CompareType, At, Idle, NoAdd
<1>3. new \in Row /\ new.product = adding[r].product /\ new.category = adding[r].category
  BY <1>2 DEF Row, Adding
<1> HIDE DEF new
<1>4. /\ rows' \in Seq(Row) /\ n \in Nat /\ DOMAIN rows = 1 .. n /\ DOMAIN rows' = 1 .. n + 1
      /\ Len(rows') = n + 1 /\ rows'[n + 1] = new /\ \A i \in 1 .. n : rows'[i] = rows[i]
  BY <1>1, <1>3, CompareSizes, AppendProperties DEF CompareType
<1>5. /\ DOMAIN adding' = Request /\ adding'[r] = NoAdd
      /\ \A q \in Request \ {r} : adding'[q] = adding[q]
  BY <1>1 DEF CompareType
<1>6. raced' \in BOOLEAN /\ (~raced' => ~raced /\ \A q \in Request \ {r} : Idle(q))
  BY <1>1 DEF CompareType
<1>7. CompareType'
  BY <1>1, <1>4, <1>5, <1>6 DEF CompareType, Idle
<1>8. LimitAndRacers'
  <2>1. Deciding' = Deciding \ {r} /\ r \in Deciding
    BY <1>1, <1>2, <1>5 DEF Deciding, At
  <2>2. IsFiniteSet(Deciding) /\ Cardinality(Deciding) \in Nat
    BY <1>1, CompareSizes
  <2>3. Cardinality(Deciding') = Cardinality(Deciding) - 1
    BY <2>1, <2>2, FS_RemoveElement
  <2>4. Cardinality(Request) \in Nat /\ MAX_COMPARE_PRODUCTS \in Nat
    BY <1>1, CompareSizes
  <2> QED
    BY <1>1, <1>4, <2>2, <2>3, <2>4 DEF LimitAndRacers
<1>9. ASSUME ~raced' PROVE RowsAgree' /\ \A q \in Request : StillTrue(q)'
  <2>1. RowsAgree /\ StillTrue(r)
    BY <1>6, <1>9 DEF CompareInv
  <2>2. /\ \A i \in 1 .. n : /\ rows[i].product # new.product
                             /\ rows[i].category = new.category
        /\ n < MAX_COMPARE_PRODUCTS
    BY <1>1, <1>2, <1>3, <1>4, <2>1 DEF StillTrue, Has, At
  <2>3. \A i \in DOMAIN rows' : i = n + 1 \/ i \in 1 .. n
    BY <1>4
  <2>4. Len(rows') <= MAX_COMPARE_PRODUCTS
    BY <1>4, <2>2, ComparisonAssumption
  <2>5. ASSUME NEW i \in DOMAIN rows', NEW j \in DOMAIN rows'
        PROVE  /\ rows'[i].product = rows'[j].product => i = j
               /\ rows'[i].category = rows'[j].category
    BY <1>4, <2>1, <2>2, <2>3 DEF RowsAgree
  <2>6. \A q \in Request : StillTrue(q)'
    BY <1>5, <1>6, <1>9 DEF StillTrue, Idle
  <2> QED
    BY <2>4, <2>5, <2>6 DEF RowsAgree
<1> QED
  BY <1>7, <1>8, <1>9 DEF CompareInv

LEMMA CompareStart == ASSUME CompareInit PROVE CompareInv
<1>1. rows = <<>> /\ Len(rows) = 0 /\ DOMAIN rows = {} /\ \A r \in Request : Idle(r)
  BY DEF CompareInit, Idle
<1>2. CompareType
  <2>1. kind \in [Good -> Kind \cup {FirstKind}] /\ active \subseteq Good
    BY DEF CompareInit
  <2>2. rows \in Seq(Row)
    BY <1>1
  <2>3. DOMAIN adding = Request /\ raced \in BOOLEAN
    BY DEF CompareInit
  <2> QED
    BY <1>1, <2>1, <2>2, <2>3 DEF CompareType
<1>3. LimitAndRacers
  <2>1. Deciding = {}
    BY <1>1 DEF Deciding, At, Idle, NoAdd
  <2>2. /\ Cardinality(Deciding) = 0 /\ Cardinality(Request) \in Nat
        /\ MAX_COMPARE_PRODUCTS \in Nat \ {0}
    BY <1>2, <2>1, CompareSizes, FS_EmptySet
  <2> QED
    BY <1>1, <2>2 DEF LimitAndRacers
<1>4. RowsAgree /\ \A r \in Request : StillTrue(r)
  BY <1>1, ComparisonAssumption DEF RowsAgree, StillTrue
<1> QED
  BY <1>2, <1>3, <1>4 DEF CompareInv

LEMMA CompareKept == CompareSpec => []CompareInv
<1>1. CompareInv /\ [CompareNext]_compareVars => CompareInv'
  <2> SUFFICES ASSUME CompareInv, [CompareNext]_compareVars PROVE CompareInv'
    OBVIOUS
  <2>1. CASE UNCHANGED compareVars
    BY <2>1 DEF compareVars, CompareInv, CompareType, LimitAndRacers, Deciding, At, Idle,
       RowsAgree, StillTrue, Has
  <2>2. ASSUME NEW p \in Good, Remove(p) PROVE CompareInv'
    <3>1. {i \in DOMAIN rows : rows[i].product # p} \in SUBSET DOMAIN rows
      OBVIOUS
    <3> QED
      BY <2>2, <3>1, RemovalsKeep DEF Remove
  <2>3. ASSUME NEW k \in Kind, DropCategory(k) PROVE CompareInv'
    <3>1. {i \in DOMAIN rows : rows[i].category # k} \in SUBSET DOMAIN rows
      OBVIOUS
    <3> QED
      BY <2>3, <3>1, RemovalsKeep DEF DropCategory
  <2>4. CASE Clear
    BY <2>4, RemovalsKeep DEF Clear
  <2>5. ASSUME NEW p \in Good, Toggle(p) \/ \E k \in Kind : Move(p, k) PROVE CompareInv'
    <3>1. UNCHANGED <<rows, adding, raced>> /\ CompareType'
      BY <2>5 DEF CompareInv, CompareType, Toggle, Move, Idle
    <3> QED
      BY <3>1 DEF CompareInv, LimitAndRacers, Deciding, At, Idle, RowsAgree, StillTrue, Has
  <2>6. CASE CompareNext
    BY <2>2, <2>3, <2>4, <2>5, <2>6, AsksKeep, InsertKeeps DEF CompareNext
  <2> QED
    BY <2>1, <2>6
<1> QED
  BY <1>1, CompareStart, PTL DEF CompareSpec

\* The limit of the comparison is passed by no more than one row for every
\* other request in flight (add_to_compare).
THEOREM RacersAreBounded == CompareSpec => []LimitAndRacers
<1>1. CompareInv => LimitAndRacers
  BY DEF CompareInv
<1> QED
  BY <1>1, CompareKept, PTL

\* One addition at a time keeps the rules, whatever is removed or edited in
\* between, and the saved comparison is one that can be asked for ad hoc
\* (add_to_compare, validate_comparison_ids).
THEOREM AloneTheRulesHold == CompareSpec => []AloneKeepsTheRules
<1>1. CompareInv => AloneKeepsTheRules
  <2> SUFFICES ASSUME CompareInv, ~raced PROVE AloneKeepsTheRules
    BY DEF AloneKeepsTheRules
  <2> DEFINE ids == [i \in DOMAIN rows |-> rows[i].product]
  <2>1. RowsAgree /\ DOMAIN rows = 1 .. Len(rows) /\ Len(rows) \in Nat
    BY CompareSizes DEF CompareInv
  <2>2. DOMAIN ids = DOMAIN rows /\ \A i \in DOMAIN rows : ids[i] = rows[i].product
    OBVIOUS
  <2>3. Len(ids) = Len(rows)
    BY <2>1
  <2> HIDE DEF ids
  <2>4. Len(ids) >= MIN_COMPARE_PRODUCTS => ValidIds(ids)
    BY <2>1, <2>2, <2>3 DEF ValidIds, RowsAgree
  <2>5. AdHoc(ids) => ListShown = {ids[i] : i \in DOMAIN ids}
    BY <2>2 DEF AdHoc, ListShown, Has
  <2>6. /\ Len(rows) <= MAX_COMPARE_PRODUCTS
        /\ \A i, j \in DOMAIN rows : /\ rows[i].product = rows[j].product => i = j
                                     /\ rows[i].category = rows[j].category
    BY <2>1 DEF RowsAgree
  <2>7. /\ Len(ids) >= MIN_COMPARE_PRODUCTS => ValidIds(ids)
        /\ AdHoc(ids) => ListShown = {ids[i] : i \in DOMAIN ids}
    BY <2>4, <2>5
  <2> USE DEF ids
  <2> QED
    BY <2>6, <2>7 DEF AloneKeepsTheRules
<1> QED
  BY <1>1, CompareKept, PTL

=============================================================================
