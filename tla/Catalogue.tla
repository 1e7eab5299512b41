---------------------------- MODULE Catalogue ----------------------------
(***************************************************************************)
(* The storefront's catalogue: the stored categories, products, stock rows *)
(* and reviews, what the staff do to them, and the pages computed from     *)
(* them on every request (apps/catalog/selectors.py, api/catalog).  The    *)
(* pages are operators of the state.  One customer walks through a         *)
(* paginated listing, request by request, while the staff edit.            *)
(*                                                                         *)
(* Prices and characteristics of a product, and what a review is about,    *)
(* are constants: no property depends on their changing.                   *)
(***************************************************************************)
EXTENDS Integers, FiniteSets

CONSTANTS
    Category, NoCategory,   \* categories, and the parent of a root
    Product,
    NoStock,                  \* a product without a stock row
    Units,                  \* quantities the staff set
    Review, About, Stars,   \* About[r] is the product, Stars[r] the rating
    Price, OldPrice,        \* per product; OldPrice may be NoPrice
    NoPrice,
    Traits, NoTrait,        \* per product its ProductAttribute rows
    Listings, NoListing,    \* the filters a customer may list with
    PageSize, LowStock,
    FirstCategories, FirstProducts,    \* what is stored at first
    MaxEdits                \* bound on the staff's edits

VARIABLES
    category,    \* existing categories: [parent, is_active]
    product,     \* existing products: [category, is_active, created, stock]
    published,   \* the reviews with is_published
    walk,        \* the customer's walk through a listing
    edits        \* how many edits were made; also the clock of created_at

vars == <<category, product, published, walk, edits>>

Cats == DOMAIN category
Prods == DOMAIN product
CategoryRow == [parent : Category \cup {NoCategory}, is_active : BOOLEAN]
ProductRow == [category : Category, is_active : BOOLEAN, created : Int,
               stock : Nat \cup {NoStock}]

ASSUME CatalogueAssumption ==
    /\ NoCategory \notin Category /\ NoListing \notin Listings
    /\ Units \subseteq Nat /\ IsFiniteSet(Product) /\ IsFiniteSet(Review)
    /\ PageSize \in Nat \ {0} /\ LowStock \in Nat /\ MaxEdits \in Nat
    /\ About \in [Review -> Product] /\ Stars \in [Review -> 1 .. 5]

ASSUME FirstAssumption ==
    /\ DOMAIN FirstCategories \subseteq Category
    /\ FirstCategories \in [DOMAIN FirstCategories -> CategoryRow]
    /\ DOMAIN FirstProducts \subseteq Product
    /\ FirstProducts \in [DOMAIN FirstProducts -> ProductRow]
    /\ \A c \in DOMAIN FirstCategories :
          FirstCategories[c].parent \in DOMAIN FirstCategories \cup {NoCategory}
    /\ \A p \in DOMAIN FirstProducts :
          FirstProducts[p].category \in DOMAIN FirstCategories

-----------------------------------------------------------------------------
(* Category membership and product counts.                                 *)

\* What a listing by categories selects: filter_category resolves the ids.
IdsListed(ids) == ids \cup {c \in Cats : category[c].parent \in ids}
CategoryFilter_shownOnly(ids) ==
    {p \in Prods : product[p].category \in
        ids \cup {c \in Cats : /\ category[c].parent \in ids
                               /\ category[c].is_active}}
CategoryFilter(ids) == {p \in Prods : product[p].category \in IdsListed(ids)}

\* The same set by the product's side: category_products_q.
CategoryProducts(ids) ==
    {p \in Prods : \/ product[p].category \in ids
                   \/ category[product[p].category].parent \in ids}

Active == {p \in Prods : product[p].is_active}

\* product_count, annotated on a queryset of categories.
ProductCount(c) ==
    Cardinality({p \in Active : \/ product[p].category = c
                                \/ category[product[p].category].parent = c})
CountProductsInCategory(c) == Cardinality(Active \cap CategoryProducts({c}))

-----------------------------------------------------------------------------
(* Categories as the storefront shows them: [category |-> product_count].  *)

CategoryList == [c \in {d \in Cats : category[d].is_active} |-> ProductCount(c)]
Roots == {c \in DOMAIN CategoryList : category[c].parent = NoCategory}
ChildrenOf(c) == {d \in Cats : category[d].parent = c /\ category[d].is_active}
\* The children are prefetched without the annotation: the serializer's default.
ChildCount(c) == 0
CategoryTree == [c \in Roots |-> [product_count |-> ProductCount(c),
                                  children |-> [d \in ChildrenOf(c) |-> ChildCount(d)]]]

-----------------------------------------------------------------------------
(* Availability and ratings.                                               *)

Stocked(p) == product[p].stock # NoStock
StockQuantity(p) == IF Stocked(p) THEN product[p].stock ELSE 0
InStock_anyRow(p) == Stocked(p)
InStock(p) == Stocked(p) /\ product[p].stock > 0
OutOfStock(p) == ~Stocked(p) \/ product[p].stock <= 0
AvailableQuantity(p) ==
    IF Stocked(p) /\ product[p].stock > 0 THEN product[p].stock ELSE 0

\* Stock.status_for: the badge beside the quantity.
StatusFor(quantity, current) ==
    CASE quantity <= 0 /\ current = "on_order" -> "on_order"
      [] quantity <= 0 /\ current # "on_order" -> "out_of_stock"
      [] quantity > 0 /\ quantity <= LowStock -> "low_stock"
      [] OTHER -> "in_stock"

ReviewsOf(p) == {r \in Review : About[r] = p}
PublishedReviews(p) == published \cap ReviewsOf(p)
WithStars(p, n) == {r \in PublishedReviews(p) : Stars[r] = n}
Distribution(p) == [n \in 1 .. 5 |-> Cardinality(WithStars(p, n))]
ReviewCount(p) == Cardinality(PublishedReviews(p))
StarSum(d) == d[1] + 2 * d[2] + 3 * d[3] + 4 * d[4] + 5 * d[5]

\* n / d to the nearest whole, halves to even: Python's round.
Rounded(n, d) ==
    LET q == n \div d   r == 2 * (n % d)
    IN  IF r > d \/ (r = d /\ q % 2 = 1) THEN q + 1 ELSE q
AverageRating(p) ==    \* in hundredths
    IF ReviewCount(p) = 0 THEN 0
    ELSE Rounded(100 * StarSum(Distribution(p)), ReviewCount(p))

Discounted(p) == OldPrice[p] # NoPrice /\ OldPrice[p] > Price[p]
DiscountPercent(p) ==
    IF Discounted(p) THEN Rounded(100 * (OldPrice[p] - Price[p]), OldPrice[p])
    ELSE 0

Card(p) == [category       |-> product[p].category,
            product_count  |-> ProductCount(product[p].category),
            rating         |-> AverageRating(p),
            review_count   |-> ReviewCount(p),
            stock_quantity |-> StockQuantity(p),
            in_stock       |-> StockQuantity(p) > 0,
            discount       |-> DiscountPercent(p)]
RatingSummary(p) == [average_rating |-> AverageRating(p),
                     review_count   |-> ReviewCount(p),
                     distribution   |-> Distribution(p)]

-----------------------------------------------------------------------------
(* Characteristics.                                                        *)

\* A row has a number of its own, or refers to a predefined value, which is a
\* text or a number, or, once that value was deleted, has neither.
ProductAttribute(code, number, text, preset) ==
    [code |-> code, number |-> number, text |-> text, preset |-> preset]
Shown(row) == IF row.number # NoTrait THEN row.number
              ELSE IF row.text # NoTrait THEN row.text ELSE row.preset
\* Of several rows for one attribute the matrix shows the last that has a value,
\* which may be any of them.
ComparisonMatrix(products) ==
    LET rows == UNION {Traits[p] : p \in products}
        Values(p, code) == {Shown(t) : t \in {u \in Traits[p] : u.code = code}} \ {NoTrait}
    IN  [code \in {t.code : t \in rows} |->
            [values    |-> [p \in products |-> Values(p, code)],
             is_common |-> \A p \in products : Values(p, code) # {}]]

-----------------------------------------------------------------------------
(* Listings.  A filter [categories, stock, discount, rating, attribute]    *)
(* narrows by each of its parameters that is not "any" or empty.           *)

FilterStock(p, f) == CASE f.stock = "any" -> TRUE
                       [] f.stock = "in"  -> InStock(p)
                       [] f.stock = "out" -> OutOfStock(p)
FilterDiscount(p, f) == f.discount = "any" \/ (f.discount = "yes") = Discounted(p)
FilterRating(p, f) ==      \* the average is compared before it is rounded
    f.rating = 0 \/ /\ ReviewCount(p) > 0
                    /\ StarSum(Distribution(p)) >= f.rating * ReviewCount(p)
\* Values of one code are alternatives; every code must be met.
FilterAttribute(p, f) ==
    \A want \in f.attribute :
        \E trait \in Traits[p], value \in {w[2] : w \in f.attribute} :
            /\ trait.code = want[1] /\ <<trait.code, value>> \in f.attribute
            /\ value \in {trait.number, trait.text}

Listed(f) ==
    {p \in Active : /\ f.categories = {} \/ p \in CategoryFilter(f.categories)
                    /\ FilterStock(p, f) /\ FilterDiscount(p, f)
                    /\ FilterRating(p, f) /\ FilterAttribute(p, f)}

\* The default ordering, newest first.  created_at tells products apart.
Before(p, q) == product[p].created > product[q].created
Position(p, f) == Cardinality({q \in Listed(f) : Before(q, p)})
Page(f, n) == {p \in Listed(f) : /\ Position(p, f) >= (n - 1) * PageSize
                                 /\ Position(p, f) < n * PageSize}
HasNext_whole(f, n) == (n + 1) * PageSize <= Cardinality(Listed(f))
HasNext(f, n) == n * PageSize < Cardinality(Listed(f))

RelatedProducts(p, limit) ==
    LET mates == {q \in Active \ {p} : product[q].category = product[p].category}
    IN  {q \in mates : Cardinality({o \in mates : Before(o, q)}) < limit}

-----------------------------------------------------------------------------
(* The customer's walk: `due' was listed when it began, `seen' was shown,  *)
(* `again' was shown on an earlier page too; `left' and `came' are         *)
(* products that left or entered the listing since.                        *)

NoWalk == [list |-> NoListing, page |-> 0, due |-> {}, seen |-> {},
           again |-> {}, left |-> {}, came |-> {}]

Walking == walk.list # NoListing
Ended == Walking /\ ~HasNext(walk.list, walk.page)

OpenListing(f) ==
    /\ ~Walking
    /\ walk' = [NoWalk EXCEPT !.list = f, !.page = 1,
                              !.due = Listed(f), !.seen = Page(f, 1)]
    /\ UNCHANGED <<category, product, published, edits>>

NextPage ==
    /\ Walking /\ ~Ended
    /\ LET shown == Page(walk.list, walk.page + 1) IN
       walk' = [walk EXCEPT !.page = @ + 1, !.seen = @ \cup shown,
                            !.again = @ \cup (walk.seen \cap shown)]
    /\ UNCHANGED <<category, product, published, edits>>

Watch ==
    \/ ~Walking /\ UNCHANGED walk
    \/ \E f \in Listings :
          /\ Walking /\ walk.list = f
          /\ walk' = [walk EXCEPT !.left = @ \cup (Listed(f) \ Listed(f)'),
                                 !.came = @ \cup (Listed(f)' \ Listed(f))]

-----------------------------------------------------------------------------
(* The staff.                                                              *)

Edit == edits < MaxEdits /\ edits' = edits + 1 /\ Watch

CreateCategory(c, row) ==
    /\ c \notin Cats /\ row.parent \in Cats \cup {NoCategory}
    /\ category' = [d \in Cats \cup {c} |-> IF d = c THEN row ELSE category[d]]
    /\ UNCHANGED <<product, published>>
    /\ Edit

EditCategory(c, row) ==    \* any parent, itself and its children included
    /\ c \in Cats /\ row.parent \in Cats \cup {NoCategory}
    /\ category' = [category EXCEPT ![c] = row]
    /\ UNCHANGED <<product, published>>
    /\ Edit

\* CASCADE takes the subcategories along, PROTECT refuses if any has a product.
Subtree(c) ==
    {d \in Cats : \A S \in SUBSET Cats :
        c \in S /\ (\A e \in Cats : category[e].parent \in S => e \in S) => d \in S}
DeleteCategory(c) ==
    /\ c \in Cats /\ \A p \in Prods : product[p].category \notin Subtree(c)
    /\ category' = [d \in Cats \ Subtree(c) |-> category[d]]
    /\ UNCHANGED <<product, published>>
    /\ Edit

CreateProduct(p, c) ==
    /\ p \notin Prods /\ c \in Cats
    /\ product' = [q \in Prods \cup {p} |-> IF q # p THEN product[q] ELSE
         [category |-> c, is_active |-> TRUE, created |-> edits + 1, stock |-> NoStock]]
    /\ UNCHANGED <<category, published>>
    /\ Edit

EditProduct(p, c, shown) ==
    /\ p \in Prods /\ c \in Cats
    /\ product' = [product EXCEPT ![p].category = c, ![p].is_active = shown]
    /\ UNCHANGED <<category, published>>
    /\ Edit

DeleteProduct(p) ==        \* CASCADE takes its stock row and reviews along
    /\ p \in Prods
    /\ product' = [q \in Prods \ {p} |-> product[q]]
    /\ published' = published \ PublishedReviews(p)
    /\ UNCHANGED category
    /\ Edit

SetStock(p, n) ==
    /\ p \in Prods
    /\ product' = [product EXCEPT ![p].stock = n]
    /\ UNCHANGED <<category, published>>
    /\ Edit

Moderate(r) ==
    /\ About[r] \in Prods
    /\ published' = IF r \in published THEN published \ {r} ELSE published \cup {r}
    /\ UNCHANGED <<category, product>>
    /\ Edit

StaffEdit ==
    \/ \E c \in Category, row \in CategoryRow :
          CreateCategory(c, row) \/ EditCategory(c, row)
    \/ \E c \in Category : DeleteCategory(c)
    \/ \E p \in Product, c \in Category : CreateProduct(p, c)
    \/ \E p \in Product, c \in Category, b \in BOOLEAN : EditProduct(p, c, b)
    \/ \E p \in Product : DeleteProduct(p)
    \/ \E p \in Product, n \in Units \cup {NoStock} : SetStock(p, n)
    \/ \E r \in Review : Moderate(r)

Customer == NextPage \/ \E f \in Listings : OpenListing(f)

Init ==
    /\ category = FirstCategories /\ product = FirstProducts
    /\ published = {} /\ walk = NoWalk /\ edits = 0
Next == Customer \/ StaffEdit
Spec == Init /\ [][Next]_vars

-----------------------------------------------------------------------------
(* Properties.                                                             *)

\* Types and references: every product has an existing category, every
\* category an existing parent, whatever the staff delete or move.
References ==
    /\ \A c \in Cats : category[c].parent \in Cats \cup {NoCategory}
    /\ \A p \in Prods : product[p].category \in Cats
TypeOK ==
    /\ Cats \subseteq Category /\ category \in [Cats -> CategoryRow]
    /\ Prods \subseteq Product /\ product \in [Prods -> ProductRow]
    /\ References
    /\ published \subseteq {r \in Review : About[r] \in Prods}
    /\ edits \in 0 .. MaxEdits

\* The number shown beside a category is the number of products its listing
\* has, by every path that computes either, in a tree of any depth or shape
\* (the comment at apps/catalog/selectors.py:47-54).  The subcategories of the
\* tree are left out: they show ChildCount, which is no count at all.
CountsMatchListing ==
    \A c \in Cats :
        /\ ProductCount(c) = Cardinality(Active \cap CategoryFilter({c}))
        /\ ProductCount(c) = CountProductsInCategory(c)
        /\ c \in Roots => CategoryTree[c].product_count = CategoryList[c]

\* Except a predefined number, which the filter does not look at.
ComparisonsFilter ==
    LET matrix == ComparisonMatrix(Active) IN
    \A code \in {c \in DOMAIN matrix : matrix[c].is_common}, p \in Active :
        \A value \in matrix[code].values[p] :
            \/ FilterAttribute(p, [attribute |-> {<<code, value>>}])
            \/ \E t \in Traits[p] : t.preset = value
\* What a card, a listing's filters, the review pages and the cart say of one
\* product agree: a product is for sale for all of them or for none, a badge
\* never contradicts it, the stars add up to the number of reviews, and what a
\* comparison shows in a common row the attribute filter finds.
FiguresAgree == ComparisonsFilter /\
    \A p \in Active :
        LET sold == Card(p).in_stock IN
        /\ InStock(p) = sold /\ OutOfStock(p) = ~sold
        /\ (AvailableQuantity(p) > 0) = sold
        /\ AvailableQuantity(p) = StockQuantity(p)
        /\ \A old \in {"in_stock", "low_stock", "out_of_stock", "on_order"} :
               StatusFor(StockQuantity(p), old) \in {"in_stock", "low_stock"} <=> sold
        /\ LET d == RatingSummary(p).distribution IN
           d[1] + d[2] + d[3] + d[4] + d[5] = Card(p).review_count
        /\ Card(p).rating = 0 <=> PublishedReviews(p) = {}
        /\ Card(p).rating <= 500

\* A customer who walks through a listing to its end has seen every product
\* that was there when they began, unless one left it meanwhile; and sees none
\* twice, unless one entered it meanwhile.
WalkIsFaithful ==
    /\ Ended /\ walk.left = {} => walk.due \subseteq walk.seen
    /\ walk.came = {} => walk.again = {}
=============================================================================
