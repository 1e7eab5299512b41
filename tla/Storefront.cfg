CONSTANTS
  c1 = c1
  c2 = c2
  c3 = c3
  p1 = p1
  p2 = p2
  p3 = p3
  r1 = r1
  r2 = r2
  p4 = p4
  NoCategory = NoCategory
  NoStock = NoStock
  NoPrice = NoPrice
  NoListing = NoListing
  NoTrait = NoTrait
  Category = {c1, c2, c3}
  Product = {p1, p2, p3, p4}
  Review = {r1, r2}
  Units = {0, 2}
  About <- MCAbout
  Stars <- MCStars
  Price <- MCPrice
  OldPrice <- MCOldPrice
  Traits <- MCTraits
  Listings <- MCListings
  FirstCategories <- MCCategories
  FirstProducts <- MCProducts
  PageSize = 2
  LowStock = 1
  MaxEdits = 2
  N = 2
  Worker = {w1, w2}
  Staff = {s1}
  MaxUnits = 2
  LOW_STOCK_THRESHOLD = 1
  Good = {g1, g2, g3}
  Kind = {k1, k2}
  FirstKind = k1
  Request = {q1, q2}
  MIN_COMPARE_PRODUCTS = 2
  MAX_COMPARE_PRODUCTS = 2
SPECIFICATION StorefrontSpec
INVARIANTS
  CountsMatchListing FiguresAgree WalkIsFaithful
  StatusMatchesQuantity TransactionsQueue
  LimitAndRacers AloneKeepsTheRules
SYMMETRY Interchangeable
CHECK_DEADLOCK FALSE
