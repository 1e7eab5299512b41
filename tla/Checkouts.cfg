SPECIFICATION FairSpec
CONSTANTS
  a = a
  b = b
  both = both
  onlyA = onlyA
  onlyB = onlyB
  r1 = r1
  r2 = r2
  r3 = r3
  r4 = r4
  Promo = promo
  Nobody = nobody
  NoRow = noRow
  Requests = {r1, r2, r3, r4}
  Products <- MCProducts
  Carts <- MCCarts
  CartOf <- MCCartOf
  Contents <- MCContents
  CodedCarts <- MCCarts
  UsageLimit = 1
  InitialStock <- MCStock
INVARIANTS PromoCounted JudgedNeverVictim
PROPERTIES ReservesAllOrNothing EveryCheckoutEnds
CHECK_DEADLOCK FALSE
