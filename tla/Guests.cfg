SPECIFICATION GuestsSpec
CONSTANTS
  NoOrder = NoOrder
  NoTrans = NoTrans
  Orders = {o1, o2}
  Products = {p1}
  Trans = {t1, t2}
  Workers = {w1}
  Lines <- OneUnitEach
  InitialStock <- OneOnShelf
  StaffTargets = {}
  LateReplays = FALSE
  OneSession = TRUE
  MaxReturns = 2
  Visitor = {v1, v2}
  Handler = {h1, h2}
  MaxSessions = 2
  Number = {1, 2, 3}
  BaseCost = {0, 1}
  MaxCarts = 2
  MaxOrders = 1
  MaxChanges = 2
  Address = {a1, a2}
  Form = {f1, f2}
  NoAddress = NoAddress
CHECK_DEADLOCK FALSE
SYMMETRY Everybody
INVARIANTS YoursAlone PlacedAsChosen OneDefault
PROPERTIES ReservesAndReturnsOnce RefundIsFinal
