SPECIFICATION SyncSpec
CONSTANTS
  NoOrder = NoOrder
  NoTrans = NoTrans
  Orders = {o1}
  Products = {p1}
  Trans = {t1}
  Workers = {w1}
  Lines <- OneUnitEach
  InitialStock <- OneOnShelf
  StaffTargets = {}
  LateReplays = FALSE
  OneSession = FALSE
  MaxReturns = 2
CHECK_DEADLOCK FALSE
PROPERTIES CancelledStaysClosed
