SPECIFICATION Spec
CONSTANTS
  NoOrder = NoOrder
  NoTrans = NoTrans
  Orders = {o1}
  Products = {p1}
  Trans = {t1, t2}
  Workers = {w1}
  Lines <- OneUnitEach
  InitialStock <- OneOnShelf
  StaffTargets = {"new"}
  LateReplays = TRUE
  OneSession = FALSE
  MaxReturns = 2
CHECK_DEADLOCK FALSE
SYMMETRY Interchangeable
INVARIANTS TypeOK MoneyBacksPaid RefundedMeansLetGo CallbacksIdempotent ClosedGaveStockBack NoUnitLost
