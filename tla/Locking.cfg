SPECIFICATION FairSpec
CONSTANTS
  NoOrder = NoOrder
  NoTrans = NoTrans
  Orders = {o1}
  Products = {p1}
  Trans = {t1, t2}
  Workers = {w1, w2}
  Lines <- OneUnitEach
  InitialStock <- OneOnShelf
  StaffTargets = {}
  LateReplays = TRUE
  OneSession = FALSE
  MaxReturns = 2
CHECK_DEADLOCK FALSE
INVARIANTS AckedMeansPaid AckedRefundMeansReturned
PROPERTIES RefusedOnceReleased CancelledStaysClosed ExpiredIsSettled LateChargeIsVoided
