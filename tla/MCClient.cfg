CONSTANTS
  k1 = k1
  k2 = k2
  NoCall = NoCall
  Call <- TwoCalls
  HandlerCall <- OneCall
  IdModulus = 2
  MayStall = TRUE
  IdleTimeout = TRUE
  MaxReports = 1
SPECIFICATION Spec
INVARIANTS ResponseMatches PendingExact
PROPERTIES LossReported CallsReturn CloseEnds
CHECK_DEADLOCK FALSE
