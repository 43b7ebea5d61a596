CONSTANTS
  c1 = c1
  c2 = c2
  r1 = r1
  r2 = r2
  u1 = u1
  u2 = u2
  NoConn = NoConn
  Conn <- OneConn
  Rcb <- OneRcb
  Monitor <- OneRcb
  Field <- RptEnaOnly
  Updater <- OneUpdater
  MaxConnections = 1
  SqNumModulus = 2
  MaxStarts = 1
  MaxUpdates = 1
  MaxWrites = 2
SPECIFICATION Spec
INVARIANTS NoPanic
CHECK_DEADLOCK FALSE
