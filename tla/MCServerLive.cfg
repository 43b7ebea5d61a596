CONSTANTS
  c1 = c1
  c2 = c2
  r1 = r1
  r2 = r2
  u1 = u1
  u2 = u2
  NoConn = NoConn
  Conn <- TwoConns
  Rcb <- OneRcb
  Monitor <- OneRcb
  Field <- ReportFields
  Updater <- OneUpdater
  MaxConnections = 1
  SqNumModulus = 2
  MaxStarts = 1
  MaxUpdates = 1
  MaxWrites = 1
SPECIFICATION Spec
INVARIANTS ConnLimit
PROPERTIES Removed ReportsProceed LoopsEnd
CHECK_DEADLOCK FALSE
