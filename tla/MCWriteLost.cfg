CONSTANTS
  Clients <- WriterOnly
  IedName <- Ied
  Devices <- DevicesOf
  DataSets <- DataSetsOf
  RCBs <- RCBsOf
  Order <- OrderOf
  Calls <- CallsOf
  Updates <- UpdatesOf
  MaxUpdates = 0
  MaxReports = 1
  Now = 1700000000
  WordLength <- Lengths
  MaxResponseBytes = 45
SPECIFICATION Spec
INVARIANT WriteTakesEffect
CHECK_DEADLOCK FALSE
