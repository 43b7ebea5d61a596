CONSTANTS
  Clients <- ClientsOf
  IedName <- Ied
  Devices <- DevicesOf
  DataSets <- DataSetsOf
  RCBs <- RCBsOf
  Order <- OrderOf
  Calls <- CallsOf
  Updates <- UpdatesOf
  MaxUpdates = 1
  MaxReports = 1
  Now = 1700000000
  WordLength <- Lengths
  MaxResponseBytes = 45
SPECIFICATION Spec
INVARIANTS PagesWhole ReadExact Aligned DataSetAgrees ReportExact BlockConfigured
PROPERTY ReportsCover
CHECK_DEADLOCK FALSE
