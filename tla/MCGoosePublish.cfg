CONSTANTS
  t1 = t1
  t2 = t2
  v1 = v1
  v2 = v2
  NoData = NoData
  NoTask = NoTask
  Publishes <- First
  Retransmits <- Both
  Value <- Values
  NumModulus = 3
  MaxCalls = 3
SPECIFICATION Spec
INVARIANTS PduExact Increasing StateConsistent
PROPERTIES CallsReturn
CHECK_DEADLOCK FALSE
