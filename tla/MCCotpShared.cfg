CONSTANTS
  t1 = t1
  t2 = t2
  a = a
  b = b
  c = c
  Task <- TwoTasks
  SizeCode <- SmallSizeCode
  Byte <- MCByte
  Payload <- MCPayload
  MaxSends = 2
  MaxInFlight = 2
SPECIFICATION Spec
INVARIANTS WholeTsdus
CHECK_DEADLOCK FALSE
