CONSTANTS
  t1 = t1
  t2 = t2
  a = a
  b = b
  c = c
  Task <- OneTaskSet
  SizeCode <- MCSizeCode
  Byte <- MCByte
  Payload <- MCPayload
  MaxSends = 2
  MaxInFlight = 2
SPECIFICATION Spec
INVARIANTS TypeOK Integrity ServerHonoursSize
PROPERTIES ChannelSpec Delivered
CHECK_DEADLOCK FALSE
