CONSTANTS
  s1 = s1
  s2 = s2
  a1 = a1
  a2 = a2
  AcceptAll = AcceptAll
  Subscriber <- Subscribers
  AppID <- AppIDs
  Filter <- Filters
  MaxAdds = 3
  MaxStarts = 1
  MaxStops = 2
  MaxFrames = 2
SPECIFICATION Spec
INVARIANTS InOrder
PROPERTIES Delivered LoopEnds
CHECK_DEADLOCK FALSE
