CONSTANTS
  Pdus <- PdusOf
  Addresses <- AddressesOf
  Qualities <- QualitiesOf
  Cuts <- CutsOf
  Padding = 46
SPECIFICATION Spec
INVARIANTS GooseExact GooseDelivered BerExact
CHECK_DEADLOCK FALSE
