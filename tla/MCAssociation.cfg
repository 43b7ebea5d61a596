CONSTANTS
  PasswordLengths <- Passwords
  PduLengths <- Pdus
  MaxPdus = 1
SPECIFICATION Spec
INVARIANTS NoSlicePanic Agreed PdusExact
CHECK_DEADLOCK FALSE
