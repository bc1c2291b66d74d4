SPECIFICATION Spec
CONSTANTS
  Size = 5
  Cap = 3
  MaxLen = 4
  MaxReads = 2
  Uses <- MixedUse
INVARIANT
  ProtocolKept
CHECK_DEADLOCK FALSE
