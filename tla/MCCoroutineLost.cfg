SPECIFICATION Spec
CONSTANTS
  Size = 4
  Cap = 4
  MaxLen = 4
  MaxReads = 3
  Uses <- RandomUse
PROPERTY
  ConsumedIsKept
CHECK_DEADLOCK FALSE
