SPECIFICATION FairSpec
CONSTANTS
  Size = 4
  Cap = 2
  MaxLen = 4
  MaxReads = 3
  Uses <- SafeUses
INVARIANTS
  ProtocolKept
  RequestsAreGaps
  ForwardOnly
PROPERTIES
  TakenIsKept
  ReadsComplete
CHECK_DEADLOCK FALSE
