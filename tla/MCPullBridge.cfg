CONSTANTS
  MaxAsks = 3
  MaxStrips = 2
  StripCap = 1
  None = None
SPECIFICATION Spec
INVARIANT StripsDelivered
PROPERTIES AnswersMatch Released
CHECK_DEADLOCK FALSE
