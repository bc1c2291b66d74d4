CONSTANTS
  Unknown = Unknown
  Zero = Zero
  None = None
  Length = 5
  InputBytes = 4
  Ranges = 2
  MaxGap = 1
  InFlights = {0, 2}
  ReadSize = 2
  MaxWindow = 3
  Buffered <- Sources
  RequestLists <- AndPastTheEnd
SPECIFICATION Spec
INVARIANTS TypeOK OfferIsSource RetainedWithinLimits ServedIsOffered
