CONSTANTS
  Cap = 4
  MaxSpans = 2
  MaxAddr = 6
  Versions = {"old", "new"}
SPECIFICATION Spec
VIEW StoreView
INVARIANTS TypeOK WellFormed QueriesAgree
PROPERTY ImplementsByteStore
