CONSTANTS
  Requests = {r1, r2, r3}
  Sizes = {0, 1, 2, 4, 6}
  MaxBytes = 3
  MaxObjects = 2
  MaxSize = 4
  MaxWord = 7
  MaxViews = 2
SPECIFICATION Spec
SYMMETRY Symmetry
INVARIANTS TypeOK Accounting WithinLimits PayloadWithinCharge
