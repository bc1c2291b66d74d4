CONSTANTS
  Facts <- FactsMC
  Outputs <- OutputsMC
  SinkCalls <- SinkCallsMC
  None = None
  MaxId = 3
SPECIFICATION Spec
INVARIANTS TypeOK SinkGated
PROPERTIES SinkFailureSurfaces AdoptsWhatWasNamed NativeStops ImplementsContract
