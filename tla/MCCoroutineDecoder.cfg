CONSTANTS
  Infos <- InfosMC
  Outputs <- OutputsMC
  Facts <- FactsMC
  Batches <- BatchesMC
  Descs = {"rgb", "gray"}
  None = None
  MaxId = 3
  MaxOffer = 1
  MaxBuffer = 1
  MaxWritten = 4
SPECIFICATION Spec
INVARIANTS TypeOK AdoptionGatesOutput ResultIsAdopted StripsInOrder DetailsOnSuccessOnly
PROPERTIES Terminal FutureNotRepolled SinkProtocol BoundaryHolds ImplementsContract
