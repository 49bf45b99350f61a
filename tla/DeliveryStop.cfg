SPECIFICATION Spec
CONSTANTS
  Posters = {p1}
  Batches <- MixedBatches
  FmqCapacity = 1
  MaxPending = 2
  MaxPosted = 2
  MaxSessions = 2
PROPERTIES InitializeReturns
