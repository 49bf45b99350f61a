SPECIFICATION Spec
CONSTANTS
  Posters = {p1, p2}
  Batches <- MixedBatches
  FmqCapacity = 2
  MaxPending = 4
  MaxPosted = 3
  MaxSessions = 2
INVARIANTS TypeOK InOrder PendingCounted NoStaleEvents
PROPERTIES OneWriter PendingDrains ImplementsLossyFifo
