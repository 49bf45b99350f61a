SPECIFICATION Spec
CONSTANTS
  Posters = {p1, p2}
  Batches <- SingleBatches
  FmqCapacity = 1
  MaxPending = 1
  MaxPosted = 2
  MaxSessions = 2
  Timeout = 0
  MaxRefCount = 6
  MaxUnacked = 6
INVARIANTS TypeOK LockedUntilRead
PROPERTY ImplementsWakelock
