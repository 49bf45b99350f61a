SPECIFICATION Spec
CONSTANTS
  Posters = {p1}
  Batches <- LongBatches
  FmqCapacity = 1
  MaxPending = 2
  MaxPosted = 2
  MaxSessions = 1
  Timeout = 0
  MaxRefCount = 6
  MaxUnacked = 6
INVARIANT LockedUntilRead
