\* What ScopedWakelock.h says of a ScopedWakelock that is in scope.
CONSTANTS
  Owners = {o1, o2}
  WakeCounts = {1, 2}
  Timeout = 1
  MaxRefCount = 5
  MaxUnacked = 3
SPECIFICATION Spec
INVARIANT ScopedHoldsLock
