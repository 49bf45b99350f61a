\* Two sub-HAL threads, batches of one or two wake-up events.
CONSTANTS
  Owners = {o1, o2}
  WakeCounts = {1, 2}
  Timeout = 1
  MaxRefCount = 5
  MaxUnacked = 3
SPECIFICATION Spec
INVARIANTS
  TypeOK
  HeldIffCounted
  NeverUndercounted
  NeverOvercounted
PROPERTY ReleasedOrRefreshed
