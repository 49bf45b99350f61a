\* The HIDL HAL.  Binder posts too, so one wake-up sensor and one other are
\* enough for any two threads to meet.
CONSTANTS
  Sensors = {acc, gyro}
  WakeUp = {acc}
  Binder = binder
  FmqCapacity = 2
  Timeout = 1
  QueueFirst = FALSE
  MaxInFlight = 1
  MaxRefusals = 1
  MaxGeneration = 2
SPECIFICATION Spec
INVARIANTS TypeOK LockedOnceCounted NeverOvercounted QueueProtected
PROPERTIES ReleasedAtLast

