\* The AIDL HAL.
CONSTANTS
  Sensors = {acc, gyro}
  WakeUp = {acc}
  Binder = binder
  FmqCapacity = 2
  Timeout = 1
  QueueFirst = TRUE
  MaxInFlight = 1
  MaxRefusals = 1
  MaxGeneration = 2
SPECIFICATION Spec
INVARIANT QueueProtected
