\* The HIDL HAL: the moment between the write and the count.
CONSTANTS
  Sensors = {acc, gyro}
  WakeUp = {acc}
  Binder = binder
  FmqCapacity = 2
  Timeout = 1
  QueueFirst = FALSE
  MaxInFlight = 1
  MaxRefusals = 1
  MaxGeneration = 2
SPECIFICATION Spec
INVARIANT LockedWhileUnsecured
