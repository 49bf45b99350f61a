\* multihal/Sensor.cpp.
CONSTANTS
  MaxPeriod = 3
  Unlocks = TRUE
SPECIFICATION Spec
INVARIANTS TypeOK QuietWhenDisabled
PROPERTIES KeepsSampling DestructorReturns
