\* multihal/Sensor.cpp, the wake-up by batch.
CONSTANTS
  MaxPeriod = 3
  Unlocks = TRUE
SPECIFICATION Spec
INVARIANT BatchHeeded
