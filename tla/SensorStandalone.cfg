\* 2.X/Sensor.cpp and aidl/Sensor.cpp: the same, but for the destructor.
CONSTANTS
  MaxPeriod = 3
  Unlocks = FALSE
SPECIFICATION Spec
PROPERTY DestructorReturns
