SPECIFICATION Spec
CONSTANTS
  INVALID = 255
  Handles = {1, 16, 19, 255}
  Periods = {100, 500, 2500, 3000, 20000, 190000, 300000}
  Latencies = {0, 700, 2000, 2000000000}
INVARIANTS
  TypeOK
  RateHonoured
