SPECIFICATION LifecycleSpec
CONSTANTS
  q1 = q1
  q2 = q2
  w1 = w1
  d1 = d1
  d2 = d2
  Requests = {q1}
  Writes = {w1}
  Spaces = {1}
  Drivers = {d1}
  SlowDrivers = FALSE
  Foreign = FALSE
  Large = FALSE
  MaxFaults = 0
  MaxBumps = 0
  MaxLate = 2
  MaxTries = 1
PROPERTIES
  FencesEnd
CHECK_DEADLOCK FALSE
