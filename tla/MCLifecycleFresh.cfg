SPECIFICATION LifecycleSpec
CONSTANTS
  q1 = q1
  q2 = q2
  w1 = w1
  d1 = d1
  d2 = d2
  Requests = {q1, q2}
  Writes = {w1}
  Spaces = {1}
  Drivers = {d1}
  SlowDrivers = FALSE
  Foreign = FALSE
  Large = FALSE
  MaxFaults = 0
  MaxBumps = 0
  MaxLate = 0
  MaxTries = 1
INVARIANTS
  FreshWorkOnly
CHECK_DEADLOCK FALSE
