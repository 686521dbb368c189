SPECIFICATION LifecycleSpec
SYMMETRY AnyOrder
CONSTANTS
  q1 = q1
  q2 = q2
  w1 = w1
  d1 = d1
  d2 = d2
  Requests = {q1}
  Writes = {w1}
  Spaces = {1, 2}
  Drivers = {d1, d2}
  SlowDrivers = TRUE
  Foreign = FALSE
  Large = TRUE
  MaxFaults = 0
  MaxBumps = 1
  MaxLate = 0
  MaxTries = 1
INVARIANTS
  PurgedStaysPurged
  ArchivedIsQuiet
  CheckpointHolds
PROPERTIES
  PreviewedIsErased
CHECK_DEADLOCK FALSE
