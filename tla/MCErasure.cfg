SPECIFICATION ErasureSpec
CONSTANTS
  w1 = w1
  w2 = w2
  Saves <- OneSave
  Nobody = Nobody
  MaxClock = 3
  MaxRuns = 2
  MaxErases = 2
  LostAnswers = TRUE
  MaxFaults = 1
INVARIANTS
  ErasedStaysErased
PROPERTIES
  NoResurrection
CHECK_DEADLOCK FALSE
