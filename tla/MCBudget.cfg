SPECIFICATION FairBudgetSpec
CONSTANTS
  o1 = o1
  o2 = o2
  k1 = k1
  k2 = k2
  Nobody = Nobody
  Ops <- TwoOps
  Callers <- TwoCallers
  Estimate <- OneEach
  Ceiling = 1
  LaterOps <- SecondIsLater
  Days = 2
  Trip = 2
  SlowCalls = FALSE
  MaxEvents = 1
INVARIANTS
  MoneyConserved
  WithinCeiling
  InvokedOnce
  SpendCovered
  OneProbe
  ErasureNotOvertaken
PROPERTIES
  ProbeCloses
  ReservationsEnd
