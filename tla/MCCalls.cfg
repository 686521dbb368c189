SPECIFICATION Spec
CONSTANTS
  j1 = j1
  j2 = j2
  r1 = r1
  r2 = r2
  r3 = r3
  c1 = c1
  c2 = c2
  dAlarm = dAlarm
  dInline = dInline
  Jobs <- OneJob
  Msgs = {1}
  MsgsOf <- OneMsg
  Noise = {}
  Contexts = {c1}
  Ctx <- OneContext
  FlushJobs = {}
  Requests <- TwoRequests
  ReqJob <- RetryOfJ1
  Drains <- BothDrains
  AlarmDrain = dAlarm
  Outcomes = {"wrote", "no_write", "llm_failed", "capacity"}
  SlowDrains = FALSE
  MaxRepairs = 1
  MaxDepth = 2
  MaxAttempts = 1
  MaxCapacity = 1
  MaxRescues = 1
  MaxJobsPerDrain = 3
  MaxSeq = 3
  MaxFaults = 1
INVARIANTS
  FirstAcceptanceHolds
  SingleOwner
  WakeGuaranteed
PROPERTIES
  VerdictAnnounced
  InferenceFence
  ImplementsLedger
  TerminalStable
