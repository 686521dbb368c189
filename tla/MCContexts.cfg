SPECIFICATION Spec
CONSTANTS
  j1 = j1
  j2 = j2
  r1 = r1
  r2 = r2
  r3 = r3
  c1 = c1
  c2 = c2
  dAlarm = dAlarm
  dInline = dInline
  Jobs <- TwoJobs
  Msgs = {1, 2, 3}
  MsgsOf <- WithNoise
  Noise = {3}
  Contexts = {c1, c2}
  Ctx <- OwnContexts
  FlushJobs = {j2}
  Requests <- TwoRequests
  ReqJob <- OneEach
  Drains <- AlarmOnly
  AlarmDrain = dAlarm
  Outcomes = {"wrote", "no_write", "llm_failed"}
  SlowDrains = FALSE
  MaxRepairs = 1
  MaxDepth = 2
  MaxAttempts = 1
  MaxCapacity = 1
  MaxRescues = 1
  MaxJobsPerDrain = 3
  MaxSeq = 3
  MaxFaults = 1
INVARIANTS
  FirstAcceptanceHolds
  OneDrain
