SPECIFICATION Spec
CONSTANTS
  j1 = j1
  j2 = j2
  r1 = r1
  r2 = r2
  r3 = r3
  c1 = c1
  c2 = c2
  dAlarm = dAlarm
  dInline = dInline
  Jobs <- OneJob
  Msgs = {1, 2}
  MsgsOf <- TwoMsgs
  Noise = {}
  Contexts = {c1}
  Ctx <- OneContext
  FlushJobs = {j1}
  Requests <- TwoRequests
  ReqJob <- RetryOfJ1
  Drains <- AlarmOnly
  AlarmDrain = dAlarm
  Outcomes = {"no_write", "llm_failed"}
  SlowDrains = FALSE
  MaxRepairs = 1
  MaxDepth = 2
  MaxAttempts = 1
  MaxCapacity = 1
  MaxRescues = 1
  MaxJobsPerDrain = 3
  MaxSeq = 2
  MaxFaults = 1
INVARIANTS
  KnownMeansReachable
