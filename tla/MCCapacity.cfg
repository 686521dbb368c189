SPECIFICATION Spec
CONSTANTS
  j1 = j1
  j2 = j2
  r1 = r1
  r2 = r2
  r3 = r3
  c1 = c1
  c2 = c2
  dAlarm = dAlarm
  dInline = dInline
  Jobs <- OneJob
  Msgs = {1}
  MsgsOf <- OneMsg
  Noise = {}
  Contexts = {c1}
  Ctx <- OneContext
  FlushJobs = {}
  Requests <- TwoRequests
  ReqJob <- RetryOfJ1
  Drains <- AlarmOnly
  AlarmDrain = dAlarm
  Outcomes = {"capacity"}
  SlowDrains = FALSE
  MaxRepairs = 2
  MaxDepth = 2
  MaxAttempts = 1
  MaxCapacity = 3
  MaxRescues = 1
  MaxJobsPerDrain = 3
  MaxSeq = 3
  MaxFaults = 0
INVARIANTS
  RefusedAfterRepairs
