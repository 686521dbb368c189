SPECIFICATION FairSweepSpec
CONSTANTS
  j1 = j1
  r1 = r1
  r2 = r2
  c1 = c1
  dAlarm = dAlarm
  dInline = dInline
  Jobs <- OneJob
  Msgs = {1}
  MsgsOf <- OneMsg
  Noise = {}
  Contexts = {c1}
  Ctx <- OneContext
  FlushJobs = {}
  Requests <- OneRequest
  ReqJob <- SingleForJ1
  Drains <- BothDrains
  AlarmDrain = dAlarm
  Outcomes = {"wrote", "no_write", "llm_failed", "capacity", "provider_terminal"}
  SlowDrains = FALSE
  MaxRepairs = 1
  MaxDepth = 2
  MaxAttempts = 1
  MaxCapacity = 2
  MaxRescues = 1
  MaxJobsPerDrain = 3
  MaxSeq = 3
  MaxFaults = 1
PROPERTIES
  OrphansHaveNoWork
  AcceptedInSettledOut
  EntriesLeave
