\* Two REST saves of the same conversation whose verdicts arrive out of order.
CONSTANTS
    j1 = j1
    j2 = j2
    r1 = r1
    r2 = r2
    Jobs = {j1, j2}
    Lane <- RestOnly
    Requests = {r1, r2}
    ReqJob <- OneCallEach
    Outcomes = {"wrote", "empty", "llm_failed", "capacity", "terminal"}
    MaxAttempts = 2
    MaxCapacity = 2
    MaxRepairs = 1
    MaxUpsets = 0
SPECIFICATION LaneSpec
CHECK_DEADLOCK FALSE
PROPERTIES
    BatchesStayOnPage
