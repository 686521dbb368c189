\* An MCP save that fails, is repaired, fails again and is repaired again.
CONSTANTS
    j1 = j1
    j2 = j2
    r1 = r1
    r2 = r2
    Jobs = {j1}
    Lane <- McpOnly
    Requests = {r1}
    ReqJob <- CallOfFirst
    Outcomes = {"wrote", "llm_failed"}
    MaxAttempts = 2
    MaxCapacity = 2
    MaxRepairs = 1
    MaxUpsets = 2
SPECIFICATION LaneSpec
CHECK_DEADLOCK FALSE
PROPERTIES
    RepairsRunAfresh
