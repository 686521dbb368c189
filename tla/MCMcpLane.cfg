\* An MCP save and a REST save of the same conversation.
CONSTANTS
    j1 = j1
    j2 = j2
    r1 = r1
    r2 = r2
    Jobs = {j1, j2}
    Lane <- BothDoors
    Requests = {r1, r2}
    ReqJob <- OneCallEach
    Outcomes = {"wrote", "empty", "llm_failed", "capacity", "terminal"}
    MaxAttempts = 2
    MaxCapacity = 2
    MaxRepairs = 1
    MaxUpsets = 1
SPECIFICATION FairLaneSpec
CHECK_DEADLOCK FALSE
INVARIANTS
    OnePagePerConversation
    AcceptedIsQueued
    VerdictsAreAnnounced
PROPERTIES
    CalledOnce
    UserTextStands
    SavesEnd
