CONSTANTS
    g1 = g1
    g2 = g2
    NoDrain = NoDrain
    Groups <- TwoSessions
    Size <- OnceEach
    Conversation <- OneConversation
    Ends <- TwiceFirst
    Drains = {d1}
    MaxRaw = 4
    SleepsAt = {}
    Spoolable = {g1}
    MaxKills = 1
    MaxTakeovers = 0
    MaxAgings = 0
    MaxRefusals = 0
    MaxStalls = 0
    MaxFaults = 1
SPECIFICATION OutboxSpec
INVARIANTS
    NeverWedged
CHECK_DEADLOCK FALSE
