\* Two sessions of one conversation, two batches and one; hooks killed anywhere,
\* lost answers, refusals, replays of SessionEnd.
CONSTANTS
    g1 = g1
    g2 = g2
    NoDrain = NoDrain
    Groups <- TwoSessions
    Size <- TwoThenOne
    Conversation <- OneConversation
    Ends <- ReplayOfFirst
    Drains = {d1, d2}
    MaxRaw = 4
    SleepsAt = {"settle"}
    Spoolable = {g1}
    MaxKills = 2
    MaxTakeovers = 1
    MaxAgings = 1
    MaxRefusals = 1
    MaxStalls = 1
    MaxFaults = 1
SPECIFICATION FairOutboxSpec
INVARIANTS
    NothingLost
    NeverWedged
PROPERTIES
    InOrder
    NoResend
    Delivers
