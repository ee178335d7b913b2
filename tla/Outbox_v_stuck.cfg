SPECIFICATION OutboxFairSpec
CONSTANTS
    Msgs = {m1, m2}
    m1 = m1
    m2 = m2
    MaxDocs = 6
    MaxReg = 1
    HistoryLimit = 6
    MaxConns = 2
    PeerActs = FALSE
    CanUnlink = FALSE
    CanGiveUp = FALSE
    Faults = {"drop"}
    MaxFaults = 1
PROPERTY
    EverySendEnds
CHECK_DEADLOCK FALSE
