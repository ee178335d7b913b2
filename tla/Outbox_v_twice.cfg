SPECIFICATION OutboxSpec
CONSTANTS
    Msgs = {m1}
    m1 = m1
    MaxDocs = 2
    MaxReg = 1
    HistoryLimit = 2
    MaxConns = 2
    PeerActs = TRUE
    CanUnlink = FALSE
    CanGiveUp = FALSE
    Faults = {"drop"}
    MaxFaults = 1
INVARIANT
    StoredOnce
CHECK_DEADLOCK FALSE
