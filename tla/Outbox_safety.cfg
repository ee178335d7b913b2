SPECIFICATION OutboxSpec
CONSTANTS
    Msgs = {m1}
    m1 = m1
    MaxDocs = 2
    MaxReg = 2
    HistoryLimit = 1
    MaxConns = 2
    PeerActs = TRUE
    CanUnlink = TRUE
    CanGiveUp = TRUE
    Faults = {"drop", "crash", "server", "http", "db"}
    MaxFaults = 1
INVARIANTS
    TicksAreTrue
    StoredOnceUnlessRaced
    FailedIsNotStored
PROPERTY StatusNeverBack
CHECK_DEADLOCK FALSE
