SPECIFICATION Spec
CONSTANTS
    Msgs = {m1}
    m1 = m1
    MaxDocs = 2
    MaxReg = 2
    PageSize = 1
    MaxPages = 1
    PagesCapped = TRUE
    CanBreak = TRUE
    AckLimit = 1
    ResetLimit = 1
    MaxResets = 1
    Faults = {"drop", "crash", "server", "http", "db", "reinstall"}
    MaxFaults = 1
INVARIANTS
    HeldIsTraced
    
PROPERTY CustodyKept
CHECK_DEADLOCK FALSE
