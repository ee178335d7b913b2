SPECIFICATION FairSpec
CONSTANTS
    Msgs = {m1}
    m1 = m1
    MaxDocs = 1
    MaxReg = 1
    PageSize = 1
    MaxPages = 2
    PagesCapped = TRUE
    CanBreak = TRUE
    AckLimit = 2
    ResetLimit = 2
    MaxResets = 2
    Faults = {"drop"}
    MaxFaults = 1
PROPERTY
    EveryRepairAsked
CHECK_DEADLOCK FALSE
