SPECIFICATION FairSpec
CONSTANTS
    Msgs = {m1}
    m1 = m1
    MaxDocs = 2
    MaxReg = 1
    PageSize = 1
    MaxPages = 2
    PagesCapped = FALSE
    CanBreak = FALSE
    AckLimit = 2
    ResetLimit = 2
    MaxResets = 2
    Faults = {"drop", "crash"}
    MaxFaults = 2
PROPERTIES
    EveryMessageTaken
    AckedIsDelivered
CHECK_DEADLOCK FALSE
