SPECIFICATION Spec
CONSTANTS
    MaxArchived = 1
    MaxInst = 3
    MaxSess = 3
    MaxFrames = 1
INVARIANT PausedUntilAcknowledged
CHECK_DEADLOCK FALSE
