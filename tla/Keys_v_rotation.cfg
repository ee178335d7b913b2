SPECIFICATION KeysSpec
CONSTANTS
    Keep = 1
    MaxNow = 2
    MaxOtk = 3
    MaxTaken = 1
    MaxHanded = 2
    KeyFaults = 1
INVARIANT SignedPreKeyKept
CHECK_DEADLOCK FALSE
