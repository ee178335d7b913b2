SPECIFICATION PhoneSpec
CONSTANTS
    MaxArchived = 1
    MaxInst = 2
    MaxSess = 3
    MaxFrames = 1
    MaxIdentities = 2
    MaxReads = 2
    Keep = 1
    MaxNow = 2
    MaxOtk = 2
    MaxTaken = 1
    MaxHanded = 2
    KeyFaults = 1
    MaxSignIns = 3
    MaxRegs = 2
    MaxInstalls = 2
    MaxSessions = 2
INVARIANTS
    Types
    RecordIsSet
    PausedUnlessChangedAgain
    AcceptedIsTrusted
    VerifiedWasCompared
    KeysAreHeld
    PushesFollowTheUser
    
CHECK_DEADLOCK FALSE
