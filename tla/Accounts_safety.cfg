SPECIFICATION Spec
CONSTANTS
    Users = {a, b}
    a = a
    b = b
    NoUser = NoUser
    MaxSess = 2
    MaxTok = 3
    AuthFaults = 1
    OtpMaxAttempts = 2
    Slots = {a, b}
    MaxCodes = 2
    MaxAccounts = 1
    MaxPw = 3
    Images = {p1, p2, p3}
    p1 = p1
    p2 = p2
    p3 = p3
    NoImage = NoImage
    Updates = {a, b}
    MAX_SKIP = 2
    MAX_SKIPPED_KEYS = 2
    MaxTexts = 7
    Keys = {a, b}
    MaxRuns = 5
    Texts = {a, b}
    MaxRequests = 1
    MaxCopies = 2
    RepairFaults = {"drop", "crash", "server", "http", "db"}
    MaxBreaks = 2
INVARIANTS
    Types
    EndedOnlyWhenMissed
    StoredTokenIsUsable
    TokensAreUsers
    SocketsAreLive
    
    
    NoSessionOutlivesItsPassword
    MediaMatchesProfile
    EveryTextOpensOnce
    ResentOnceUnlessRepeated
    GoneIsAnswered
PROPERTIES
    EndedStaysEnded
    LockKept
SYMMETRY AccountSymmetry
CHECK_DEADLOCK FALSE
