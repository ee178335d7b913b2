SPECIFICATION Spec
CONSTANTS
    Pair = {a, b}
    a = a
    b = b
    MaxDoing = 2
    MaxCalls = 2
    MaxMsgs = 2
    MaxAsks = 2
    Noticed = {a, b}
    Loads = {a, b}
    Platforms = {a, b}
    MaxEdits = 2
    MaxSaves = 2
INVARIANTS
    Types
    FollowStateAgrees
    BlockedHaveNothing
    
    ButtonIsTrue
    BadgesAreTrue
    
    ProfileIsKept
SYMMETRY SocialSymmetry
CHECK_DEADLOCK FALSE
