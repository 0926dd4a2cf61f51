SPECIFICATION Spec
CONSTANTS
    x = x
    o = o
    Users = {x, o}
    Opers = {o}
    Nicks = {"a", "b", "r"}
    Chans = {c}
    MayUse <- MCMayUse
    Registry <- MCRegistry
    OpFlags <- MCOpFlags
    Masks <- MCMasks
    ModeR = {}
    Reserved = {}
    Levels <- MCLevels
    Locks <- MCLocks
    Focuses <- MCFocuses
    ChanLimit = 1
    OpLimit = 2
    AkickLimit = 1
    NoAddOp = {}
    Aliases = {0, 10}
    MaxSession = 2
    MaxId = 4
    MaxReg = 2
    MaxPass = 2
    MaxKey = 2
CHECK_DEADLOCK FALSE
INVARIANT Consistent
INVARIANT FounderProved
PROPERTY LevelsBounded
PROPERTY Protected
