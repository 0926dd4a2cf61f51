SPECIFICATION FairSpec
CONSTANTS
    Nicks = {a}
    Guests = {g}
    Hosts = {h1}
    NoHost = NoHost
    NoUser = NoUser
    NoReg = NoReg
    NoId = NoId
    Akilled = {}
    CloneKills = FALSE
    IdTime = 2
    Warn = 1
    EnforceTime = 1
    AkillTime = 1
    RejectTime = 2
    DropTime = 1
    Cmds = {"identify", "register", "mask", "recover", "release", "kill", "badident", "case"}
    MaxTime = 3
    MaxReg = 1
    MaxUsers = 2
    MaxLate = 0
    BanTime = 1
CHECK_DEADLOCK FALSE
INVARIANT GhostsTimed
 
