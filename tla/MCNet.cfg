SPECIFICATION NetSpec
CONSTANTS
    sa = sa
    sb = sb
    sc = sc
    x = x
    y = y
    Servers = {sa, sb, sc}
    Wires <- MCWires
    Users = {x, y}
    Route <- MCRoute
    Home <- MCHome
    UserHosts <- MCUserHosts
    None = None
    NickNames = {"m", "n"}
    History = 2
    Opers = {sa}
    Watchers = {x}
    MaxWatch = 1
    MaxClock = 2
    MaxEvents = 1
CHECK_DEADLOCK FALSE
 
INVARIANT OneNick
INVARIANT WhowasLive
INVARIANT Behind
INVARIANT WatchTrue
