SPECIFICATION ChannelSpec
CONSTANTS
    sa = sa
    sb = sb
    sc = sc
    x = x
    y = y
    Servers = {sa, sb, sc}
    Wires <- MCWires
    Route <- MCRoute
    Users = {x, y}
    Home <- MCHome
    Chans = {"c", "d"}
    Services = "services"
    ServicesAt = sb
    ModeHackers = {x}
    Flags = {"i", "t"}
    Bans = {"b", "q"}
    Quiets = {"q"}
    Hits <- MCHits
    Keys = {"k"}
    Texts = {"a", "b"}
    MaxBans = 2
    MaxChannels <- MCMaxChannels
    Locks <- MCLocks
    Focuses <- MCFocuses
    Recent = 2
    MaxTime = 3
CHECK_DEADLOCK FALSE

 
INVARIANT AgreeCalm
INVARIANT RidersDeopped
INVARIANT InvitesAgree
INVARIANT QuietFlag

