SPECIFICATION ConnSpec
CONSTANTS
    usr = usr
    s = s
    t = t
    Slots = {usr, s, t}
    Peer <- MCPeer
    Addr <- MCAddr
    KMasks <- MCKMasks
    Hits <- MCHits
    Covers <- MCCovers
    ZMasks = {"z"}
    Zaps <- MCZaps
    Hurts = {usr}
    Configs <- MCConfigs
    FirstConfig <- MCFirst
    MaxCached = 1
    MaxLine = 13
    MaxClass = 2
    MaxRehash = 2
    Focuses <- MCFocuses
CHECK_DEADLOCK FALSE
INVARIANT InForce
INVARIANT Counted
INVARIANT PointersLive
INVARIANT NoneKilled
INVARIANT OneLink
PROPERTY SilentLeave
