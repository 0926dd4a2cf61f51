SPECIFICATION Spec
CONSTANTS
    a = a
    b = b
    Users = {a, b}
    Chans = {c}
    Opers = {}
    Rules <- MCRules
    Slots = 1
    MaxChans = 1
    Events = {"part", "join0", "kick", "mode", "quit", "op", "deop", "mdeop", "mkick"}
    MaxIn = 2
    MaxOut = 1
    MaxTimers = 2
    MaxChanges = 1
CHECK_DEADLOCK FALSE
INVARIANT MembersAgree
INVARIANT PointersLive
INVARIANT Guarded
INVARIANT KeptOut
