SPECIFICATION Spec
CONSTANTS
    one = one
    two = two
    nick = nick
    chan = chan
    MaxLen = 4
    Lengths = {1, 2, 3}
    MaxRead = 6
    MaxMessages = 3
    Conns = {one, two}
    Nicks = {nick}
    Channels = {chan}
    Founder <- MCFounder
    Online = {nick}
    Focuses <- MCFocuses
CHECK_DEADLOCK FALSE
INVARIANT WholeLines
INVARIANT RightsProved
INVARIANT KeyLive
INVARIANT CommandsDone
