SPECIFICATION FairSpec
CONSTANTS
    maint = maint
    queue = queue
    akill = akill
    Calls <- MCCalls
    Maint = maint
    Queue = queue
    Period <- MCPeriod
    Cancellable = {akill}
    Delays <- MCDelays
    MaintDelay = 1
    QueueDelay = 2
    TidWidth = 5
    MaxTime = 4
    MaxLines = 2
    MaxCalls = 2
    MaxIpc = 1
    MaxBack = 1
CHECK_DEADLOCK FALSE
INVARIANT PopsWhatItRan
PROPERTY ImplementsTimerAbs
 
