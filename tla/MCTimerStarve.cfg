SPECIFICATION FairSpec
CONSTANTS
    maint = maint
    queue = queue
    akill = akill
    Calls <- MCCalls
    Maint = maint
    Queue = queue
    Period <- MCPeriod
    Cancellable = {akill}
    Delays <- MCDelays
    MaintDelay = 1
    QueueDelay = 2
    TidWidth = 5
    MaxTime = 3
    MaxLines = 1
    MaxCalls = 2
    MaxIpc = 1
    MaxBack = 0
CHECK_DEADLOCK FALSE
PROPERTY NeverLate
