CONSTANTS
    Callers = {app, loop}
    Listeners <- MCListeners
    Flags <- MCFlags
    MaxStarts = 2
    MaxBatches = 1
    MaxCalls = 3
SPECIFICATION FairSpec
PROPERTY CloseTerminates
CHECK_DEADLOCK FALSE
