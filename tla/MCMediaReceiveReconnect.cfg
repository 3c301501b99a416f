CONSTANTS
    MaxTargets = 2
    MaxSockets = 2
    MaxBatches = 1
    MaxBatch = 1
    MaxStops = 1
    MaxVideo = 0
    Users = {user}
    NoUser = nobody
    MaxHeld = 2
    MaxAge = 1
    MaxArrivals = 1
    MaxTime = 2
    MaxRelistens = 1
    MaxSources = 0
    MaxTasks = 0
    MaxOutages = 0
SPECIFICATION ReceiveSpec
INVARIANT SinksSurviveReconnect
CHECK_DEADLOCK FALSE
