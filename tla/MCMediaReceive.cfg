CONSTANTS
    MaxTargets = 2
    MaxSockets = 2
    MaxBatches = 2
    MaxBatch = 2
    MaxStops = 1
    MaxVideo = 1
    Users = {user}
    NoUser = nobody
    MaxHeld = 2
    MaxAge = 1
    MaxArrivals = 3
    MaxTime = 2
    MaxRelistens = 1
    MaxSources = 2
    MaxTasks = 3
    MaxOutages = 2
SPECIFICATION ReceiveSpec
INVARIANTS ListeningConsistent LatePacketsBounded
INVARIANT HeldFramesSound
INVARIANT SessionGoesOn
CHECK_DEADLOCK FALSE
