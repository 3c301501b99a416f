CONSTANTS
    Streams <- MCStreams
    Top = "high"
    MaxTasks = 4
    MaxFailures = 0
    MaxChanges = 1
    MaxDisturbances = 0
SPECIFICATION PlayerSpec
INVARIANT StopIsTold
CHECK_DEADLOCK FALSE
