CONSTANTS
    Streams <- MCStreams
    Top = "high"
    MaxTasks = 4
    MaxFailures = 1
    MaxChanges = 1
    MaxDisturbances = 1
SPECIFICATION FairSpec
INVARIANT TransportAgrees
INVARIANTS PlaysCurrentSource EndsCleanly PlayerSurvives
PROPERTY PlayerStops
CHECK_DEADLOCK FALSE
