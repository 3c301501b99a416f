CONSTANTS
    Callers = {app, loop}
    Listeners <- MCListeners
    Flags <- MCFlags
    MaxStarts = 2
    MaxBatches = 2
    MaxCalls = 3
SPECIFICATION Spec
INVARIANTS TransportConsistent CloseStopsThreads
SYMMETRY CallersSymmetry
CHECK_DEADLOCK FALSE
