CONSTANTS
    SeqMod = 12
    MaxOutstanding = 2
    MaxRetries = 2
    ChunkMax = 1
    FirstIndex = 10
    LastIndex = 14
    MaxDicts = 2
    MaxResets = 1
    MaxPackets = 3
    LossHalf = 2
    FirstSent = 10
    LastSent = 17
    MaxReceived = 4
    MaxCleanups = 1
SPECIFICATION FeedbackSpec
INVARIANTS NackBookkeeping ReportTruthful
PROPERTY PendingSettles
CHECK_DEADLOCK FALSE
