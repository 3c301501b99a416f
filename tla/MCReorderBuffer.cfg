CONSTANTS
    SeqMod = 12
    MaxPackets = 2
    MaxDelay = 2
    FirstIndex = 8
    LastIndex = 17
    MaxTime = 4
SPECIFICATION Spec
INVARIANTS InOrder BufferBounded NothingReadyHeld NothingLost StallBounded
PROPERTY ImplementsOrderedDelivery
CHECK_DEADLOCK FALSE
