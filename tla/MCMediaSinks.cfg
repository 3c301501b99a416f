CONSTANTS
    Writers = {dispatcher, silence}
    MaxWrites = 3
    MaxSize = 2
    SilenceAfter = 1
    MaxSilence = 3
    MaxTick = 6
    MaxPackets = 3
    Sinks = {a, b, c, d}
    MaxCleanups = 2
    MaxChain = 3
    Users = {1, 2}
    Ssrcs = {11, 12}
    MaxChildren = 4
    TsMod = 16
    NumMod = 8
    FirstPos = 5
    LastPos = 14
    MaxMixed = 3
    MaxLost = 8
    Pause = 4
    Threshold = 1
    MaxClock = 3
    MaxStamp = 6
    MaxSkew = 1
    MaxPieces = 3
SPECIFICATION Spec
INVARIANT QueuesAccount
INVARIANT SilenceIsTame
INVARIANT TreesAreCleaned
INVARIANT PacketsAreRouted
INVARIANT PlacedInTime
INVARIANT RecordingSound
CHECK_DEADLOCK FALSE
