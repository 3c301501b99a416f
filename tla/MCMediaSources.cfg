CONSTANTS
    Trees <- SomeTrees
    MaxFrames = 2
    Inputs <- SomeInputs
    HeaderSizes = {1, 2}
    Aud = 9
    MaxBuffer = 10
    Keep = 6
    IvfSizes = {0, 1, 3}
    IvfHeader = 2
    MaxIvfFrames = 3
    Chunks = 3
    PipeSize = 1
SPECIFICATION Spec
INVARIANTS LanesInStep CleanedByEachParent
INVARIANT FramesFaithful
INVARIANT FFmpegSound
PROPERTIES VideoEnds CleanupReturns
CHECK_DEADLOCK FALSE
