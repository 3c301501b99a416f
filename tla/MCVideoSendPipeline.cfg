CONSTANTS
    SeqMod = 4
    Senders = {player}
    Responders = {dispatcher}
    Ssrcs = {ssrc}
    Codecs = {h264, vp8}
    Starts = {2}
    CacheMax = 2
    MaxFrame = 2
    MaxNack = 2
    MaxBodies = 4
    MaxRtx = 2
    MaxChanges = 3
    MaxLosses = 1
    Streams = {low, high}
    MaxReplay = 2
    MaxLive = 3
    MaxRequests = 2
    MaxSessions = 2
    MaxGaps = 1
SPECIFICATION SendSpec
INVARIANTS SendBookkeeping ReplaySound
PROPERTIES TransportConsecutive RequestsAnswered
CHECK_DEADLOCK FALSE
