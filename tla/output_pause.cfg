SPECIFICATION FairSpec
CONSTANTS
    N = 4
    Lead = 1
    ServiceAhead = 2
    SilenceAhead = 2
    MaxPackets = 4
    Prebuffer = 4
    RingFrames = 6
    Blocks <- Mixed
    Chunks = {3}
    Frames = 7
    Service = 1
    PushTime = 1
    Period = 2
    Jitter = 0
    WorkerTimely = TRUE
    WriterTimely = FALSE
    SyncMayFail = FALSE
    PointerMayFail = TRUE
    MaxLaps = 1
PROPERTY AudioDrains
PROPERTY ReplayIsWithheld
