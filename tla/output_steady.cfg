SPECIFICATION Spec
CONSTANTS
    N = 10
    Lead = 2
    ServiceAhead = 2
    SilenceAhead = 3
    MaxPackets = 4
    Prebuffer = 9
    RingFrames = 12
    Blocks <- Mixed
    Chunks = {3}
    Frames = 24
    Service = 1
    PushTime = 1
    Period = 2
    Jitter = 1
    WorkerTimely = TRUE
    WriterTimely = TRUE
    SyncMayFail = FALSE
    PointerMayFail = FALSE
    MaxLaps = 0
PROPERTY PlaysWhatWasWritten
PROPERTY WindowRespected
