SPECIFICATION Spec
CONSTANTS
    w1 = w1
    w2 = w2
    Workers = {w1, w2}
    AudioOps = {"StartDevice"}
    PowerOps = {"PowerOff"}
    MaxOps <- OneEach
    MaxCallbacks = 1
    HarvestAttempts = 1
    SilencePushes = 2
    StartMayFail = FALSE
    WaitsExpire = FALSE
    HALQuiesces = FALSE
    HandlersOverlap = FALSE
INVARIANT HarvestOnLiveBuffer
