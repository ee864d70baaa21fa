SPECIFICATION FairSpec
CONSTANTS
    w1 = w1
    w2 = w2
    Workers = {w1, w2}
    AudioOps = {"StartDevice","StopDevice","ChangeSampleRate"}
    PowerOps = {}
    MaxOps <- AudioSix
    MaxCallbacks = 3
    HarvestAttempts = 1
    SilencePushes = 2
    StartMayFail = FALSE
    WaitsExpire = FALSE
    HALQuiesces = TRUE
    HandlersOverlap = FALSE
INVARIANT NoStaleUse
INVARIANT OnePusher
INVARIANT OneWorker
PROPERTY HandlersFinish
