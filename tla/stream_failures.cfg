SPECIFICATION Spec
CONSTANTS
    w1 = w1
    w2 = w2
    Workers = {w1, w2}
    AudioOps = {"StartDevice","StopDevice","ChangeSampleRate"}
    PowerOps = {"PowerOff"}
    MaxOps <- AudioSixPowerTwo
    MaxCallbacks = 0
    HarvestAttempts = 2
    SilencePushes = 2
    StartMayFail = TRUE
    WaitsExpire = FALSE
    HALQuiesces = TRUE
    HandlersOverlap = FALSE
SYMMETRY WorkerSymmetry
INVARIANT RunningHasContexts
INVARIANT ContextsOnBuffer
INVARIANT OneTransaction
INVARIANT StoppedIsQuiet
INVARIANT OffIsQuiet
