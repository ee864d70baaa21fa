SPECIFICATION Spec
CONSTANTS
    Channels = {1, 2}
    RingSize = 2
    QueueCap = 2
    DrainPerPoll = 1
    RelatchDelay = 1
    SyncDelay = 1
    EchoWindow = 1
    StartupHold = 1
    FaderStep = 2
    FaderGap = 1
    MissedLimit = 2
    None = None
    Scenes <- MCScenes
INVARIANT LightsAgree
INVARIANT LightsFollowHost
INVARIANT FaderClose
INVARIANT OnceInOrder
CHECK_DEADLOCK FALSE
