SPECIFICATION FairSpec
CONSTANTS
    R = 3
    Modulus = 1000
    MaxFrames = 7
    MaxClears = 2
    ClearsMeetIO = FALSE
INVARIANT ReadBehindWrite
PROPERTY InOrder
PROPERTY FramesArrive
