SPECIFICATION Spec
CONSTANTS
    Attempts = 4
    Outcomes = {"memory", "prepare", "scattered", "good"}
    MayFail = {"bar", "phy", "audio", "register"}
    MaxFaults = 2
    MaxResets = 2
    MaxStarts = 2
    RestartDuringStop = TRUE
INVARIANT InPlace
INVARIANT Identified
CHECK_DEADLOCK FALSE
