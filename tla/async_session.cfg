SPECIFICATION Spec
CONSTANTS
 Rates = {1, 2}
 LiveAttempts = 2
 CaptureAttempts = 2
 Stride = 6
 Labels = 64
 CaptureBase = 1
 LiveBase = 57
 Outcomes = {"good", "prepare"}
 Late = 1
 None = None
INVARIANT ReportedDone
INVARIANT OnBuffers
PROPERTY CallsEnd
