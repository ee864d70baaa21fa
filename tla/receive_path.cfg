SPECIFICATION Spec
CONSTANTS
 N = 4
 IrqInterval = 2
 MaxPerPass = 3
 MissBypass = 2
 CatchUpMin = 2
 ScanMax = 3
 Scenes <- MCScenes
 Period = 2
 Ideal <- MCIdeal
 QueuePackets = 2
 TransmitPackets = 22
 Counts = 11
 None = None
PROPERTY CadenceGenuine
INVARIANT NothingOverwritten
INVARIANT TransmitDBC
PROPERTY InSequence
PROPERTY Taken
