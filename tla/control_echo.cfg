SPECIFICATION Spec
CONSTANTS
    QueueSize = 5
    Harvest = Harvest
    Push = Push
    Clients = {client}
    Message <- Outgoing
    Strips = {0}
    Stride = 2
    MinDelta = 16
    Ports = {0, 14}
    Scenes <- MCScenes
    Commands <- MCCommands
    None = None
    MaxSent = 3
    MaxCommands = 1
    MaxLost = 1
INVARIANT QueueOrdered
INVARIANT FeedbackIsFresh
INVARIANT OneModeLit
INVARIANT NoMixture
INVARIANT ReleaseHolds
PROPERTY WholeMessages
