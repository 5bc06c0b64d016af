CONSTANTS
    MaxStarts = 2
    MaxDrops = 1
    MaxOld = 1
    MaxSeq = 2
    DemoChunks = 1
    None = None
SPECIFICATION Spec
INVARIANTS
    OneLiveClient
    PhaseTellsTheTruth
    HeldForALostOne
PROPERTIES
    WaitingEnds
CHECK_DEADLOCK FALSE
