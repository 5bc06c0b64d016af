CONSTANTS
    None = None
    MaxSeq = 4
    MaxOffset = 2
    REORDER_WINDOW_MS = 2
    Chunks <- AnyChunks
SPECIFICATION BufferSpec
INVARIANTS
    GapClockRuns
PROPERTIES
    HeldNeverLost
    GapReported
    ImplementsOrderedLog
