CONSTANTS
    None = None
    Conns = {c1, c2}
    MaxSeq = 3
    MaxFrames = 3
    REORDER_WINDOW_MS = 1
    Chunks <- TimedChunks
    ConcurrentClients = TRUE
VIEW ServerView
SYMMETRY ConnSymmetry
SPECIFICATION Spec
INVARIANTS
    PassesFollowBuffer
    TurnsDoNotInterleave
    ResyncOnEveryReconnect
PROPERTIES
    ImplementsAnswerLog
CHECK_DEADLOCK FALSE
