CONSTANTS
    None = None
    Conns = {c1, c2}
    MaxSeq = 2
    MaxFrames = 3
    REORDER_WINDOW_MS = 1
    Chunks <- TimedChunks
    ConcurrentClients = FALSE
VIEW ClientView
SPECIFICATION FairSpec
PROPERTIES
    ViewNeverRegresses
    FramesAreServed
CHECK_DEADLOCK FALSE
