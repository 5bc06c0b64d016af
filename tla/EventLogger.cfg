CONSTANTS
    Readers = {r1, r2}
    MaxEvents = 3
SPECIFICATION FairSpec
INVARIANTS
    EveryEventAccountedFor
    ReplayInOrder
    OwnFlushIsVisible
PROPERTIES
    EventSettles
CHECK_DEADLOCK FALSE
