CONSTANTS
    Turns <- TurnNames
    Retrievals <- TwoTurns
    Corpora = {"venues"}
    CorpusOf <- OneCorpus
    MAX_CONCURRENT_RETRIEVALS = 2
    POOL_SIZE = 2
    None = None
SPECIFICATION Spec
INVARIANTS
    PermitsBalance
    NothingAbandonedIsQueued
PROPERTIES
    EndsAreFinal
    TurnEnds
CHECK_DEADLOCK FALSE
