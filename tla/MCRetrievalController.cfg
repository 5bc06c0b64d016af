CONSTANTS
    None = None
    Slots = {"hall"}
    Embeddings <- Topics
    Similarity <- PercentSimilarity
    Chunks <- SmallChunks
    STABILITY_THRESHOLD = 90
    STABILITY_WINDOW = 2
    MAX_WAIT_CHUNKS = 2
    REFINEMENT_THRESHOLD = 75
    MaxChunks = 6
VIEW ControllerView
SPECIFICATION Spec
INVARIANTS
    NoStarvation
    EntitiesFollowBuffer
    OneRetrievalPerTurn
CHECK_DEADLOCK FALSE
