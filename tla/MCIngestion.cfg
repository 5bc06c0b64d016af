CONSTANTS
    None = None
    Calls <- SmallCalls
    Models = {"embedder"}
    Server = Server
    Cli = Cli
    Words <- SmallWords
    Marks <- SmallMarks
    CHUNK_MAX_TOKENS = 3
    CHUNK_OVERLAP_TOKENS = 1
    Corpora <- CorpusOrder
    Sources <- SmallSources
    Documents <- SmallDocuments
    UPSERT_BATCH_SIZE = 1
    MaxRuns = 3
    MaxEdits = 1
    MaxFaults = 1
SPECIFICATION Spec
INVARIANTS
    StoresAgree
    ReportHolds
    ReadyMeansSearchable
    ServedIndexIsCurrent
    ChunkedWithoutLoss
CHECK_DEADLOCK FALSE
