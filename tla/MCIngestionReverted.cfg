CONSTANTS
    None = None
    Calls = {}
    Models = {"embedder"}
    Server = Server
    Cli = Cli
    Words <- SmallWords
    Marks <- SmallMarks
    CHUNK_MAX_TOKENS = 3
    CHUNK_OVERLAP_TOKENS = 1
    Corpora <- OneCorpus
    Sources <- TwoSources
    Documents <- SmallDocuments
    UPSERT_BATCH_SIZE = 1
    MaxRuns = 3
    MaxEdits = 2
    MaxFaults = 2
SPECIFICATION Spec
INVARIANT
    ReportMeansIndexed
CHECK_DEADLOCK FALSE
