CONSTANTS
    Texts = {"parking", "where to park", "directions", "price", "menu"}
    AlikeTexts <- SmallAlikeTexts
    Transcript = "utterance"
    Proposals <- SmallProposals
    Chunks = {"a", "b", "c", "d", "e", "f"}
    AlikeChunks <- SmallAlikeChunks
    Tokens <- SmallTokens
    NumericSlots = {"capacity", "price"}
    Entity <- SmallEntity
    Value <- SmallValue
    Results <- SmallResults
    RerankScores = {1, 2, 3}
    RRF_K = 60
    RERANK_CANDIDATES = 3
    MIN_RELEVANCE = 2
    FINAL_K = 2
    MAX_TOTAL_EVIDENCE = 3
    EVIDENCE_TOKEN_BUDGET = 5
    ScoreUnit = 238266
    None = None
SPECIFICATION Spec
INVARIANTS
    EveryIntentAskedOnce
    DisagreementsFlagged
    NothingSaidTwice
    EverySubQueryHeard
    BetterOnesFirst
CHECK_DEADLOCK FALSE
