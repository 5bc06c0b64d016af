CONSTANTS
    None = None
    k1 = k1
    k2 = k2
    k3 = k3
    t1 = t1
    t2 = t2
    sound = sound
    doubtful = doubtful
    Chunks = {k1, k2, k3}
    Tags = {t1, t2}
    Sentences = {sound, doubtful}
    tagOf <- MCTagOf
    rank <- MCRank
    cites <- MCCites
    supports <- MCSupports
    Inputs <- MCInputs
    TIMEOUT = 1
    MaxGenerations = 2
    MaxTokens = 2
    MaxEnds = 2
    MaxSubQueries = 1
SPECIFICATION PageSpec
INVARIANTS
    PageShowsTheAnswers
    NothingSaidIsLost
PROPERTIES
    ClaimsAreGrounded
    GenerationEnds
    ImplementsAnswerLog
CHECK_DEADLOCK FALSE
