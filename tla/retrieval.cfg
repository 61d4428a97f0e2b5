SPECIFICATION Spec
CONSTANTS
    f1 = f1
    f2 = f2
    t1 = t1
    t2 = t2
    t3 = t3
    Chunks = {1, 2, 3, 4}
    FileOf <- MCFileOf
    Key <- MCKey
    Terms <- MCTerms
    Fits = {1, 3}
    Tokens <- MCTokens
    Queries <- MCQueries
    Filters <- MCFilters
    TopKs = {1, 3}
    Limits <- MCLimits
    MaxTokens = 6
    Images <- MCImages
    MaxImages = 1
    Settings <- MCSettings
    Scores = {1, 2}
    FetchFactor = 1
    SparseFactor = 1
    MaxDf = 50
    Idf <- MCIdf
    K = 60
    Scale = 7624512
    NCtx = 14
    Base = 6
    Reserve = 3
CHECK_DEADLOCK FALSE
INVARIANTS
    FilteredOnly
    RankedFairly
    JudgedOnBestEvidence
    PromptFits
