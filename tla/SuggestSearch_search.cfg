SPECIFICATION Spec
CONSTANTS
    Key <- MCKey
    MaxWordLength = 10
    English = TRUE
    Files <- MCFiles
    Inputs <- MCInputs
    Contexts <- MCContexts
    NextActiveSize = 6
    SinglePointSize = 12
    MaxResults = 3
    CacheBackLength = 3
    MinContinuousInputSize = 2
CHECK_DEADLOCK FALSE
INVARIANTS
    
    WordsReadBack
PROPERTIES
    QueriesAnswered
