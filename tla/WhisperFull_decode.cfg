SPECIFICATION FairSpec
CONSTANTS
    Calls <- MCCalls
    KvSize = 17
    TextCtx = 14
    MaxDecoders = 2
    Chunk = 6
    Second = 2
    Ending = 5
    CtxMargin = 1
    MinCtx = 1
    Temps = 3
    WarmTemps = 2
    EntropyLen = 2
INVARIANTS
    ContextSound
    
PROPERTIES
    HeardAll
    CallEnds
