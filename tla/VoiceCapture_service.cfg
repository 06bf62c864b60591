SPECIFICATION FairSpec
CONSTANTS
    MinSpeech = 1
    MaxSpeech = 1
    MaxStarts = 2
    MaxChunks = 2
    MaxQueue = 1
    Faults = {"read", "throw"}
INVARIANT InferenceExclusive
INVARIANT BufferBounded
INVARIANT CaptureSound
PROPERTY ImplementsDictation
 
PROPERTY MainReturns
PROPERTY TranscribingEnds
CHECK_DEADLOCK FALSE
