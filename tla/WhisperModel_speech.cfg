SPECIFICATION Spec
CONSTANTS
    Models <- MCModels
    Names <- MCNames
    Files <- MCFiles
    MaxContexts = 5
    MaxLoads = 4
    Audios <- MCAudios
    MaxThreads = 2
    N_FFT = 12
    HOP = 4
    Silence = 13
    Prime = 13
    Root = 2
    Offsets = {0, 2}
    MaxEncodes = 2
    MaxDecodes = 3
    KvSize = 4
INVARIANTS
    ModelKept
    HearsOwn
    DecodesOwn
CHECK_DEADLOCK FALSE
