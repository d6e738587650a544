CONSTANTS
    Stride = 4
    Bucket = 8
    StaticFrames = 13
    StaticOut = 3
    Noise = 2
    W = 3
    MaxSteps = 8
    MaxTotal = 8
    MaxNew = 3
    BeforeLen = 2
    AfterLen = 1
    Capacity = 6
    ChunkSize = 16
    PrefixWindow = 2
    MaxRequests = 2
    Utterances <- MCUtterances
    TokenFiles <- MCTokenFiles
    ChunkFrames = 10
    Step = 4
    PerChunk = 5
    AtEnd = 30
SPECIFICATION Spec
INVARIANTS TextIsWhatWasHeard AudioMatchesPrompt GeneratesFromItsPast
PROPERTIES HandlesSound
CHECK_DEADLOCK FALSE
