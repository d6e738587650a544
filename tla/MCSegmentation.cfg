\* Cut utterances, failed inference and a clock that rounds, in all modes.
SPECIFICATION Spec
CONSTANTS
    Pre = 1
    Post = 2
    Ring = 5
    EndSilence = 2
    MaxSpeech = 4
    MaxChunk = 2
    MaxFrames = 9
    MaxFaults = 1
    MaxDrift = 1
    Modes <- AllModes
INVARIANTS
    SpeechKept
    StreamInOrder
    FullPadding
    DelayBounded
CHECK_DEADLOCK FALSE
