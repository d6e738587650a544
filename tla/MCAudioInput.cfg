CONSTANTS
    Devices = {d1}
    Default = default
    Tasks = {h1, h2}
    MaxCalls = 2
    MaxSpeeches = 1
SPECIFICATION Spec
INVARIANTS
    InputAgrees
    TypingAgrees

    
CHECK_DEADLOCK FALSE
