\* An hour.
SPECIFICATION Spec
CONSTANTS
    Bits = 24
    Fraction = 30
    Duration = 10737418
    FrameRate = 100
    Chunk = 10
    Session = 360000
    Margin = 35
INVARIANT ClocksAgree
CHECK_DEADLOCK FALSE
