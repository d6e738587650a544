CONSTANTS
    h1 = h1
    h2 = h2
    Tasks <- MCTasks
    MaxConns = 2
    MaxSegments = 2
    MergeMax = 2
SPECIFICATION Spec
INVARIANTS
    
    
    WireInOrder
    SegmentsAccountedFor
PROPERTIES
    CallsEnd
    LossNoticed
