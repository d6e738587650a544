CONSTANTS
    MaxConns = 1
    MaxSegments = 1
    Capacity = 1
    WireId <- MCWireId
SPECIFICATION Spec
INVARIANT
    StartFailureReported
