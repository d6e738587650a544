CONSTANTS
    MaxConns = 3
    MaxSegments = 2
    Capacity = 1
    WireId <- MCWireId
SPECIFICATION Spec
INVARIANTS
    WaitingIffUnanswered
    SocketsSound
    CrashNeedsReplacement
PROPERTIES
    RefinesContract
    ConnectionServed
    StopEnds
