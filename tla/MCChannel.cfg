SPECIFICATION Spec
CONSTANTS
    u1 = u1
    s1 = s1
    Unary = {u1}
    Streams = {s1}
    LastChunk = 2
    MaxFrames = 3
    MaxCancels = 1
INVARIANTS
    TypeOK
    EveryCallCanEnd
    NoStaleEntry
    ClosedMeansEmpty
PROPERTIES
    FutureSetOnce
    FailureReachesCallers
    CloseFreesCallers
    DisconnectFreesCallers
    ImplementsRequests
CHECK_DEADLOCK FALSE
