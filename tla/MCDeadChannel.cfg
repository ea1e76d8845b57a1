SPECIFICATION Spec
CONSTANTS
    u1 = u1
    s1 = s1
    Unary = {u1}
    Streams = {s1}
    LastChunk = 2
    MaxFrames = 1
    MaxCancels = 0
INVARIANT NothingPendingOnDeadChannel
CHECK_DEADLOCK FALSE
