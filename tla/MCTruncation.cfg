SPECIFICATION Spec
CONSTANTS
    u1 = u1
    s1 = s1
    Unary = {u1}
    Streams = {s1}
    LastChunk = 2
    MaxFrames = 2
    MaxCancels = 0
INVARIANT NoSilentTruncation
CHECK_DEADLOCK FALSE
