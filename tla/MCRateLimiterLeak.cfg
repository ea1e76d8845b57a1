SPECIFICATION Spec
CONSTANTS
    Callers = {c1, c2, c3}
    Cancelled = Cancelled
    MaxConcurrency = 1
    MaxQueueDepth = 2
    MaxCancels = 1
    MaxStrays = 0
PROPERTY
    ReleaseUnblocksNext
