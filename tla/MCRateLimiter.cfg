SPECIFICATION Spec
CONSTANTS
    Callers = {c1, c2, c3, c4, c5}
    Cancelled = Cancelled
    MaxConcurrency = 2
    MaxQueueDepth = 3
    MaxCancels = 3
    MaxStrays = 2
INVARIANTS
    TypeOK
    ConcurrencyCap
    QueueMatchesWaiters
    SlotLossBounded
PROPERTIES
    NoOvertaking
    WaiterProgress
    ImplementsAdmission
