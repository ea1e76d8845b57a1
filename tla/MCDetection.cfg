SPECIFICATION Spec
CONSTANTS
    n1 = n1
    n2 = n2
    n3 = n3
    n4 = n4
    Nodes = {n1, n2}
    Seeds <- TwoSeeds
    SampleSize = 0
    HeartbeatInterval = 2
    SuspectTimeout = 4
    FailureTimeout = 5
    MaxDelay = 1
    Networks = {FALSE, TRUE}
    MaxSeq = 0
    MaxStarts = 3
    MaxStops = 2
    MaxStalls = 1
INVARIANTS
    TypeOK
    StatusFollowsSilence
    BoundedDetection
    MutualAcquaintance
    SeedAndNodeSettle
