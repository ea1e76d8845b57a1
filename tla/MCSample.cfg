SPECIFICATION Spec
CONSTANTS
    n1 = n1
    n2 = n2
    n3 = n3
    n4 = n4
    Nodes = {n1, n2, n3, n4}
    Seeds <- Bootstrap
    SampleSize = 1
    HeartbeatInterval = 0
    SuspectTimeout = 10
    FailureTimeout = 15
    MaxDelay = 0
    Networks = {FALSE}
    MaxSeq = 0
    MaxStarts = 4
    MaxStops = 0
    MaxStalls = 0
INVARIANT
    NobodyLeftOut
