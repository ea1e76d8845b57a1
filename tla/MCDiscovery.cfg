SPECIFICATION FairSpec
CONSTANTS
    n1 = n1
    n2 = n2
    n3 = n3
    n4 = n4
    Nodes = {n1, n2, n3}
    Seeds <- OneSeed
    SampleSize = 5
    HeartbeatInterval = 0
    SuspectTimeout = 10
    FailureTimeout = 15
    MaxDelay = 0
    Networks = {FALSE}
    MaxSeq = 0
    MaxStarts = 3
    MaxStops = 0
    MaxStalls = 0
PROPERTIES
    EveryPairMeets
