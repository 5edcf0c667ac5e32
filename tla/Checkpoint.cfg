\* Two goroutines saving for two namespaces, one failing write, two kills.
SPECIFICATION CpFairSpec
CONSTANTS
    NS = {n1, n2}
    Workers = {w1, w2}
    IDs = {1, 2}
    MaxFaults = 1
    MaxCrashes = 2
    Nil = Nil
    Torn = Torn
    Free = Free
INVARIANTS
    CpTypeOK
    HoldsLock
    FileFollowsMap
PROPERTY
    SaveReturns
