SPECIFICATION Spec
CONSTANTS
    n1 = n1
    n2 = n2
    NS = {n1, n2}
    NoNS = NoNS
    Words = {"a", "b"}
    IDs <- AllIDs
    Versions = {1, 2}
    InitialData <- SomeData
    SampleCap = 2
    MaxFaults = 0
    MaxWrites = 0
INVARIANTS EveryDiffIsFixed
CHECK_DEADLOCK FALSE
