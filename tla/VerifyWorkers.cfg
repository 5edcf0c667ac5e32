SPECIFICATION FairSpec
CONSTANTS
    InitialData <- FullData
    Options <- Phase3
    LaterOptions <- Phase3
    StringKeyed = {}
    NS = {n1, n2, n3}
    Workers = {w1, w2}
    IDs = {1}
    Versions = {1}
    RetryCount = 0
    CheckpointEvery = 1
    SampleCap = 1
    ExtraCap = 1
    BarWidth = 30
    SampleOneIn = 2
    MaxFaults = 1
    MaxCrashes = 0
    MaxWrites = 0
    MaxCalls = 2
    Nil = Nil
    Torn = Torn
    Free = Free
    NoResult = NoResult
INVARIANTS
    EachNamespaceOnce
    ReturnsComplete
PROPERTIES
    ImplementsPool
    CallReturns
