SPECIFICATION Spec
CONSTANTS
    InitialData <- FullData
    Options <- Phase3
    LaterOptions <- Resuming
    StringKeyed = {}
    NS = {n1}
    Workers = {w1}
    IDs = {1, 2}
    Versions = {1, 2}
    RetryCount = 0
    CheckpointEvery = 1
    SampleCap = 1
    ExtraCap = 1
    BarWidth = 30
    SampleOneIn = 2
    MaxFaults = 0
    MaxCrashes = 1
    MaxWrites = 0
    MaxCalls = 1
    Nil = Nil
    Torn = Torn
    Free = Free
    NoResult = NoResult
INVARIANT
    ResumeContinues
