SPECIFICATION Spec
CONSTANTS
    InitialData <- FullOrFirstDiffers
    Options <- Phase3
    LaterOptions <- Resuming
    StringKeyed = {n1, n2}
    NS = {n1, n2}
    Workers = {w1, w2}
    IDs = {1, 2}
    Versions = {1, 2}
    RetryCount = 0
    CheckpointEvery = 1
    SampleCap = 1
    ExtraCap = 1
    BarWidth = 30
    SampleOneIn = 2
    MaxFaults = 1
    MaxCrashes = 1
    MaxWrites = 0
    MaxCalls = 1
    Nil = Nil
    Torn = Torn
    Free = Free
    NoResult = NoResult
INVARIANTS
    CheckpointCovers
    ResumeReachesAll
PROPERTIES
    CheckpointNeverBack
