\* Every mode over every pair of contents, with failing accesses and a
\* concurrent change.
SPECIFICATION Spec
CONSTANTS
    InitialData <- AnyDataUpToRenaming
    Options <- AnyMode
    LaterOptions <- AnyMode
    StringKeyed = {n1}
    NS = {n1}
    Workers = {w1}
    IDs = {1, 2, 3}
    Versions = {1, 2}
    RetryCount = 1
    CheckpointEvery = 2
    SampleCap = 1
    ExtraCap = 1
    BarWidth = 30
    SampleOneIn = 2
    MaxFaults = 2
    MaxCrashes = 0
    MaxWrites = 1
    MaxCalls = 1
    Nil = Nil
    Torn = Torn
    Free = Free
    NoResult = NoResult
INVARIANTS
    TypeOK
    ReportIsTheDifference
    NoFalsePass
    NoFalseAlarm
    PassCoversExamined
    QuietDataIsSurvived
