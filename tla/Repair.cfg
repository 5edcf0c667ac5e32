SPECIFICATION FairSpec
CONSTANTS
    n1 = n1
    n2 = n2
    NS = {n1, n2}
    NoNS = NoNS
    Words = {"a", "b"}
    IDs <- BlankIDs
    Versions = {1, 2}
    InitialData <- SomeData
    SampleCap = 2
    MaxFaults = 1
    MaxWrites = 1
INVARIANTS TypeOK RepairedDocsInSync EverySampleCounted OnlySourceVersions
PROPERTIES InSyncStays RepairEnds
CHECK_DEADLOCK FALSE
