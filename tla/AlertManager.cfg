SPECIFICATION FairSpec
CONSTANTS
    n1 = n1
    n2 = n2
    NS = {n1, n2}
    Workers = {w1, w2}
    Configs <- SomeConfigs
    Cooldown = 2
    Totals = {0, 2}
    PerBatch <- SomeFindings
    MaxBatches <- Sizes
    MaxTime = 4
    MaxCalls = 2
    Idle = Idle
    Free = Free
INVARIANTS
    TypeOK
PROPERTIES
    CooldownKept
    FindingsAreAlerted
    StuckMeansNoNewMaximum
    
CHECK_DEADLOCK FALSE
