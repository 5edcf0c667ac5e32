\* Two publishing goroutines, a polling client and the main goroutine.
SPECIFICATION FairSpec
CONSTANTS
    NS = {n1, n2}
    Pollers = {h1}
    Main = Main
    MaxCalls = 2
    Nobody = Nobody
INVARIANTS
    TypeOK
    LockedReadsAreSafe
    VerdictIsSnapshot
PROPERTY
    CallsReturn
