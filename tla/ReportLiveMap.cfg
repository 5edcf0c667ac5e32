\* One publishing goroutine and one polling client.
SPECIFICATION Spec
CONSTANTS
    NS = {n1}
    Pollers = {h1}
    Main = Main
    MaxCalls = 1
    Nobody = Nobody
INVARIANT
    ReportIsThreadSafe
