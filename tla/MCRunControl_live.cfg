SPECIFICATION ClearingSpec
CONSTANTS
    r1 = r1
    r2 = r2
    c1 = c1
    c2 = c2
    s1 = s1
    s2 = s2
    None = None
    Runners <- RunnersMC
    Callers <- OneCaller
    Suspensions <- TwoSuspensions
    Ops <- InterruptOps
    Budget = 2
    MaxRuns = 1
    QuietStart = TRUE
    HasLoopTimeout = TRUE
PROPERTIES
    InterruptHonoured
    SuspensionsLift
CHECK_DEADLOCK FALSE
