SPECIFICATION FairSpec
CONSTANTS
    r1 = r1
    r2 = r2
    c1 = c1
    c2 = c2
    s1 = s1
    s2 = s2
    None = None
    Runners <- RunnersMC
    Callers <- TwoCallers
    Suspensions <- NoActors
    Ops <- PauseAbort
    Budget = 2
    MaxRuns = 1
    QuietStart = TRUE
    HasLoopTimeout = FALSE
PROPERTIES
    InterruptHonoured
CHECK_DEADLOCK FALSE
