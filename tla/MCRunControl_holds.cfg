SPECIFICATION Spec
CONSTANTS
    r1 = r1
    r2 = r2
    c1 = c1
    c2 = c2
    s1 = s1
    s2 = s2
    None = None
    Runners <- RunnersMC
    Callers <- NoActors
    Suspensions <- TwoSuspensions
    Ops <- NoOps
    Budget = 2
    MaxRuns = 1
    QuietStart = TRUE
    HasLoopTimeout = FALSE
INVARIANTS
    HoldsHonoured
CHECK_DEADLOCK FALSE
