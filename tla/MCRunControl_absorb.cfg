SPECIFICATION Spec
CONSTANTS
    r1 = r1
    r2 = r2
    c1 = c1
    c2 = c2
    s1 = s1
    s2 = s2
    None = None
    Runners <- RunnersMC
    Callers <- OneCaller
    Suspensions <- TwoSuspensions
    Ops <- PauseOnly
    Budget = 3
    MaxRuns = 1
    QuietStart = TRUE
    HasLoopTimeout = FALSE
INVARIANTS
    AbsorbedPlansDoNotRun
CHECK_DEADLOCK FALSE
