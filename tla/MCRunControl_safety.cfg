SPECIFICATION Spec
CONSTANTS
    r1 = r1
    r2 = r2
    c1 = c1
    c2 = c2
    s1 = s1
    s2 = s2
    None = None
    Runners <- TwoRunners
    Callers <- OneCaller
    Suspensions <- OneSuspension
    Ops <- PauseSigint
    Budget = 3
    MaxRuns = 2
    QuietStart = FALSE
    HasLoopTimeout = FALSE
INVARIANTS
    TypeOK
    TokenExplained
    NoLostWakeup
    InterruptedMsgReplayed
    SingleRun
    StartGateCovers
SYMMETRY RunnerSymmetry
CHECK_DEADLOCK FALSE
