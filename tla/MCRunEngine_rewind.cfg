SPECIFICATION Spec
CONSTANTS
    k1 = k1
    k2 = k2
    d1 = d1
    d2 = d2
    f1 = f1
    f2 = f2
    RunKeys <- OneKey
    Streams <- Primary
    Devices <- OneDevice
    Flyers <- Nothing
    Unstoppable <- Nothing
    Alphabet <- RewindMsgs
    Recording = TRUE
    HasLoopTimeout = TRUE
    InterruptKinds <- Nothing
    MaxCalls = 1
    MaxMsgs = 6
    MaxPauses = 2
    MaxInterrupts = 0
    MaxFailures = 1
INVARIANTS
    TypeOK
    DenseSeq
    CachedCutReplayed
CHECK_DEADLOCK FALSE
