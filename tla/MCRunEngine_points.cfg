SPECIFICATION Spec
CONSTANTS
    k1 = k1
    k2 = k2
    d1 = d1
    d2 = d2
    f1 = f1
    f2 = f2
    RunKeys <- TwoKeys
    Streams <- Primary
    Devices <- OneDevice
    Flyers <- Nothing
    Unstoppable <- Nothing
    Alphabet <- TwoRunMsgs
    Recording = FALSE
    HasLoopTimeout = FALSE
    InterruptKinds <- AbortOnly
    MaxCalls = 1
    MaxMsgs = 8
    MaxPauses = 1
    MaxInterrupts = 1
    MaxFailures = 0
INVARIANTS
    SeqNamesPoint
PROPERTIES
    NoEventAfterStop
CHECK_DEADLOCK FALSE
