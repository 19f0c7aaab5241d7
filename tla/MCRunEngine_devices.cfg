SPECIFICATION Spec
CONSTANTS
    k1 = k1
    k2 = k2
    d1 = d1
    d2 = d2
    f1 = f1
    f2 = f2
    RunKeys <- OneKey
    Streams <- Nothing
    Devices <- TwoDevices
    Flyers <- TwoFlyers
    Unstoppable <- OneFlyer
    Alphabet <- DeviceMsgs
    Recording = FALSE
    HasLoopTimeout = FALSE
    InterruptKinds <- AllKinds
    MaxCalls = 1
    MaxMsgs = 5
    MaxPauses = 1
    MaxInterrupts = 2
    MaxFailures = 1
INVARIANTS
    RunsClosed
    MonitorsLive
    QuietAtRest
PROPERTIES
    BackstopDrains
CHECK_DEADLOCK FALSE
