SPECIFICATION Spec
CONSTANTS
  Stageable <- MCStageable
  Catalogue <- MCCatalogue
  Motors <- MCMotors
  At0 <- MCAt0
  MaxThrows = 1
  Movers = {"m1", "m2", "m3"}
  MoveOf <- MCMoveOf
  MaxFaults = 1
  MaxStops = 1
  MaxWrites = 3
  DtWriters = {"h", "m"}
  DtInfos <- MCInfos
  DtOpsMax = 4
  DtFaultsMax = 1
  DtMonitorsInOrder = TRUE
  CnCallers = {"a", "b"}
  CnAttemptsMax = 2
  CnPostsMax = 2
  SgThreads = {"t1", "t2", "t3"}
  SgListeners = {"l1"}
  SgMonitors = 2
  SgWrites = 3
  SdTasks = {"a", "b"}
  SdReadsMax = 4
  SdArmsMax = 4
  SdPutsMax = 3
  SdPostsMax = 3
INVARIANTS
  FinalizersRan
  LegalMessages
  SettledReads
  RecordedRows
  MotorSound
  DetectorsSound
  WatchesSound
  SignalsSound
PROPERTIES
  SwitchComesBack
CHECK_DEADLOCK FALSE
