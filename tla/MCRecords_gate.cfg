SPECIFICATION RequestsSpec
CONSTANTS
  DcSinks <- MCDcSinks
  DcDrains <- MCDrains
  DcOpsMax = 3
  DcConfMax = 2
  DcPostsMax = 1
  DcFaultsMax = 1
  DcCarryOn = FALSE
  PgRuns <- MCPgRuns
  PgCuts <- MCPgCuts
  PgChunks = {0, 1, 2, 3, 5}
  DsScript <- MCScript
  DsPump <- MCPump
  DsPrefixes <- MCPrefixes
  DsFaultsMax = 1
  DsRing = 1
  PermFiles <- MCPermFiles
  PlanNames = {"count", "scan"}
  LockKeys = {"a", "b"}
  MaxTasks = 2
  MaxStarted = 3
  MaxGateCalls = 4
  OpSessions <- MCSessions
  OpCapsOf <- MCCaps
  OpTimeoutsMax = 1
  OpItersMax = 3
  OpFaultsMax = 1
  OaSinks <- MCOaSinks
  OaRuns <- MCOaRuns
  OaDocsMax = 2
  OaFaultsMax = 1
  OaCases <- MCCases
PROPERTIES
  GateSound
CHECK_DEADLOCK FALSE
