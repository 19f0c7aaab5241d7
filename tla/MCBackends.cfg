SPECIFICATION Spec
CONSTANTS
  StTimeout = 2
  StSettle = 2
  StHorizon = 4
  StUpdates = 1
  StUsers = {"ab"}
  StCancels = {"a", "ab"}
  CmCallers = {"a", "b"}
  CmRunsMax = 3
  CmDropsMax = 1
  CmPvs <- MCPvs
  EbRecords <- MCEbRecords
  EbRestartsMax = 1
  EbWritesMax = 1
  NtTables <- MCTables
  NtStructs <- MCStructs
  NtDims <- MCDims
  NtRankMax = 3
  PpTexts <- MCTexts
  PpBases <- MCBases
  PpKeys <- MCKeys
  PpCallsMax = 3
  PpDaysMax = 2
  PpDigitsMax = 1
  PpPerDir = 2
  FrFields = {"array", "strings", "novalue"}
  FrPostsMax = 5
  FrQueueMax = 2
  FrFaultsMax = 2
  FrReopens = FALSE
  RsRunsMax = 3
  RsHooksMax = 6
  RsMaxLines = 2
  RsInterval = 2
  RsTicksMax = 2
  RsCrashesMax = 2
  RsTearsMax = 1
  RsFaultsMax = 1
  StgDevices <- MCStgDevices
  StgSignals <- MCStgSignals
  StgHints <- MCStgHints
  StgFaultsMax = 1
  StgRoundsMax = 2
  StgSetsMax = 2
INVARIANTS
  StatusSound
  CommandsSound
  ConversionsSound
  StagingSound
  FilesSound
CHECK_DEADLOCK FALSE
