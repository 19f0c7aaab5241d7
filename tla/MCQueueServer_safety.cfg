SPECIFICATION FairSpec
CONSTANTS
  MaxItems = 2
  MaxRequests = 5
  MaxEnvs = 2
  MaxWorkers = 2
  Profiles <- AllProfiles
  StrictMoves = TRUE
  Places <- FewPlaces
INVARIANTS
  NoItemLost
  NoOrphanWorker
  Startable
PROPERTIES
  ImplementsLedger
  ArmedQueueRuns
CHECK_DEADLOCK FALSE
