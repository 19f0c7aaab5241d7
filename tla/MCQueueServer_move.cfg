SPECIFICATION Spec
CONSTANTS
  MaxItems = 2
  MaxRequests = 5
  MaxEnvs = 1
  MaxWorkers = 1
  Profiles <- MoveProfile
  StrictMoves = FALSE
  Places <- FewPlaces
INVARIANT NoItemLost
CHECK_DEADLOCK FALSE
