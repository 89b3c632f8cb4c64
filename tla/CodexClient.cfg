CONSTANT Scenes <- AllScenes
SPECIFICATION FairSpec
CHECK_DEADLOCK FALSE
INVARIANTS
  WaitsForOwnTurn
  VerdictIsTrue
  BusyIsTrue
PROPERTIES
  CallReturns
