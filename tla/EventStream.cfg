SPECIFICATION FairSpec
CONSTANTS
  Threads = {s1, s2}
  Timer = timer
  Capacity = 1
  PageSize = 1
  Letters = {a, b}
  MaxText = 1
  MaxChanges = 2
  MaxWire = 2
  MaxDisconnects = 1
CHECK_DEADLOCK FALSE
INVARIANTS NoLostWakeup BrowserHasBaseline
PROPERTIES Converges
