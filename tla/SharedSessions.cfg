SPECIFICATION FairSpec
CONSTANTS
  Existing = {a}
  New = {n1, n2}
  Requests = {r1}
  Legacy = {a}
  Nobody = nobody
  MaxOps = 2
  MaxMessages = 1
  MaxOthers = 1
CHECK_DEADLOCK FALSE
INVARIANTS OneThreadPerRequest NoLostEdit SharedIsSaved RemovedIsFree
PROPERTIES StaleIsReleased
