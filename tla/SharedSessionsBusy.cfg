SPECIFICATION FairSpec
CONSTANTS
  Existing = {a}
  New = {n1}
  Requests = {}
  Legacy = {}
  Nobody = nobody
  MaxOps = 0
  MaxMessages = 1
  MaxOthers = 1
CHECK_DEADLOCK FALSE
PROPERTIES BusyIsKept
