CONSTANTS
  m1 = m1
  m2 = m2
  m3 = m3
  Messages = {m1, m2, m3}
  StopTask = StopTask
SPECIFICATION FairSpec
CHECK_DEADLOCK FALSE
INVARIANTS WaitingIsReachable RowsAreTrue WithdrawnNeverRuns ReleasedIsQuiet QuietUnderLock
PROPERTIES ImplementsLifecycle WaitingIsServed
