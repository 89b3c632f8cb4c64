CONSTANTS
  s1 = s1
  s2 = s2
  Sessions = {s1, s2}
  Default = s1
  Nobody = Nobody
  Turns0 <- TwoTurnsAndOne
  PageSize = 1
  Keep = 1
  MaxTurns = 4
  MaxChanges = 2
  MaxMoves = 2
  MaxFaults = 1
  MaxEvents = 4
SPECIFICATION FairSpec
CHECK_DEADLOCK FALSE
PROPERTIES TimelineStaysWhole AnnouncedOnce NothingGoesBack PageConverges
