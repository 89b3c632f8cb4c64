SPECIFICATION FairSpec
CONSTANTS
  Services = {"Share", "frpc"}
  Share = "Share"
  Watched = {"Share"}
  Scenes <- TwoScenes
  p1 = p1
  MaxCloses = 1
  MaxDialogs = 2
INVARIANTS NothingAbandoned NoGhost
CHECK_DEADLOCK FALSE
PROPERTIES ExitEnds MonitorsGoOn
