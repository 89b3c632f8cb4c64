SPECIFICATION ConfigSpec
CONSTANTS
  Ports = {p1, p2}
  Entries = {a, b}
  FrpFiles = {f1, f2}
  MaxEdits = 2
SYMMETRY MCSymmetry
INVARIANTS
  SyncIsTrue
  DraftIsKept
PROPERTIES
  NoEditLost
