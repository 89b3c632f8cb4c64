SPECIFICATION Spec
CONSTANTS
  Configs = {c1, c2}
  MaxShares = 3
  Passwords = {p1, p2}
  MaxLogins = 1
SYMMETRY MCSymmetry
INVARIANTS
  OnlyItsOwn
  KeyIsOnDisk
  LoginsFollowThePassword
CHECK_DEADLOCK FALSE
