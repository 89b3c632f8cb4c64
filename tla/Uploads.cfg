SPECIFICATION Spec
CONSTANTS
  m1 = m1  m2 = m2  a1 = a1  a2 = a2
  Messages = {m1, m2}
  Images = {1, 2}
  Documents = {1, 2}
  Archives = {a1, a2}
  ArchiveSlots = 1
INVARIANTS KeptWhole NothingLeftBehind SlotsComeBack
PROPERTY EveryRequestEnds
