SPECIFICATION ProcessFairSpec
CONSTANTS
  MaxStarts = 2
  MaxPipe = 3
INVARIANTS NewsIsOfThisProcess LeftIsKept
PROPERTY EndsWhenTold
CHECK_DEADLOCK FALSE
