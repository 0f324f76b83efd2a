CONSTANTS
  Calls = {c1}
  Cap <- MCCap
  MaxLen = 3
SPECIFICATION FairSpec
PROPERTY EveryCallReturns
CHECK_DEADLOCK FALSE
