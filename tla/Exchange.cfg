CONSTANTS
  Calls = {c1}
  Cap <- MCCap
  MaxLen = 3
SPECIFICATION FairSpec
INVARIANTS
  TypeOK
  RefusalIsReported
  NothingLeftBehind
  CutBodyIsNoAnswer
PROPERTIES
  KeepsContract
  ReturnsOrReads
CHECK_DEADLOCK FALSE
