CONSTANTS
  Calls = {c1, c2, c3}
  Nobody = Nobody
  Cap <- MCCap
  MaxLen = 2
  UrlLen = 2
SPECIFICATION ClaimSpec
SYMMETRY Interchangeable
INVARIANTS
  ClaimTypeOK
  RefusalMeansSomebodyElse
  UrlGoesToTheOwner
PROPERTY KeepsTokenContract
CHECK_DEADLOCK FALSE
