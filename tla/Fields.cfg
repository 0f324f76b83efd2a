CONSTANTS
  Keys <- MCKeys
  Declared = {"posted", "amount"}
  Excluded = {"org"}
  Fold <- MCFold
  Values <- MCValues
  Takes <- MCTakes
  Null = "null"
  Absent = "absent"
  Zero = "zero"
  Objects <- MCObjects
SPECIFICATION Spec
INVARIANTS
  TypeOK
  SameIfConforming
  NothingLost
  NothingInvented
CHECK_DEADLOCK FALSE
