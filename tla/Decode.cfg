CONSTANTS
  Words = {"", "none", "act", "con", "gen", "other", "auth", "new"}
  Payloads <- MCPayloads
SPECIFICATION Spec
INVARIANTS
  TypeOK
  SameOutcomeIfConforming
  GoKeepsText
  CodesAreHandled
  AcceptedAlike
CHECK_DEADLOCK FALSE
