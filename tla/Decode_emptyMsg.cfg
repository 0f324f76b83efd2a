CONSTANTS
  Words = {"", "none", "act", "con", "gen", "other", "auth", "new"}
  Payloads <- ShadowPayloads
SPECIFICATION Spec
INVARIANT NodeKeepsText
CHECK_DEADLOCK FALSE
