CONSTANTS
  Str <- MCStr
  Blank = ""
  Trim <- MCTrim
  NoOrg = NoOrg
  Sent = Sent
  Inputs <- MCInputs
SPECIFICATION Spec
INVARIANTS
  TypeOK
  SynthesizedOnce
  OrgsResolve
  FirstAccountDecides
CHECK_DEADLOCK FALSE
