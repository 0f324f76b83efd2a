CONSTANTS
  Golden = {g1, g2}
  Malformed = {m1, m2}
  Outputs = {o1, o2}
  Fails = Fails
  Unmatched = Unmatched
SYMMETRY Interchangeable
SPECIFICATION Spec
INVARIANTS
  TypeOK
  PassMeansAgreement
  FailMeansDisagreement
CHECK_DEADLOCK FALSE
