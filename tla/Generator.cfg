CONSTANTS
  Shells = {p1, p2}
  Langs = {"go", "node"}
  NFiles = 3
  Lang <- MCLang
  Sources <- MCSources
  Contents <- MCContents
  Hand <- MCHand
  Rendered <- MCRendered
  Broken <- MCBroken
  Jobs <- MCJobs
  NoFile = "none"
  Torn = "torn"
  NoSource = NoSource
  MaxEdits = 2
SYMMETRY Interchangeable
SPECIFICATION Spec
INVARIANTS
  TypeOK
  OkMeansUpToDate
  VerifyGuardsTheCommit
  NoFalseAlarm
