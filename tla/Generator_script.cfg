CONSTANTS
  Shells = {p1}
  Langs = {"go", "node"}
  NFiles = 3
  Lang <- MCLang
  Sources <- MCSources
  Contents <- MCContents
  Hand <- MCHand
  Rendered <- MCRendered
  Broken <- MCBroken
  Jobs <- MCJobs
  NoFile = "none"
  Torn = "torn"
  NoSource = NoSource
  MaxEdits = 3
SPECIFICATION Spec
INVARIANT EveryVerifyGuardsTheCommit
