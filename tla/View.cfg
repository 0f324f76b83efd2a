CONSTANTS
  Specs <- MCSpecs
  Rank <- MCRank
  Nothing = Nothing
  Texts = {"", "a", "<"}
  Escaped = {"<"}
  Seconds <- MCSeconds
  Moments <- MCMoments
  Ids = {"x", "y"}
SPECIFICATION Spec
INVARIANTS
  TypeOK
  NothingForeign
  NothingMissing
  ArgumentsFit
  FallbackIsKnown
  FirstTimeWins
  OnlyFractionsDiffer
  CanonicalTellsApart
  SameQuery
  QueryTellsAll
CHECK_DEADLOCK FALSE
