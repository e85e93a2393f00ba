SPECIFICATION Spec
CONSTANTS
  NULL = NULL
  OrderLimit = 16
  Manifests <- MCManifests
  Styles = {"s1", "s2"}
  MaxLoads = 2
INVARIANTS
  HashSurvives
  MediatorAgrees
  ValidityKept
  BallotMatchesManifest
  PlaceholdersDistinct
  FailsOnlyWhen
PROPERTY LoadedIsStable
CHECK_DEADLOCK FALSE
