\* Two units, drops (a channel of two), silent workers, cancellation, feature mode.
SPECIFICATION FairSpec
CONSTANTS
  a = a
  b = b
  Units <- Pair
  UnitOrder <- PairOrder
  Graphs <- PairShapes
  MaxParallelism = 2
  Capacity = 2
  MaxEscalations = 1
  StatusWriteMayFail = TRUE
  NoPR = FALSE
  FeatureMode = TRUE
  NoUnit = NoUnit
  NoEvent = NoEvent
  NoResult = NoResult
INVARIANTS
  DependenciesMerged
  StatusIsTrue
  ResultStands
  ClosedIsQuiet
PROPERTIES
  OrphanedOnlyByLoss
  RunEnds
  ImplementsScheduler
CHECK_DEADLOCK FALSE
