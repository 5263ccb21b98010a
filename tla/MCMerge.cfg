\* With a remote others push to, and without; Claude completes or leaves conflicts.
SPECIFICATION FairSpec
CONSTANTS
  a = a
  b = b
  c = c
  x = x
  Units = {a, b, c}
  Deps <- MCDeps
  Outsiders = {x}
  ClaudeMay = {"complete", "leave"}
  MaxAttempts = 3
  None = None
INVARIANTS
  MergedMeansLanded
  RepositoryInOrder
PROPERTIES
  NothingLost
  MergesEnd
CHECK_DEADLOCK FALSE
