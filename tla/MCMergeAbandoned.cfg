\* Claude gives a merge up: the verification passes.
SPECIFICATION Spec
CONSTANTS
  a = a
  b = b
  c = c
  x = x
  Units = {a, b, c}
  Deps <- MCDeps
  Outsiders = {x}
  ClaudeMay = {"complete", "abandon", "leave"}
  MaxAttempts = 3
  None = None
INVARIANTS
  MergedMeansLanded
CHECK_DEADLOCK FALSE
