\* Two units whose workers stop and start again, and choo cleanup in between.
SPECIFICATION Spec
CONSTANTS
  u1 = u1
  u2 = u2
  Units = {u1, u2}
  MaxConflictAttempts = 2
  MaxTarget = 2
SYMMETRY Alike
PROPERTIES
  HandedOutExists
CHECK_DEADLOCK FALSE
