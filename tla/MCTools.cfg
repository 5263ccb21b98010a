\* Two goroutines on one repository with a protected branch; two units' worktrees.
SPECIFICATION AllSpec
CONSTANTS
  Callers = {c1, c2}
  Branches = {"main", "unit"}
  Protected = {"main"}
  MaxEdits = 1
  Units = {u1, u2}
  MaxConflictAttempts = 2
  MaxTarget = 1
SYMMETRY Alike
INVARIANTS
  AuditTellsTheBranch
PROPERTIES
  NothingDestroyed
  PushedIsRebased
CHECK_DEADLOCK FALSE
