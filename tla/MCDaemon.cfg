\* Two branches, one of them unnamed; crashes, restarts and statements that fail; two processes that start a daemon.
SPECIFICATION AllSpec
CONSTANTS
  j1 = j1
  j2 = j2
  c1 = c1
  c2 = c2
  s1 = s1
  b1 = b1
  b2 = b2
  Jobs = {j1, j2}
  Branches = {b1, b2}
  Unnamed = {b2}
  Callers = {c1, c2}
  Stoppers = {s1}
  MaxJobs = 1
  MayCrash = TRUE
  MayFail = TRUE
  None = None
  Daemons = {d1, d2}
  NoOne = NoOne
SYMMETRY AllAlike
INVARIANTS
  JobsAreTended
  OneDaemon
CHECK_DEADLOCK FALSE
