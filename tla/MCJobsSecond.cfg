\* StopJob, then StartJob: two orchestrators on one branch.
SPECIFICATION Spec
CONSTANTS
  j1 = j1
  j2 = j2
  c1 = c1
  c2 = c2
  s1 = s1
  b1 = b1
  b2 = b2
  Jobs = {j1, j2}
  Branches = {b1}
  Unnamed = {}
  Callers = {c1}
  Stoppers = {s1}
  MaxJobs = 2
  MayCrash = FALSE
  MayFail = FALSE
  None = None
SYMMETRY Alike
INVARIANTS
  OneRunPerBranch
CHECK_DEADLOCK FALSE
