\* A second run on the worktree of a first whose command failed.
SPECIFICATION ResumeSpec
CONSTANTS
  Tasks <- OneTask
  DependsOn <- Alone
  Marks = {"complete"}
  MaxClaude = 1
  MaxBaseline = 1
  MaxFix = 1
  MaxRuns = 2
INVARIANT
  NothingRefusedIsMerged
CHECK_DEADLOCK FALSE
