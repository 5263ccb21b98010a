\* Two runs on a worktree: three tasks, the third after the first. One worker's agent and command beside them.
SPECIFICATION AllSpec
CONSTANTS
  Tasks <- ThreeTasks
  DependsOn <- Fork
  Marks = {"in_progress", "complete", "unreadable"}
  MaxClaude = 2
  MaxBaseline = 2
  MaxFix = 2
  MaxRuns = 2
  Specs = {"s1"}
  Listed = {}
  PipeCap = 0
  MaxLines = 4
  MaxTools = 2
  MaxWorkers = 2
  MaxQueue = 2
  MaxSignals = 2
INVARIANTS
  ValidatedInOrder
  MergedIsCommitted
  FailedFixLeavesNoTrace
  LastWord
  BusOutlivesWorkers
PROPERTIES
  InvokeReturns
  SignalEndsRun
CHECK_DEADLOCK FALSE
