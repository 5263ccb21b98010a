SPECIFICATION SchedSpec
CONSTANTS
  a = a
  b = b
  c = c
  d = d
  Units <- MCUnits
  UnitOrder <- MCOrder
  Graphs <- MCGraphs
  MaxParallelism = 2
INVARIANTS
  StatusesAgree
  NeverStuck
PROPERTIES
  ImplementsExecution
CHECK_DEADLOCK FALSE
