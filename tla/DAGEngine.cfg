\* Every schedule of the engine, two nodes at a time.
SPECIFICATION FairSpec
CONSTANTS
  a = a
  b = b
  c = c
  d = d
  Nodes <- MCNodes
  Graphs <- MCGraphs
  Retries <- MCRetries
  MaxConcurrency = 2
  Callbacks = {"none", "safe", "raising"}
INVARIANTS
  ReturnComplete
PROPERTIES
  ImplementsSchedule
  Returns
\* execute() returns: the system stops.
CHECK_DEADLOCK FALSE
