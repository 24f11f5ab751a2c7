\* on_complete may raise: is a terminal status final?
SPECIFICATION FairSpec
CONSTANTS
  a = a
  b = b
  c = c
  d = d
  Nodes <- MCNodes
  Graphs <- MCGraphs
  Retries <- MCRetries
  MaxConcurrency = 2
  Callbacks = {"raising"}
PROPERTIES
  TerminalIsFinal
CHECK_DEADLOCK FALSE
