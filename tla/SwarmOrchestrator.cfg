\* Every plan of three subtasks and some of four, two workers at a time.
SPECIFICATION FairSpec
CONSTANTS
  MaxTasks = 4
  Plans <- MCPlans
  MaxFanout = 4
  MaxDepth = 3
  MaxConcurrency = 2
  Executors = {"consuming", "rejecting"}
INVARIANTS
  RejectionExplained
  ResultSound
PROPERTIES
  ImplementsSchedule
  Returns
\* execute() returns: the system stops.
CHECK_DEADLOCK FALSE
