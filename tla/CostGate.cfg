\* As CostControl.cfg with more calls; expected to find the gate shut too early.
SPECIFICATION Spec
CONSTANTS
  evolver = evolver
  cli = cli
  t1 = t1
  t2 = t2
  t3 = t3
  Processes <- MCProcesses
  Clients <- MCClients
  ProcessOf <- MCProcessOf
  Monthly = 5
  Cost = 2
  Num = 1
  Den = 3
  MaxCalls = 5
INVARIANTS
  GateAsDocumented
