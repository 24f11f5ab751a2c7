\* Two processes, three clients, a SOTA call in three; three calls a life.
SPECIFICATION Spec
CONSTANTS
  evolver = evolver
  cli = cli
  t1 = t1
  t2 = t2
  t3 = t3
  Processes <- MCProcesses
  Clients <- MCClients
  ProcessOf <- MCProcessOf
  Monthly = 5
  Cost = 2
  Num = 1
  Den = 3
  MaxCalls = 3
SYMMETRY MCSymmetry
INVARIANTS
  Ledger
  HourlyRatio
