\* The server alone, for the one property that the code does not keep.
SPECIFICATION ServicesSpec
CONSTANTS
  ServiceNames = {"server"}
\* One handler, two clients, one of them on the machine; two admissions in a window of two.
  Requests = {"a"}
  Clients = {"near", "far"}
  LocalClients = {"near"}
  Tenants = {"default", "acme", "bad"}
  ValidTenants = {"default", "acme"}
  BoundTenant = "acme"
  Bodies <- MCBodies
  Industries = {"medical"}
  TemplateDirs <- MCTemplates
  MaxRequests = 2
  Window = 2
  CleanupInterval = 2
  DequeLength = 2
  MaxTime = 3
  MaxEvents = 1
\* The other services, which stand still.
  Users <- MCUsers
  Uses = {"local", "cloud"}
  MaxRecords = 3
  MaxTicks = 3
  Prompts <- MCPrompts
  Policies <- MCPolicies
  Jobs = {1}
  Epsilon = 4
  MaxQueries = 3
  MinClass = 2
  Network = FALSE
  Queries <- MCQueries
  Costs = {1, 2}
  Callers = {1, 2}
  BatchSize = 1
  TrainEvery = 2
  MaxFeedback = 3
  Texts = {"hi", "long1", "long2"}
  KeyOf <- MCKeyOf
  Difficulty <- MCDifficulty
  CacheSize = 1
  Models = {"big", "small"}
  CostOf <- MCCostOf
  MaxResets = 1
  Controllers = {"p", "q"}
  ShareNum = 1
  ShareDen = 2
  MaxWindowCalls = 3
  MaxHours = 2
  Keys = {k1, k2}
  Threads = {t1, t2}
  MemorySize = 1
  MaxVersion = 3
  MaxHits = 1
  Names = {m1, m2, m3}
  NoName = NoName
  WarmupRounds = 1
  MaxMatches = 2
  MaxRollbacks = 2
INVARIANT RegulatedRejected
CHECK_DEADLOCK FALSE
