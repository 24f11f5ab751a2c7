\* One service at a time.
SPECIFICATION ServicesSpec
CONSTANTS
  ServiceNames <- MCServiceNames
\* The server: one handler, two clients, one of them on the machine; two admissions in a window of two.
  Requests = {"a"}
  Clients = {"near", "far"}
  LocalClients = {"near"}
  Tenants = {"default", "acme", "bad"}
  ValidTenants = {"default", "acme"}
  BoundTenant = "acme"
  Bodies <- MCBodies
  Industries = {"medical"}
  TemplateDirs <- MCTemplates
  MaxRequests = 2
  Window = 2
  CleanupInterval = 2
  DequeLength = 2
  MaxTime = 3
  MaxEvents = 1
\* The hybrid executor: one user, three consents in three ticks, one job at a time.
  Users <- MCUsers
  Uses = {"local", "cloud"}
  MaxRecords = 3
  MaxTicks = 3
  Prompts <- MCPrompts
  Policies <- MCPolicies
  Jobs = {1}
\* The sandbox: a budget of four, of three queries, two of them at once.
  Epsilon = 4
  MaxQueries = 3
  MinClass = 2
  Network = FALSE
  Queries <- MCQueries
  Costs = {1, 2}
  Callers = {1, 2}
\* The MOM router: batches of one, training at the second record, a cache for one prediction.
  BatchSize = 1
  TrainEvery = 2
  MaxFeedback = 3
  Texts = {"hi", "long1", "long2"}
  KeyOf <- MCKeyOf
  Difficulty <- MCDifficulty
  CacheSize = 1
  Models = {"big", "small"}
  CostOf <- MCCostOf
  MaxResets = 1
\* Frequency control: two processes, half of the calls, four calls in a window.
  Controllers = {"p", "q"}
  ShareNum = 1
  ShareDen = 2
  MaxWindowCalls = 3
  MaxHours = 2
\* The cache: two threads, two keys, a memory of one entry, three calls of set.
  Keys = {k1, k2}
  Threads = {t1, t2}
  MemorySize = 1
  MaxVersion = 3
  MaxHits = 1
\* The arena: three models, two matches, two rollbacks, a warm-up of one.
  Names = {m1, m2, m3}
  NoName = NoName
  WarmupRounds = 1
  MaxMatches = 2
  MaxRollbacks = 2
INVARIANTS LimitExact OnlyAllowedCalls TrailComplete  BudgetKept FeedbackSound PlannerShare
  Regular Retained OneChampion RollsBackToPrevious LiveIsChampion
CHECK_DEADLOCK FALSE
