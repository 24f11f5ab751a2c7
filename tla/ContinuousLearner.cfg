\* The learner: two production files, a store for two trajectories, two mishaps in a life.
CONSTANTS
  NumFiles = 2
  Contents <- MCContents
  WideFiles = {2}
  MaxSize = 2
  SftThreshold = 2
  MaxMishaps = 2
\* One program at a time.
  ProgramNames <- MCPrograms
\* The soak runner gives up at the second failure; four cycles, three matches each.
  MaxStreak = 2
  TrainEpochs = 1
  ArenaRounds = 3
  SampleFloor = 2
  MaxSoakCycles = 4
\* The evolution pipeline deploys up to three versions.
  MaxVersions = 3
\* Two parents and two children with two objectives of three values.
  Objectives = {"quality", "cost"}
  Minimized = {"cost"}
  Scores = {0, 1, 2}
  PopSize = 2
  MaxGen = 1
\* Distillation: a LoRA callback from two samples on, four samples in all.
  LoraThreshold = 2
  BatchSizes = {0, 1, 2}
  MaxSamples = 4
\* Four epochs of training, a checkpoint after each, two resumptions.
  NumEpochs = 4
  CheckpointInterval = 1
  EpochSamples = {0, 1, 2}
  MaxResumes = 2
\* Loops of two or three attempts, four cycles in all, over a full memory and trace buffer, with one
\* restart; two held-in tasks, so that a harness can be improved twice.
  VerifierLists <- MCVerifierLists
  LoopRetries = 1
  RetryCeiling = 2
  MemorySize = 2
  MaxBullets = 1
  MinCluster = 2
  TraceCap = 2
  MetaIterations = 2
  HeldIn = {1, 2}
  HeldOut = {1}
  Improvement = 5
  MaxLoopCycles = 4
  MaxLoopRestarts = 1
\* Three skill files for a population of two, two threads.
  SkillSources <- MCSkillSources
  Strategies <- MCStrategies
  SkillModels = {"m1", "m2"}
  PopulationCap = 2
  SkillConcurrency = 2
\* A repository of two files and three attempts; steps with one retry on one seat.
  SweFiles = {"f", "g"}
  SweRetries = 2
  ScriptRetries = 2
  StepGraphs <- MCStepGraphs
  StepRetries = 1
  StepWidth = 1
\* Two sessions, two unknowns, two seconds.
  Sessions = {"s", "t"}
  MaxUnknowns = 2
  MaxOpenings = 2
  MaxSeconds = 1
\* Graphs of three nodes and four edges.
  TaskNames = {"a", "b", "c"}
  Latency <- MCLatency
  MaxEdges = 4
\* Fusions of three outputs, decisions of two votes.
  Texts <- MCTexts
  Words = {"word"}
  NonFinite = {"nan"}
  ValueOf <- MCValueOf
  Grain = 10
  Confidences = {0, 3, 7}
  MaxOutputs = 3
  MaxVotes = 2
  MinModels = 2
  Threshold = 60
  ModelLists <- MCModelLists
  Substring <- MCSubstring
SPECIFICATION ProgramsSpec
INVARIANTS LearnedOnce VersionStack FrontsPeel SamplesConserved NoEpochSkipped LoopSound
  PopulationSound AgentsSound UnknownsKept GraphSound DeliberationSound
PROPERTIES GoldenKept Learned SoakStops
CHECK_DEADLOCK FALSE
