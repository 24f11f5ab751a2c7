------------------------------ MODULE Programs ------------------------------
(***************************************************************************)
(* The programs that learn, and those that work with agents, of which an   *)
(* installation runs one at a time: the continuous learner, the soak       *)
(* runner, the training run and the others of this list. Each has its      *)
(* module and its variables; the others keep theirs.                       *)
(***************************************************************************)
EXTENDS ContinuousLearner, SoakPipeline, EvolutionPipeline, ParetoFronts, TrainingRun,
        LoopRunner, SkillEvolution, CodeAgents, UnknownsDiscovery, TaskGraph, Deliberation

CONSTANT ProgramNames  \* the programs among which a run chooses

VARIABLE program

programVars == <<vars, soakVars, evo, moo, distill, train, loopVars, skillVars, agentVars,
                 unknownsVars, graph, council, program>>

Running(p) == program = p

LearnerIdle ==
  /\ content = [f \in Files |-> Undecodable] /\ disk = [f \in Files |-> "absent"]
  /\ store = EmptyStore /\ pc = "stopped" /\ running = FALSE
  /\ toRead = {} /\ got = {} /\ pending = <<>>
  /\ copies = [f \in Files |-> 0] /\ mishaps = 0 /\ learned = {}

ProgramsInit ==
  /\ program \in ProgramNames
  /\ IF Running("learner") THEN Init ELSE LearnerIdle
  /\ IF Running("soak") THEN SoakInit ELSE SoakIdle
  /\ EvolutionInit
  /\ IF Running("optimize") THEN ParetoInit ELSE ParetoIdle
  /\ DistillInit
  /\ TrainInit
  /\ IF Running("loop") THEN LoopInit ELSE LoopIdle
  /\ IF Running("skills") THEN SkillInit ELSE SkillIdle
  /\ IF Running("agents") THEN AgentsInit ELSE NoAgents
  /\ IF Running("unknowns") THEN UnknownsInit ELSE UnknownsIdle
  /\ GraphInit
  /\ IF Running("council") THEN CouncilInit ELSE CouncilIdle

\* The variables v of program p change only when it is the one that runs.
Owns(p, v) == IF Running(p) THEN TRUE ELSE UNCHANGED v

Frame ==
  /\ UNCHANGED program
  /\ Owns("learner", vars)
  /\ Owns("soak", soakVars)
  /\ Owns("evolution", evo)
  /\ Owns("optimize", moo)
  /\ Owns("distill", distill)
  /\ Owns("train", train)
  /\ Owns("loop", loopVars)
  /\ Owns("skills", skillVars)
  /\ Owns("agents", agentVars)
  /\ Owns("unknowns", unknownsVars)
  /\ Owns("graph", graph)
  /\ Owns("council", council)

ProgramsNext ==
  \/ Running("learner") /\ Next /\ Frame
  \/ Running("soak") /\ SoakNext /\ Frame
  \/ Running("evolution") /\ EvolutionNext /\ Frame
  \/ Running("optimize") /\ ParetoNext /\ Frame
  \/ Running("distill") /\ DistillNext /\ Frame
  \/ Running("train") /\ TrainNext /\ Frame
  \/ Running("loop") /\ LoopNext /\ Frame
  \/ Running("skills") /\ SkillNext /\ Frame
  \/ Running("agents") /\ AgentsNext /\ Frame
  \/ Running("unknowns") /\ UnknownsNext /\ Frame
  \/ Running("graph") /\ GraphNext /\ Frame
  \/ Running("council") /\ CouncilNext /\ Frame

ProgramsFairness ==
  /\ WF_programVars(Running("learner") /\ Cycle /\ Frame)
  /\ WF_programVars(Running("soak") /\ SoakStep /\ Frame)

ProgramsSpec == ProgramsInit /\ [][ProgramsNext]_programVars /\ ProgramsFairness
=============================================================================
