--------------------------- MODULE SkillEvolution ---------------------------
(***************************************************************************)
(* SkillEvolutionEngine with its DiversityController                       *)
(* (zilli/evolution): evolve and evolve_multi_strategy over several skill  *)
(* files, one after the other as the command line runs them, or in threads *)
(* as evolve_concurrent does.  The threads share the population, the       *)
(* reflection model and the counters without a lock.  A source is its      *)
(* place on a line: near ones are alike.                                   *)
(***************************************************************************)
EXTENDS Integers, Sequences, FiniteSets, SequencesExt

CONSTANTS
  SkillSources,     \* what the skill files may hold: functions from files to places, or NoSource
  Strategies,       \* evolution_strategies
  SkillModels,      \* the models the MOM router may choose
  PopulationCap,    \* population_size
  SkillConcurrency  \* max_concurrency of evolve_concurrent

ASSUME SkillAssumption ==
  /\ PopulationCap \in Nat \ {0} /\ SkillConcurrency \in Nat \ {0}
  /\ \A s \in SkillSources : IsFiniteSet(DOMAIN s) /\ \A f \in DOMAIN s : s[f] \in Int

VARIABLES
  pool,    \* the shared state: population, generation, rejected, model, calls counted, feedback; and
           \* overlapped, whether two evolutions ever ran at once
  worker   \* by file: where its evolution is, what it has still to do, candidate, PRs

skillVars == <<pool, worker>>

NoSource == -1
Canned == 0         \* what tool_addiction writes, whatever the file held
AutoStrategy == "auto"      \* the one strategy of evolve, selected by the file

SkillFiles == DOMAIN worker

Unevolved(source, todo) ==
  [pc |-> "queued", source |-> source, todo |-> todo, candidate |-> NoSource, kept |-> <<>>,
   routed |-> "none", prs |-> <<>>]
Pool(multi, width, harnessed) ==
  [population |-> <<>>, generation |-> 0, rejected |-> 0, model |-> "none", planner |-> 0, executor |-> 0,
   feedback |-> {}, overlapped |-> FALSE, multi |-> multi, width |-> width, harness |-> harnessed]

SkillIdle == pool = Pool(FALSE, 1, FALSE) /\ worker = <<>>
SkillInit ==
  \E sources \in SkillSources, width \in {1, SkillConcurrency}, multi, harnessed \in BOOLEAN :
    /\ multi => ~harnessed
    /\ pool = Pool(multi, width, harnessed)
    /\ worker = [f \in DOMAIN sources |-> Unevolved(sources[f], IF multi THEN Strategies ELSE <<AutoStrategy>>)]

-----------------------------------------------------------------------------
(* DiversityController *)

Alike(a, b) == a - b \in -1 .. 1  \* more similar than 1 - novelty_threshold
Niche(a, b) == a = b              \* more similar than the sharing threshold

Novel_Last(source) == pool.population # <<>> => ~Alike(source, Last(pool.population).source)
Novel(source) == \A i \in DOMAIN pool.population : ~Alike(source, pool.population[i].source)

\* _prune: an entry shares its score with those of its niche; the best remain.
Shared(population, i) ==
  Cardinality({j \in DOMAIN population : Niche(population[i].source, population[j].source)})
Outscores(population, i, j) ==
  LET a == population[i].score * Shared(population, j)
      b == population[j].score * Shared(population, i)
  IN a > b \/ (a = b /\ i < j)
Ranked(population, k) ==
  CHOOSE i \in DOMAIN population : Cardinality({j \in DOMAIN population : Outscores(population, j, i)}) = k - 1
Trimmed(population) == [k \in 1 .. PopulationCap |-> population[Ranked(population, k)]]

-----------------------------------------------------------------------------
(* One evolution *)

\* What a strategy makes of a source; evolve selects tool_addiction for an empty file and another
\* strategy otherwise. Only tool_addiction leaves the neighbourhood of the source.
Evolved(source, strategy) ==
  IF strategy = "tool_addiction" \/ (strategy = AutoStrategy /\ source = NoSource) THEN Canned ELSE source

InFlight(f) == worker[f].pc \notin {"queued", "done"}
RunningFiles == {f \in SkillFiles : InFlight(f)}

\* A PR is made: the next strategy, or the end of the file (which for several strategies ends a generation).
Handed(w, pr) ==
  [w EXCEPT !.prs = Append(@, pr), !.todo = Tail(@), !.candidate = NoSource, !.kept = <<>>,
            !.pc = IF Len(w.todo) = 1 THEN "done" ELSE "ready"]
Generated(p, w) == IF p.multi /\ Len(w.todo) = 1 THEN [p EXCEPT !.generation = @ + 1] ELSE p

PlannerCounted(p) == [p EXCEPT !.planner = @ + 1]
ExecutorCounted(p) == [p EXCEPT !.executor = @ + 1]

EvolutionStarts(f) ==
  /\ worker[f].pc = "queued" /\ Cardinality(RunningFiles) < pool.width
  /\ worker' = [worker EXCEPT ![f].pc = "ready"]
  /\ pool' = [pool EXCEPT !.overlapped = @ \/ RunningFiles # {}]

\* Over budget: evolve hands out the file as it is, and a strategy enters it in the population.
OverBudget(f) ==
  /\ worker[f].pc = "ready"
  /\ pool' = ExecutorCounted(pool)
  /\ worker' = IF pool.multi
               THEN [worker EXCEPT ![f].candidate = worker[f].source, ![f].pc = "checking"]
               ELSE [worker EXCEPT ![f] = Handed(@, "executor_only")]

\* Within budget: in harness mode evolve routes, which sets the model of the engine, or fails and leaves it.
Evolves(f) ==
  /\ worker[f].pc = "ready"
  /\ LET candidate == Evolved(worker[f].source, Head(worker[f].todo))
         next(routed) == [worker EXCEPT ![f].candidate = candidate, ![f].pc = "checking", ![f].routed = routed]
     IN \/ /\ pool.multi
           /\ pool' = PlannerCounted(pool) /\ worker' = next("none")
        \/ /\ ~pool.multi /\ pool.harness
           /\ \E model \in SkillModels : pool' = [pool EXCEPT !.model = model] /\ worker' = next(model)
        \/ /\ ~pool.multi
           /\ worker' = next(pool.model) /\ UNCHANGED pool

\* The PR of an accepted evolution; evolve counts it now, and in harness mode reports it to the router
\* under the model the engine has now.
Accepted(p, f) ==
  LET counted == IF p.multi THEN p ELSE PlannerCounted(p) IN
  IF p.harness /\ ~p.multi
  THEN [counted EXCEPT !.feedback = @ \cup {[file |-> f, named |-> p.model, routed |-> worker[f].routed]}]
  ELSE counted

Accepts(f, p) ==
  /\ pool' = Generated(Accepted(p, f), worker[f])
  /\ worker' = [worker EXCEPT ![f] = Handed(@, "accepted")]

\* is_novel; a file without a source has nothing to enter.
Checks(f) ==
  /\ worker[f].pc = "checking"
  /\ \/ worker[f].candidate = NoSource /\ Accepts(f, pool)
     \/ /\ worker[f].candidate # NoSource /\ Novel(worker[f].candidate)
        /\ worker' = [worker EXCEPT ![f].pc = "adding"]
        /\ UNCHANGED pool
     \/ /\ worker[f].candidate # NoSource /\ ~Novel(worker[f].candidate)
        /\ LET counted == [pool EXCEPT !.rejected = @ + 1]
           IN pool' = Generated(IF pool.multi THEN counted ELSE ExecutorCounted(counted), worker[f])
        /\ worker' = [worker EXCEPT ![f] = Handed(@, "rejected")]

Adds(f) ==
  /\ worker[f].pc = "adding"
  /\ pool' = [pool EXCEPT !.population =
                Append(@, [source |-> worker[f].candidate, score |-> IF pool.multi THEN 3 ELSE 5])]
  /\ worker' = [worker EXCEPT ![f].pc = "pruning"]

\* _prune computes what remains, and then puts it in the place of what is there by now.
Prunes(f) ==
  /\ worker[f].pc = "pruning"
  /\ \/ Len(pool.population) <= PopulationCap /\ Accepts(f, pool)
     \/ /\ Len(pool.population) > PopulationCap
        /\ worker' = [worker EXCEPT ![f].kept = Trimmed(pool.population), ![f].pc = "replacing"]
        /\ UNCHANGED pool

Replaces(f) ==
  /\ worker[f].pc = "replacing"
  /\ Accepts(f, [pool EXCEPT !.population = worker[f].kept])

SkillNext ==
  \E f \in SkillFiles :
    EvolutionStarts(f) \/ OverBudget(f) \/ Evolves(f) \/ Checks(f) \/ Adds(f) \/ Prunes(f) \/ Replaces(f)

SkillSpec == SkillInit /\ [][SkillNext]_skillVars

-----------------------------------------------------------------------------
(* Properties *)

\* The summary of the command line: the PRs of all files, and those that were rejected.
Prs == UNION {{<<f, i>> : i \in DOMAIN worker[f].prs} : f \in SkillFiles}
Rejections == Cardinality({p \in Prs : worker[p[1]].prs[p[2]] = "rejected"})
Started == Cardinality(Prs)
\* Strategies that were counted before their PR is made.
Ahead == IF pool.multi THEN Cardinality({f \in SkillFiles : worker[f].pc \notin {"queued", "ready", "done"}}) ELSE 0

\* Threads that evolve at once may enter sources that are alike, bring pruned entries back, and report a
\* model they did not use; evolutions one after the other do none of it. In both cases the population
\* stays within its cap but for the entries being pruned, every evolution is counted once, as planner
\* or executor, and every rejection once (skill_evolution.py:89, diversity.py:149).
PopulationSound ==
  /\ ~pool.overlapped =>
       /\ \A i, j \in DOMAIN pool.population :
            i # j => ~Alike(pool.population[i].source, pool.population[j].source)
       /\ \A r \in pool.feedback : r.named = r.routed
  /\ Len(pool.population) <=
       PopulationCap + Cardinality({f \in SkillFiles : worker[f].pc \in {"pruning", "replacing"}})
  /\ pool.planner + pool.executor = Started + Ahead
  /\ pool.rejected = Rejections
=============================================================================
