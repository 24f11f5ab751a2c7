# A verification project for Zilli

TLA+ models, TLC runs and TLAPS proofs for the Python package `zilli/` (the
routing, orchestration and training layer that decides which model does what).
`PROJECT.json` maps every definition of the modules to the lines it stands for;
this file says how the parts fit, what is checked and what is proved.

Contents: the system · the modules · the runs · bounds and fairness · the proofs ·
what the runs found · what is not modelled · the plan

## The system

| Component | State it keeps | Operations | Concurrency and failure |
|---|---|---|---|
| DAG engine (`dag/engine.py`) | node statuses, tasks under way, results | `execute`, `_run_node`, `_cascade_skip`, `get_ready_nodes` | one coroutine per node under a semaphore, retries with backoff, a callback that may raise, failures that cascade |
| Celery executor (`workflow/celery_executor.py`) | run records | `execute`, `_iterate_ready`, `_submit_celery_task` | remote tasks, timeouts; `DAGExecutor` when Celery is missing |
| Swarm orchestrator (`swarm/`) | subtask statuses, artifact graph | `execute`, waves of workers, `consume`, `reject`, plan validation | workers of a wave interleave; an executor may raise or reject its inputs |
| Hybrid route (`routing/router.py`), planner budget, model registry | sliding window of calls, its file | `run` (plan, execute, review, fast lane, fallback), `may_use_planner`, `record_call`, `load`, `generate` | concurrent requests, check before an await and record after it, models that fail, restarts |
| Cost control (`envs/cost_controller.py`, `adaptive/sota_scheduler.py`) | budget, counters, statistics; a JSON file shared by processes | `should_use_planner`, `record_*`, `reset_*`, `_save`, `_load` | threads and processes, truncation before the lock, debounced saves, crashes |
| Response cache (`cache/engine.py`) | memory, files, index | `get`, `set`, `invalidate`, `clear`, `_load_index` | a lock around the memory only, expiry, eviction, crashes |
| Arena (`training/champion_challenger.py`) | models, champion, matches | `register_model`, `run_match`, `_promote_challenger`, `rollback` | callbacks that fail half way |
| Rollout scheduler (`infra/async_scheduler.py`) | coroutine and attempt of each task, cancelled ids, counters | `schedule`, `run_single`, `cancel` | one coroutine per task, retries, timeouts, a window that cuts the batch off, cancellation at any time |
| Continuous learner (`learner/`) and replay store (`data/experience_replay.py`) | production files, three lists of trajectories (in memory only), the cycle | `run`, `_collect_production_trajectories`, `_trigger_online_sft`, `_archive_processed_data`, `add_trajectory` | producers write while it reads, reads in a thread, a callback between adding and archiving, failures of the file system, crashes |
| Pipelines (`pipeline/`, `soak.py`, `run_training.py`) | deployed version and the ones to go back to, cycle, health and its file; epoch, metrics log, checkpoints | `run_cycle` of both pipelines, `SoakRunner.run`, `run_training --resume` | flags, a deadline and a stop file race sleeps and cycles; crashes between an epoch, its log and its checkpoint |
| Distillation (`training/distillation.py`, its command) | buffer, counters, checkpoint | `add_batch`, `run_cycle`, `save_checkpoint`, resume | callbacks that raise between taking and giving back samples; a crash in a save |
| Loops and harness (`loops/`) | attempts, bounded memory and its file, mined traces, accepted edits | `run`, `run_forever`, `verify`, escalation, meta loop, `evaluate_edit` | verifiers that raise, saves that fail, restarts, held-out tasks that crash |
| Unknowns (`loops/unknowns.py`) | one JSON file, its copy in each session | passes, questions, `resolve` | sessions overwrite each other's file; ids repeat within a second |
| Skill evolution (`evolution/`) | population, counters, reflection model | `evolve`, `evolve_multi_strategy`, `evolve_concurrent` | threads test novelty and enter the population later |
| Agents (`swe/`, `core/`) | container, patch, attempts; steps with statuses and threads | `SWEAgent.solve`, `CoreAgent.run`, `TaskRunner` | timeouts that leave a thread running, retries, cancellation |
| Algorithms (`adaptive/moo.py`, `dag/engine.py`, `fusion/`, `swarm/consensus.py`, `swarm/router.py`) | a population, a graph with two indexes, the decisions made | fronts and selection; add, remove, validate, critical path; fuse, decide, assign | boundaries: ties, nothing to choose from, repeated edges |
| Server (`server/app.py`, `tenancy.py`, `audit/`) | admission times per client, keys, templates, audit log | chat, route, privacy check, industry workflows, reload, report | requests interleave at awaits; the limiter forgets clients and bounds its lists |
| Privacy (`privacy/`, `hybrid/`, `security/sanitizer.py`) | consent records, policy and its file, jobs, the sandbox's budget | `grant`, `revoke`, `expire`, `decide`, `execute`, queries | a local error may fall back to the cloud; grants, revocations and expiries overlap; restarts on a torn policy file |
| MOM routing (`routing/`) | feedback queue, weights, prediction cache, frequency tally and its file | route, record, flush, drain, train, reset; check and record a planner call | flushes overlap; processes share one tally file |

How they interact: the server builds a `LocalHybridRouter` with a registry, a
planner budget and optionally a cache, and calls `run` for each request on one
event loop. The swarm orchestrator and the DAG engine call executors that end in
the same registry. The evaluation command, the skill evolution engine and the
training pipeline ask a `CostController` or its `DynamicSOTAScheduler` before they
use the planner and record the call after it. The training pipeline schedules
rollouts, feeds the replay store, trains, and lets the arena decide what is
deployed; a soak runner repeats that. The loops, the unknowns, the optimizer, distillation, skill
evolution and the agents are commands of their own: one installation runs one at a time, over
its own files. Of the services only the server is wired to another, the privacy engine.

What makes each correct, in a line:

- DAG engine: a node runs only after its parents succeeded, a failure skips exactly
  what depends on it, and `execute` returns with one right result per node run.
- Swarm: the same schedule over waves; "unresolvable" only where something upstream
  failed; the final text does not depend on timing.
- Hybrid route: the planner's share of the window is bounded in spite of concurrency;
  every request gets an answer.
- Cost control: money and calls agree everywhere; the hourly share is bounded.
- Cache: a key is a register; what was stored stays until it expires.
- Arena: one champion; what a promotion or a rollback deployed is the champion (a registration deploys nothing); a
  rollback goes back one step.
- Rollout scheduler: a batch ends, its counters are the sums of what it returned, and a
  cancelled task does not start again.
- Learner: nothing is archived unlearned, nothing is learned twice unless something failed,
  and every readable file is learned unless a bad or a half-written one keeps failing the cycle; the store keeps its size and its best trajectories.
- Pipelines: below the deployed version lie the older ones in order; whoever asks the soak runner
  to stop sees it stop; a training run that is resumed trains every epoch once and in order.
- Distillation: every sample is in the buffer, distilled, or given back, through failing
  callbacks and restarts.
- Loops: a cycle is remembered once, the best run is returned, and only edits that fail no
  held-out task and improve on the last one are accepted.
- Unknowns: what was found is kept and is resolved only if somebody resolved it.
- Skill evolution: the population keeps its cap, and every evolution is counted once.
- Agents: what the SWE agent hands in is what it tested last; a step starts after those it
  depends on ended, and no oftener than its retries.
- Algorithms: the fronts are the layers of dominance, the indexes of a graph agree with its edges,
  a fusion lies between its numbers but for the rounding, a decision has no better candidate.
- Server: exactly the admitted number in a window; a text with personal data reaches the router only as one masking
  pass leaves it, unless an industry's caller or workflow waived that; route, chat and stream let no text above
  the policy through (industry requests are judged by none); the compliance report counts what was answered,
  streams aside.
- Privacy: no model is called with an unmasked text in which personal data was found, nor against the user's last word; a
  sandbox spends more than its budget only on queries that overlap, and logs what it spends.
- MOM routing: no feedback is lost or taken twice; no prediction outlives the predictor it came
  from; the planner keeps to its share in every process's tally and in the file, each by itself: a call
  counted by one process and overwritten by another is in none, so that nothing is said of the calls of all
  processes together.

## The modules

| Module | Models | State ↔ code |
|---|---|---|
| `DAGSchedule` | what any executor of a task graph promises: a node starts when all it depends on succeeded, is skipped only below a failure | `phase` of a node |
| `DAGEngine` | `DAGExecutor.execute` and `_run_node`: an action is the code between two awaits | `status` = `node.status`, `task` = where the asyncio task is, `completed`, `batch` = `done` of `asyncio.wait`, `main` = where `execute` is |
| `DAGEngineProofs` | theorems about `DAGEngine` and `TaskGraph` | |
| `TaskGraph` | `TaskDAG`'s building, cutting, export, `validate`, critical path and parallel groups | `graph` = the nodes, the edge list and both indexes |
| `CeleryDAG` | `CeleryDAGExecutor.execute` and the generator `_iterate_ready` | `visited`, `queue` = the generator's, `sent` = what reached Celery, `record` = `DAGRunRecord.status` |
| `SwarmOrchestrator` | `SwarmOrchestrator.execute`, the artifact graph, `TaskDecomposer._validate` | `status`, `cause` = `SubTask.status`, `.error`; `artifact` = status in the graph; `wave` = what was given to `gather` |
| `SwarmProofs` | theorems about `SwarmOrchestrator` | |
| `HybridRouter` | `LocalHybridRouter.run`, `PlannerBudget`, `ModelRegistry.generate` | `calls` = `_calls`, `saved` = the file, `phase`, `model` = what a request awaits |
| `HybridRouterProofs` | theorems about `HybridRouter` | |
| `CostControl` | `CostController` over `DynamicSOTAScheduler` in several processes | `mem` = the scheduler's fields, `samples` = `task_stats`, `file`, `debounce` = the 5 s since `_last_save_time`, `data` = what `_save` is about to write |
| `CostControlProofs` | theorems about `CostControl` | |
| `CacheEngine` | every operation of `CacheEngine` | `memory`, `disk`, `index`, `op` = where a thread is in a call, `horizon` = which entries have expired |
| `Arena` | `ChampionChallenger` | `status`, `retiredAt`, `champion`, `matches`; `live` = what the callbacks deployed |
| `ArenaProofs` | theorems about `Arena` | |
| `RolloutScheduler` | `AsyncRolloutScheduler` | `coro`, `att` = where `run_single` is and its `retry_count`, `status` = of its result, `results` = the list returned, `cancelled`, `counts` |
| `RolloutProofs` | theorems about `RolloutScheduler` | |
| `TrajectoryStore` | `TrajectoryStore.add_trajectory` and `_enforce_max_size` | a record with the lengths of the three lists |
| `ContinuousLearner` | `ContinuousLearner.run` over `TrajectoryStore` | `disk`, `content` = the production files, `pc` = what `run` awaits, `toRead` = the listing, `got` = `processed_files`, `pending` = `new_trajectories` |
| `SoakPipeline` | `SoakRunner.run` around `EvolveToTrainPipeline.run_cycle` | `soak` = where `run` is, its flags, health and status file; `pipe` = cycle, versions, samples |
| `EvolutionPipeline` | `EvolutionPipeline.run_cycle` | `evo` = version, history, log |
| `TrainingRun` | `run_training.py` with `--resume` | `train` = where it is, epoch, metrics log, checkpoints |
| `Distillation` | `DistillationScheduler` and the command that resumes it | `distill` = the command, the buffer and counters, the checkpoint, the timers |
| `ParetoFronts` | `MultiObjectiveOptimizer`'s sort and selection | `moo` = population and generation |
| `LoopRunner` | `LoopRunner.run`, `run_forever`, `CycleMemory`, the meta loop | `loop` = the attempt under way, `memory`, `mining` = traces, `harness` = accepted edits |
| `SkillEvolution` | `SkillEvolutionEngine` over its population | `pool` = population and counters, `worker` = where each file's evolution is |
| `CodeAgents` | `SWEAgent`, `CoreAgent`, `TaskRunner` | `swe`, `script`, `tasks` = steps, attempts and threads |
| `UnknownsDiscovery` | the unknowns' sessions over one folder | `folder` = the files and the clock, `session` = each session's copy |
| `Deliberation` | `ResultFusion`, consensus, roles and `AgentRouter` | `council` = the outputs or votes so far and the result |
| `Programs` | the learner, the pipelines, the loops, the agents and the algorithms as one installation: `program` is the one that runs | |
| `ApiServer` | the server's handlers, limiter, keys, audit log and report | `times`, `lastCleanup` = the limiter's, `request` = what each handler awaits, `auditLog`, `workflows`, `templates` |
| `DataPrivacy` | classes, sanitizing, risk, verdicts and policies, as operators on the categories a text contains | |
| `ConsentLedger` | `ConsentManager` | `records`, `clock` |
| `HybridGate` | gatekeeper and `HybridExecutor` over ledger and policy | `job` = what each call awaits, `policy`, `policyFile` |
| `SandboxBudget` | the privacy sandbox with overlapping queries | `box` = status, spent budget, log; `underway` = where each call of `execute` is |
| `MomFeedback` | `MOMRouter`, its predictor and `FeedbackCollector` | `feedback` = queue, batch and files, `weights`, `ppm`, `cache`, `profile` |
| `PlannerFrequency` | `FrequencyController` in several processes | `tally` = each process's, `tallyFile`, `hour` |
| `Services` | the server, the hybrid executor, the sandbox, the MOM router, the frequency control, the cache and the arena: `service` is the one that serves | |
| `ProgramsProofs` | theorems about what `Programs` runs: the learner, the pipelines, the loops, the agents, the algorithms; and about `Programs` | |
| `ServicesProofs` | theorems about what `Services` runs, about `Services` and about `CacheEngine` | |
| `MC*` | constants for TLC: model values, graphs, plans, symmetry | |

Conventions. An operator `X_y` just above `X` is `X` with a plausible bug; no
specification uses it, and substituting it for `X` must break the property that
`PROJECT.json` names. Variables called *history* in a comment (`current`, `disturbed`
of `CacheEngine`; `previous`, `disciplined`, `diverged` of `Arena`; `copies`, `learned` of
`ContinuousLearner`; `returned`, `odd` of `RolloutScheduler`; `admitted`, `owed`, `streamed` of `ApiServer`;
`willed` of `ConsentLedger`, `permitted` of a job of `HybridGate`; `account` of `SandboxBudget`; `fate` of `MomFeedback`; what was found and
asked in `folder`; the marks in `memory` and `pool` of failures and overlaps) are written and never
read by a guard; only properties read them.

Abstractions worth knowing:

- `DAGEngine`: what a task computes is a free choice between returning and raising at
  each attempt. Node tasks only advance while `execute` is suspended, as on one event
  loop. `on_complete` is absent, safe or raising, chosen once.
- `SwarmOrchestrator`: a subtask is its position in the plan, an artifact has its
  subtask's id (no plan of the repository sets another).
- `HybridRouter`: a prompt is nothing but the role it is sent to; the classifier's lane is a
  free choice. Window writes are atomic or lost or torn, as `write_text` in a crash.
- `CostControl`: everything in `should_call_sota` below the ratio (difficulty, gap,
  confidence, sampled threshold, emergency mode, quota) is a free choice to call or not.
  A save is a truncation and a write; a file written by two processes at once may not parse. The unlocked reads
  of a save (`cost_controller.py:76-80`) are one step: none of them, nor of the writes they meet, is a call or a jump
  back, where the GIL would let another thread in. `Ledger` relies on it.
- `CacheEngine`: a response is the number of the `set` that stored it, so it also orders
  creation times; among entries with equal hits any may be evicted.
- `RolloutScheduler`: what a rollout does is a free choice among a dictionary, another object, an
  exception and a timeout. The project requires Python 3.12, whose `wait_for` gives a
  cancelled coroutine no result.
- `ContinuousLearner`: a trajectory is golden, failure, neutral, short or poison (an entry that
  raises when it is added). A failed read or move, a log that cannot be written and a failed
  cycle are counted in `mishaps`; those that the file system alone causes stop at `MaxMishaps` in
  one life of the process. A file that is read while it is written is skipped; one with characters of several bytes
  (`WideFiles`) may also be cut within one, which fails the cycle.
- `Programs`, `Services`: a behaviour is one program or service; the others keep their initial state. They
  share no state at run time, and this keeps one run for each.
- `SoakPipeline`: whether enough samples show a degradation is a choice; a match of the pipeline's arena
  compares the same store's score with itself, which is a draw.
- `LoopRunner`: a verifier passes, fails or raises; signatures of failures and lessons are members of small sets.
- `SkillEvolution`: a source is a place on a line, distance is novelty. `ParetoFronts`: offspring are any vectors.
- `CodeAgents`: a patch is the files it changes; whether tests pass is a choice.
- `Deliberation`: confidences are in tenths, so that thresholds and ties are exact. A text is a word, nan or an infinity, or
  has a value in grains, a fraction of 0.0001 as fine as one likes; a mean is rounded to 0.0001, the even one of two as near
  (`Rounded`). The sum before it is exact, the code's one of floats.
- `ApiServer`, `HybridGate`: a text is what is found in it (categories, keyword level, quasi-identifiers), and what is
  found after one masking pass, which may leave, join or cut off anything. A sum of tenths that falls short of 1 or 2 as floats do is a
  mark of the text (`short`). A template may raise while the registry is built or reloaded, an audit event
  may be one that the file does not take.
- `MomFeedback`: the classifier is an operator constant from texts to labels and to cache keys.
- `SandboxBudget`: the check, the handler and the charge of a query are steps of their own; a nested query is that of
  another caller. `PlannerFrequency`: the window's clock only ends hours.
- `Arena`: scores and the bootstrap test only decide the winner, a free choice among none,
  champion and challenger.

## The runs

| Run | Module, cfg | Question | Shows |
|---|---|---|---|
| `dag_engine` | `MCDAGEngine`, `DAGEngine.cfg` | all interleavings over all graphs of three nodes beside a fourth, and five shapes of four, cyclic ones included | `ReturnComplete`, `ImplementsSchedule` (refinement of `DAGSchedule`), `Returns` (liveness) |
| `dag_callback` | `MCDAGEngine`, `DAGCallback.cfg` | is a terminal status final when `on_complete` may raise? | no: see below |
| `celery` | `CeleryDAG`, `CeleryDAG.cfg` | is every node submitted, whatever the acyclic graph of three? | no: see below |
| `swarm` | `MCSwarm`, `SwarmOrchestrator.cfg` | every plan of three subtasks, shapes of four, consuming and rejecting executors | `RejectionExplained`, `ResultSound`, `ImplementsSchedule`, `Returns` |
| `router` | `MCHybridRouter`, `HybridRouter.cfg` | three requests at once, failing models, restarts on an old or broken file | `OvershootBounded`, `Answered` |
| `cost` | `MCCost`, `CostControl.cfg` | two processes, three clients, one file | `Ledger`, `HourlyRatio` |
| `cost_gate` | `MCCost`, `CostGate.cfg` | is the SOTA ratio the documented one? | no: see below |
| `rollouts` | `MCRollouts`, `RolloutScheduler.cfg` | two batches of three tasks, two with one id, every outcome, cancellations and the window | `CountersAgree`, `NoStartAfterCancel`, `Returns` |
| `learner` | `MCLearner`, `ContinuousLearner.cfg` (`ProgramsSpec`) | one program at a time, each with its failures, crashes and restarts | the table below |
| `service` | `MCServices`, `Services.cfg` (`ServicesSpec`) | one service at a time, with what its clients, clocks and processes may do | the table below |
| `stream_audit` | `MCServices`, `StreamAudit.cfg` | is every route and chat request in the audit log? | no: see below |
| `regulated` | `MCServices`, `RegulatedData.cfg` | is a text with regulated data rejected, whatever the way in? | no: see below |

| Of `learner` | says |
|---|---|
| `LearnedOnce`, `GoldenKept`, `Learned` | what is archived was learned, and copied only by failures; a full store gives up golden trajectories last; every readable file is learned |
| `SoakStops` | a stop, a deadline or a stop file ends the runner, in backoff and sleep too |
| `VersionStack` | below the deployed version is every older one, once and in order |
| `NoEpochSkipped` | a run trains every epoch once and in order, through crashes and a resumption |
| `SamplesConserved` | every sample waits in the buffer or is in exactly one cycle, in memory and in the checkpoint |
| `FrontsPeel` | the sort by counting is the peeling of what nothing dominates; what is reported is dominated by nothing thrown away |
| `LoopSound` | a cycle is remembered once and in order, a failure mined once, the best run returned, accepted edits improve |
| `PopulationSound` | cap, novelty and counters of the population, and what overlapping threads may do to them |
| `AgentsSound` | tested patches, bounded attempts, order of steps, threads left behind by timeouts |
| `UnknownsKept` | the unknowns' file against all that was found and resolved |
| `GraphSound` | indexes against edges; `validate`, levels and critical path against definitions over all paths |
| `DeliberationSound` | fusions, votes and assignments against their definitions |

| Of `service` | says |
|---|---|
| `LimitExact` | what the limiter remembers of a window is what it admitted in it, and no more than allowed |
| `OnlyAllowedCalls` | what the router is given is masked unless an industry waived it, within the policy but for industries, and of the bound tenant |
| `TrailComplete` | the report counts the events the answered requests owe, for each tenant; streams leave none |
| `CallsPermitted` | masked input, no restricted text, no cloud, and the user's last word, at every model call |
| `BudgetKept` | what the log and what is still to be logged add up to is what was charged, and only overlapping queries exceed the budget |
| `FeedbackSound` | each record is where it went, once; cached predictions belong to the predictor in use |
| `PlannerShare` | the tally of every process and of the file keeps to the share |
| `Regular`, `Retained` | a key of the cache is a register for calls that do not overlap, and keeps what was stored until it expires |
| `OneChampion`, `RollsBackToPrevious`, `LiveIsChampion` | pointer and statuses agree; a rollback restores the champion replaced last; the champion is what was deployed, unless it was registered or a rollback's callback failed |

Every property has a mutant that breaks it under the same cfg. `learner` has 490 000 states and
`service` three million. Type invariants (and `Precedence` and `AttemptsAccounted`) are proved rather than run.

## Bounds and fairness

- `dag_engine`: four nodes are enough for a diamond, a chain below a failure beside an
  independent node, and a cycle behind a source; two slots of the semaphore and one retry
  for one node make queueing and backoff happen.
- `swarm`: three subtasks with every dependency relation (invalid ones are refused by
  `Validate`), four for the diamond and for two sinks; two workers at a time.
- `router`: three requests exceed the one planner call that a window of four allows at a
  third; the planner has a second model to fall back on.
- `cost`: `MaxCalls = 3` recorded calls per process life is what lets both clients of a
  process be authorised at once and be over the limit afterwards; restarts are unbounded.
  `cost_gate` has five, one SOTA call among more executor calls.
- `rollouts`: two batches are what shows that a cancellation outlives its batch; one retry is
  enough for a cancellation between two attempts.
- `learner`: of two files one can fail the cycle, or be half written, while the other is affected;
  one of them has characters of several bytes; a store of two is full with the third trajectory; `copies` and `mishaps` stop at 2 failures.
- `learner`, the other programs: four soak cycles hold a failing streak of two and one after a success;
  three versions are a deployment after a rollback; two parents and two children with three values per
  objective meet every tie; four samples cross the threshold with some left over; four epochs and two resumptions go
  back to an older checkpoint twice; loops of two or three attempts, four cycles and one restart fill a memory of two;
  three files evolve on two threads into a population of two, so that pruning, waiting and overlap happen;
  three attempts at two files, and steps with one retry on one seat; two sessions find two unknowns in two
  seconds, in one or in different ones; graphs of three nodes with four edges repeat an edge; three outputs and
  two votes have ties, majorities and neither; the texts are a small number, which rounds to nothing, a negative one, a word and nan.
- `service`: two admissions in a window of two ticks, with a clean-up every two, let a client be refused,
  forgotten and admitted again; three consents of one user in three ticks lie over each other in every
  order, and outlive each other; three queries exceed a budget of four, two of them
  at once; the prompts include one whose masking makes an identifier of another kind; batches of one with training at
  every second record let flushes and training meet over one queue; two processes with half of three calls write over each
  other's tally at the limit, in two hours; two keys compete for one place in the cache's memory, and three `set`s give every key a
  replaced version; two matches and two rollbacks of the arena give promotion, rollback and rollback of a rollback.
  The server has one handler at a time: what its handlers share is the limiter, changed in one step, the registry and the
  log, to which each appends.

Symmetry is used for the alike clients of `cost` only, a run without liveness properties.

Deadlock checking is off only where the program ends: `CeleryDAG.cfg`, `DAGEngine.cfg`,
`DAGCallback.cfg`, `SwarmOrchestrator.cfg`, `ContinuousLearner.cfg` (programs end) and
`Services.cfg`, `StreamAudit.cfg`, `RegulatedData.cfg` (counters of events are bounded).

Fairness: `DAGEngine` and `SwarmOrchestrator` assume that the event loop runs what can run
(weak fairness of the main coroutine and of each task), which includes that user functions
and sleeps end; attempts are bounded by the code. `HybridRouter` assumes that each request's
awaited call ends (back ends have HTTP timeouts); whether the result is an answer or an error
is free. `RolloutScheduler` assumes of the
event loop that the timer of the window fires; rollouts may hang. `ContinuousLearner` assumes that its
own steps go on: reads in the thread, the training callback and the sleeps end; producers, `stop`
and crashes are not fair. The soak runner's steps are fair in the same sense (`ProgramsFairness`): what it awaits
and its sleeps end; stops, the deadline and the stop file are not. No fairness is put on requests arriving, restarts, clients or time.

## The proofs

Each theorem holds for every value of the constants that satisfies the named assumptions of its modules. They say what
the code needs: limits are natural numbers, and positive where the configuration wants them so; plans, graphs and
texts have their shape; sets that are counted are finite. A few are worth a look:

- `EngineAssumption`: no edge from a node to itself (`DAGEdge` refuses them); cycles are allowed.
- `GraphAssumption`: finitely many names of nodes, and latencies that are natural numbers (in the code floats: rounding is left out).
- `LimiterAssumption`: `MaxRequests <= DequeLength`. The code has 60 and 100, and nothing sets others; with a shorter deque
  than the limit an admission would be forgotten before it is old.
- `DeliberationAssumption`: every text has an integer value, in grains of which 0.0001 has any number (the value of a word or of nan is
  not used); no model is called "none".
- `SkillAssumption`, `AgentsAssumption`, `LoopAssumption`: finitely many files, steps and tasks of either kind;
  a source is an integer, and sources are alike when they differ by at most one.
- `ConsentAssumption`: the uses that the gate asks about, local and cloud, are among those of the ledger.

A proof has one invariant that every step keeps (or one for each component of a state), one lemma for each
action, and lemmas about the operators. The following says what the invariant adds to the property, and why.

**`DAGEngineProofs`**

- `TypeCorrect`, attempts within the retry policy included; `PrecedenceHolds`: `Spec => []Precedence`. Precedence is not
  inductive: `_cascade_skip` writes the status of nodes it does not own. `IInv` adds where each task may be for each status
  (`StatusOfTask`) and that a batch holds ended tasks (`BatchEnded`). The key lemma is that a cascade from a failed node
  meets no node that has a task: such a node has completed parents only, so the set of nodes without a task contains the
  children of the failed one and is closed under children.
- `EngineImplementsSchedule`: each step is a step of `DAGSchedule` or a stutter, under the mapping of statuses to phases.
- `ReturnIsComplete`: `Spec => []ReturnComplete`, on cyclic graphs too. `execute` returns when its last scan finds nothing
  ready and nothing runs. That this leaves no node without a reason needs `Accounted`: what lies below a failed node that was reaped is in
  `completed`, and a node that a scan skipped has a failed parent that is still to be reaped.
- `GraphIsSound`: `GraphSpec => []GraphSound`. The invariant is `Well`: nodes are distinct, edges join two different nodes that are there, and
  both indexes list the edges, in their order (`Indexed`); after it, everything else is about loops over one graph. Kahn's order: the
  in-degrees count the edges from nodes not yet taken, and the queue holds the nodes without such an edge (`Kahn`); the
  nodes that a short order leaves out each have an edge from another of them, a cycle, and of a cycle no node can be the first in the order. Groups:
  a group is what the groups before it leave without a parent (`Layered`). Critical path: no edge that was relaxed has slack, and a distance is
  the length of a path through `prev` (`Measured`); the way back takes one edge after another (`Backward`), so that no path of
  the graph is longer.

**`SwarmProofs`**

- `RejectionIsExplained`, `ResultIsSound`, `SwarmImplementsSchedule`. `SwarmInv` adds that status, reason and artifact of a subtask agree
  (`Agree`), that only a wave runs and only what has its inputs is in one (`Waves`), and what is known at each place of `execute`
  (`Stages`). When no subtask is ready, those left over are called unresolvable; the one at the beginning of a chain of them would be ready in an
  acyclic plan, so something upstream raised or was rejected: an argument by least counterexample.

**`CostControlProofs`**

- `LedgerHolds`. `LedgerInv` adds that what a save is about to write (`data`) is balanced too: it was taken from a
  balanced process, and nothing changes it on the way to the file.
- `HourlyRatioHolds`. `ShareInv` adds that the hour's calls are counted in the total. The check lets a client through
  only if the share without the calls under way is below the limit, hence the slack of one per client.

**`HybridRouterProofs`**

- `OvershootIsBounded`: planner calls in the window and those let through and not yet recorded exceed the budget by at most one
  for each request that may be under way. The invariant adds that the saved window satisfies the bound by itself (a restart installs it
  when no request is under way); lemmas say how appending to a full window and dropping its head change the planner calls in it.

**`ArenaProofs`**

- `OneChampionHolds`, `RollbackIsRight`, `LiveFollows`, proved together: that the target of a rollback is the champion
  replaced last needs that the pointer and the statuses agree, and a match needs a champion. `LiveFollows` has an exception for
  a registered champion, which nothing deploys, and for a rollback whose callback failed (`diverged`). The target is the retired model of the latest time.

**`RolloutProofs`**

- `CountersHold`: `CountersInv` counts the results that are there and not yet returned, and says that no coroutine moves
  between batches. `AttemptsHold`: `AttemptsInv` counts the attempts that running tasks may still end (`Left`, a set of pairs).
  `CancelledStay`: `Spec => NoStartAfterCancel`.

**`ServicesProofs`**

- `CacheIsRegular`, `CacheRetains`. `CacheInv` says of a key whose calls did not overlap how far its one call is: what memory,
  file and index hold at each phase (`Underway`). This is what a crash at any point leaves behind. Keys with overlapping calls (`disturbed`) are free.
- `CallsArePermitted`: `HybridSpec => []CallsPermitted`, and `WillIsFollowed`, its second half alone. The decision reads the ledger's
  records, the property speaks of the user's last word. `LedgerInv` relates them: each granted record has run out, is overruled by a later revocation, or lasts no
  longer than the will. `JobsRight` says what is known of a job's text, class and input from the decision on; as the conditions for a cloud exclude one
  another, no job gets to one, and the fallback of `HybridExecutor` is never reached.
- `LimitIsExact`. The limiter keeps less than the property speaks of: `LimiterInv` says that what it remembers of a client is
  a suffix of the admissions, after old ones only, and that any two admissions `MaxRequests` apart are a window apart.
- `CallsAreAllowed`, `TrailIsComplete`. `CallsInv` says of each request under way what the checks behind it established, and that a registry which
  has been built stays; the trail needs it to know which events a request still owes.
- `BudgetIsKept`, `ShareKept`. The spending is the number of pairs of an execution and a unit it was charged, so
  that a sum needs no recursion; for the budget, the query that was alone when it began still has the room it was given
  until another begins. Each tally and the shared file keep the share by themselves, as any may become another's by a load or a save.
- `FeedbackIsSound`, from two invariants: a record is queued or in one place, and fewer records than a training cycle
  were counted since the last training (`QueueInv`); the cache has one entry for a key, all of the version of the predictor in use (`PredictionInv`).

**`ProgramsProofs`**

- `FilesLearnedOnce`, `GoldenStays`. `LearnerInv` says what a cycle holds between two awaits: files it read whole, and their trajectories, each once;
  and that a file which still waits was copied no more often than something failed.
- `NoSampleLost`, `TrainingLosesNone`, `EpochsInOrder`. A scheduler is sound if the samples of buffer and cycles, counted one by one,
  are those it took in; the invariant has it of memory and of the file. For a training run the log is straight, marked once, or marked twice, and the
  epoch under way is the next one of it (`NextIn`).
- `VersionsStacked`: lemmas say what a deployment and a rollback do to a stack that is in order.
- `LoopIsSound`. Memory and file have rising numbers, without a gap as long as no save failed; the best run is one of
  those that ended; what was mined is distinct; each accepted edit passed all held-out tasks.
- `AgentsAreSound`. For the repair: what a patch has written so far, and which files the first iteration may have changed. For steps: counts
  of runs, attempts and threads in each place, and that no set of steps that wait for one another ever starts (`Blocked`).
- `UnknownsAreKept`. With one session at a time (`Alone`) file and copy follow each other and a save under way is what the file should become;
  with more, that no item is made up is all that stays (`Genuine`).
- `PopulationIsSound`. What threads may do to one another is counted: the population exceeds its cap by the entries that are about to be pruned (`Sized`),
  and evolutions are counted ahead of their verdict in one of the two paths (`Tallied`). Without overlap, one evolution
  is in flight and its candidate is still novel when it enters (`Solitary`, `Apart`, `Named`).
- `FrontsArePeeled`: the sort by counting removes, with a front, its dominations from the counters; the lemmas
  identify each front with what nothing left dominates, and crowding with a selection of the right size.
- `DeliberationIsSound`: a sum of weighted outputs lies between the least and the greatest of them times the weights, rounding the
  quotient moves it by half a unit at most (`RoundedNear`), and the first best of a sequence exists and is ahead of the others.

- `ProgramsAreSound`, and `ServicesAreSound` in `ServicesProofs`: the theorems above are about each program's own specification, the runs
  `learner` and `service` check compositions. `ProgramsCompose` and `ServicesCompose` say that the part of a component in a behaviour of
  the whole is a behaviour of that component, or stands still from where it starts; `IdleIsSound` that a program that does not run has
  nothing wrong in it. `GraphSound` of the whole follows from `GraphIsSound`, which is in another module, and `ProgramsCompose`.

Two arguments stand in for induction over data, which the provers cannot instantiate. A recursive function is shown to
exist from the library's fact about functions on the naturals (`StepsGo`, `SumsExist`, and one lemma for each loop of `TaskGraph`), and what
holds of all its values by its least counterexample (`LeastNat`, `EachRound`). Quantities that the code adds up and a property compares are numbers
of elements of sets, for which the library has the lemmas.

Model-checked only: liveness (`Returns` of three modules, `Answered`, `Learned`, `SoakStops`), which is out of the prover's reach. Of it only what
the runs show, within their bounds, is known. Every safety property of the passing runs is a theorem; so is every type invariant that they rest on.

## What the runs found

- `dag_callback`: `on_complete` is awaited inside the `try` of the attempt. If it raises after a
  success, the node, already `COMPLETED` and with a result, is run again or becomes `FAILED`
  (`dag/engine.py:338`). All promises of `DAGEngine` are therefore stated for a callback that
  does not raise.
- `celery`: `_iterate_ready` waits for parents to have status `COMPLETED`, which nothing sets: only
  the nodes without parents are sent and the run is recorded as completed
  (`workflow/celery_executor.py:99`).
- `cost_gate`: the SOTA ratio divides SOTA calls by SOTA calls, so the first one closes the planner
  until the hour is reset; the documented ratio is over all calls (`adaptive/sota_scheduler.py:126`).
- `stream_audit`: a streamed chat request is answered and leaves no event (`server/app.py:602`), though
  docs/reference-server-tenancy.md:247 has every route and chat request written to the audit log.
- `regulated`: an industry request reaches the router with regulated data (`server/app.py:370`), though
  docs/reference-server-tenancy.md:228-232 has every request evaluated and regulated data rejected.

More things the models show without a run of their own: concurrent `get` and `invalidate` can
bring an invalidated entry back (`CacheEngine`, the exception `disturbed` of `Regular`), and two
rollbacks in a row undo each other (`Arena`, `RollsBackToPrevious` says the target is always the
champion replaced last). The learner never gets past a file that is not UTF-8 or
holds an entry that is no dictionary (one being written, and cut within a character, fails those that find it so): each cycle fails and starts with the same files
(`ContinuousLearner`, the exception `Blocking` of `Learned`), and what it has archived is lost
with the process, as the store is only in memory. Once the store has reached `sft_threshold`, every
cycle calls the training callback, with new trajectories or without. A rollout that returns no
dictionary, as `EvolveToTrainPipeline._sota_aware_rollout` does, is counted as completed and as an
error, and is tried again (`RolloutScheduler`, `odd` in `CountersAgree`).

Of the programs and services:

- Pipelines: without an arena the version that is replaced is forgotten, and with one no model is ever promoted, as
  wins are counted by a word that no match reports (`pipeline/evolve_to_train.py:247`, `:269`): a degraded
  version has nothing to go back to. A training run that was resumed once and is resumed again counts the mark of the
  first resumption as an epoch and skips one (`NoEpochSkipped` is stated up to that).
- Loops: the curator's success patterns are out of the loop's reach; mined traces stay after an
  accepted edit; the first accepted edit must pass every held-out task.
- Skill evolution: over budget, the multi-strategy path enters the unevolved source into the population, and the
  command counts it as accepted.
- Agents: the SWE agent runs no test in its container, keeps what failed attempts patched, and hands in a
  patch without file names. Dependents of a failed step run; a blocking step that timed out goes on beside its
  retry and outside the semaphore; steps of one name end as "deadlock".
- Unknowns: ids repeat within a second, and sessions at once lose each other's unknowns. Notes are never read back.
- Deliberation: a vote with no confidence at all divides by zero and raises; no decision
  escalates by itself, though `swarm/consensus.py:4` says so; the router's fallback acts only without
  any model. The critical path leaves out the last node's own latency.
- Server: `/v1/industry/reload` is shadowed by `/v1/industry/{industry_type}`; an industry's error is counted twice; a
  template that is not UTF-8 or not a mapping raises out of the registry, which is then built again by the next request.
- Hybrid execution: the gatekeeper never reads `verdict.passed`, and the targets with a cloud cannot be chosen: a text that
  needs a cloud and may go to one never passes the conditions together. One masking pass may leave or create identifiers
  (`security/pii.py:107`). Nested or concurrent queries overspend a sandbox. A failed route of
  the MOM router keeps the previous file's model; a reset leaves the classifier with its old weights; feedback at a
  batch that is also the training size is trained and not written. A failed sandbox query costs nothing, and
  `activate` revives a destroyed sandbox.

## What is not modelled

- Trainers, losses, rewards, the evaluators' statistics, the bandit and the bootstrap test: floating-point numbers.
- Model back ends, profiler, vector store, mock environments: adapters; a model answers or fails.
- Prompts, answers, regular expressions, the classifiers' inside, skill transformations, trajectory cleaning and the
  training data: text to text or text to label, without protocol. The modules keep what depends on the result.
- Command line, configuration, dashboards, `scripts/` and the Rust port.
- The tenant store's own budgets (no handler asks them), artifact ids that are not their subtask's
  (a dependency on one would never be found, `swarm/artifacts.py:88`, and no plan sets one), and two calls of `schedule` at
  once on one rollout scheduler (no caller makes them).

`PROJECT.json` lists every part with its status and its reason.

## The plan

1. **Done**: the DAG engine with its abstract schedule and proofs, Celery executor, swarm, hybrid route with its budget,
   cost control, cache, arena, rollout scheduler, learner; both pipelines, the soak and training runs, distillation,
   loops, unknowns, skill evolution, agents, the optimizer, fusion and consensus, the graph's algorithms; server, privacy,
   consent, sandbox, MOM routing and frequency control.
2. **Done**: of every safety property of the passing runs a theorem for all values of the constants, both
   refinements of `DAGSchedule`, and that `Programs` and `Services` keep what their parts do.
3. The server over `HybridRouter` and `CacheEngine`, instead of a router that answers or fails.
4. The three hazards that no property covers: what a `get` may bring back between the two halves of `invalidate`
   (`cache/engine.py:187`), a second champion registered beside the first (`training/champion_challenger.py:91`), and the
   version that a deployment does not remember (`pipeline/evolve_to_train.py:246`).
