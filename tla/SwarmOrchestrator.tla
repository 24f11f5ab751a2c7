------------------------- MODULE SwarmOrchestrator -------------------------
(***************************************************************************)
(* SwarmOrchestrator.execute (zilli/swarm/orchestrator.py) over the        *)
(* ArtifactGraph (zilli/swarm/artifacts.py) and behind the plan validation *)
(* of TaskDecomposer (zilli/swarm/decomposer.py): waves of workers that    *)
(* hand over artifacts, on one asyncio event loop.                         *)
(*                                                                         *)
(* A subtask is its place in the declared order.  Its artifact has its id  *)
(* (artifact_id is empty in every plan the repository makes).              *)
(*                                                                         *)
(* X_y, just above X, is X with a plausible bug (a mutant).                *)
(***************************************************************************)
EXTENDS Integers, FiniteSets, FiniteSetsExt

CONSTANTS MaxTasks,        \* the subtasks are 1..MaxTasks
          Plans,           \* the plans decompose_fn may return
          MaxFanout,       \* TaskDecomposer(max_fanout=...)
          MaxDepth,        \* TaskDecomposer(max_depth=...)
          MaxConcurrency,  \* SwarmOrchestrator(max_concurrency=...)
          Executors        \* what executor_fn may do to the graph it is given

Tasks == 1..MaxTasks

ASSUME SwarmAssumption ==
  /\ MaxTasks \in Nat
  /\ Plans \subseteq [tasks : SUBSET Tasks, deps : SUBSET (Tasks \X Tasks)]
  /\ MaxFanout \in Nat /\ MaxDepth \in Nat
  /\ MaxConcurrency \in Nat \ {0}
  /\ Executors \subseteq {"consuming", "rejecting"}

VARIABLES plan,      \* the subtasks and <<dependency, dependent>> pairs
          executor,  \* "rejecting": it may also reject what it was handed
          verifies,  \* whether a verify_fn was given
          status,    \* SubTask.status
          cause,     \* SubTask.error: why the subtask was rejected
          artifact,  \* the status of the artifact of each subtask in the graph
          wave,      \* the subtasks given to asyncio.gather
          main,      \* where execute() is
          result     \* the SwarmResult: success, and whose text final_text is

vars == <<plan, executor, verifies, status, cause, artifact, wave, main, result>>

NoText == 0

Deps(s) == {d \in Tasks : <<d, s>> \in plan.deps}

\* The subtasks from which s can be reached along dependencies.
Upstream(s) ==
  {u \in Tasks :
     \A S \in SUBSET Tasks :
        (Deps(s) \subseteq S /\ \A x \in S : Deps(x) \subseteq S) => u \in S}

Init ==
  /\ plan \in Plans
  /\ executor \in Executors
  /\ verifies \in BOOLEAN
  /\ status = [s \in Tasks |-> "pending"]
  /\ cause = [s \in Tasks |-> "none"]
  /\ artifact = [s \in Tasks |-> "absent"]
  /\ wave = {}
  /\ main = "decompose"
  /\ result = [success |-> FALSE, text |-> NoText, error |-> "none"]

-----------------------------------------------------------------------------
(* TaskDecomposer._validate.                                               *)

\* The DFS of _acyclic: no subtask depends on itself through others.
Acyclic == \A s \in plan.tasks : s \notin Upstream(s)

\* _depth: the length of the longest chain that ends in s.
LongestChain ==
  LET depth[s \in Tasks] == 1 + Max({0} \cup {depth[d] : d \in Deps(s)})
  IN Max({0} \cup {depth[s] : s \in plan.tasks})

Validate_Cyclic ==
  /\ plan.tasks # {}
  /\ Cardinality(plan.tasks) <= MaxFanout
  /\ \A s \in plan.tasks : Deps(s) \subseteq plan.tasks
Validate ==
  /\ plan.tasks # {}
  /\ Cardinality(plan.tasks) <= MaxFanout
  /\ \A s \in plan.tasks : Deps(s) \subseteq plan.tasks
  /\ Acyclic
  /\ LongestChain <= MaxDepth

Return(ok, text, error) ==
  /\ main' = "returned"
  /\ result' = [success |-> ok, text |-> text, error |-> error]

\* A plan that does not validate, or a decompose_fn that raises, is an error
\* result; a single subtask is run without waves.
Decompose ==
  /\ main = "decompose"
  /\ \/ Return(FALSE, NoText, "decompose")
     \/ /\ Validate
        /\ main' = IF Cardinality(plan.tasks) = 1 THEN "single" ELSE "waves"
        /\ UNCHANGED result
  /\ UNCHANGED <<plan, executor, verifies, status, cause, artifact, wave>>

\* _run_single: no artifact, no status; without a verify_fn the text must not
\* be empty.  A verify_fn that raises ends execute() with its exception.
RunSingle ==
  /\ main = "single"
  /\ \/ Return(FALSE, NoText, "execution")
     \/ \E s \in plan.tasks : \/ Return(TRUE, s, "none")
                              \/ Return(FALSE, s, "verification")
     \/ verifies /\ Return(FALSE, NoText, "exception")
  /\ UNCHANGED <<plan, executor, verifies, status, cause, artifact, wave>>

-----------------------------------------------------------------------------
(* _run_dag: the loop over waves.                                          *)

Pending == {s \in plan.tasks : status[s] = "pending"}

\* ArtifactGraph.is_runnable: a consumed artifact still satisfies.
Runnable_DoneOnly(s) == \A d \in Deps(s) : artifact[d] = "done"
Runnable(s) == \A d \in Deps(s) : artifact[d] \in {"done", "consumed"}

ReadySubtasks == {s \in Pending : Runnable(s)}

StartWave ==
  /\ main = "waves"
  /\ ReadySubtasks # {}
  /\ wave' = ReadySubtasks
  /\ main' = "gather"
  /\ UNCHANGED <<plan, executor, verifies, status, cause, artifact, result>>

\* Every worker of the wave has ended.
WaveEnds ==
  /\ main = "gather"
  /\ \A s \in wave : status[s] \in {"done", "rejected"}
  /\ wave' = {}
  /\ main' = IF Pending = {} THEN "conclude" ELSE "waves"
  /\ UNCHANGED <<plan, executor, verifies, status, cause, artifact, result>>

\* Nothing pending can run: all of it is rejected as unresolvable.
BreakDeadlock_Idle == main = "waves" /\ ReadySubtasks = {} /\ UNCHANGED vars
BreakDeadlock ==
  /\ main = "waves"
  /\ ReadySubtasks = {}
  /\ status' = [s \in Tasks |-> IF s \in Pending THEN "rejected" ELSE status[s]]
  /\ cause' = [s \in Tasks |-> IF s \in Pending THEN "unresolvable" ELSE cause[s]]
  /\ main' = "conclude"
  /\ UNCHANGED <<plan, executor, verifies, artifact, wave, result>>

Done == {s \in plan.tasks : status[s] = "done"}
Sinks == {s \in Done : \A t \in plan.tasks : s \notin Deps(t)}

\* final_text: of the last declared done sink, else of the last declared done
\* subtask; its artifact is looked up in the graph.
FinalOf_Done == IF Done # {} THEN Max(Done) ELSE NoText
FinalOf ==
  LET from == IF Sinks # {} THEN Sinks ELSE Done
  IN IF from # {} /\ artifact[Max(from)] # "absent" THEN Max(from) ELSE NoText

Conclude ==
  /\ main = "conclude"
  /\ LET ok == \A s \in plan.tasks : status[s] # "rejected"
     IN \/ ok /\ Return(TRUE, FinalOf, "none")
        \/ ~ok /\ Return(FALSE, FinalOf, "rejected")
        \/ ok /\ verifies /\ Return(FALSE, FinalOf, "verification")
        \/ ok /\ verifies /\ Return(FALSE, NoText, "exception")
  /\ UNCHANGED <<plan, executor, verifies, status, cause, artifact, wave>>

-----------------------------------------------------------------------------
(* _worker(s) of a wave, and what its executor_fn does to the graph.       *)

Running == {s \in Tasks : status[s] = "running"}

Acquire(s) ==
  /\ s \in wave /\ status[s] = "pending"
  /\ Cardinality(Running) < MaxConcurrency
  /\ status' = [status EXCEPT ![s] = "running"]
  /\ UNCHANGED <<plan, executor, verifies, cause, artifact, wave, main, result>>

\* executor_fn calls graph.consume on one of its inputs.
Consume(s, d) ==
  /\ status[s] = "running" /\ d \in Deps(s)
  /\ artifact[d] # "absent"
  /\ artifact' = [artifact EXCEPT ![d] = "consumed"]
  /\ UNCHANGED <<plan, executor, verifies, status, cause, wave, main, result>>

\* executor_fn calls graph.reject on one of its inputs.
Reject(s, d) ==
  /\ executor = "rejecting"
  /\ status[s] = "running" /\ d \in Deps(s)
  /\ artifact[d] # "absent"
  /\ artifact' = [artifact EXCEPT ![d] = "rejected"]
  /\ UNCHANGED <<plan, executor, verifies, status, cause, wave, main, result>>

\* executor_fn returned a payload that fits the schema.
Produce(s) ==
  /\ status[s] = "running"
  /\ artifact' = [artifact EXCEPT ![s] = "done"]
  /\ status' = [status EXCEPT ![s] = "done"]
  /\ UNCHANGED <<plan, executor, verifies, cause, wave, main, result>>

\* executor_fn raised, or graph.put refused the payload.
Fail(s) ==
  /\ status[s] = "running"
  /\ status' = [status EXCEPT ![s] = "rejected"]
  /\ cause' = [cause EXCEPT ![s] = "raised"]
  /\ UNCHANGED <<plan, executor, verifies, artifact, wave, main, result>>

-----------------------------------------------------------------------------
Worker(s) == Acquire(s) \/ Produce(s) \/ Fail(s)

Uses == \E s, d \in Tasks : Consume(s, d) \/ Reject(s, d)

Orchestrate == \/ Decompose \/ RunSingle
               \/ StartWave \/ WaveEnds \/ BreakDeadlock \/ Conclude

Next == Orchestrate \/ Uses \/ \E s \in Tasks : Worker(s)

Spec == Init /\ [][Next]_vars

\* The event loop runs what can run, and every executor_fn ends.
FairSpec == /\ Spec
            /\ WF_vars(Orchestrate)
            /\ \A s \in Tasks : WF_vars(Worker(s))

-----------------------------------------------------------------------------
(* Properties.                                                             *)

\* "unresolvable dependency" is never said of a subtask whose whole upstream
\* went well: something it needs, directly or not, raised or was rejected.
RejectionExplained ==
  \A s \in Tasks :
    cause[s] = "unresolvable" =>
      \E u \in Upstream(s) : cause[u] = "raised" \/ artifact[u] = "rejected"

\* The subtasks that some subtask of the plan depends on.
Needed == UNION {Deps(t) : t \in plan.tasks}

\* What the caller of a plan of several subtasks gets: every subtask has a
\* verdict; success says all of them are done; and the text is that of the
\* last declared done subtask that nobody consumes, or, when every done one has
\* a consumer, of the last, however the workers interleaved.
ResultSound ==
  main = "returned" /\ Cardinality(plan.tasks) > 1 /\ result.error # "decompose" =>
    /\ \A s \in plan.tasks : status[s] \in {"done", "rejected"}
    /\ result.success => Done = plan.tasks
    /\ result.success \/ result.error = "rejected" =>
         \/ result.text = NoText /\ Done = {}
         \/ /\ result.text \in Done
            /\ \A s \in Done \ Needed : s <= result.text
            /\ result.text \in Needed => Done \subseteq Needed /\ Max(Done) = result.text

\* execute() comes back: every wave makes progress, and a plan that cannot
\* progress is given up.
Returns == <>(main = "returned")

\* The waves implement the schedule of DAGSchedule: a subtask that raised has
\* failed, one without a way to its inputs is skipped.  An executor that
\* rejects what it was handed breaks the promise, and is mapped to nothing.
PhaseOf(s) ==
  IF executor = "rejecting" \/ status[s] = "pending" THEN "waiting"
  ELSE CASE status[s] = "running" -> "running"
         [] status[s] = "done" -> "succeeded"
         [] status[s] = "rejected" /\ cause[s] = "raised" -> "failed"
         [] status[s] = "rejected" /\ cause[s] # "raised" -> "skipped"
Sched == INSTANCE DAGSchedule
           WITH Nodes <- Tasks, Graphs <- {p.deps : p \in Plans},
                edges <- plan.deps, phase <- [s \in Tasks |-> PhaseOf(s)]
ImplementsSchedule == Sched!SSpec
=============================================================================
