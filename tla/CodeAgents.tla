----------------------------- MODULE CodeAgents -----------------------------
(***************************************************************************)
(* The agents that write code: the SWEAgent (zilli/swe), whose LoopRunner  *)
(* repairs a repository in some attempts; the Agent (zilli/core/agent.py), *)
(* which writes a script and runs it; and the TaskRunner                   *)
(* (zilli/core/runner.py), which runs steps in waves.  Each is a coroutine *)
(* or several; a step is the code between two awaits.  The content of a    *)
(* file is the iteration that wrote it, a script the attempt it is of.     *)
(***************************************************************************)
EXTENDS Integers, FiniteSets

CONSTANTS
  SweFiles,      \* the files of the repository
  SweRetries,    \* max_iterations, which are the retries of the loop
  ScriptRetries, \* max_retries of an Agent
  StepGraphs,    \* what the TaskRunner is given: functions from steps to the names they depend on
  StepRetries,   \* retries of a step
  StepWidth      \* max_concurrency of the TaskRunner

ASSUME AgentsAssumption ==
  /\ SweRetries \in Nat /\ ScriptRetries \in Nat /\ StepRetries \in Nat /\ StepWidth \in Nat \ {0}
  /\ \A deps \in StepGraphs : IsFiniteSet(DOMAIN deps)

VARIABLES
  swe,     \* the SWEAgent: place, container, CodeContext, the repository, and what the tests saw
  script,  \* the Agent: place, attempt, executions so far, result
  tasks    \* the TaskRunner: steps, their places and attempts, threads left behind

agentVars == <<swe, script, tasks>>

Untouched == [f \in SweFiles |-> 0]
NoPatch == [iteration |-> 0, files |-> {}]

NewSwe(pc, sandboxed) ==
  [pc |-> pc, sandboxed |-> sandboxed, container |-> "none", attempt |-> 0, iteration |-> 0, explored |-> {},
   files |-> Untouched, proposed |-> {}, todo |-> {}, patch |-> NoPatch, torn |-> FALSE,
   tested |-> Untouched, ok |-> FALSE]
NewScript(pc) == [pc |-> pc, attempt |-> 0, ran |-> 0, passed |-> 0, result |-> [ok |-> FALSE, code |-> 0, iterations |-> 0]]
NewTasks(pc, deps) ==
  [pc |-> pc, deps |-> deps, place |-> [s \in DOMAIN deps |-> "waiting"], attempt |-> [s \in DOMAIN deps |-> 0],
   runs |-> [s \in DOMAIN deps |-> 0], threads |-> [s \in DOMAIN deps |-> 0], blocking |-> [s \in DOMAIN deps |-> FALSE]]

NoAgents == swe = NewSwe("off", FALSE) /\ script = NewScript("off") /\ tasks = NewTasks("off", <<>>)
AgentsInit ==
  \/ /\ \E sandboxed \in BOOLEAN : swe = NewSwe("idle", sandboxed)
     /\ script = NewScript("off") /\ tasks = NewTasks("off", <<>>)
  \/ swe = NewSwe("off", FALSE) /\ script = NewScript("generating") /\ tasks = NewTasks("off", <<>>)
  \/ /\ swe = NewSwe("off", FALSE) /\ script = NewScript("off")
     /\ \E deps \in StepGraphs : \E blocking \in [DOMAIN deps -> BOOLEAN] :
          tasks = [NewTasks("looking", deps) EXCEPT !.blocking = blocking]

-----------------------------------------------------------------------------
(* SWEAgent *)

\* A repository that is not there ends the run. With a sandbox a container is started, when there is
\* Docker and it does not fail: without one the run goes on all the same.
SweStarts ==
  /\ swe.pc = "idle"
  /\ \/ swe' = [swe EXCEPT !.pc = "returned"]
     \/ \E container \in (IF swe.sandboxed THEN {"up", "none"} ELSE {"none"}) :
          swe' = [swe EXCEPT !.pc = "exploring", !.container = container]
  /\ UNCHANGED <<script, tasks>>

\* _explore: what grep finds and no iteration has seen, or every file; narrow adds it to the context.
SweExplores ==
  /\ swe.pc = "exploring"
  /\ \E found \in SUBSET SweFiles :
       LET fresh == found \ swe.explored
           seen == IF fresh = {} THEN SweFiles ELSE fresh
       IN swe' = [swe EXCEPT !.pc = "proposing", !.iteration = @ + 1, !.explored = @ \cup seen]
  /\ UNCHANGED <<script, tasks>>

\* An attempt that failed: another one, or the end.
AfterFailure(s) ==
  IF s.attempt < SweRetries THEN [s EXCEPT !.attempt = @ + 1, !.pc = "exploring"]
  ELSE [s EXCEPT !.pc = "cleaning"]

\* _diagnose and _propose_fix: the files the model rewrites, explored or only named by it; a model that
\* raises ends the attempt, and without a patch the tests run on what is there.
SweProposes ==
  /\ swe.pc = "proposing"
  /\ \/ \E files \in SUBSET SweFiles :
          swe' = [swe EXCEPT !.pc = IF files = {} THEN "testing" ELSE "applying",
                             !.proposed = files, !.todo = files]
     \/ swe' = AfterFailure(swe)
  /\ UNCHANGED <<script, tasks>>

\* SWEPatch.apply: file by file, until one cannot be written. What was written stays.
SweApplies ==
  /\ swe.pc = "applying"
  /\ \/ \E f \in swe.todo :
          LET s == [swe EXCEPT !.files[f] = swe.iteration, !.todo = @ \ {f}]
          IN swe' = IF s.todo # {} THEN s
                    ELSE [s EXCEPT !.pc = "testing",
                                   !.patch = [iteration |-> s.iteration, files |-> s.proposed]]
     \/ swe' = AfterFailure([swe EXCEPT !.torn = TRUE, !.todo = {}])
  /\ UNCHANGED <<script, tasks>>

\* The test command runs in the repository, sandbox or not.
SweTests ==
  /\ swe.pc = "testing"
  /\ LET s == [swe EXCEPT !.tested = swe.files]
     IN swe' \in {[s EXCEPT !.pc = "cleaning", !.ok = TRUE], AfterFailure(s)}
  /\ UNCHANGED <<script, tasks>>

\* cleanup: an error of docker rm is only logged, and the container forgotten.
SweCleans ==
  /\ swe.pc = "cleaning"
  /\ \E left \in {"none", "left"} :
       swe' = [swe EXCEPT !.pc = "returned", !.container = IF swe.container = "up" THEN left ELSE @]
  /\ UNCHANGED <<script, tasks>>

\* The run is cancelled: nothing cleans up.
SweCancelled ==
  /\ swe.pc \in {"exploring", "proposing", "applying", "testing"}
  /\ swe' = [swe EXCEPT !.pc = "cancelled", !.container = IF @ = "up" THEN "left" ELSE @]
  /\ UNCHANGED <<script, tasks>>

-----------------------------------------------------------------------------
(* Agent *)

\* _generate_code: an answer without code ends the run.
ScriptGenerated ==
  /\ script.pc = "generating"
  /\ \/ script' = [script EXCEPT !.pc = "executing"]
     \/ script' = [script EXCEPT !.pc = "ended",
                                 !.result = [ok |-> FALSE, code |-> 0, iterations |-> script.attempt]]
  /\ UNCHANGED <<swe, tasks>>

\* _execute_code: the script passes, or fails or is killed after its time.
ScriptExecuted ==
  /\ script.pc = "executing"
  /\ LET n == script.attempt + 1
         s == [script EXCEPT !.ran = @ + 1]
     IN script' \in
          {[s EXCEPT !.pc = "ended", !.passed = n, !.result = [ok |-> TRUE, code |-> n, iterations |-> n]],
           IF script.attempt < ScriptRetries THEN [s EXCEPT !.pc = "generating", !.attempt = n]
           ELSE [s EXCEPT !.pc = "ended", !.result = [ok |-> FALSE, code |-> n, iterations |-> n]]}
  /\ UNCHANGED <<swe, tasks>>

-----------------------------------------------------------------------------
(* TaskRunner *)

Steps == DOMAIN tasks.deps
Over == {s \in Steps : tasks.place[s] \in {"passed", "failed"}}
InWave == {s \in Steps : tasks.place[s] \in {"queued", "running", "pausing"}}
Holding == {s \in Steps : tasks.place[s] = "running"}

Ready_AnyDependency(done) ==
  {s \in Steps \ done : tasks.deps[s] = {} \/ tasks.deps[s] \cap done # {}}
Ready(done) == {s \in Steps \ done : tasks.deps[s] \subseteq done}

\* The loop of run: the last wave is over; the next one begins, or nothing is left or ready.
WaveBegins ==
  /\ tasks.pc = "looking" /\ InWave = {}
  /\ tasks' = IF Over = Steps \/ Ready(Over) = {} THEN [tasks EXCEPT !.pc = "ended"]
              ELSE [tasks EXCEPT !.place = [s \in Steps |-> IF s \in Ready(Over) THEN "queued" ELSE tasks.place[s]]]
  /\ UNCHANGED <<swe, script>>

StepRuns(s) ==
  /\ tasks.place[s] = "queued" /\ Cardinality(Holding) < StepWidth
  /\ tasks' = [tasks EXCEPT !.place[s] = "running", !.runs[s] = @ + 1]
  /\ UNCHANGED <<swe, script>>

\* The end of a run of step s; a failure is tried again after a pause outside the semaphore. After a
\* timeout the thread of a blocking function goes on.
StepEnds(s) ==
  /\ tasks.place[s] = "running"
  /\ \E outcome \in {"passed", "failed", "timeout"} :
       LET place == CASE outcome = "passed" -> "passed"
                      [] outcome # "passed" /\ tasks.attempt[s] < StepRetries -> "pausing"
                      [] OTHER -> "failed"
           left == IF outcome = "timeout" /\ tasks.blocking[s] THEN 1 ELSE 0
       IN tasks' = [tasks EXCEPT !.place[s] = place, !.threads[s] = @ + left]
  /\ UNCHANGED <<swe, script>>

PauseOver(s) ==
  /\ tasks.place[s] = "pausing"
  /\ tasks' = [tasks EXCEPT !.place[s] = "queued", !.attempt[s] = @ + 1]
  /\ UNCHANGED <<swe, script>>

ThreadEnds(s) ==
  /\ tasks.threads[s] > 0
  /\ tasks' = [tasks EXCEPT !.threads[s] = @ - 1]
  /\ UNCHANGED <<swe, script>>

AgentsNext ==
  \/ SweStarts \/ SweExplores \/ SweProposes \/ SweApplies \/ SweTests \/ SweCleans \/ SweCancelled
  \/ ScriptGenerated \/ ScriptExecuted
  \/ WaveBegins
  \/ \E s \in Steps : StepRuns(s) \/ StepEnds(s) \/ PauseOver(s) \/ ThreadEnds(s)

AgentsSpec == AgentsInit /\ [][AgentsNext]_agentVars

-----------------------------------------------------------------------------
(* Properties *)

\* A repair that succeeds was tested as the repository now is; its diff shows every change as long as one
\* iteration made them all; and a run that returns leaves no container it knows of.
PatchTested ==
  /\ swe.ok => swe.tested = swe.files
  /\ LET changed == {f \in SweFiles : swe.files[f] # 0} IN
     /\ swe.patch.files \subseteq changed
     /\ swe.iteration = 1 /\ ~swe.torn /\ swe.pc \notin {"applying", "cancelled"} => swe.patch.files = changed
  /\ swe.pc = "returned" => swe.container # "up"

\* The script that is returned as good is the last that ran, and the iterations are those that ran.
ScriptSound ==
  script.pc = "ended" =>
    /\ script.result.iterations = script.ran
    /\ script.result.ok => script.result.code = script.ran /\ script.passed = script.ran

\* Steps that can never run: they depend on each other, or on a step that is not there.
Stuck == {s \in Steps : \E U \in SUBSET Steps : s \in U /\ \A u \in U : tasks.deps[u] \cap U # {} \/ ~(tasks.deps[u] \subseteq Steps)}

\* A step runs only after all it depends on have ended, well or badly, never on two seats at once and
\* not more often than its retries allow; only threads of blocking functions are left behind; and when
\* the runner ends, the steps without a run are those that can never have one (runner.py:39).
StepsOrdered ==
  /\ \A s \in InWave : tasks.deps[s] \subseteq Over
  /\ Cardinality(Holding) <= StepWidth
  /\ \A s \in Steps :
       /\ tasks.runs[s] <= StepRetries + 1
       /\ tasks.threads[s] > 0 => tasks.blocking[s] /\ tasks.threads[s] <= tasks.runs[s]
  /\ tasks.pc = "ended" => {s \in Steps : tasks.runs[s] = 0} = Stuck

\* The three agents are sound.
AgentsSound == PatchTested /\ ScriptSound /\ StepsOrdered
=============================================================================
