----------------------------- MODULE DAGEngine -----------------------------
(***************************************************************************)
(* DAGExecutor.execute of zilli/dag/engine.py on one TaskDAG: the main     *)
(* coroutine that creates, awaits and reaps the node tasks, and the        *)
(* coroutine _run_node of every node (semaphore, attempts, backoff,        *)
(* on_complete).  All run on one asyncio event loop, so an action is the   *)
(* code between two awaits; node tasks advance only while the main         *)
(* coroutine is suspended in asyncio.wait or has returned.                 *)
(*                                                                         *)
(* X_y, just above X, is X with a plausible bug (a mutant): no             *)
(* specification uses it.                                                  *)
(***************************************************************************)
EXTENDS Naturals, FiniteSets

CONSTANTS Nodes,             \* the task ids of the TaskDAG
          Graphs,            \* the edge sets a run may be given; execute()
                             \* does not call validate(): cycles are allowed
          Retries,           \* Retries[n]: retry_policy["max_retries"]
          MaxConcurrency,    \* DAGExecutor(max_concurrency=...)
          Callbacks          \* the kinds of on_complete a run may be given:
                             \* "none", "safe" or "raising" (it may raise)

ASSUME EngineAssumption ==
  /\ IsFiniteSet(Nodes)
  /\ Graphs \subseteq SUBSET (Nodes \X Nodes)
  /\ \A G \in Graphs : \A n \in Nodes : <<n, n>> \notin G  \* DAGEdge refuses self-loops
  /\ Retries \in [Nodes -> Nat]
  /\ MaxConcurrency \in Nat \ {0}
  /\ Callbacks \subseteq {"none", "safe", "raising"}

VARIABLES edges,      \* the edges of the TaskDAG; execute() never changes them
          callback,   \* the on_complete given to execute()
          status,     \* node.status
          task,       \* where the asyncio task of a node is
          attempt,    \* the loop variable of _run_node
          results,    \* how many ExecutionResults of a node were appended
          completed,  \* the set `completed` of execute()
          main,       \* where the coroutine execute() is
          batch       \* the tasks `done` execute() has yet to go through

vars == <<edges, callback, status, task, attempt, results, completed, main, batch>>

Statuses == {"pending", "running", "completed", "failed", "skipped"}
Terminal == {"completed", "failed", "skipped"}

\* none      no task created         calling   awaiting task_fn(node)
\* queued    awaiting the semaphore  sleeping  awaiting the backoff sleep
\* okcb      awaiting on_complete after a success
\* failcb    awaiting on_complete after the last failure
\* done      the task has ended      reaped    removed from in_progress
TaskStates == {"none", "queued", "calling", "sleeping", "okcb", "failcb",
               "done", "reaped"}

Parents(n) == {p \in Nodes : <<p, n>> \in edges}
Children(n) == {c \in Nodes : <<n, c>> \in edges}

InProgress == {n \in Nodes : task[n] \notin {"none", "reaped"}}
HoldingSem == {n \in Nodes : task[n] \in {"calling", "sleeping", "okcb", "failcb"}}

Init ==
  /\ edges \in Graphs
  /\ callback \in Callbacks
  /\ status = [n \in Nodes |-> "pending"]
  /\ task = [n \in Nodes |-> "none"]
  /\ attempt = [n \in Nodes |-> 0]
  /\ results = [n \in Nodes |-> [ok |-> 0, failed |-> 0]]
  /\ completed = {}
  /\ main = "loop"
  /\ batch = {}

-----------------------------------------------------------------------------
(* The coroutine execute().                                                *)

\* get_ready_nodes: a pending node with a failed parent is skipped on the
\* spot, one whose parents are all completed is returned.
SkippedByScan_NotDone == {n \in Nodes : /\ status[n] = "pending"
                                        /\ \E p \in Parents(n) : status[p] # "completed"}
SkippedByScan == {n \in Nodes : /\ status[n] = "pending"
                                /\ \E p \in Parents(n) : status[p] = "failed"}
ReadyNodes == {n \in Nodes : /\ status[n] = "pending"
                             /\ \A p \in Parents(n) : status[p] = "completed"}

\* With tasks left execute() awaits them; with none it breaks out of the loop.
AfterScan_NoBreak(busy) == IF busy # {} THEN "waiting" ELSE "loop"
AfterScan(busy) == IF busy # {} THEN "waiting" ELSE "returned"

\* One turn of the while loop up to asyncio.wait: scan, create the missing
\* tasks, then wait for them or, with no task left, leave the loop.
Turn ==
  LET fresh == {n \in ReadyNodes : n \notin completed /\ n \notin InProgress}
  IN /\ main = "loop"
     /\ completed # Nodes
     /\ status' = [n \in Nodes |-> IF n \in SkippedByScan THEN "skipped" ELSE status[n]]
     /\ task' = [n \in Nodes |-> IF n \in fresh THEN "queued" ELSE task[n]]
     /\ main' = AfterScan(InProgress \cup fresh)
     /\ UNCHANGED <<edges, callback, attempt, results, completed, batch>>

\* Every node accounted for: execute() returns, whatever is still running.
Return ==
  /\ main = "loop"
  /\ completed = Nodes
  /\ main' = "returned"
  /\ UNCHANGED <<edges, callback, status, task, attempt, results, completed, batch>>

\* asyncio.wait(FIRST_COMPLETED) resumes with every task that has ended.
WaitReturns ==
  LET ended == {n \in Nodes : task[n] = "done"}
  IN /\ main = "waiting"
     /\ ended # {}
     /\ batch' = ended
     /\ main' = "reaping"
     /\ UNCHANGED <<edges, callback, status, task, attempt, results, completed>>

\* _cascade_skip: breadth first from the failed node, through nodes that are
\* not in `completed`; the least set closed under that step.
CascadeSet_None(f, finished) == {}
CascadeSet(f, finished) ==
  {n \in Nodes \ finished :
     \A S \in SUBSET Nodes :
        (/\ Children(f) \ finished \subseteq S
         /\ \A a \in S \ finished : Children(a) \ finished \subseteq S)
        => n \in S}

\* One task of `done`: completed.add, del in_progress, and the cascade when
\* its node has failed.  The tasks of a batch come in no particular order.
Reap(n) ==
  LET finished == completed \cup {n}
      cascade == IF status[n] = "failed" THEN CascadeSet(n, finished) ELSE {}
  IN /\ main = "reaping"
     /\ n \in batch
     /\ batch' = batch \ {n}
     /\ task' = [task EXCEPT ![n] = "reaped"]
     /\ completed' = finished \cup cascade
     /\ status' = [m \in Nodes |-> IF m \in cascade THEN "skipped" ELSE status[m]]
     /\ main' = IF batch = {n} THEN "loop" ELSE "reaping"
     /\ UNCHANGED <<edges, callback, attempt, results>>

-----------------------------------------------------------------------------
(* The coroutine _run_node(n).                                             *)

LoopIsFree == main \in {"waiting", "returned"}

\* async with sem: the node is marked running once the semaphore is held.
Acquire(n) ==
  /\ LoopIsFree
  /\ task[n] = "queued"
  /\ Cardinality(HoldingSem) < MaxConcurrency
  /\ task' = [task EXCEPT ![n] = "calling"]
  /\ status' = [status EXCEPT ![n] = "running"]
  /\ UNCHANGED <<edges, callback, attempt, results, completed, main, batch>>

\* await task_fn(node) returned: COMPLETED and a result, before on_complete.
TaskReturns(n) ==
  /\ LoopIsFree
  /\ task[n] = "calling"
  /\ status' = [status EXCEPT ![n] = "completed"]
  /\ results' = [results EXCEPT ![n].ok = @ + 1]
  /\ task' = [task EXCEPT ![n] = IF callback = "none" THEN "done" ELSE "okcb"]
  /\ UNCHANGED <<edges, callback, attempt, completed, main, batch>>

\* The except clause of the attempt loop: sleep and try again, or give up.
AttemptRaised(n) ==
  \/ /\ attempt[n] < Retries[n]
     /\ task' = [task EXCEPT ![n] = "sleeping"]
     /\ UNCHANGED <<status, results>>
  \/ /\ attempt[n] >= Retries[n]
     /\ status' = [status EXCEPT ![n] = "failed"]
     /\ results' = [results EXCEPT ![n].failed = @ + 1]
     /\ task' = [task EXCEPT ![n] = IF callback = "none" THEN "done" ELSE "failcb"]

TaskRaises(n) ==
  /\ LoopIsFree
  /\ task[n] = "calling"
  /\ AttemptRaised(n)
  /\ UNCHANGED <<edges, callback, attempt, completed, main, batch>>

\* on_complete is awaited inside the try of the attempt it reports on: what
\* it raises is taken for a failure of the node.
CallbackRaises(n) ==
  /\ LoopIsFree
  /\ callback = "raising"
  /\ task[n] = "okcb"
  /\ AttemptRaised(n)
  /\ UNCHANGED <<edges, callback, attempt, completed, main, batch>>

\* on_complete returned after a success; or it returned or raised after the
\* last failure, outside any try: both end the task.
CallbackEnds(n) ==
  /\ LoopIsFree
  /\ task[n] \in {"okcb", "failcb"}
  /\ task' = [task EXCEPT ![n] = "done"]
  /\ UNCHANGED <<edges, callback, status, attempt, results, completed, main, batch>>

\* asyncio.sleep(backoff * 2 ** attempt) is over: the next attempt.
BackoffEnds(n) ==
  /\ LoopIsFree
  /\ task[n] = "sleeping"
  /\ attempt' = [attempt EXCEPT ![n] = @ + 1]
  /\ task' = [task EXCEPT ![n] = "calling"]
  /\ UNCHANGED <<edges, callback, status, results, completed, main, batch>>

-----------------------------------------------------------------------------
RunNode(n) == \/ Acquire(n) \/ TaskReturns(n) \/ TaskRaises(n)
              \/ CallbackRaises(n) \/ CallbackEnds(n) \/ BackoffEnds(n)

Execute == Turn \/ Return \/ WaitReturns \/ \E n \in Nodes : Reap(n)

Next == Execute \/ \E n \in Nodes : RunNode(n)

Spec == Init /\ [][Next]_vars

\* The event loop runs every coroutine that can go on; task_fn, on_complete
\* and the backoff sleep come to an end (retries are bounded by the code).
Fairness == /\ WF_vars(Execute)
            /\ \A n \in Nodes : WF_vars(RunNode(n))

FairSpec == Spec /\ Fairness

-----------------------------------------------------------------------------
(* Properties.                                                             *)

\* Types, and no attempt past range(retries + 1).
TypeOK ==
  /\ edges \in Graphs
  /\ callback \in Callbacks
  /\ status \in [Nodes -> Statuses]
  /\ task \in [Nodes -> TaskStates]
  /\ attempt \in [Nodes -> Nat]
  /\ \A n \in Nodes : /\ attempt[n] <= Retries[n]
                       /\ task[n] = "sleeping" => attempt[n] < Retries[n]
  /\ results \in [Nodes -> [ok : Nat, failed : Nat]]
  /\ completed \subseteq Nodes
  /\ main \in {"loop", "waiting", "reaping", "returned"}
  /\ batch \subseteq Nodes

\* A node has a task only when every parent has completed, and nothing takes
\* that back later (get_ready_nodes, _run_node and _cascade_skip all write
\* node.status, each on its own schedule).  Holds while on_complete does not
\* raise.
Precedence ==
  callback # "raising" =>
    \A n \in Nodes : task[n] # "none" => \A p \in Parents(n) : status[p] = "completed"

\* When execute() returns nothing is left running, `results` has exactly one
\* entry, the right one, for each node that was run and none for the others,
\* and what never ran was skipped below a failure or waits for a node that
\* never ran either (a cycle: "DAG stalled").  Holds while on_complete does
\* not raise.
ReturnComplete ==
  callback # "raising" /\ main = "returned" =>
    /\ InProgress = {}
    /\ \A n \in Nodes :
         \/ status[n] = "completed" /\ results[n] = [ok |-> 1, failed |-> 0]
         \/ status[n] = "failed" /\ results[n] = [ok |-> 0, failed |-> 1]
         \/ /\ status[n] \in {"skipped", "pending"}
            /\ results[n] = [ok |-> 0, failed |-> 0]
            /\ \E p \in Parents(n) :
                 status[p] \in IF status[n] = "skipped" THEN {"failed", "skipped"}
                                                       ELSE {"pending"}

\* is_terminal: a node that is COMPLETED, FAILED or SKIPPED keeps that status.
TerminalIsFinal ==
  [][\A n \in Nodes : status[n] \in Terminal => status'[n] = status[n]]_vars

\* execute() comes back whatever the graph (acyclic or not) and whatever the
\* tasks do, as long as each attempt ends.
Returns == <>(main = "returned")

\* The engine implements the abstract schedule: the status of a node is its
\* phase there, under other names.  When on_complete may raise nothing is
\* promised, and the mapping shows a schedule in which nothing happens.
PhaseOf == [pending |-> "waiting", running |-> "running",
            completed |-> "succeeded", failed |-> "failed", skipped |-> "skipped"]
Sched == INSTANCE DAGSchedule
           WITH phase <- [n \in Nodes |-> IF callback = "raising" THEN "waiting"
                                          ELSE PhaseOf[status[n]]]
ImplementsSchedule == Sched!SSpec
=============================================================================
