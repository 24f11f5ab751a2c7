----------------------------- MODULE CeleryDAG -----------------------------
(***************************************************************************)
(* CeleryDAGExecutor.execute (zilli/workflow/celery_executor.py) with      *)
(* Celery at hand: the nodes of a TaskDAG are sent one after the other to  *)
(* Celery workers, in the order of the generator _iterate_ready.           *)
(* DAGEngine is what runs when Celery is not available.                    *)
(***************************************************************************)
EXTENDS Naturals, Sequences, SequencesExt

CONSTANT Nodes  \* the task ids

VARIABLES edges,    \* the edges of the TaskDAG
          status,   \* node.status; no method of this class assigns it
          visited,  \* the set `visited` of _iterate_ready
          queue,    \* the deque `queue` of _iterate_ready
          sent,     \* the nodes sent to Celery
          record,   \* DAGRunRecord.status
          main      \* where the coroutine execute() is

vars == <<edges, status, visited, queue, sent, record, main>>

Parents(n) == {p \in Nodes : <<p, n>> \in edges}
Children(n) == {c \in Nodes : <<n, c>> \in edges}

Completed(n) == \A p \in Parents(n) : status[p] = "completed"

\* No part of the graph lies below itself.
Acyclic(E) == ~ \E U \in SUBSET Nodes : U # {} /\ \A u \in U : \E p \in U : <<p, u>> \in E

\* A run may be given any graph without a cycle.
Init ==
  /\ edges \in {E \in SUBSET (Nodes \X Nodes) : Acyclic(E)}
  /\ status = [n \in Nodes |-> "pending"]
  /\ visited = {}
  /\ queue = << >>
  /\ sent = {}
  /\ record = "pending"
  /\ main = "start"

\* The record is filed as running; the generator starts from the ready nodes.
Start ==
  /\ main = "start"
  /\ LET ready == {n \in Nodes : status[n] = "pending" /\ Completed(n)}
     IN visited' = ready /\ queue' \in SetToSeqs(ready)
  /\ record' = "running"
  /\ main' = "iterate"
  /\ UNCHANGED <<edges, status, sent>>

\* send_task for the next node, whose result is awaited in a thread.
Submit ==
  /\ main = "iterate"
  /\ queue # << >>
  /\ sent' = sent \cup {Head(queue)}
  /\ main' = "get"
  /\ UNCHANGED <<edges, status, visited, queue, record>>

\* task.get returned: the generator goes on and queues the children of the
\* node whose parents are all COMPLETED.
GetReturns ==
  /\ main = "get"
  /\ LET fresh == {c \in Children(Head(queue)) \ visited : Completed(c)}
     IN /\ visited' = visited \cup fresh
        /\ \E more \in SetToSeqs(fresh) : queue' = Tail(queue) \o more
  /\ main' = "iterate"
  /\ UNCHANGED <<edges, status, sent, record>>

\* task.get raised (the task failed, or 600 s went by): so does execute().
GetRaises ==
  /\ main = "get"
  /\ main' = "raised"
  /\ UNCHANGED <<edges, status, visited, queue, sent, record>>

Finish ==
  /\ main = "iterate"
  /\ queue = << >>
  /\ record' = "completed"
  /\ main' = "returned"
  /\ UNCHANGED <<edges, status, visited, queue, sent>>

Next == Start \/ Submit \/ GetReturns \/ GetRaises \/ Finish

Spec == Init /\ [][Next]_vars

-----------------------------------------------------------------------------
\* "Each DAG node is submitted as a Celery task" (the class's docstring): a
\* run recorded as completed has sent every node of its (acyclic) graph.
EachNodeSubmitted == record = "completed" => sent = Nodes
=============================================================================
