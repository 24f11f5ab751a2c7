---------------------------- MODULE DAGSchedule ----------------------------
(***************************************************************************)
(* What a caller of the DAG engine (zilli/dag/engine.py) relies on,        *)
(* without saying how it is done: a node runs after all of its parents     *)
(* succeeded, runs to one verdict, and is skipped only when something      *)
(* upstream of it failed.  No task objects, no retries, no callbacks, no   *)
(* semaphore: DAGEngine is shown to implement this.                        *)
(***************************************************************************)
CONSTANTS Nodes,    \* the task ids
          Graphs    \* the edge sets a run may be given

VARIABLES edges,    \* the dependencies of this run: <<source, target>>
          phase     \* phase[n]: where n is in its life

svars == <<edges, phase>>

Phases == {"waiting", "running", "succeeded", "failed", "skipped"}

ParentsIn(n) == {p \in Nodes : <<p, n>> \in edges}
ChildrenIn(n) == {c \in Nodes : <<n, c>> \in edges}

\* The nodes downstream of a failure: the least set that contains the
\* children of every failed node and the children of its own members.
Doomed ==
  {n \in Nodes :
     \A S \in SUBSET Nodes :
        (/\ \A f \in Nodes : phase[f] = "failed" => ChildrenIn(f) \subseteq S
         /\ \A a \in S : ChildrenIn(a) \subseteq S)
        => n \in S}

SInit == /\ edges \in Graphs
         /\ phase = [n \in Nodes |-> "waiting"]

\* A node starts when every parent has succeeded.
SStart(n) == /\ phase[n] = "waiting"
             /\ \A p \in ParentsIn(n) : phase[p] = "succeeded"
             /\ phase' = [phase EXCEPT ![n] = "running"]
             /\ UNCHANGED edges

\* A running node gets its only verdict.
SFinish(n) == /\ phase[n] = "running"
              /\ \E v \in {"succeeded", "failed"} :
                   phase' = [phase EXCEPT ![n] = v]
              /\ UNCHANGED edges

\* Some of the nodes a failure has made unreachable are given up together.
SSkip == \E S \in SUBSET {n \in Doomed : phase[n] = "waiting"} :
           /\ S # {}
           /\ phase' = [n \in Nodes |-> IF n \in S THEN "skipped" ELSE phase[n]]
           /\ UNCHANGED edges

SNext == SSkip \/ \E n \in Nodes : SStart(n) \/ SFinish(n)

SSpec == SInit /\ [][SNext]_svars
=============================================================================
