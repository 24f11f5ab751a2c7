---------------------------- MODULE MCDAGEngine ----------------------------
(* DAGEngine on four nodes, for TLC.                                       *)
EXTENDS DAGEngine, TLC

CONSTANTS a, b, c, d

MCNodes == {a, b, c, d}

\* Every graph on three of the nodes (64 of them, 25 acyclic), the fourth
\* competing for the semaphore; and shapes of all four: a diamond, a chain, a
\* join of three, a tree with a shortcut, a cycle below a node that may fail.
MCGraphs ==
  SUBSET {e \in {a, b, c} \X {a, b, c} : e[1] # e[2]}
  \cup
  { {<<a, b>>, <<a, c>>, <<b, d>>, <<c, d>>},
    {<<a, b>>, <<b, c>>, <<c, d>>},
    {<<a, d>>, <<b, d>>, <<c, d>>},
    {<<a, b>>, <<b, c>>, <<a, c>>, <<b, d>>},
    {<<a, b>>, <<b, c>>, <<c, b>>, <<c, d>>} }

\* One node may be tried twice, the others once.
MCRetries == [n \in MCNodes |-> IF n = b THEN 1 ELSE 0]
=============================================================================
