------------------------------ MODULE MCSwarm ------------------------------
(* SwarmOrchestrator on plans of up to four subtasks, for TLC.             *)
EXTENDS SwarmOrchestrator

\* Every plan of the first three subtasks, cyclic ones and unknown
\* dependencies (3 in a plan of 1 and 2) included; a plan of four in each of
\* three shapes (a diamond, two chains, a chain too deep); the empty plan and
\* one subtask.
MCPlans ==
  [tasks : {{1, 2, 3}}, deps : SUBSET {e \in (1..3) \X (1..3) : e[1] # e[2]}]
  \cup [tasks : {{1, 2}}, deps : SUBSET {<<1, 2>>, <<3, 2>>, <<2, 2>>}]
  \cup [tasks : {{1, 2, 3, 4}},
        deps : {{<<4, 2>>, <<4, 3>>, <<2, 1>>, <<3, 1>>},
                {<<1, 2>>, <<3, 4>>},
                {<<1, 2>>, <<2, 3>>, <<3, 4>>}}]
  \cup {[tasks |-> {}, deps |-> {}], [tasks |-> {1}, deps |-> {}]}
=============================================================================
