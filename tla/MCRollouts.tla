------------------------------ MODULE MCRollouts ------------------------------
(* RolloutScheduler on three tasks, two of which carry the same id.         *)
EXTENDS RolloutScheduler, TLC

CONSTANTS a, b, c, shared

MCTasks == {a, b, c}
MCIdOf  == (a :> shared) @@ (b :> shared) @@ (c :> NoId)
===============================================================================
