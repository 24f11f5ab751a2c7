--------------------------- MODULE MCHybridRouter ---------------------------
(* HybridRouter for TLC: three requests at a time, a window of four calls.  *)
EXTENDS HybridRouter, TLC

CONSTANTS r1, r2, r3

MCRequests == {r1, r2, r3}
MCRoles == {"planner", "executor", "reviewer"}
\* The planner has a second model, the other roles one.
MCModels == [role \in MCRoles |-> IF role = "planner" THEN 2 ELSE 1]
=============================================================================
