------------------------------- MODULE MCCost -------------------------------
(* CostControl for TLC: a process with two clients and one with a single    *)
(* client, on one budget file.                                              *)
EXTENDS CostControl, TLC

CONSTANTS evolver, cli, t1, t2, t3

MCProcesses == {evolver, cli}
MCClients == {t1, t2, t3}
MCProcessOf == [c \in MCClients |-> IF c = t3 THEN cli ELSE evolver]
\* The two clients of the evolver are alike.
MCSymmetry == Permutations({t1, t2})
=============================================================================
