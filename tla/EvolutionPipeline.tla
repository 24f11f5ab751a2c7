-------------------------- MODULE EvolutionPipeline --------------------------
(***************************************************************************)
(* EvolutionPipeline.run_cycle (zilli/pipeline/evolution.py): monitor,     *)
(* detect, plan, evolve, evaluate, then deploy or roll back, in one call   *)
(* without an await.  What the evaluator makes of its samples is open, but *)
(* the same at the beginning and at the end of a cycle, which adds none.   *)
(***************************************************************************)
EXTENDS Integers, Sequences

CONSTANT MaxVersions  \* bound: versions that are deployed

ASSUME EvolutionAssumption == MaxVersions \in Nat

VARIABLE evo  \* stage, version that is deployed (0: None), versions below it, events

EvolutionInit == evo = [stage |-> "monitor", deployed |-> 0, below |-> <<>>, logged |-> 0]

\* _deploy: "evolved_v<n>" is followed by n + 1.
DeployNext(e) ==
  [e EXCEPT !.stage = "deploy", !.deployed = @ + 1,
            !.below = IF e.deployed > 0 THEN Append(@, e.deployed) ELSE @]

RollBack_Peek(e) ==
  IF e.below = <<>> THEN [e EXCEPT !.stage = "rollback"]
  ELSE [e EXCEPT !.stage = "rollback", !.deployed = e.below[Len(e.below)]]

\* _rollback, with auto_rollback.
RollBack(e) ==
  IF e.below = <<>> THEN [e EXCEPT !.stage = "rollback"]
  ELSE [e EXCEPT !.stage = "rollback", !.deployed = e.below[Len(e.below)],
                 !.below = SubSeq(e.below, 1, Len(e.below) - 1)]

Logged(e) == [e EXCEPT !.logged = IF @ < 2 THEN @ + 1 ELSE @]

\* run_cycle.  The model asked for an improvement is run in a new event loop,
\* which fails in a running one: the cycle's events are lost then.
EvolutionCycle ==
  \E reliable, drift \in BOOLEAN :
    IF reliable /\ ~drift
    THEN evo' = Logged([evo EXCEPT !.stage = "monitor"])
    ELSE \/ evo' = [evo EXCEPT !.stage = "evolve"]
         \/ reliable /\ evo.deployed < MaxVersions /\ evo' = Logged(DeployNext(evo))
         \/ ~reliable /\ evo' = Logged(RollBack(evo))

EvolutionNext == EvolutionCycle

EvolutionSpec == EvolutionInit /\ [][EvolutionNext]_evo

-----------------------------------------------------------------------------
(* Properties.                                                              *)

\* Below e's deployed version there is every older one, once and in order.
Stacked(e) == e.below = [i \in 1..(IF e.deployed = 0 THEN 0 ELSE e.deployed - 1) |-> i]

\* Through any mixture of deployments, rollbacks and cycles that raise, below
\* the deployed version there is every older one, once and in order: a
\* rollback goes back exactly one version, and no version is deployed twice
\* without a rollback from it.
VersionStack == Stacked(evo)
=============================================================================
