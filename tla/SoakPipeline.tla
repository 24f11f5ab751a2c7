---------------------------- MODULE SoakPipeline ----------------------------
(***************************************************************************)
(* SoakRunner.run (zilli/soak.py) around EvolveToTrainPipeline.run_cycle   *)
(* (zilli/pipeline/evolve_to_train.py), on one event loop.  A cycle awaits *)
(* the evolution of the skills and then the rollouts of the training;      *)
(* deploying, monitoring and rolling back have no await.  A version        *)
(* "evolved-v<n>" is its number n, "base-v1" is 0.                         *)
(***************************************************************************)
EXTENDS Naturals, Sequences

CONSTANTS MaxStreak,     \* max_consecutive_failures
          TrainEpochs,   \* num_train_epochs
          ArenaRounds,   \* min_arena_matches
          SampleFloor,   \* the samples below which monitoring says nothing
          MaxSoakCycles  \* bound: cycles of one run

ASSUME SoakAssumption ==
  /\ MaxStreak \in Nat \ {0} /\ TrainEpochs \in Nat /\ ArenaRounds \in Nat \ {0}
  /\ SampleFloor \in Nat /\ MaxSoakCycles \in Nat

VARIABLES soak,  \* SoakRunner: where run() is, its flags, health and status file
          pipe   \* EvolveToTrainPipeline: its cycle, versions and samples

soakVars == <<soak, pipe>>

NotDeployed == "none"

SoakIdle ==
  /\ soak = [pc |-> "off", running |-> FALSE, late |-> FALSE, stopFile |-> FALSE,
             health |-> [ok |-> 0, failed |-> 0, streak |-> 0],
             file |-> [ok |-> 0, failed |-> 0, streak |-> 0]]
  /\ pipe = [arena |-> FALSE, cycle |-> 0, champion |-> 0, deployed |-> NotDeployed,
             stack |-> <<>>, samples |-> 0]

SoakInit ==
  \E withArena \in BOOLEAN :
    /\ soak = [pc |-> "off", running |-> FALSE, late |-> FALSE, stopFile |-> FALSE,
               health |-> [ok |-> 0, failed |-> 0, streak |-> 0],
               file |-> [ok |-> 0, failed |-> 0, streak |-> 0]]
    /\ pipe = [arena |-> withArena, cycle |-> 0, champion |-> 0, deployed |-> NotDeployed,
               stack |-> <<>>, samples |-> 0]

-----------------------------------------------------------------------------
(* The pipeline.                                                            *)

\* A match is won by a model's name, and never by the word that is counted;
\* both sides of it get the score of the same store, so that it is a draw.
ChallengerWins == 0

Promoted(p) == [p EXCEPT !.champion = p.cycle, !.deployed = p.cycle]

\* _stage_deploy: without an arena the version that was replaced is forgotten.
Deployed(p) ==
  IF ~p.arena THEN Promoted(p)
  ELSE IF ChallengerWins >= ArenaRounds \div 2 + 1
       THEN [Promoted(p) EXCEPT !.stack = Append(p.stack, p.champion)]
       ELSE p

\* _stage_rollback.
RolledBack(p) ==
  LET last == p.stack[Len(p.stack)]
  IN IF p.stack = <<>> THEN p
     ELSE [p EXCEPT !.champion = last, !.deployed = last,
                    !.stack = SubSeq(p.stack, 1, Len(p.stack) - 1)]

\* An epoch leaves a sample when the store was not empty.
Sampled(p, n) == [p EXCEPT !.samples = IF @ + n > SampleFloor THEN SampleFloor ELSE @ + n]

\* _stage_monitor and what follows it; once there are samples enough, whether
\* they show a degradation is open.
Monitored(p) ==
  {p} \cup (IF p.samples >= SampleFloor THEN {RolledBack(p)} ELSE {})

-----------------------------------------------------------------------------
(* The runner.                                                              *)

\* _write_status, which may fail.
Written(s) == {s, [s EXCEPT !.file = s.health]}

Stopped(s) == Written([s EXCEPT !.pc = "stopped", !.running = FALSE])

\* A cycle that returned its records, however many of them are failures.
CycleOk(s) ==
  Written([s EXCEPT !.pc = "sleep", !.health.ok = @ + 1, !.health.streak = 0])

\* The exception handler: too many in a row end the run, fewer are followed by a
\* backoff, at the end of which the status is not written.
CycleFailed(s) ==
  LET t == [s EXCEPT !.health.failed = @ + 1, !.health.streak = @ + 1]
  IN IF t.health.streak >= MaxStreak THEN Stopped(t) ELSE {[t EXCEPT !.pc = "backoff"]}

\* run() raises the flag, whatever stop() has done before.
SoakStart ==
  /\ soak.pc = "off"
  /\ soak' \in Written([soak EXCEPT !.running = TRUE, !.pc = "head"])
  /\ UNCHANGED pipe

\* The top of the loop; the cycle number goes up before anything can fail.
SoakHead_Flag ==
  /\ soak.pc = "head"
  /\ IF ~soak.running \/ soak.late
     THEN soak' \in Stopped(soak) /\ UNCHANGED pipe
     ELSE /\ pipe.cycle < MaxSoakCycles
          /\ soak' = [soak EXCEPT !.pc = "evolve"]
          /\ pipe' = [pipe EXCEPT !.cycle = @ + 1]
SoakHead ==
  /\ soak.pc = "head"
  /\ IF ~soak.running \/ soak.late \/ soak.stopFile
     THEN soak' \in Stopped(soak) /\ UNCHANGED pipe
     ELSE /\ pipe.cycle < MaxSoakCycles
          /\ soak' = [soak EXCEPT !.pc = "evolve"]
          /\ pipe' = [pipe EXCEPT !.cycle = @ + 1]

\* _stage_evolve ends: an unreadable trajectory raises; with no skill accepted,
\* or no engine, the training is left out.
EvolveEnds ==
  /\ soak.pc = "evolve"
  /\ \/ soak' = [soak EXCEPT !.pc = "train"] /\ UNCHANGED pipe
     \/ soak' \in CycleOk(soak) /\ pipe' \in Monitored(pipe)
     \/ soak' \in CycleFailed(soak) /\ UNCHANGED pipe

\* _stage_train ends, after its epochs or in one of them; without a trainer
\* nothing is deployed.
TrainEnds ==
  /\ soak.pc = "train"
  /\ \/ \E n \in 0..TrainEpochs :
          \/ soak' \in CycleOk(soak) /\ pipe' \in Monitored(Deployed(Sampled(pipe, n)))
          \/ soak' \in CycleFailed(soak) /\ pipe' = Sampled(pipe, n)
     \/ soak' \in CycleOk(soak) /\ pipe' \in Monitored(pipe)

\* _sleep_with_status: it looks at the flag and the deadline every half second,
\* and never at the stop file.
SleepEnds ==
  /\ soak.pc \in {"sleep", "backoff"}
  /\ soak' = [soak EXCEPT !.pc = "head"]
  /\ UNCHANGED pipe

\* The task is cancelled: run() handles it inside a cycle only.
SoakCancel ==
  /\ \/ soak.pc \in {"evolve", "train"} /\ soak' \in Stopped(soak)
     \/ soak.pc \in {"sleep", "backoff"} /\ soak' = [soak EXCEPT !.pc = "cancelled"]
  /\ UNCHANGED pipe

SoakStop ==
  /\ soak.pc \notin {"stopped", "cancelled"}
  /\ soak' = [soak EXCEPT !.running = FALSE]
  /\ UNCHANGED pipe

DeadlinePasses ==
  /\ ~soak.late /\ soak.pc # "off"
  /\ soak' = [soak EXCEPT !.late = TRUE]
  /\ UNCHANGED pipe

StopFileAppears ==
  /\ ~soak.stopFile
  /\ soak' = [soak EXCEPT !.stopFile = TRUE]
  /\ UNCHANGED pipe

SoakStep == SoakStart \/ SoakHead \/ EvolveEnds \/ TrainEnds \/ SleepEnds

SoakNext == SoakStep \/ SoakCancel \/ SoakStop \/ DeadlinePasses \/ StopFileAppears

-----------------------------------------------------------------------------
(* Properties.                                                              *)

\* Whoever asks the soak runner to stop, by the flag, the deadline or the stop
\* file, in the middle of a failing streak too, sees it stop.
SoakStops ==
  (soak.pc # "off" /\ (~soak.running \/ soak.late \/ soak.stopFile))
    ~> soak.pc \in {"stopped", "cancelled"}
=============================================================================
