----------------------------- MODULE TrainingRun -----------------------------
(***************************************************************************)
(* main of zilli/run_training.py with its TrainingExperiment: epochs, the  *)
(* log of metrics, checkpoints and resumption from one of them.  An epoch  *)
(* awaits its rollouts and is one step otherwise.  The rewards, the arena  *)
(* (whose base model only plays itself) and the trainer are left out.      *)
(***************************************************************************)
EXTENDS Distillation

CONSTANTS NumEpochs,           \* num_epochs
          CheckpointInterval,  \* checkpoint_interval
          EpochSamples,        \* distillation samples an epoch may yield
          MaxResumes           \* bound: resumptions

ASSUME TrainingAssumption ==
  /\ NumEpochs \in Nat /\ CheckpointInterval \in Nat \ {0}
  /\ EpochSamples \subseteq Nat /\ MaxResumes \in Nat

VARIABLE train  \* pc, epoch, metrics, distillation of the process; its checkpoints

\* The tag of a checkpoint: an epoch, or NumEpochs for "final".
CheckpointTags == 0..NumEpochs
NoCheckpoint == [state |-> "absent", metrics |-> <<>>]

\* An entry of metrics: an epoch's, or the mark of a resumption.
EpochEntry(e) == [epoch |-> e, resumed |-> FALSE]
ResumedEntry(e) == [epoch |-> e, resumed |-> TRUE]

TrainIdle ==
  train = [pc |-> "off", epoch |-> 0, metrics |-> <<>>, distilled |-> NewScheduler,
           checkpoints |-> [t \in CheckpointTags |-> NoCheckpoint], resumes |-> 0]

TrainInit == TrainIdle

\* The loop's range: what comes after epoch e, or at its start.
Continues(e) == IF e < NumEpochs THEN "rollouts" ELSE "final"

TrainFresh ==
  /\ train.pc = "off"
  /\ train' = [train EXCEPT !.pc = Continues(0), !.epoch = 0, !.metrics = <<>>,
                            !.distilled = NewScheduler]

ResumeEpoch_AfterMark(metrics) == Len(metrics) + 1
\* resume_from: as many epochs are done as there are entries.
ResumeEpoch(metrics) == Len(metrics)

\* The mark is logged after that.  A checkpoint that is torn or missing raises.
TrainResume ==
  /\ train.pc = "off" /\ train.resumes < MaxResumes
  /\ \E t \in CheckpointTags :
       LET c == train.checkpoints[t]
           e == ResumeEpoch(c.metrics)
       IN /\ c.state = "saved"
          /\ train' = [train EXCEPT !.pc = Continues(e), !.epoch = e,
                                    !.metrics = Append(c.metrics, ResumedEntry(e)),
                                    !.distilled = NewScheduler, !.resumes = @ + 1]

\* The rollouts have ended: samples, a distillation if one is due, the log, and
\* every CheckpointInterval-th epoch but the first the opening of a checkpoint.
EpochEnds ==
  /\ train.pc = "rollouts"
  /\ \E n \in EpochSamples, due \in BOOLEAN :
       LET e == train.epoch
           d == AddBatch(train.distilled, n)
           saves == e > 0 /\ e % CheckpointInterval = 0
           t == [train EXCEPT
                   !.metrics = Append(@, EpochEntry(e)),
                   !.distilled = IF ShouldDistill(d, due)
                                 THEN RunDistillCycle(d, FALSE, FALSE, TRUE) ELSE d]
       IN train' = IF saves
                   THEN [t EXCEPT !.pc = "saving", !.checkpoints[e].state = "torn"]
                   ELSE [t EXCEPT !.pc = Continues(e + 1), !.epoch = e + 1]

SavedAs(tag) == [state |-> "saved", metrics |-> train.metrics]

CheckpointWritten ==
  /\ train.pc = "saving"
  /\ train' = [train EXCEPT !.checkpoints[train.epoch] = SavedAs(train.epoch),
                            !.pc = Continues(train.epoch + 1), !.epoch = @ + 1]

FinalOpened ==
  /\ train.pc = "final"
  /\ train' = [train EXCEPT !.pc = "finishing", !.checkpoints[NumEpochs].state = "torn"]

FinalWritten ==
  /\ train.pc = "finishing"
  /\ train' = [train EXCEPT !.pc = "off", !.checkpoints[NumEpochs] = SavedAs(NumEpochs)]

\* The process is killed, or an exception of the trainer or the disk ends it.
TrainDies == train.pc # "off" /\ train' = [train EXCEPT !.pc = "off"]

TrainNext ==
  \/ TrainFresh \/ TrainResume \/ EpochEnds \/ CheckpointWritten
  \/ FinalOpened \/ FinalWritten \/ TrainDies

TrainSpec == TrainInit /\ [][TrainNext]_train

-----------------------------------------------------------------------------
(* Properties.                                                              *)

\* The places of the log that hold an epoch, and those that hold a mark.
Trained(metrics) == {i \in DOMAIN metrics : ~metrics[i].resumed}
Resumptions(metrics) == {i \in DOMAIN metrics : metrics[i].resumed}

\* However often the process dies, and whichever checkpoint it goes on from,
\* the run trains every epoch once and in order, as long as its checkpoint
\* does not come from a resumed run itself: the mark of a resumption counts as
\* an epoch in the next one.
NoEpochSkipped ==
  (train.pc # "off" /\ Cardinality(Resumptions(train.metrics)) <= 1) =>
    /\ \A i \in Trained(train.metrics) :
         train.metrics[i].epoch = Cardinality({j \in Trained(train.metrics) : j < i})
    /\ train.pc = "rollouts" => train.epoch = Cardinality(Trained(train.metrics))
=============================================================================
