---------------------------- MODULE Distillation ----------------------------
(***************************************************************************)
(* DistillationScheduler (zilli/training/distillation.py) and the command  *)
(* "distill" with a checkpoint (zilli/cli.py): load or create, add a       *)
(* batch, run a cycle, save.  Losses are left out, samples are counted.    *)
(***************************************************************************)
EXTENDS Naturals, Sequences, FiniteSets, SequencesExt

CONSTANTS LoraThreshold,   \* lora_threshold
          BatchSizes,      \* --samples
          MaxSamples       \* bound: samples over all commands

ASSUME DistillationAssumption ==
  LoraThreshold \in Nat /\ BatchSizes \subseteq Nat /\ MaxSamples \in Nat

VARIABLE distill  \* the command: pc, its scheduler, the checkpoint file, the two timers

\* DistillationScheduler: samples in _buffer, _total_samples, the samples of
\* each of _cycles, _lora_events and _full_sft_events.
NewScheduler == [buffer |-> 0, total |-> 0, cycles |-> <<>>, lora |-> 0, full |-> 0]

AddBatch(d, n) == [d EXCEPT !.buffer = @ + n, !.total = @ + n]

\* should_distill; "due": the interval since the last cycle is over.
ShouldDistill(d, due) ==
  /\ d.buffer > 0
  /\ d.buffer >= LoraThreshold \/ (d.cycles # <<>> /\ due)

\* The callbacks of run_cycle: they are counted even if they raise, and one
\* that is missing changes nothing.
CalledBack(d, lora, full) ==
  [d EXCEPT !.lora = IF lora /\ d.total >= LoraThreshold THEN @ + 1 ELSE @,
            !.full = IF full THEN @ + 1 ELSE @]

Closed_KeepsBuffer(d) == [d EXCEPT !.cycles = Append(@, d.buffer)]
\* The end of run_cycle, reached when the log could be written.
Closed(d) == [d EXCEPT !.cycles = Append(@, d.buffer), !.buffer = 0]

\* run_cycle.
RunDistillCycle(d, lora, full, logged) ==
  IF d.buffer = 0 THEN d
  ELSE IF logged THEN Closed(CalledBack(d, lora, full))
       ELSE CalledBack(d, lora, full)

-----------------------------------------------------------------------------
\* The checkpoint file: absent, torn by a crash while it was written, or a scheduler.
DistillIdle ==
  distill = [pc |-> "off", mem |-> NewScheduler, file |-> "absent", saved |-> NewScheduler,
             due |-> TRUE]

DistillInit == DistillIdle

\* A torn checkpoint raises; an absent one is a new scheduler.
LoadCheckpoint ==
  /\ distill.pc = "off" /\ distill.file # "torn"
  /\ distill' = [distill EXCEPT !.pc = "loaded",
                                !.mem = IF distill.file = "saved" THEN distill.saved ELSE NewScheduler]

\* With --ab-test the command ends here, nothing saved.
AddSamples ==
  /\ distill.pc = "loaded"
  /\ \E n \in BatchSizes :
       /\ distill.mem.total + n <= MaxSamples
       /\ \/ distill' = [distill EXCEPT !.pc = "added", !.mem = AddBatch(@, n)]
          \/ distill' = [distill EXCEPT !.pc = "off"]

\* Neither the command nor the training run registers callbacks; others may.
\* An exception of the log ends the command.
DistillCycle ==
  /\ distill.pc = "added"
  /\ \E lora, full \in BOOLEAN :
       /\ (lora \/ full) => distill.due
       /\ \/ distill' = [distill EXCEPT !.pc = "cycled", !.due = @ /\ ~lora /\ ~full,
                                        !.mem = RunDistillCycle(@, lora, full, TRUE)]
          \/ distill.mem.buffer > 0
             /\ distill' = [distill EXCEPT !.pc = "off", !.due = @ /\ ~lora /\ ~full]

\* save_checkpoint: open truncates, dump writes.
SaveBegins == distill.pc = "cycled" /\ distill' = [distill EXCEPT !.pc = "saving", !.file = "torn"]
SaveEnds ==
  /\ distill.pc = "saving"
  /\ distill' = [distill EXCEPT !.pc = "off", !.file = "saved", !.saved = distill.mem]

IntervalPasses == ~distill.due /\ distill' = [distill EXCEPT !.due = TRUE]

DistillDies == distill.pc # "off" /\ distill' = [distill EXCEPT !.pc = "off"]

DistillNext ==
  \/ LoadCheckpoint \/ AddSamples \/ DistillCycle \/ SaveBegins \/ SaveEnds
  \/ IntervalPasses \/ DistillDies

DistillSpec == DistillInit /\ [][DistillNext]_distill

-----------------------------------------------------------------------------
(* Properties.                                                              *)

\* The samples that were distilled: the cycle of each, and its number in that cycle.
Distilled(d) == UNION {{i} \X (1..d.cycles[i]) : i \in DOMAIN d.cycles}

Balanced(d) == d.total = d.buffer + Cardinality(Distilled(d))

\* Through cycles, callbacks, logs that fail, crashes and reloads a sample is
\* either waiting or in exactly one cycle of its scheduler.
SamplesConserved == Balanced(distill.mem) /\ Balanced(distill.saved)
=============================================================================
